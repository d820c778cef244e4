--------------------------- MODULE BolaoRulesCases ---------------------------
(***************************************************************************)
(* Every case the pure rules have to decide, and what they promise about   *)
(* it.  There is no system here: `input` starts empty and one step picks a *)
(* comparison, a leaderboard, a settlement or a price, so that every       *)
(* property is evaluated on every input.                                   *)
(***************************************************************************)
EXTENDS FinalPrizeLoop

CONSTANTS
    Goals,          \* goals a side may score in the comparison cases
    PhaseWeights,
    Wallets,        \* wallets of the largest leaderboard
    PointValues,    \* points a wallet may have
    Pools,          \* sizes of the final prize
    Stakes,         \* stakes of the bets on one match
    VaraPrices,     \* usable prices of the coin
    MinBetTarget    \* what the minimum bet is to be worth

ASSUME CasesAssumption ==
    /\ Goals \subseteq 0 .. MAX_SCORE
    /\ PhaseWeights \subseteq 1 .. MAX_POINTS_WEIGHT
    /\ IsFiniteSet(Wallets) /\ PointValues \subseteq Nat
    /\ Pools \subseteq Nat
    /\ Stakes \subseteq Nat \ {0}
    /\ VaraPrices \subseteq Nat \ {0} /\ MinBetTarget \in Nat \ {0}

VARIABLE input

\* Well-formed predictions and results, and what they are worth.
Comparisons ==
    LET guesses == [score : [home : Goals, away : Goals], penalty_winner : PenaltyWinners]
    IN  {c \in [kind : {"comparison"}, bet : guesses, final : guesses,
                weight : PhaseWeights] :
            /\ WellFormedBet(c.bet, c.weight)
            /\ WellFormedResult(c.final, c.weight)}

Boards ==
    UNION {[kind : {"board"}, points : [ws -> PointValues], pool : Pools] :
              ws \in (SUBSET Wallets) \ {{}}}

\* Who bet how much, who of them won, and what losers and freebets of others
\* leave in the pool on top of the winners' own stakes.
Settlements ==
    [kind : {"settlement"}, stakes : [Wallets -> Stakes],
     winners : (SUBSET Wallets) \ {{}}]

Quotes == [kind : {"quote"}, price : VaraPrices]

CasesInit == input = [kind |-> "none"]
CasesNext == /\ input.kind = "none"
             /\ input' \in Comparisons \cup Boards \cup Settlements \cup Quotes
CasesSpec == CasesInit /\ [][CasesNext]_input

----------------------------------------------------------------------------

(* finalize_result awards points and totals the winners' stake in the same *)
(* pass with two separately written comparisons: a bet gets points exactly *)
(* when it is eligible for a payout, in the group stage and in knockouts.  *)
PaidIffPoints ==
    input.kind = "comparison" =>
        (PointsFor(input.bet, input.final, input.weight) > 0
            <=> EligibleForPayout(input.bet, input.final, input.weight))

(* The grouped walk over the sorted leaderboard in                         *)
(* finalize_final_prize_pool gives each wallet the prize its rank deserves,*)
(* whatever order the sort left tied wallets in, and counts the total.     *)
LoopMatchesRanking ==
    input.kind = "board" =>
        \A board \in SortedBoards(input.points) :
            LET end == FinalPrizeLoop(board, input.points, input.pool)
            IN  /\ end.alloc = Allocations(input.points, input.pool)
                /\ end.total = TotalAllocated(input.points, input.pool)

(* The final prize never hands out more than the pool, and a wallet that is*)
(* ahead of another on points never gets less.                             *)
PrizesAreFair ==
    input.kind = "board" =>
        LET prize == Allocations(input.points, input.pool)
        IN  /\ TotalAllocated(input.points, input.pool) <= input.pool
            /\ \A v, w \in DOMAIN prize :
                  input.points[v] >= input.points[w] => prize[v] >= prize[w]

(* The floored shares of claim_match_reward fit in the pool together, and  *)
(* no winner gets back less than the stake (so a freebet principal, which  *)
(* is at most the stake, is always returned whole).                        *)
SharesFitThePool ==
    input.kind = "settlement" =>
        LET pool == SumOver(input.stakes, Wallets)
            winnerStake == SumOver(input.stakes, input.winners)
            share == [w \in input.winners |-> Share(input.stakes[w], pool, winnerStake)]
        IN  /\ SumOver(share, input.winners) <= pool
            /\ \A w \in input.winners : share[w] >= input.stakes[w]

(* compute_min_bet_planck rounds up: the minimum bet is worth the target at*)
(* the cached price, and one coin less would not be.                       *)
MinBetIsWorthTheTarget ==
    input.kind = "quote" =>
        LET bet == MinBet(MinBetTarget, input.price)
        IN  /\ bet * input.price >= MinBetTarget
            /\ (bet - 1) * input.price < MinBetTarget
=============================================================================
