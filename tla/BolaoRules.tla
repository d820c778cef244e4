----------------------------- MODULE BolaoRules -----------------------------
(***************************************************************************)
(* The pure rules of the BolaoCore program: how a prediction is compared   *)
(* with a result, how a stake is split, how a match pool and the final     *)
(* prize are shared.  Everything here is a function of its arguments; the  *)
(* state machines of BolaoMatches and BolaoCore call these operators where *)
(* the program calls utils.rs or computes in line.                         *)
(*                                                                         *)
(* Amounts are natural numbers of an abstract coin; the program's u128     *)
(* arithmetic saturates far above the total VARA supply, so no width is    *)
(* modelled.  Operators whose name ends in _Bug are wrong variants of the  *)
(* operator that follows them; PROJECT.json's mutants put them in its      *)
(* place to show that a property notices.                                  *)
(***************************************************************************)
EXTENDS Sums

(***************************************************************************)
(* constants.rs                                                            *)
(***************************************************************************)
BPS_DENOMINATOR == 10000
PROTOCOL_FEE_BPS == 500
FINAL_PRIZE_BPS == 1000
PODIUM_FINAL_PRIZE_BPS == 9500
PODIUM_PROTOCOL_FEE_BPS == 500
FINAL_PRIZE_TOP5_BPS == <<4500, 2500, 1500, 1000, 500>>
MAX_POINTS_WEIGHT == 20
MAX_SCORE == 20

\* Option<PenaltyWinner>: None, Some(Home), Some(Away).
PenaltyWinners == {"None", "Home", "Away"}

Scores == [home : 0 .. MAX_SCORE, away : 0 .. MAX_SCORE]

\* What a bettor predicts and what an oracle reports have the same shape.
Predictions == [score : Scores, penalty_winner : PenaltyWinners]

----------------------------------------------------------------------------
(***************************************************************************)
(* Comparing a prediction with a result (utils.rs).                        *)
(***************************************************************************)

IsDraw(score) == score.home = score.away

\* 1 = home win, 0 = draw, -1 = away win.
Outcome(score) ==
    CASE score.home > score.away -> 1
      [] score.home < score.away -> -1
      [] OTHER -> 0

\* Who advances; on a draw the shoot-out decides.  The program panics when a
\* draw has no penalty winner: callers have excluded that case.
AdvanceOutcome(p) ==
    IF IsDraw(p.score)
    THEN IF p.penalty_winner = "Home" THEN 1 ELSE -1
    ELSE Outcome(p.score)

IsKnockout(weight) == weight > 1

\* place_bet: a penalty winner accompanies exactly the drawn knockout scores.
WellFormedBet(p, weight) ==
    p.penalty_winner # "None" <=> IsKnockout(weight) /\ IsDraw(p.score)

\* propose_result rejects only a penalty winner in the group stage ...
ProposableResult(r, weight) ==
    IsKnockout(weight) \/ r.penalty_winner = "None"

\* ... and finalize_result rejects every inconsistent result.
WellFormedResult(r, weight) ==
    r.penalty_winner # "None" <=> IsKnockout(weight) /\ IsDraw(r.score)

EligibleForPayout_Bug(bet, final, weight) ==
    \/ bet.score = final.score
    \/ IF IsKnockout(weight) THEN AdvanceOutcome(bet) = AdvanceOutcome(final)
                             ELSE Outcome(bet.score) = Outcome(final.score)

\* A bet shares the match pool when it has the exact score (and, for a drawn
\* knockout, the shoot-out winner too) or the right outcome.
EligibleForPayout(bet, final, weight) ==
    IF bet.score = final.score
    THEN IsKnockout(weight) /\ IsDraw(final.score)
            => bet.penalty_winner # "None"
               /\ bet.penalty_winner = final.penalty_winner
    ELSE IF IsKnockout(weight)
         THEN /\ ~(IsDraw(bet.score) /\ bet.penalty_winner = "None")
              /\ AdvanceOutcome(bet) = AdvanceOutcome(final)
         ELSE Outcome(bet.score) = Outcome(final.score)

\* finalize_result's own comparison, written apart from eligible_for_payout:
\* 3 points for an exact prediction, 1 for the outcome, times the weight.
PointsFor(bet, final, weight) ==
    LET knockout == IsKnockout(weight)
        penaltiesCorrect ==
            knockout /\ IsDraw(final.score)
                => bet.penalty_winner # "None"
                   /\ bet.penalty_winner = final.penalty_winner
        finalOutcome ==
            IF knockout THEN AdvanceOutcome(final) ELSE Outcome(final.score)
        betOutcome ==
            IF ~knockout THEN Outcome(bet.score)
            ELSE IF IsDraw(bet.score) /\ bet.penalty_winner = "None" THEN 0
            ELSE AdvanceOutcome(bet)
    IN  CASE bet.score = final.score /\ penaltiesCorrect -> 3 * weight
          [] betOutcome = finalOutcome -> weight
          [] OTHER -> 0

----------------------------------------------------------------------------
(***************************************************************************)
(* Splitting a stake and sharing a pool.                                   *)
(***************************************************************************)

\* u64::saturating_sub and u128::saturating_sub
SaturatingSub(a, b) == IF a > b THEN a - b ELSE 0

Bps(amount, bps) == (amount * bps) \div BPS_DENOMINATOR

ProtocolFee(value) == Bps(value, PROTOCOL_FEE_BPS)
FinalPrizeCut(value) == Bps(value, FINAL_PRIZE_BPS)

\* The match pool takes what the two floored cuts leave.
MatchPoolCut(value) == value - ProtocolFee(value) - FinalPrizeCut(value)

\* A podium payment is cut twice with floors: what they leave is nobody's.
PodiumFee(value) == Bps(value, PODIUM_PROTOCOL_FEE_BPS)
PodiumPrizeCut(value) == Bps(value, PODIUM_FINAL_PRIZE_BPS)

Share_Bug(stake, pool, winnerStake) ==
    (stake * pool + winnerStake - 1) \div winnerStake

\* claim_match_reward: the floored proportional share of the pool.
Share(stake, pool, winnerStake) == (stake * pool) \div winnerStake

MinBet_Bug(target, price) == target \div price

\* compute_min_bet_planck with a usable price: the target value in coins,
\* rounded up.
MinBet(target, price) == (target + price - 1) \div price

----------------------------------------------------------------------------
(***************************************************************************)
(* The final prize.  `points` maps every wallet of the leaderboard to its  *)
(* points.  The program sorts the leaderboard and walks it in groups of    *)
(* equal points (FinalPrizeLoop states that walk); these operators say     *)
(* what the walk gives each wallet, without an order among tied wallets.   *)
(***************************************************************************)

\* The share of the places first .. last, in basis points.
Top5ShareSum(first, last) == SumOver(FINAL_PRIZE_TOP5_BPS, first .. last)

Ahead(points, wallet) == {w \in DOMAIN points : points[w] > points[wallet]}
TiedWith(points, wallet) == {w \in DOMAIN points : points[w] = points[wallet]}

\* The places a group of tied wallets occupies start behind those ahead.
StartPos(points, wallet) == Cardinality(Ahead(points, wallet)) + 1
EndPos(points, wallet) ==
    Cardinality(Ahead(points, wallet)) + Cardinality(TiedWith(points, wallet))

PrizeFor_Bug(points, pool, wallet) ==
    LET start == StartPos(points, wallet)
    IN  IF start > 5 THEN 0 ELSE Bps(pool, FINAL_PRIZE_TOP5_BPS[start])

PrizeFor(points, pool, wallet) ==
    LET start == StartPos(points, wallet)
        affectedEnd == IF EndPos(points, wallet) < 5
                       THEN EndPos(points, wallet) ELSE 5
    IN  IF start > 5 THEN 0
        ELSE Bps(pool, Top5ShareSum(start, affectedEnd))
             \div Cardinality(TiedWith(points, wallet))

\* final_prize_allocations as finalize_final_prize_pool leaves them.
Allocations(points, pool) ==
    [w \in DOMAIN points |-> PrizeFor(points, pool, w)]

TotalAllocated(points, pool) == SumOver(Allocations(points, pool), DOMAIN points)
=============================================================================
