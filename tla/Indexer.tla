------------------------------- MODULE Indexer -------------------------------
(***************************************************************************)
(* The indexer: it reads the events that BolaoCore emits, in batches of    *)
(* whole blocks, and keeps tables of matches, bets and wallets.            *)
(*                                                                         *)
(* A batch first collects the ids its events name, loads their rows into   *)
(* maps, lets every event change the maps, and saves the maps, all in one  *)
(* database transaction: it is one step here, and a crash in the middle or *)
(* a reorganisation of unfinal blocks leaves no trace.                     *)
(*                                                                         *)
(* The chain is the whole of BolaoCore for players with their own VARA,    *)
(* each handler with the events it emits, of those that the indexer knows. *)
(* It knows neither freebet bets, nor withdrawn proposals, nor refunds that*)
(* an admin pushes, nor the sweep.                                         *)
(*                                                                         *)
(* Abstractions: an event about several wallets stands for one event each; *)
(* tables with one row per event (rewards, prizes, refunds, activity) are  *)
(* left out, as are texts and times.                                       *)
(***************************************************************************)
EXTENDS BolaoCore, Sequences

CONSTANTS
    MaxBacklog,     \* bound: messages the indexer may be behind
    NoRow

VARIABLES
    backlog,        \* events not yet indexed, by the message that emitted them
    bet_rows,       \* table bet: the prediction
    bolao_match,    \* table bolao_match
    user_stat       \* table user_stat

indexVars == <<backlog, bet_rows, bolao_match, user_stat>>

Rows ==
    [status : {"UNRESOLVED", "PROPOSED", "FINALIZED", "SETTLED", "CANCELLED"},
     pool : Nat, count : Nat]

Stats == [bets : Nat, staked : Nat, points : Nat, exact : Nat, outcome : Nat,
          claimed : Nat, prize : Nat, refund : Nat]

ASSUME IndexerAssumption ==
    /\ MaxBacklog \in Nat \ {0}
    /\ NoRow \notin Rows /\ NoRow \notin Stats /\ NoRow \notin Predictions

IndexInit ==
    /\ backlog = <<>>
    /\ bet_rows = [k \in Users \X MatchIds |-> NoRow]
    /\ bolao_match = [m \in MatchIds |-> NoRow]
    /\ user_stat = [u \in Users |-> NoRow]

----------------------------------------------------------------------------
(* The chain and its events *)

\* result: the one predicted or reported; amounts: what the event says of each
\* wallet it names.
Event(method, m, result, amounts) ==
    [method |-> method, match |-> m, result |-> result, amounts |-> amounts]

OfMatch(method, m) == Event(method, m, NoResult, <<>>)
OfResult(method, m, r) == Event(method, m, r, <<>>)
OfWallet(method, m, u, amount) == Event(method, m, NoResult, [v \in {u} |-> amount])
OfBet(m, p, u, amount) == Event("BetAccepted", m, p, [v \in {u} |-> amount])
OfWallets(method, m, amount) ==
    Event(method, m, NoResult, [v \in {u \in Users : amount[u] > 0} |-> amount[v]])

Emits(events) ==
    /\ Len(backlog) < MaxBacklog
    /\ backlog' = Append(backlog, events)
    /\ UNCHANGED <<bet_rows, bolao_match, user_stat>>

Quietly == UNCHANGED indexVars

NoMatchId == 0

RegistersAndBets ==
    \/ \E phase \in PhaseNames, weight \in Weights :
          RegisterPhase(Deployer, phase, weight) /\ Quietly
    \/ \E phase \in PhaseNames, kickOff \in KickOffs :
          /\ RegisterMatch(Deployer, phase, kickOff)
          /\ Emits(<<OfMatch("MatchRegistered", next_match_id')>>)
    \/ \E u \in Users, m \in MatchIds, p \in Guesses, value \in BetValues :
          /\ PlaceBet(u, m, p, value)
          /\ Emits(<<OfBet(m, p, u, MatchPoolCut(value))>>)

ResultsAndSweeps ==
    \/ \E m \in MatchIds, oracle \in Oracles, r \in Reports :
          ProposeResult(oracle, m, r) /\ Emits(<<OfResult("ResultProposed", m, r)>>)
    \/ \E m \in MatchIds :
          \/ CancelProposedResult(Deployer, m) /\ Quietly
          \/ CancelMatch(Deployer, m) /\ Emits(<<OfMatch("MatchCancelled", m)>>)
          \/ /\ FinalizeResult(m)
             /\ LET f == matches[m].result.final
                    won == [u \in Users |-> user_points'[u] - user_points[u]]
                IN  Emits(<<OfWallets("PointsAwarded", m, won),
                            OfResult("ResultFinalized", m, f),
                            OfMatch("SettlementPrepared", m)>>)
          \/ SweepMatchDust(m) /\ Quietly

Payouts ==
    \E u \in Users :
        \/ \E m \in MatchIds :
              /\ ClaimMatchReward(u, m)
              /\ Emits(<<OfWallet("MatchRewardClaimed", m, u, ShareOf(u, m))>>)
        \/ /\ ClaimRefund(u)
           /\ Emits(<<OfWallet("RefundClaimed", NoMatchId, u, pending_refunds[u])>>)
        \/ AdminPushRefund(Deployer, u) /\ Quietly

Prizes ==
    \/ \E u \in Users :
          \/ \E pick \in PodiumInputs, value \in PodiumValues :
                SubmitPodiumPick(u, pick, value) /\ Quietly
          \/ /\ ClaimFinalPrize(u)
             /\ Emits(<<OfWallet("FinalPrizeClaimed", NoMatchId, u,
                                 final_prize_allocations[u])>>)
    \/ \E podium \in PodiumInputs :
          /\ FinalizePodium(Deployer, podium)
          /\ LET bonus == [u \in Users |-> PodiumBonus(podium_picks[u], podium)]
             IN  Emits(<<OfWallets("PodiumBonusAwarded", NoMatchId, bonus)>>)
    \/ FinalizeFinalPrizePool(Deployer) /\ Quietly

ChainStep ==
    \/ (RegistersAndBets \/ ResultsAndSweeps \/ Payouts) /\ UNCHANGED coreVars
    \/ Prizes
    \/ Tick /\ UNCHANGED <<matchesVars, coreVars, indexVars>>
    \/ /\ authorized_oracles = {}
       /\ \E oracle \in Oracles : SetOracleAuthorized(Deployer, oracle, TRUE)
       /\ UNCHANGED <<matchesVars, coreVars, indexVars>>

----------------------------------------------------------------------------
(* A batch: the maps it works on are functions with NoRow for no entry *)

UserMethods_Bug ==
    {"BetAccepted", "MatchRewardClaimed", "FinalPrizeClaimed", "RefundClaimed"}

\* collectPreloadIds: the methods whose wallets and whose matches are loaded.
UserMethods ==
    {"BetAccepted", "PointsAwarded", "MatchRewardClaimed", "FinalPrizeClaimed",
     "RefundClaimed"}
MatchMethods ==
    {"BetAccepted", "PointsAwarded", "MatchRewardClaimed", "ResultProposed",
     "ResultFinalized", "SettlementPrepared", "MatchCancelled"}

\* For the first n messages of the backlog.
Preload(n) ==
    LET all == UNION {{backlog[i][k] : k \in DOMAIN backlog[i]} : i \in 1 .. n}
        users == UNION {DOMAIN e.amounts : e \in {e \in all : e.method \in UserMethods}}
        ids == {e.match : e \in {e \in all : e.method \in MatchMethods}}
    IN  [stats |-> [u \in Users |-> IF u \in users THEN user_stat[u] ELSE NoRow],
         rows |-> [m \in MatchIds |-> IF m \in ids THEN bolao_match[m] ELSE NoRow],
         bets |-> [k \in Users \X MatchIds |-> NoRow]]

NewStat == [bets |-> 0, staked |-> 0, points |-> 0, exact |-> 0, outcome |-> 0,
            claimed |-> 0, prize |-> 0, refund |-> 0]

\* touchUser for the wallets us, a wallet without an entry starting anew.
TouchUsers(map, us, Delta(_, _)) ==
    [map EXCEPT !.stats = [u \in Users |->
        IF u \notin us THEN @[u]
        ELSE Delta(u, IF @[u] = NoRow THEN NewStat ELSE @[u])]]

\* A match without an entry is left alone.
TouchMatch(map, m, Change(_)) ==
    IF map.rows[m] = NoRow THEN map ELSE [map EXCEPT !.rows[m] = Change(@)]

ScoreOutcome(p) ==
    CASE p.score.home > p.score.away -> "home"
      [] p.score.home < p.score.away -> "away"
      [] p.score.home = p.score.away ->
            CASE p.penalty_winner = "Home" -> "home"
              [] p.penalty_winner = "Away" -> "away"
              [] OTHER -> "draw"

\* projectAccuracyForMatch: it loads what the batch has not loaded yet.
ProjectAccuracy(map, m, f) ==
    LET guess(u) == IF map.bets[<<u, m>>] = NoRow THEN bet_rows[<<u, m>>]
                                                  ELSE map.bets[<<u, m>>]
        bettors == {u \in Users : guess(u) # NoRow}
        loaded == [map EXCEPT !.stats = [u \in Users |->
                      IF u \in bettors /\ @[u] = NoRow THEN user_stat[u] ELSE @[u]]]
        Exact(u) == guess(u).score = f.score
        SameOutcome(u) == ScoreOutcome(guess(u)) = ScoreOutcome(f)
    IN  TouchUsers(loaded, bettors, LAMBDA u, s :
            [s EXCEPT !.exact = IF Exact(u) THEN @ + 1 ELSE @,
                      !.outcome = IF ~Exact(u) /\ SameOutcome(u) THEN @ + 1 ELSE @])

----------------------------------------------------------------------------
(* handleEvent, by method *)

OnMatchRegistered(map, e) ==
    [map EXCEPT !.rows[e.match] = [status |-> "UNRESOLVED", pool |-> 0, count |-> 0]]

OnBetAccepted(map, e) ==
    LET us == DOMAIN e.amounts
        stake == SumOver(e.amounts, us)
        kept == [map EXCEPT !.bets = [k \in Users \X MatchIds |->
                    IF k[1] \in us /\ k[2] = e.match THEN e.result ELSE @[k]]]
        counted == TouchMatch(kept, e.match, LAMBDA r :
                      [r EXCEPT !.pool = @ + stake, !.count = @ + 1])
    IN  TouchUsers(counted, us, LAMBDA u, s :
            [s EXCEPT !.bets = @ + 1, !.staked = @ + e.amounts[u]])

SetsStatus(map, e, status) ==
    TouchMatch(map, e.match, LAMBDA r : [r EXCEPT !.status = status])

HandleEvent(map, e) ==
    LET Touch(Delta(_, _)) == TouchUsers(map, DOMAIN e.amounts, Delta)
    IN  CASE e.method = "MatchRegistered" -> OnMatchRegistered(map, e)
          [] e.method = "BetAccepted" -> OnBetAccepted(map, e)
          [] e.method = "ResultProposed" -> SetsStatus(map, e, "PROPOSED")
          [] e.method = "ResultFinalized" ->
                ProjectAccuracy(SetsStatus(map, e, "FINALIZED"), e.match, e.result)
          [] e.method = "SettlementPrepared" -> SetsStatus(map, e, "SETTLED")
          [] e.method = "MatchCancelled" ->
                TouchMatch(map, e.match, LAMBDA r :
                    [r EXCEPT !.status = "CANCELLED", !.pool = 0])
          [] e.method \in {"PointsAwarded", "PodiumBonusAwarded"} ->
                Touch(LAMBDA u, s : [s EXCEPT !.points = @ + e.amounts[u]])
          [] e.method = "MatchRewardClaimed" ->
                Touch(LAMBDA u, s : [s EXCEPT !.claimed = @ + e.amounts[u]])
          [] e.method = "FinalPrizeClaimed" ->
                Touch(LAMBDA u, s : [s EXCEPT !.prize = @ + e.amounts[u]])
          [] e.method = "RefundClaimed" ->
                Touch(LAMBDA u, s : [s EXCEPT !.refund = @ + e.amounts[u]])

HandleMessage(map, message) ==
    LET after[i \in 0 .. Len(message)] ==
            IF i = 0 THEN map ELSE HandleEvent(after[i - 1], message[i])
    IN  after[Len(message)]

\* process: the maps once the first n messages of the backlog are handled.
Processed(n) ==
    LET after[i \in 0 .. n] ==
            IF i = 0 THEN Preload(n) ELSE HandleMessage(after[i - 1], backlog[i])
    IN  after[n]

\* process and save.
IndexBatch(n) ==
    LET map == Processed(n)
        Saved(table, entries) ==
            [k \in DOMAIN table |-> IF entries[k] = NoRow THEN table[k] ELSE entries[k]]
    IN  /\ backlog' = SubSeq(backlog, n + 1, Len(backlog))
        /\ bet_rows' = Saved(bet_rows, map.bets)
        /\ bolao_match' = Saved(bolao_match, map.rows)
        /\ user_stat' = Saved(user_stat, map.stats)
        /\ UNCHANGED vars

IndexNext == ChainStep \/ \E n \in 1 .. Len(backlog) : IndexBatch(n)

IndexSpec == Init /\ IndexInit /\ [][IndexNext]_<<vars, indexVars>>

----------------------------------------------------------------------------
(* Properties *)

CaughtUp == backlog = <<>>

StatOf(u) == IF user_stat[u] = NoRow THEN NewStat ELSE user_stat[u]

DecidedBets(u) ==
    {m \in Registered : Status(m) = "Finalized" /\ bets[<<u, m>>] # NoBet}

(* Once it has caught up, the tables are those of the chain, however its   *)
(* events fell into batches: each wallet's bets, stakes, points and hits,  *)
(* each match's pool, and its status unless a proposal was withdrawn.      *)
(* Wallets with a podium bonus are another matter (TotalPointsAreAwarded). *)
TablesFollowTheChain ==
    CaughtUp =>
        /\ \A u \in {u \in Users : PodiumBonus(podium_picks[u], podium_result) = 0} :
              LET mine == {m \in Registered : bets[<<u, m>>] # NoBet}
                  exact == {m \in DecidedBets(u) :
                              bets[<<u, m>>].prediction.score = matches[m].result.final.score}
              IN  /\ StatOf(u).bets = Cardinality(mine)
                  /\ StatOf(u).staked =
                        SumOver([m \in mine |-> bets[<<u, m>>].stake_in_match_pool], mine)
                  /\ StatOf(u).points = user_points[u]
                  /\ StatOf(u).exact = Cardinality(exact)
                  /\ StatOf(u).claimed = SumOver([m \in mine |-> paid[<<u, m>>]], mine)
                  /\ StatOf(u).prize = IF final_prize_claimed[u]
                                       THEN final_prize_allocations[u] ELSE 0
                  /\ StatOf(u).refund <= refunded[u]
        /\ \A m \in Registered :
              LET row == bolao_match[m]
                  open == {u \in Bettors(m) : Status(m) = "Cancelled" => ~bets[<<u, m>>].claimed}
              IN  /\ row.status \in
                        CASE Status(m) = "Unresolved" -> {"UNRESOLVED", "PROPOSED"}
                          [] Status(m) = "Proposed" -> {"PROPOSED"}
                          [] Status(m) = "Finalized" -> {"SETTLED"}
                          [] Status(m) = "Cancelled" -> {"CANCELLED"}
                  /\ row.count = Cardinality(Bettors(m))
                  /\ row.pool = StakeOf(open, m)

(* The leaderboard's total is PointsAwarded and PodiumBonusAwarded (the    *)
(* indexer's README.md:157), which together are the program's points.  A   *)
(* wallet named by a bonus alone is not loaded, and its row starts anew.   *)
TotalPointsAreAwarded ==
    CaughtUp => \A u \in Users : StatOf(u).points = user_points[u]
=============================================================================
