---------------------------- MODULE BolaoMatches ----------------------------
(***************************************************************************)
(* Matches, bets, results and their settlement in the BolaoCore program:   *)
(* registration, betting with own VARA or through the FreebetLedger, result*)
(* proposal and its challenge window, finalization, cancellation, claims,  *)
(* refunds and the sweep of what stays unclaimed.                          *)
(*                                                                         *)
(* An action is one message, or the part of one message between two        *)
(* awaits.  State changed before an await is committed when the call       *)
(* suspends; a panic in the resumption undoes only the resumption.         *)
(*                                                                         *)
(* Two kinds of calls suspend here.  propose_from_oracle asks an Oracle-   *)
(* Program for a result (`queries`).  claim_match_reward and cancel_match  *)
(* send freebet principal back to the FreebetLedger (`returns`): the value *)
(* leaves with the call and comes back if the ledger fails it.             *)
(*                                                                         *)
(* Abstractions: names of teams and phases other than "Round of 32" carry  *)
(* no meaning; `participants`, `has_bets` and `user_bets` are read off     *)
(* `bets` (their order decides only the order in which cancel_match returns*)
(* freebets, so any order is allowed); gas never runs out.                 *)
(***************************************************************************)
EXTENDS BolaoAdmin

CONSTANTS
    Users,             \* bettors
    MatchIds,          \* bound: ids of the matches that may be registered
    PhaseNames,
    RoundOf32,         \* the phase name that fixes the podium deadline
    Weights,           \* points weights a phase may be registered with
    KickOffs,          \* kick-off times (ms)
    Guesses,           \* predictions the bettors make
    Reports,           \* results the oracles report
    BetValues,         \* VARA sent with place_bet
    FreebetValues,     \* VARA sent with place_bet_from_freebet_ledger
    BET_CLOSE_WINDOW_SECONDS,
    CHALLENGE_WINDOW_MS,
    CLAIM_DEADLINE_MS,
    EarlyReports,      \* TRUE: an oracle may report before the kick-off
    LastReport,        \* bound: no oracle reports later than this
    QuerySlots,        \* propose_from_oracle calls that may be in flight
    ReturnSlots,       \* calls that may await the ledger at once
    NoMatch, NoBet, NoResult, NoCall

NoTime == -1

ASSUME MatchesAssumption ==
    /\ IsFiniteSet(Users)
    /\ IsFiniteSet(MatchIds) /\ MatchIds \subseteq Nat \ {0}
    /\ RoundOf32 \in PhaseNames
    /\ Weights \subseteq 1 .. MAX_POINTS_WEIGHT
    /\ KickOffs \subseteq Nat
    /\ Guesses \subseteq Predictions /\ Reports \subseteq Predictions
    /\ BetValues \subseteq Nat /\ FreebetValues \subseteq Nat
    /\ BET_CLOSE_WINDOW_SECONDS \in Nat
    /\ CHALLENGE_WINDOW_MS \in Nat
    /\ CLAIM_DEADLINE_MS \in Nat
    /\ EarlyReports \in BOOLEAN
    /\ LastReport \in Nat
    /\ IsFiniteSet(ReturnSlots)
    /\ NoResult \notin Predictions

VARIABLES
    phases,                     \* phase name -> points weight, 0 if absent
    next_match_id,
    r32_lock_time,
    matches,
    bets,
    user_points,
    pending_refunds,
    protocol_fee_accumulated,
    final_prize_accumulated,
    balance,                    \* exec::value_available()
    queries,                    \* suspended propose_from_oracle calls
    returns,                    \* calls suspended in return_freebet_to_ledger
    paid,                       \* history: VARA sent for a bet
    refunded                    \* history: refunds sent to a wallet

potVars == <<protocol_fee_accumulated, final_prize_accumulated>>
boardVars == <<phases, next_match_id, r32_lock_time>>
callVars == <<queries, returns>>
matchesVars == <<boardVars, matches, bets, user_points, pending_refunds,
                 potVars, balance, callVars, paid, refunded>>
allMatchesVars == <<adminVars, matchesVars>>

Statuses == {"Unresolved", "Proposed", "Finalized", "Cancelled"}

Results == [status : Statuses, final : Predictions \cup {NoResult},
            proposed_at : Nat]

Unresolved == [status |-> "Unresolved", final |-> NoResult, proposed_at |-> 0]
Cancelled == [status |-> "Cancelled", final |-> NoResult, proposed_at |-> 0]
Proposed(r, t) == [status |-> "Proposed", final |-> r, proposed_at |-> t]
Finalized(r) == [status |-> "Finalized", final |-> r, proposed_at |-> 0]

Matches == [phase : PhaseNames, kick_off : Nat, result : Results,
            match_prize_pool : Nat, total_winner_stake : Nat,
            total_claimed : Nat, settlement_prepared : BOOLEAN,
            dust_swept : BOOLEAN, finalized_at : Nat \cup {NoTime}]

Bets == [prediction : Predictions, stake_in_match_pool : Nat,
         freebet_principal : Nat, claimed : BOOLEAN]

Queries == [match : MatchIds, oracle : Oracles]

\* `amount` for `user` is on its way to the ledger; `todo` are cancel_match's
\* freebets still to be returned after it, `payout` what claim_match_reward
\* sends to `user` once the ledger has answered.
Returns == [match : MatchIds, user : Users, amount : Nat,
            todo : SUBSET Users, payout : Nat]

\* The markers are not what they stand in for.
ASSUME MarkerAssumption ==
    /\ NoMatch \notin Matches
    /\ NoBet \notin Bets
    /\ NoCall \notin Queries /\ NoCall \notin Returns

MatchesTypeOK ==
    /\ phases \in [PhaseNames -> 0 .. MAX_POINTS_WEIGHT]
    /\ next_match_id \in Nat
    /\ r32_lock_time \in Nat \cup {NoTime}
    /\ matches \in [MatchIds -> Matches \cup {NoMatch}]
    /\ bets \in [Users \X MatchIds -> Bets \cup {NoBet}]
    /\ user_points \in [Users -> Nat]
    /\ pending_refunds \in [Users -> Nat]
    /\ protocol_fee_accumulated \in Nat
    /\ final_prize_accumulated \in Nat
    /\ balance \in Nat
    /\ queries \in [QuerySlots -> Queries \cup {NoCall}]
    /\ returns \in [ReturnSlots -> Returns \cup {NoCall}]
    /\ paid \in [Users \X MatchIds -> Int]
    /\ refunded \in [Users -> Nat]

MatchesInit ==
    /\ phases = [p \in PhaseNames |-> 0]
    /\ next_match_id = 0
    /\ r32_lock_time = NoTime
    /\ matches = [m \in MatchIds |-> NoMatch]
    /\ bets = [k \in Users \X MatchIds |-> NoBet]
    /\ user_points = [u \in Users |-> 0]
    /\ pending_refunds = [u \in Users |-> 0]
    /\ protocol_fee_accumulated = 0
    /\ final_prize_accumulated = 0
    /\ balance = 0
    /\ queries = [s \in QuerySlots |-> NoCall]
    /\ returns = [s \in ReturnSlots |-> NoCall]
    /\ paid = [k \in Users \X MatchIds |-> 0]
    /\ refunded = [u \in Users |-> 0]

----------------------------------------------------------------------------
(* Reading the state *)

Registered == {m \in MatchIds : matches[m] # NoMatch}
Status(m) == matches[m].result.status
Weight(m) == phases[matches[m].phase]

Bettors(m) == {u \in Users : bets[<<u, m>>] # NoBet}

\* u's bet shares the pool of m if the result is f.
Eligible(u, m, f) == EligibleForPayout(bets[<<u, m>>].prediction, f, Weight(m))

Winners(m, f) == {u \in Bettors(m) : Eligible(u, m, f)}

\* What the bettors us have in the pool of m.
StakeOf(us, m) == SumOver([u \in us |-> bets[<<u, m>>].stake_in_match_pool], us)

ShareOf(u, m) ==
    Share(bets[<<u, m>>].stake_in_match_pool, matches[m].match_prize_pool,
          matches[m].total_winner_stake)

\* The part of u's share that belongs to the freebet ledger.
PrincipalOf(u, m) ==
    IF bets[<<u, m>>].freebet_principal < ShareOf(u, m)
    THEN bets[<<u, m>>].freebet_principal ELSE ShareOf(u, m)

----------------------------------------------------------------------------
(* Registration *)

RegisterPhase(caller, phase, weight) ==
    /\ NotLockedForExport /\ OnlyAdminOrOperator(caller)
    /\ phases[phase] = 0
    /\ phases' = [phases EXCEPT ![phase] = weight]
    /\ UNCHANGED <<adminVars, next_match_id, r32_lock_time, matches, bets, user_points,
                   pending_refunds, potVars, balance, callVars, paid, refunded>>

NewMatch(phase, kickOff) ==
    [phase |-> phase, kick_off |-> kickOff, result |-> Unresolved,
     match_prize_pool |-> 0, total_winner_stake |-> 0, total_claimed |-> 0,
     settlement_prepared |-> FALSE, dust_swept |-> FALSE,
     finalized_at |-> NoTime]

RegisterMatch(caller, phase, kickOff) ==
    /\ NotLockedForExport /\ OnlyAdminOrOperator(caller)
    /\ phases[phase] # 0
    /\ kickOff > now
    /\ next_match_id + 1 \in MatchIds
    /\ next_match_id' = next_match_id + 1
    /\ matches' = [matches EXCEPT ![next_match_id + 1] = NewMatch(phase, kickOff)]
    /\ r32_lock_time' =
          IF phase = RoundOf32 /\ (r32_lock_time = NoTime \/ kickOff < r32_lock_time)
          THEN kickOff ELSE r32_lock_time
    /\ UNCHANGED <<adminVars, phases, bets, user_points, pending_refunds, potVars,
                   balance, callVars, paid, refunded>>

----------------------------------------------------------------------------
(* Betting *)

BettingOpen_Bug(m) ==
    now < matches[m].kick_off + 1000 * BET_CLOSE_WINDOW_SECONDS

\* The constant is named in seconds and subtracted from a time in
\* milliseconds, as in the program.
BettingOpen(m) ==
    now < SaturatingSub(matches[m].kick_off, BET_CLOSE_WINDOW_SECONDS)

AcceptsBet(u, m, p, value) ==
    /\ WritesAllowed
    /\ value >= ComputeMinBet(now)
    /\ m \in Registered
    /\ BettingOpen(m)
    /\ bets[<<u, m>>] = NoBet
    /\ WellFormedBet(p, Weight(m))

RecordBet(u, m, p, stake, principal) ==
    /\ matches' = [matches EXCEPT ![m].match_prize_pool = @ + stake]
    /\ bets' = [bets EXCEPT ![<<u, m>>] =
                   [prediction |-> p, stake_in_match_pool |-> stake,
                    freebet_principal |-> principal, claimed |-> FALSE]]

PlaceBet(u, m, p, value) ==
    /\ AcceptsBet(u, m, p, value)
    /\ RecordBet(u, m, p, MatchPoolCut(value), 0)
    /\ protocol_fee_accumulated' = protocol_fee_accumulated + ProtocolFee(value)
    /\ final_prize_accumulated' = final_prize_accumulated + FinalPrizeCut(value)
    /\ balance' = balance + value
    /\ UNCHANGED <<adminVars, boardVars, user_points, pending_refunds, callVars,
                   paid, refunded>>

\* Sent by the configured ledger; the whole value goes to the match pool.
PlaceBetFromFreebetLedger(u, m, p, value) ==
    /\ freebet_ledger_program_id # Nobody
    /\ AcceptsBet(u, m, p, value)
    /\ RecordBet(u, m, p, value, value)
    /\ balance' = balance + value
    /\ UNCHANGED <<adminVars, boardVars, user_points, pending_refunds, potVars,
                   callVars, paid, refunded>>

----------------------------------------------------------------------------
(* Results *)

(* What the world outside lets an oracle report about m now.  No handler   *)
(* compares a report with the kick-off: with EarlyReports an oracle gets   *)
(* ahead of it.                                                            *)
ReportsOn(m) ==
    IF now <= LastReport /\ (EarlyReports \/ now >= matches[m].kick_off)
    THEN Reports ELSE {}

ProposeResult(oracle, m, r) ==
    /\ WritesAllowed /\ oracle \in authorized_oracles
    /\ m \in Registered
    /\ r \in ReportsOn(m)
    /\ ProposableResult(r, Weight(m))
    /\ Status(m) = "Unresolved"
    /\ matches' = [matches EXCEPT ![m].result = Proposed(r, now)]
    /\ UNCHANGED <<adminVars, boardVars, bets, user_points, pending_refunds, potVars,
                   balance, callVars, paid, refunded>>

ProposeFromOracle_Bug(m, oracle, slot) ==
    /\ oracle \in authorized_oracles
    /\ m \in Registered
    /\ Status(m) = "Unresolved"
    /\ queries[slot] = NoCall
    /\ queries' = [queries EXCEPT ![slot] = [match |-> m, oracle |-> oracle]]
    /\ UNCHANGED <<adminVars, boardVars, matches, bets, user_points, pending_refunds,
                   potVars, balance, returns, paid, refunded>>

\* propose_from_oracle up to its await.
ProposeFromOracle(m, oracle, slot) ==
    /\ WritesAllowed /\ oracle \in authorized_oracles
    /\ m \in Registered
    /\ Status(m) = "Unresolved"
    /\ queries[slot] = NoCall
    /\ queries' = [queries EXCEPT ![slot] = [match |-> m, oracle |-> oracle]]
    /\ UNCHANGED <<adminVars, boardVars, matches, bets, user_points, pending_refunds,
                   potVars, balance, returns, paid, refunded>>

OracleReply_Bug(slot, r) ==
    LET m == queries[slot].match
    IN  /\ queries[slot] # NoCall
        /\ r \in ReportsOn(m)
        /\ queries' = [queries EXCEPT ![slot] = NoCall]
        /\ matches' = [matches EXCEPT ![m].result = Proposed(r, now)]
        /\ UNCHANGED <<adminVars, boardVars, bets, user_points, pending_refunds,
                       potVars, balance, returns, paid, refunded>>

(* The resumption with a result.  It looks at the match's status again but *)
(* neither at the lock nor at the oracle's authorization, and the penalty  *)
(* winner is taken as it comes.                                            *)
OracleReply(slot, r) ==
    LET m == queries[slot].match
    IN  /\ queries[slot] # NoCall
        /\ r \in ReportsOn(m)
        /\ Status(m) = "Unresolved"
        /\ queries' = [queries EXCEPT ![slot] = NoCall]
        /\ matches' = [matches EXCEPT ![m].result = Proposed(r, now)]
        /\ UNCHANGED <<adminVars, boardVars, bets, user_points, pending_refunds,
                       potVars, balance, returns, paid, refunded>>

(* The resumption that panics: no result yet, no or a failed reply, or the *)
(* status changed meanwhile.                                               *)
OracleReplyFailed(slot) ==
    /\ queries[slot] # NoCall
    /\ queries' = [queries EXCEPT ![slot] = NoCall]
    /\ UNCHANGED <<adminVars, boardVars, matches, bets, user_points, pending_refunds,
                   potVars, balance, returns, paid, refunded>>

ChallengeOver(m) == now >= matches[m].result.proposed_at + CHALLENGE_WINDOW_MS

CancelProposedResult_Bug(caller, m) ==
    /\ NotLockedForExport /\ OnlyAdmin(caller)
    /\ m \in Registered
    /\ Status(m) = "Proposed"
    /\ matches' = [matches EXCEPT ![m].result = Unresolved]
    /\ UNCHANGED <<adminVars, boardVars, bets, user_points, pending_refunds, potVars,
                   balance, callVars, paid, refunded>>

CancelProposedResult(caller, m) ==
    /\ NotLockedForExport /\ OnlyAdmin(caller)
    /\ m \in Registered
    /\ Status(m) = "Proposed"
    /\ ~ChallengeOver(m)
    /\ matches' = [matches EXCEPT ![m].result = Unresolved]
    /\ UNCHANGED <<adminVars, boardVars, bets, user_points, pending_refunds, potVars,
                   balance, callVars, paid, refunded>>

WinnerStake_Bug(m, f) ==
    StakeOf({u \in Winners(m, f) : bets[<<u, m>>].freebet_principal = 0}, m)

WinnerStake(m, f) == StakeOf(Winners(m, f), m)

PointsAfter_Bug(m, f) ==
    [u \in Users |-> IF u \in Bettors(m)
                     THEN PointsFor(bets[<<u, m>>].prediction, f, Weight(m))
                     ELSE user_points[u]]

\* Every bettor's points once the result of m is f.
PointsAfter(m, f) ==
    [u \in Users |->
        user_points[u] + IF u \in Bettors(m)
                         THEN PointsFor(bets[<<u, m>>].prediction, f, Weight(m)) ELSE 0]

\* Permissionless once the challenge window is over.  Points and settlement
\* happen here; a pool without a winner goes to the final prize.
FinalizeResult(m) ==
    LET f == matches[m].result.final
        winnerStake == WinnerStake(m, f)
        pool == matches[m].match_prize_pool
    IN  /\ WritesAllowed
        /\ m \in Registered
        /\ Status(m) = "Proposed"
        /\ ChallengeOver(m)
        /\ WellFormedResult(f, Weight(m))
        /\ matches' = [matches EXCEPT
               ![m].result = Finalized(f),
               ![m].total_winner_stake = winnerStake,
               ![m].match_prize_pool = IF winnerStake = 0 THEN 0 ELSE pool,
               ![m].dust_swept = @ \/ winnerStake = 0,
               ![m].settlement_prepared = TRUE,
               ![m].finalized_at = now]
        /\ final_prize_accumulated' =
               final_prize_accumulated + IF winnerStake = 0 THEN pool ELSE 0
        /\ user_points' = PointsAfter(m, f)
        /\ UNCHANGED <<adminVars, boardVars, bets, pending_refunds,
                       protocol_fee_accumulated, balance, callVars, paid, refunded>>

----------------------------------------------------------------------------
(* Cancellation *)

Refundable(m) ==
    {u \in Bettors(m) : ~bets[<<u, m>>].claimed /\ bets[<<u, m>>].stake_in_match_pool > 0}
FreebetsOf(m) == {u \in Refundable(m) : bets[<<u, m>>].freebet_principal > 0}

CashRefunds_Bug(m) == Refundable(m)

CashRefunds(m) == Refundable(m) \ FreebetsOf(m)

RefundsAfter_Bug(m) ==
    [u \in Users |-> IF u \in CashRefunds(m)
                     THEN bets[<<u, m>>].stake_in_match_pool ELSE pending_refunds[u]]

\* Everybody's refunds once m is cancelled.
RefundsAfter(m) ==
    [u \in Users |->
        pending_refunds[u] + IF u \in CashRefunds(m)
                             THEN bets[<<u, m>>].stake_in_match_pool ELSE 0]

\* The committed part of cancel_match: every open bet is closed, cash stakes
\* become refunds, and the match is settled with nothing in its pool.
VoidMatch(caller, m) ==
    /\ NotLockedForExport /\ OnlyAdmin(caller)
    /\ m \in Registered
    /\ Status(m) \in {"Unresolved", "Proposed"}
    /\ pending_refunds' = RefundsAfter(m)
    /\ bets' = [k \in Users \X MatchIds |->
                   IF k[2] = m /\ k[1] \in Refundable(m)
                   THEN [bets[k] EXCEPT !.claimed = TRUE] ELSE bets[k]]
    /\ matches' = [matches EXCEPT
           ![m].match_prize_pool = 0,
           ![m].total_winner_stake = 0,
           ![m].settlement_prepared = TRUE,
           ![m].dust_swept = TRUE,
           ![m].result = Cancelled,
           ![m].finalized_at = now]

\* Sends `amount` for u's bet on m to the ledger and suspends.
SendToLedger(u, m, amount, todo, payout, slot) ==
    /\ balance >= amount
    /\ balance' = balance - amount
    /\ paid' = [paid EXCEPT ![<<u, m>>] = @ + amount]
    /\ returns' = [returns EXCEPT ![slot] =
                      [match |-> m, user |-> u, amount |-> amount,
                       todo |-> todo, payout |-> payout]]

CancelMatch(caller, m) ==
    /\ VoidMatch(caller, m)
    /\ FreebetsOf(m) = {}
    /\ UNCHANGED <<adminVars, boardVars, user_points, potVars, balance, callVars,
                   paid, refunded>>

\* With freebets to return, the handler goes on to its first await; without a
\* ledger it panics and nothing happened.
CancelMatchWithFreebets(caller, m, u, slot) ==
    /\ VoidMatch(caller, m)
    /\ u \in FreebetsOf(m)
    /\ freebet_ledger_program_id # Nobody
    /\ returns[slot] = NoCall
    /\ SendToLedger(u, m, bets[<<u, m>>].stake_in_match_pool,
                    FreebetsOf(m) \ {u}, 0, slot)
    /\ UNCHANGED <<adminVars, boardVars, user_points, potVars, queries, refunded>>

----------------------------------------------------------------------------
(* Claims *)

Claimable(u, m) ==
    /\ WritesAllowed
    /\ m \in Registered
    /\ matches[m].match_prize_pool # 0 /\ matches[m].total_winner_stake # 0
    /\ bets[<<u, m>>] # NoBet
    /\ ~bets[<<u, m>>].claimed
    /\ Status(m) = "Finalized"
    /\ Eligible(u, m, matches[m].result.final)
    /\ ShareOf(u, m) # 0

MarkClaimed_Bug(u, m) ==
    /\ matches' = [matches EXCEPT ![m].total_claimed = @ + ShareOf(u, m)]
    /\ UNCHANGED bets

MarkClaimed(u, m) ==
    /\ matches' = [matches EXCEPT ![m].total_claimed = @ + ShareOf(u, m)]
    /\ bets' = [bets EXCEPT ![<<u, m>>].claimed = TRUE]

\* claim_match_reward for a bet without freebet principal: one step.
ClaimMatchReward(u, m) ==
    /\ Claimable(u, m)
    /\ PrincipalOf(u, m) = 0
    /\ MarkClaimed(u, m)
    /\ balance >= ShareOf(u, m)
    /\ balance' = balance - ShareOf(u, m)
    /\ paid' = [paid EXCEPT ![<<u, m>>] = @ + ShareOf(u, m)]
    /\ UNCHANGED <<adminVars, boardVars, user_points, pending_refunds, potVars,
                   callVars, refunded>>

\* With principal: the claim is recorded, the principal leaves for the ledger,
\* and the winner's net payout waits for the ledger's answer.
ClaimFreebetReward(u, m, slot) ==
    /\ Claimable(u, m)
    /\ PrincipalOf(u, m) # 0
    /\ freebet_ledger_program_id # Nobody
    /\ returns[slot] = NoCall
    /\ MarkClaimed(u, m)
    /\ SendToLedger(u, m, PrincipalOf(u, m), {},
                    ShareOf(u, m) - PrincipalOf(u, m), slot)
    /\ UNCHANGED <<adminVars, boardVars, user_points, pending_refunds, potVars,
                   queries, refunded>>

\* The ledger accepted and cancel_match has another freebet to return.  (The
\* program reads no bet here: the amounts were collected before the first
\* await, and a closed bet no longer changes.)
ReturnNext(slot, u) ==
    LET call == returns[slot]
    IN  /\ call # NoCall
        /\ u \in call.todo
        /\ SendToLedger(u, call.match, bets[<<u, call.match>>].stake_in_match_pool,
                        call.todo \ {u}, call.payout, slot)
        /\ UNCHANGED <<adminVars, boardVars, matches, bets, user_points,
                       pending_refunds, potVars, queries, refunded>>

\* The ledger accepted and the handler ends, paying what it still owes.
ReturnDone(slot) ==
    LET call == returns[slot]
    IN  /\ call # NoCall
        /\ call.todo = {}
        /\ balance >= call.payout
        /\ balance' = balance - call.payout
        /\ paid' = [paid EXCEPT ![<<call.user, call.match>>] = @ + call.payout]
        /\ returns' = [returns EXCEPT ![slot] = NoCall]
        /\ UNCHANGED <<adminVars, boardVars, matches, bets, user_points,
                       pending_refunds, potVars, queries, refunded>>

ReturnRejected_Bug(slot) ==
    LET call == returns[slot]
    IN  /\ call # NoCall
        /\ balance' = balance - call.amount
        /\ paid' = [paid EXCEPT ![<<call.user, call.match>>] = @ - call.amount]
        /\ returns' = [returns EXCEPT ![slot] = NoCall]
        /\ UNCHANGED <<adminVars, boardVars, matches, bets, user_points,
                       pending_refunds, potVars, queries, refunded>>

\* The ledger failed the call: the value comes back, the handler panics.
ReturnRejected(slot) ==
    LET call == returns[slot]
    IN  /\ call # NoCall
        /\ balance' = balance + call.amount
        /\ paid' = [paid EXCEPT ![<<call.user, call.match>>] = @ - call.amount]
        /\ returns' = [returns EXCEPT ![slot] = NoCall]
        /\ UNCHANGED <<adminVars, boardVars, matches, bets, user_points,
                       pending_refunds, potVars, queries, refunded>>

\* No reply in time, or the send after a good reply fails: the handler panics
\* and what was sent so far stays sent.
ReturnAbandoned(slot) ==
    /\ returns[slot] # NoCall
    /\ returns' = [returns EXCEPT ![slot] = NoCall]
    /\ UNCHANGED <<adminVars, boardVars, matches, bets, user_points, pending_refunds,
                   potVars, balance, queries, paid, refunded>>

----------------------------------------------------------------------------
(* Refunds and dust *)

SendRefund(u) ==
    /\ pending_refunds[u] # 0
    /\ balance >= pending_refunds[u]
    /\ balance' = balance - pending_refunds[u]
    /\ refunded' = [refunded EXCEPT ![u] = @ + pending_refunds[u]]
    /\ pending_refunds' = [pending_refunds EXCEPT ![u] = 0]
    /\ UNCHANGED <<adminVars, boardVars, matches, bets, user_points, potVars, callVars,
                   paid>>

ClaimRefund(u) == WritesAllowed /\ SendRefund(u)

\* Works under the migration lock, too.
AdminPushRefund(caller, u) == OnlyAdmin(caller) /\ SendRefund(u)

DeadlinePassed(m) ==
    /\ matches[m].finalized_at # NoTime
    /\ now >= matches[m].finalized_at + CLAIM_DEADLINE_MS

\* Before the deadline every eligible bet must have been claimed.
MaySweep(m) ==
    \/ matches[m].match_prize_pool = 0
    \/ DeadlinePassed(m)
    \/ /\ Status(m) = "Finalized"
       /\ \A u \in Winners(m, matches[m].result.final) : bets[<<u, m>>].claimed

SweepMatchDust(m) ==
    /\ WritesAllowed
    /\ m \in Registered
    /\ matches[m].settlement_prepared /\ ~matches[m].dust_swept
    /\ MaySweep(m)
    /\ final_prize_accumulated' =
          final_prize_accumulated
              + SaturatingSub(matches[m].match_prize_pool, matches[m].total_claimed)
    /\ matches' = [matches EXCEPT ![m].match_prize_pool = 0, ![m].dust_swept = TRUE]
    /\ UNCHANGED <<adminVars, boardVars, bets, user_points, pending_refunds,
                   protocol_fee_accumulated, balance, callVars, paid, refunded>>

----------------------------------------------------------------------------
RegisterStep ==
    \E caller \in Accounts, phase \in PhaseNames :
        \/ \E weight \in Weights : RegisterPhase(caller, phase, weight)
        \/ \E kickOff \in KickOffs : RegisterMatch(caller, phase, kickOff)

BetStep ==
    \E u \in Users, m \in MatchIds, p \in Guesses :
        \/ \E value \in BetValues : PlaceBet(u, m, p, value)
        \/ \E value \in FreebetValues : PlaceBetFromFreebetLedger(u, m, p, value)

ResultStep ==
    \/ \E m \in MatchIds, oracle \in Oracles :
          \/ \E r \in Reports : ProposeResult(oracle, m, r)
          \/ \E slot \in QuerySlots : ProposeFromOracle(m, oracle, slot)
    \/ \E slot \in QuerySlots :
          \/ \E r \in Reports : OracleReply(slot, r)
          \/ OracleReplyFailed(slot)
    \/ \E m \in MatchIds, caller \in Accounts :
          \/ CancelProposedResult(caller, m)
          \/ CancelMatch(caller, m)
          \/ \E u \in Users, slot \in ReturnSlots :
                CancelMatchWithFreebets(caller, m, u, slot)
    \/ \E m \in MatchIds : FinalizeResult(m)

PayoutStep ==
    \/ \E u \in Users, m \in MatchIds :
          \/ ClaimMatchReward(u, m)
          \/ \E slot \in ReturnSlots : ClaimFreebetReward(u, m, slot)
    \/ \E slot \in ReturnSlots :
          \/ \E u \in Users : ReturnNext(slot, u)
          \/ ReturnDone(slot)
          \/ ReturnRejected(slot)
          \/ ReturnAbandoned(slot)
    \/ \E u \in Users :
          \/ ClaimRefund(u)
          \/ \E caller \in Accounts : AdminPushRefund(caller, u)
    \/ \E m \in MatchIds : SweepMatchDust(m)

MatchesStep == RegisterStep \/ BetStep \/ ResultStep \/ PayoutStep

MatchesNext ==
    \/ MatchesStep
    \/ AdminNext /\ UNCHANGED matchesVars

MatchesSpec ==
    AdminInit /\ MatchesInit /\ [][MatchesNext]_allMatchesVars

----------------------------------------------------------------------------
(* Properties *)

\* total_locked_vara without the final prize: what is left of every pool, the
\* refunds, and the two pots.
LockedInMatches ==
    LET remaining ==
            [m \in Registered |-> SaturatingSub(matches[m].match_prize_pool,
                                                matches[m].total_claimed)]
    IN  protocol_fee_accumulated + final_prize_accumulated
            + SumOver(remaining, Registered)
            + SumOver(pending_refunds, Users)

\* Net payouts of claims that wait for the ledger's answer.
InFlightPayouts ==
    LET payout == [s \in ReturnSlots |->
                      IF returns[s] = NoCall THEN 0 ELSE returns[s].payout]
    IN  SumOver(payout, ReturnSlots)

\* What u earned with the bets on finalized matches.
MatchPoints(u) ==
    LET decided == {m \in Registered : Status(m) = "Finalized" /\ bets[<<u, m>>] # NoBet}
        points == [m \in decided |-> PointsFor(bets[<<u, m>>].prediction,
                                               matches[m].result.final, Weight(m))]
    IN  SumOver(points, decided)

(* Whatever order bets, claims, cancellations, ledger failures and sweeps  *)
(* come in, the program holds the VARA it has on its books, the payouts of *)
(* suspended claims included: no payout can fail for want of balance.      *)
BooksAreCovered == balance >= LockedInMatches + InFlightPayouts

(* After finalization, and until the sweep, the pool suffices for every    *)
(* winner who has not claimed yet, whoever claimed before: the winner stake*)
(* fixed by finalize_result is the stake of exactly those who may claim.   *)
WinnersStayCovered ==
    \A m \in Registered :
        Status(m) = "Finalized" /\ ~matches[m].dust_swept =>
            LET open == {u \in Winners(m, matches[m].result.final) : ~bets[<<u, m>>].claimed}
            IN  matches[m].total_claimed
                    + SumOver([u \in open |-> ShareOf(u, m)], open)
                        <= matches[m].match_prize_pool

\* What a bet may bring its owner and the ledger together.
DueFor(u, m) ==
    IF u \notin Bettors(m) THEN 0
    ELSE CASE /\ Status(m) = "Finalized" /\ matches[m].total_winner_stake # 0
              /\ Eligible(u, m, matches[m].result.final) ->
                 Share(bets[<<u, m>>].stake_in_match_pool, StakeOf(Bettors(m), m),
                       matches[m].total_winner_stake)
           [] Status(m) = "Cancelled" -> bets[<<u, m>>].freebet_principal
           [] OTHER -> 0

(* No sequence of claims, cancellations, retries and failed or abandoned   *)
(* ledger calls pays more for a bet than its share of all stakes on the    *)
(* match, or anything for a bet that lost or is undecided; a cancelled     *)
(* cash bet is paid only through the refunds.                              *)
NoBetIsOverpaid ==
    \A u \in Users, m \in MatchIds : paid[<<u, m>>] <= DueFor(u, m)

(* Refunds are exact: what a wallet was and will be refunded is the sum of *)
(* its cash stakes in the matches whose cancellation closed them.          *)
RefundsAddUp ==
    \A u \in Users :
        LET voided == {m \in Registered :
                          /\ Status(m) = "Cancelled"
                          /\ bets[<<u, m>>] # NoBet
                          /\ bets[<<u, m>>].claimed
                          /\ bets[<<u, m>>].freebet_principal = 0}
        IN  pending_refunds[u] + refunded[u] =
                SumOver([m \in voided |-> bets[<<u, m>>].stake_in_match_pool], voided)

(* No bet is taken in the last ten minutes before the kick-off (README.md: *)
(* 24; constants.rs:8 says the same of BET_CLOSE_WINDOW_SECONDS).          *)
BetsCloseTenMinutesAhead ==
    [][\A u \in Users, m \in MatchIds :
          bets[<<u, m>>] = NoBet /\ bets'[<<u, m>>] # NoBet
            => now + 10 * 60 * 1000 <= matches[m].kick_off]_allMatchesVars

\* A step that starts nothing: the answer to a query proposes a result where
\* there was none, a refund is sent, and suspended calls go on.
OnlyInFlightMoves ==
    /\ UNCHANGED <<boardVars, bets, user_points, potVars>>
    /\ \A s \in QuerySlots : queries[s] = NoCall => queries'[s] = NoCall
    /\ \A s \in ReturnSlots : returns[s] = NoCall => returns'[s] = NoCall
    /\ \A m \in MatchIds : matches'[m] # matches[m] =>
          /\ m \in Registered /\ Status(m) = "Unresolved" /\ Status(m)' = "Proposed"
          /\ \E s \in QuerySlots :
                queries[s] # NoCall /\ queries[s].match = m /\ queries'[s] = NoCall
    /\ \A u \in Users : pending_refunds'[u] # pending_refunds[u] =>
          /\ pending_refunds'[u] = 0
          /\ refunded'[u] = refunded[u] + pending_refunds[u]

(* Once a source is locked for export, its books move only by what was in  *)
(* flight and by the refunds an admin sends out: no bet, point or pot      *)
(* changes, nobody starts another call, and a match changes only by the    *)
(* answer to a query sent before the lock.                                 *)
LockFreezesBooks ==
    [][migration_sealed /\ migration_locked => OnlyInFlightMoves]_allMatchesVars

(* A standing proposal is never replaced under the eyes of those who check *)
(* it: no oracle's late answer changes the score or restarts the window.   *)
ProposalsStand ==
    [][\A m \in Registered :
          Status(m) = "Proposed" /\ Status(m)' = "Proposed"
            => matches'[m].result = matches[m].result]_allMatchesVars

(* Finalized and Cancelled are final: neither a late oracle answer nor any *)
(* handler changes the result, the winner stake, or refills the pool that  *)
(* the shares are computed from.                                           *)
ResultsAreFinal ==
    [][\A m \in Registered :
          /\ Status(m) \in {"Finalized", "Cancelled"} =>
                matches'[m].result = matches[m].result
          /\ Status(m) = "Finalized" =>
                /\ matches'[m].total_winner_stake = matches[m].total_winner_stake
                /\ matches'[m].match_prize_pool \in {0, matches[m].match_prize_pool}]_allMatchesVars

\* What the lifecycle knows of a match: its result, without the money.
LifecycleBoard ==
    [m \in MatchIds |->
        IF matches[m] = NoMatch THEN [status |-> "Absent", score |-> NoResult, since |-> 0]
        ELSE [status |-> CASE Status(m) = "Unresolved" -> "Open"
                           [] Status(m) = "Proposed" -> "Announced"
                           [] Status(m) = "Finalized" -> "Counted"
                           [] Status(m) = "Cancelled" -> "CalledOff",
              score |-> matches[m].result.final,
              since |-> matches[m].result.proposed_at]]

Lifecycle ==
    INSTANCE ResultLifecycle WITH
        Ids <- MatchIds, Scores <- Reports, NoScore <- NoResult,
        WINDOW <- CHALLENGE_WINDOW_MS, clock <- now, board <- LifecycleBoard

(* The handlers implement the lifecycle of results, with every await, late *)
(* or repeated answer and concurrent cancellation: no result counts that   *)
(* has not stood unchanged, and open to withdrawal, for the whole challenge*)
(* window, and none that ran out of it is withdrawn.                       *)
ImplementsLifecycle == Lifecycle!Spec

\* A standing proposal that finalize_result would accept.
Resolvable(m) ==
    /\ m \in Registered
    /\ Status(m) = "Proposed"
    /\ WellFormedResult(matches[m].result.final, Weight(m))
=============================================================================
