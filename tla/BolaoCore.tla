------------------------------ MODULE BolaoCore ------------------------------
(***************************************************************************)
(* The whole BolaoCore program: BolaoMatches with the podium predictions,  *)
(* the final prize, and the withdrawals of the treasury and the admins.    *)
(*                                                                         *)
(* Left out: final_prize_rounding_dust, which finalize_final_prize_pool    *)
(* always leaves at 0 (it sends the dust to the treasury at once), and with*)
(* it withdraw_final_prize_rounding_dust, which therefore always panics;   *)
(* destinations of withdrawals, which no property tells apart.             *)
(***************************************************************************)
EXTENDS BolaoMatches

CONSTANTS
    Teams,
    PodiumInputs,      \* podiums that bettors pick and the admin announces
    PodiumValues,      \* VARA sent with submit_podium_pick
    WithdrawAmounts,   \* amounts an admin asks to withdraw
    MaxForced,         \* bound: VARA taken by force_withdraw_vara in all
    NoPodium           \* Option::None for a podium

ASSUME CoreAssumption ==
    /\ PodiumInputs \subseteq [champion : Teams, runner_up : Teams, third_place : Teams]
    /\ NoPodium \notin [champion : Teams, runner_up : Teams, third_place : Teams]
    /\ PodiumValues \subseteq Nat
    /\ WithdrawAmounts \subseteq Nat \ {0}
    /\ MaxForced \in Nat

VARIABLES
    podium_picks,
    podium_result,              \* NoPodium until podium_finalized
    final_prize_finalized,
    final_prize_allocations,    \* 0 for a wallet without an entry
    final_prize_claimed,
    final_prize_claimable_total,
    forced,                     \* history: VARA taken past the books
    raided                      \* history: surplus withdrawn while the ledger's
                                \* answer to a return was awaited

podiumVars == <<podium_picks, podium_result>>
prizeVars == <<final_prize_finalized, final_prize_allocations,
               final_prize_claimed, final_prize_claimable_total>>
historyVars == <<forced, raided>>
coreVars == <<podiumVars, prizeVars, historyVars>>
vars == <<allMatchesVars, coreVars>>

Podiums == [champion : Teams, runner_up : Teams, third_place : Teams]

CoreTypeOK ==
    /\ podium_picks \in [Users -> Podiums \cup {NoPodium}]
    /\ podium_result \in Podiums \cup {NoPodium}
    /\ final_prize_finalized \in BOOLEAN
    /\ final_prize_allocations \in [Users -> Nat]
    /\ final_prize_claimed \in [Users -> BOOLEAN]
    /\ final_prize_claimable_total \in Nat
    /\ forced \in Nat /\ raided \in Nat

CoreInit ==
    /\ podium_picks = [u \in Users |-> NoPodium]
    /\ podium_result = NoPodium
    /\ final_prize_finalized = FALSE
    /\ final_prize_allocations = [u \in Users |-> 0]
    /\ final_prize_claimed = [u \in Users |-> FALSE]
    /\ final_prize_claimable_total = 0
    /\ forced = 0 /\ raided = 0

TypeOK == AdminTypeOK /\ MatchesTypeOK /\ CoreTypeOK
Init == AdminInit /\ MatchesInit /\ CoreInit

----------------------------------------------------------------------------
(* Podium *)

SubmitPodiumPick(u, pick, value) ==
    /\ WritesAllowed
    /\ value >= ComputeMinBet(now)
    /\ r32_lock_time # NoTime /\ now < r32_lock_time
    /\ podium_picks[u] = NoPodium
    /\ podium_picks' = [podium_picks EXCEPT ![u] = pick]
    /\ protocol_fee_accumulated' = protocol_fee_accumulated + PodiumFee(value)
    /\ final_prize_accumulated' = final_prize_accumulated + PodiumPrizeCut(value)
    /\ balance' = balance + value
    /\ UNCHANGED <<adminVars, boardVars, matches, bets, user_points, pending_refunds,
                   callVars, paid, refunded, podium_result, prizeVars, historyVars>>

PodiumBonus(pick, podium) ==
    IF pick = NoPodium \/ podium = NoPodium THEN 0
    ELSE (IF pick.champion = podium.champion THEN 20 ELSE 0)
         + (IF pick.runner_up = podium.runner_up THEN 10 ELSE 0)
         + (IF pick.third_place = podium.third_place THEN 5 ELSE 0)

(* The podium the world outside allows the admin to announce: there is one *)
(* only once the Round of 32 has begun.  No handler checks that, nor does  *)
(* submit_podium_pick look at podium_finalized; with EarlyReports the admin*)
(* may get ahead, too.                                                     *)
KnownPodiums ==
    IF EarlyReports \/ (r32_lock_time # NoTime /\ now >= r32_lock_time)
    THEN PodiumInputs ELSE {}

FinalizePodium_Bug(caller, podium) ==
    /\ NotLockedForExport /\ OnlyAdmin(caller)
    /\ podium \in KnownPodiums
    /\ podium_result' = podium
    /\ user_points' = [u \in Users |->
                          user_points[u] + PodiumBonus(podium_picks[u], podium)]
    /\ UNCHANGED <<adminVars, boardVars, matches, bets, pending_refunds, potVars,
                   balance, callVars, paid, refunded, podium_picks, prizeVars, historyVars>>

FinalizePodium(caller, podium) ==
    /\ NotLockedForExport /\ OnlyAdmin(caller)
    /\ podium_result = NoPodium
    /\ podium \in KnownPodiums
    /\ podium_result' = podium
    /\ user_points' = [u \in Users |->
                          user_points[u] + PodiumBonus(podium_picks[u], podium)]
    /\ UNCHANGED <<adminVars, boardVars, matches, bets, pending_refunds, potVars,
                   balance, callVars, paid, refunded, podium_picks, prizeVars, historyVars>>

----------------------------------------------------------------------------
(* Final prize *)

\* collect_leaderboard: wallets with a stake in some match pool, cancelled
\* matches included.
Leaderboard ==
    {u \in Users : \E m \in MatchIds :
        bets[<<u, m>>] # NoBet /\ bets[<<u, m>>].stake_in_match_pool > 0}

AllMatchesSettled ==
    \A m \in Registered :
        /\ Status(m) \in {"Finalized", "Cancelled"}
        /\ matches[m].settlement_prepared
        /\ matches[m].dust_swept

FinalizeFinalPrizePool_Bug(caller) ==
    LET points == [u \in Leaderboard |-> user_points[u]]
        pool == final_prize_accumulated
        total == TotalAllocated(points, pool)
    IN  /\ NotLockedForExport /\ OnlyAdmin(caller)
        /\ ~final_prize_finalized
        /\ podium_result # NoPodium
        /\ AllMatchesSettled
        /\ pool # 0 /\ Leaderboard # {} /\ total # 0
        /\ balance >= SaturatingSub(pool, total)
        /\ final_prize_allocations' =
               [u \in Users |-> IF u \in Leaderboard THEN PrizeFor(points, pool, u) ELSE 0]
        /\ final_prize_finalized' = TRUE
        /\ final_prize_claimable_total' = pool
        /\ final_prize_accumulated' = 0
        /\ balance' = balance - SaturatingSub(pool, total)
        /\ UNCHANGED <<adminVars, boardVars, matches, bets, user_points, pending_refunds,
                       protocol_fee_accumulated, callVars, paid, refunded, podiumVars,
                       final_prize_claimed, historyVars>>

\* What the floors leave of the pool goes to the treasury in the same step.
FinalizeFinalPrizePool(caller) ==
    LET points == [u \in Leaderboard |-> user_points[u]]
        pool == final_prize_accumulated
        total == TotalAllocated(points, pool)
    IN  /\ NotLockedForExport /\ OnlyAdmin(caller)
        /\ ~final_prize_finalized
        /\ podium_result # NoPodium
        /\ AllMatchesSettled
        /\ pool # 0 /\ Leaderboard # {} /\ total # 0
        /\ balance >= SaturatingSub(pool, total)
        /\ final_prize_allocations' =
               [u \in Users |-> IF u \in Leaderboard THEN PrizeFor(points, pool, u) ELSE 0]
        /\ final_prize_finalized' = TRUE
        /\ final_prize_claimable_total' = total
        /\ final_prize_accumulated' = 0
        /\ balance' = balance - SaturatingSub(pool, total)
        /\ UNCHANGED <<adminVars, boardVars, matches, bets, user_points, pending_refunds,
                       protocol_fee_accumulated, callVars, paid, refunded, podiumVars,
                       final_prize_claimed, historyVars>>

ClaimFinalPrize(u) ==
    /\ WritesAllowed
    /\ final_prize_finalized
    /\ ~final_prize_claimed[u]
    /\ final_prize_allocations[u] # 0
    /\ balance >= final_prize_allocations[u]
    /\ final_prize_claimed' = [final_prize_claimed EXCEPT ![u] = TRUE]
    /\ final_prize_claimable_total' =
          SaturatingSub(final_prize_claimable_total, final_prize_allocations[u])
    /\ balance' = balance - final_prize_allocations[u]
    /\ UNCHANGED <<adminVars, boardVars, matches, bets, user_points, pending_refunds,
                   potVars, callVars, paid, refunded, podiumVars,
                   final_prize_finalized, final_prize_allocations, historyVars>>

----------------------------------------------------------------------------
(* Withdrawals *)

WithdrawProtocolFees(caller) ==
    /\ NotLockedForExport /\ OnlyAdmin(caller)
    /\ protocol_fee_accumulated # 0
    /\ balance >= protocol_fee_accumulated
    /\ balance' = balance - protocol_fee_accumulated
    /\ protocol_fee_accumulated' = 0
    /\ UNCHANGED <<adminVars, boardVars, matches, bets, user_points, pending_refunds,
                   final_prize_accumulated, callVars, paid, refunded, coreVars>>

TotalLockedVara_Bug == LockedInMatches

\* total_locked_vara
TotalLockedVara == LockedInMatches + final_prize_claimable_total

ReturnsUnderWay == \E slot \in ReturnSlots : returns[slot] # NoCall

\* Does not know of what suspended calls have yet to send.
WithdrawSurplusVara(caller, amount) ==
    /\ NotLockedForExport /\ OnlyAdmin(caller)
    /\ amount <= SaturatingSub(balance, TotalLockedVara)
    /\ balance' = balance - amount
    /\ raided' = raided + (IF ReturnsUnderWay THEN amount ELSE 0)
    /\ UNCHANGED <<adminVars, boardVars, matches, bets, user_points, pending_refunds,
                   potVars, callVars, paid, refunded, podiumVars, prizeVars, forced>>

ForceWithdrawVara_Bug(caller, amount) ==
    /\ OnlyAdmin(caller)
    /\ forced + amount <= MaxForced
    /\ balance' = balance - amount
    /\ forced' = forced + amount
    /\ UNCHANGED <<adminVars, boardVars, matches, bets, user_points, pending_refunds,
                   potVars, callVars, paid, refunded, podiumVars, prizeVars, raided>>

\* Looks at neither the books nor the lock.
ForceWithdrawVara(caller, amount) ==
    /\ OnlyAdmin(caller)
    /\ balance >= amount
    /\ forced + amount <= MaxForced
    /\ balance' = balance - amount
    /\ forced' = forced + amount
    /\ UNCHANGED <<adminVars, boardVars, matches, bets, user_points, pending_refunds,
                   potVars, callVars, paid, refunded, podiumVars, prizeVars, raided>>

\* The last step of a migration on the source side.
DrainVaraTo(caller) ==
    /\ OnlyAdmin(caller)
    /\ migration_locked
    /\ balance # 0
    /\ balance' = 0
    /\ forced' = forced + balance
    /\ UNCHANGED <<adminVars, boardVars, matches, bets, user_points, pending_refunds,
                   potVars, callVars, paid, refunded, podiumVars, prizeVars, raided>>

----------------------------------------------------------------------------
PrizeStep ==
    \/ \E u \in Users :
          \/ \E pick \in PodiumInputs, value \in PodiumValues : SubmitPodiumPick(u, pick, value)
          \/ ClaimFinalPrize(u)
    \/ \E caller \in Accounts :
          \/ \E podium \in PodiumInputs : FinalizePodium(caller, podium)
          \/ FinalizeFinalPrizePool(caller)

WithdrawStep ==
    \E caller \in Accounts :
        \/ WithdrawProtocolFees(caller)
        \/ \E amount \in WithdrawAmounts :
              WithdrawSurplusVara(caller, amount) \/ ForceWithdrawVara(caller, amount)
        \/ DrainVaraTo(caller)

Next ==
    \/ MatchesStep /\ UNCHANGED coreVars
    \/ PrizeStep
    \/ WithdrawStep
    \/ AdminNext /\ UNCHANGED <<matchesVars, coreVars>>

Spec == Init /\ [][Next]_vars

----------------------------------------------------------------------------
(* Properties *)

(* The program holds everything it counts as locked - open match pools,   *)
(* refunds, fees, the final prize before and after its allocation - and the*)
(* payouts of suspended claims; except for what an admin took past the     *)
(* books, or as surplus while a claim or a cancellation was suspended (see *)
(* SurplusExcludesPayouts).  So no other surplus withdrawal reaches into   *)
(* them.                                                                   *)
Solvent ==
    balance + forced + raided
        >= LockedInMatches + final_prize_claimable_total + InFlightPayouts

(* The total that the final prize still owes is the sum of the allocations *)
(* not yet claimed, so the last claimant is paid like the first and nothing*)
(* is left over.                                                           *)
PrizeBooksBalance ==
    final_prize_claimable_total =
        SumOver(final_prize_allocations, {u \in Users : ~final_prize_claimed[u]})

(* A wallet's points are those of its bets on finalized matches, once each,*)
(* plus the bonus of its podium pick, once, when the podium is known.      *)
PointsAddUp ==
    \A u \in Users :
        user_points[u] =
            MatchPoints(u) + PodiumBonus(podium_picks[u], podium_result)

(* state.rs:348: total_locked_vara is "the total VARA the contract holds on*)
(* behalf of users and protocol", and what exceeds it may be withdrawn as  *)
(* surplus.  A claim that waits for the ledger is no longer counted, so its*)
(* net payout can leave as surplus before the winner gets it.              *)
SurplusExcludesPayouts == balance + forced >= TotalLockedVara + InFlightPayouts

(* README.md:31 of the program: "Match can be voided via cancel_match;     *)
(* bettors pull back the 85% match-pool portion of their stake".  A bet    *)
(* placed on a cancelled match before its kick-off is closed by nothing.   *)
CancelledStakesAreReturned ==
    \A u \in Users, m \in Registered :
        Status(m) = "Cancelled" /\ bets[<<u, m>>] # NoBet => bets[<<u, m>>].claimed
=============================================================================
