--------------------------- MODULE FreebetLedger ---------------------------
(***************************************************************************)
(* The FreebetLedger program: administrators grant users credit backed by  *)
(* the VARA they attach, users spend it on bets, bet programs return it.   *)
(*                                                                         *)
(* spend_freebet sends the stake to a bet program and awaits its reply, so *)
(* it is two steps with anything in between: SpendFreebet up to the await, *)
(* SpendSucceeds or SpendFails after it.  `spends` holds the calls that    *)
(* have not ended or whose message is still in Gear's queue.  A refused    *)
(* message's value is back in the program's balance before the suspended   *)
(* call runs again; an await whose reply is late ends with an error.       *)
(*                                                                         *)
(* A handler that ends with an error changes nothing and has its value     *)
(* returned, so only the calls that succeed are steps.  Grant reasons, the *)
(* predictions and the length limits are left out, and so is u128          *)
(* overflow: no supply of VARA reaches it.                                 *)
(***************************************************************************)
EXTENDS Sums

CONSTANTS
    Accounts,        \* accounts that may administer the ledger
    FirstAdmin,      \* FreebetLedgerInit.admin
    Users,
    BetPrograms,
    MatchIds,
    GrantIds,
    GrantValues,     \* VARA attached to a grant
    Amounts,         \* VARA of a spend, a return, a deposit or a withdrawal
    SpendSlots,      \* bound: spend_freebet calls or messages at once
    MaxAvailable,    \* bound: the balance deposits and returns may reach
    MaxBalance,      \* bound: the credit returns may give one user
    MaxForced,       \* bound: VARA withdrawn by force or during a spend
    MaxLate,         \* bound: credit restored to one user by late replies
    NoGrant, NoCall

ASSUME LedgerAssumption ==
    /\ FirstAdmin \in Accounts
    /\ IsFiniteSet(Users) /\ IsFiniteSet(GrantIds) /\ IsFiniteSet(SpendSlots)
    /\ GrantValues \subseteq Nat \ {0} /\ Amounts \subseteq Nat \ {0}

VARIABLES
    admins,
    balances,                   \* credit of each user
    grants,
    authorized_bet_programs,
    pending_spends,             \* keys of the spends under way
    spends,                     \* calls and messages of spend_freebet
    available,                  \* exec::value_available()
    staked,                     \* history: VARA of a user's credit that the
                                \* bet programs kept, less what they returned
    late,                       \* history: credit restored after a late reply
    recovered,                  \* history: VARA of it that came back after all
    forced,                     \* history: VARA withdrawn by force
    hasty                       \* history: surplus withdrawn during a spend

roleVars == <<admins, authorized_bet_programs>>
spendVars == <<pending_spends, spends>>
lateVars == <<late, recovered>>
outVars == <<forced, hasty>>
vars == <<roleVars, balances, grants, spendVars, available, staked,
          lateVars, outVars>>

Grants == [recipient : Users, amount : Nat]
Keys == Users \X BetPrograms \X MatchIds

\* `message` says what became of the message to the bet program, `waiting`
\* that the call that sent it has not ended.
Spends == [key : Keys, amount : Nat, waiting : BOOLEAN,
           message : {"queued", "kept", "refused"}]

\* The markers are not what they stand in for.
ASSUME LedgerMarkers == NoGrant \notin Grants /\ NoCall \notin Spends

(* What the ledger's data are, for every sequence of calls. *)
LedgerTypeOK ==
    /\ admins \subseteq Accounts
    /\ balances \in [Users -> Nat]
    /\ grants \in [GrantIds -> Grants \cup {NoGrant}]
    /\ authorized_bet_programs \subseteq BetPrograms
    /\ pending_spends \subseteq Keys
    /\ spends \in [SpendSlots -> Spends \cup {NoCall}]
    /\ available \in Nat
    /\ staked \in [Users -> Int]
    /\ late \in [Users -> Nat]
    /\ recovered \in [Users -> Nat]
    /\ forced \in Nat
    /\ hasty \in Nat

Init ==
    /\ admins = {FirstAdmin}
    /\ balances = [u \in Users |-> 0]
    /\ grants = [g \in GrantIds |-> NoGrant]
    /\ authorized_bet_programs = {}
    /\ pending_spends = {}
    /\ spends = [s \in SpendSlots |-> NoCall]
    /\ available = 0
    /\ staked = [u \in Users |-> 0]
    /\ late = [u \in Users |-> 0]
    /\ recovered = [u \in Users |-> 0]
    /\ forced = 0
    /\ hasty = 0

----------------------------------------------------------------------------
(* Reading the state *)

Calls == {s \in SpendSlots : spends[s] # NoCall}
Waiting == {s \in Calls : spends[s].waiting}
UserOf(s) == spends[s].key[1]

\* total_liability
Liability == SumOver(balances, Users)

Surplus_Bug == available

\* surplus_vara
Surplus == IF available < Liability THEN 0 ELSE available - Liability

----------------------------------------------------------------------------
(* Administration *)

AddAdmin(caller, new) ==
    /\ caller \in admins
    /\ admins' = admins \cup {new}
    /\ UNCHANGED <<authorized_bet_programs, balances, grants, spendVars,
                   available, staked, lateVars, outVars>>

RemoveAdmin(caller, admin) ==
    /\ caller \in admins
    /\ admins # {caller}
    /\ admin \in admins
    /\ admins' = admins \ {admin}
    /\ UNCHANGED <<authorized_bet_programs, balances, grants, spendVars,
                   available, staked, lateVars, outVars>>

\* VARA attached to the call stays with the program as surplus.
AuthorizeBetProgram(caller, b, value) ==
    /\ caller \in admins
    /\ available + value <= MaxAvailable
    /\ authorized_bet_programs' = authorized_bet_programs \cup {b}
    /\ available' = available + value
    /\ UNCHANGED <<admins, balances, grants, spendVars, staked, lateVars, outVars>>

RevokeBetProgram(caller, b) ==
    /\ caller \in admins
    /\ authorized_bet_programs' = authorized_bet_programs \ {b}
    /\ UNCHANGED <<admins, balances, grants, spendVars, available, staked,
                   lateVars, outVars>>

Grant_Bug(caller, to, id, value) ==
    /\ caller \in admins
    /\ balances' = [balances EXCEPT ![to] = @ + value]
    /\ grants' = [grants EXCEPT ![id] = [recipient |-> to, amount |-> value]]
    /\ available' = available + value
    /\ UNCHANGED <<roleVars, spendVars, staked, lateVars, outVars>>

Grant(caller, to, id, value) ==
    /\ caller \in admins
    /\ grants[id] = NoGrant
    /\ balances' = [balances EXCEPT ![to] = @ + value]
    /\ grants' = [grants EXCEPT ![id] = [recipient |-> to, amount |-> value]]
    /\ available' = available + value
    /\ UNCHANGED <<roleVars, spendVars, staked, lateVars, outVars>>

WithdrawSurplusVara(caller, amount) ==
    /\ caller \in admins
    /\ amount <= Surplus
    /\ forced + hasty + amount <= MaxForced
    /\ available' = available - amount
    /\ hasty' = IF pending_spends = {} THEN hasty ELSE hasty + amount
    /\ UNCHANGED <<roleVars, balances, grants, spendVars, staked, lateVars, forced>>

ForceWithdrawVara(caller, amount) ==
    /\ caller \in admins
    /\ amount <= available
    /\ forced + hasty + amount <= MaxForced
    /\ available' = available - amount
    /\ forced' = forced + amount
    /\ UNCHANGED <<roleVars, balances, grants, spendVars, staked, lateVars, hasty>>

----------------------------------------------------------------------------
(* Spending *)

SpendFreebet_Bug(s, u, b, m, amount) ==
    /\ b \in authorized_bet_programs
    /\ <<u, b, m>> \notin pending_spends
    /\ amount <= available
    /\ spends[s] = NoCall
    /\ pending_spends' = pending_spends \cup {<<u, b, m>>}
    /\ balances' = [balances EXCEPT ![u] = @ - amount]
    /\ available' = available - amount
    /\ spends' = [spends EXCEPT ![s] = [key |-> <<u, b, m>>, amount |-> amount,
                                        waiting |-> TRUE, message |-> "queued"]]
    /\ UNCHANGED <<roleVars, grants, staked, lateVars, outVars>>

(* spend_freebet up to its await.  A program that force_withdraw_vara left *)
(* short cannot send the stake: the handler then restores the balance in   *)
(* the same step, which changes nothing.                                   *)
SpendFreebet(s, u, b, m, amount) ==
    /\ b \in authorized_bet_programs
    /\ <<u, b, m>> \notin pending_spends
    /\ amount <= balances[u]
    /\ amount <= available
    /\ spends[s] = NoCall
    /\ pending_spends' = pending_spends \cup {<<u, b, m>>}
    /\ balances' = [balances EXCEPT ![u] = @ - amount]
    /\ available' = available - amount
    /\ spends' = [spends EXCEPT ![s] = [key |-> <<u, b, m>>, amount |-> amount,
                                        waiting |-> TRUE, message |-> "queued"]]
    /\ UNCHANGED <<roleVars, grants, staked, lateVars, outVars>>

\* The bet program takes the bet and keeps its stake.
BetProgramKeeps(s) ==
    /\ s \in Calls /\ spends[s].message = "queued"
    /\ staked' = [staked EXCEPT ![UserOf(s)] = @ + spends[s].amount]
    /\ spends' = [spends EXCEPT ![s] =
                     IF @.waiting THEN [@ EXCEPT !.message = "kept"] ELSE NoCall]
    /\ UNCHANGED <<roleVars, balances, grants, pending_spends, available,
                   lateVars, outVars>>

\* Its handler panics; Gear sends an error reply and the value back.
BetProgramRefuses(s) ==
    /\ s \in Calls /\ spends[s].message = "queued"
    /\ available' = available + spends[s].amount
    /\ spends' = [spends EXCEPT ![s] =
                     IF @.waiting THEN [@ EXCEPT !.message = "refused"] ELSE NoCall]
    /\ recovered' = IF spends[s].waiting THEN recovered
                    ELSE [recovered EXCEPT ![UserOf(s)] = @ + spends[s].amount]
    /\ UNCHANGED <<roleVars, balances, grants, pending_spends, staked, late, outVars>>

\* spend_freebet after the await, in its three outcomes.
SpendSucceeds(s) ==
    /\ s \in Waiting /\ spends[s].message = "kept"
    /\ pending_spends' = pending_spends \ {spends[s].key}
    /\ spends' = [spends EXCEPT ![s] = NoCall]
    /\ UNCHANGED <<roleVars, balances, grants, available, staked, lateVars, outVars>>

\* Restores the balance of the call in s and clears its marker.
RestoreBalance_Bug(s) ==
    /\ balances' = [balances EXCEPT ![UserOf(s)] = @ + spends[s].amount]
    /\ pending_spends' = pending_spends

RestoreBalance(s) ==
    /\ balances' = [balances EXCEPT ![UserOf(s)] = @ + spends[s].amount]
    /\ pending_spends' = pending_spends \ {spends[s].key}

SpendFails(s) ==
    /\ s \in Waiting /\ spends[s].message = "refused"
    /\ RestoreBalance(s)
    /\ spends' = [spends EXCEPT ![s] = NoCall]
    /\ UNCHANGED <<roleVars, grants, available, staked, lateVars, outVars>>

(* The reply is later than the await's deadline, and the handler cannot    *)
(* tell that from a refusal.  The message may still be in the queue.       *)
SpendTimesOut(s) ==
    /\ s \in Waiting /\ spends[s].message \in {"queued", "kept"}
    /\ late[UserOf(s)] + spends[s].amount <= MaxLate
    /\ RestoreBalance(s)
    /\ late' = [late EXCEPT ![UserOf(s)] = @ + spends[s].amount]
    /\ spends' = [spends EXCEPT ![s] =
                     IF @.message = "queued" THEN [@ EXCEPT !.waiting = FALSE]
                     ELSE NoCall]
    /\ UNCHANGED <<roleVars, grants, available, staked, recovered, outVars>>

(* Any authorized program may return any amount for any user; BolaoCore    *)
(* returns no more than it was sent, which BolaoMatches shows.             *)
ReturnFreebet(b, u, value) ==
    /\ b \in authorized_bet_programs
    /\ balances[u] + value <= MaxBalance
    /\ available + value <= MaxAvailable
    /\ balances' = [balances EXCEPT ![u] = @ + value]
    /\ available' = available + value
    /\ staked' = [staked EXCEPT ![u] = @ - value]
    /\ UNCHANGED <<roleVars, grants, spendVars, lateVars, outVars>>

----------------------------------------------------------------------------
Administer ==
    \E caller \in Accounts :
        \/ \E a \in Accounts : AddAdmin(caller, a) \/ RemoveAdmin(caller, a)
        \/ \E b \in BetPrograms :
            \/ \E value \in Amounts \cup {0} : AuthorizeBetProgram(caller, b, value)
            \/ RevokeBetProgram(caller, b)
        \/ \E to \in Users, id \in GrantIds, value \in GrantValues :
            Grant(caller, to, id, value)
        \/ \E amount \in Amounts :
            WithdrawSurplusVara(caller, amount) \/ ForceWithdrawVara(caller, amount)

Spend ==
    \E u \in Users, b \in BetPrograms, amount \in Amounts :
        \/ \E s \in SpendSlots, m \in MatchIds : SpendFreebet(s, u, b, m, amount)
        \/ ReturnFreebet(b, u, amount)

Next ==
    \/ Administer
    \/ Spend
    \/ \E s \in SpendSlots :
        \/ BetProgramKeeps(s) \/ BetProgramRefuses(s)
        \/ SpendSucceeds(s) \/ SpendFails(s) \/ SpendTimesOut(s)

Spec == Init /\ [][Next]_vars

----------------------------------------------------------------------------
(* Properties *)

\* VARA of refused stakes that is back although its call has not resumed.
Returning == {s \in Waiting : spends[s].message = "refused"}
VaraOf(calls) ==
    SumOver([s \in SpendSlots |-> IF s \in calls THEN spends[s].amount ELSE 0],
            SpendSlots)

(* The credit of all users, and the refused stakes about to become credit  *)
(* again, are covered by the program's balance, but for what was withdrawn *)
(* by force, restored after a late reply or withdrawn as surplus during a  *)
(* spend: compute_surplus_vara knows nothing of the stakes in flight.      *)
LiabilityIsBacked ==
    Liability + VaraOf(Returning) + SumOver(recovered, Users)
        <= available + forced + hasty + SumOver(late, Users)

(* The markers are exactly those of the suspended calls, one each: no path *)
(* through spend_freebet leaves a user locked out of a match or lets two   *)
(* spends of one bet overlap.                                              *)
MarkersMatchCalls ==
    /\ pending_spends = {spends[s].key : s \in Waiting}
    /\ \A s, t \in Waiting : spends[s].key = spends[t].key => s = t

\* u's stakes still in the queue, or refused and not yet credited again.
OnTheWay(u) == {s \in Calls : UserOf(s) = u /\ spends[s].message # "kept"}
GrantedTo(u) ==
    SumOver([g \in GrantIds |->
               IF grants[g] # NoGrant /\ grants[g].recipient = u
               THEN grants[g].amount ELSE 0], GrantIds)

(* Every freebet granted is once, and only once, the user's credit, on its *)
(* way or with a bet program, except that a late reply may double it.      *)
CreditIsConserved ==
    \A u \in Users :
        balances[u] + VaraOf(OnTheWay(u)) + staked[u] + recovered[u]
            = GrantedTo(u) + late[u]
=============================================================================
