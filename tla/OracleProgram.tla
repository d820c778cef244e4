--------------------------- MODULE OracleProgram ---------------------------
(***************************************************************************)
(* The Oracle program: feeders submit the results of registered matches,   *)
(* and a result on which enough of the feeders authorized at that moment   *)
(* agree is final.  BolaoCore and the oracle-server read what is final.    *)
(*                                                                         *)
(* No handler awaits, so each is one action; a handler that ends with an   *)
(* error changes nothing.  What is uncertain is the feeders: those outside *)
(* Faulty submit what was played, the others anything.                     *)
(*                                                                         *)
(* Left out: match metadata and timestamps, which nothing here reads; the  *)
(* zero-address checks; the price, bolao_program_id and the withdrawals,   *)
(* which share no state with the results.                                  *)
(***************************************************************************)
EXTENDS Integers, Sequences, FiniteSets

CONSTANTS
    Accounts,        \* accounts that may administer or operate the program
    FirstAdmin,      \* the admin given to the constructor
    Nobody,          \* Option::None for pending_admin
    Feeders,
    Faulty,          \* the feeders that may submit anything
    MatchIds,
    Results,         \* scores with their shoot-out winner
    Truth,           \* what was played
    NoResult,        \* Option::None for final_result
    NoEntry,
    MAX_FEEDERS,
    DEFAULT_CONSENSUS_THRESHOLD

ASSUME OracleAssumption ==
    /\ FirstAdmin \in Accounts /\ Nobody \notin Accounts
    /\ IsFiniteSet(Feeders) /\ Faulty \subseteq Feeders
    /\ Truth \in [MatchIds -> Results] /\ NoResult \notin Results
    /\ MAX_FEEDERS \in Nat
    /\ DEFAULT_CONSENSUS_THRESHOLD \in 1..MAX_FEEDERS

VARIABLES
    admin,                      \* the one that queries and events name
    admins,
    pending_admin,
    operators,
    authorized_feeders,         \* the feeders mapped to true
    consensus_threshold,
    match_results

roleVars == <<admin, admins, pending_admin, operators>>
feederVars == <<authorized_feeders, consensus_threshold>>
vars == <<roleVars, feederVars, match_results>>

Submissions == [feeder : Feeders, result : Results]
Entries == [submissions : Seq(Submissions), final_result : Results \cup {NoResult}]

ASSUME OracleMarkers == NoEntry \notin Entries

(* What the oracle's data are.  The admin named is one of the admins, so   *)
(* there always is one, and the authorized feeders respect their limit,    *)
(* however they are revoked and authorized again.                          *)
OracleTypeOK ==
    /\ admins \subseteq Accounts /\ IsFiniteSet(admins)
    /\ admin \in admins
    /\ pending_admin \in Accounts \cup {Nobody}
    /\ operators \subseteq Accounts
    /\ authorized_feeders \subseteq Feeders
    /\ Cardinality(authorized_feeders) <= MAX_FEEDERS
    /\ consensus_threshold \in 1..MAX_FEEDERS
    /\ match_results \in [MatchIds -> Entries \cup {NoEntry}]

Init ==
    /\ admin = FirstAdmin
    /\ admins = {FirstAdmin}
    /\ pending_admin = Nobody
    /\ operators = {}
    /\ authorized_feeders = {}
    /\ consensus_threshold = DEFAULT_CONSENSUS_THRESHOLD
    /\ match_results = [m \in MatchIds |-> NoEntry]

----------------------------------------------------------------------------
(* Reading the state *)

\* OracleResultStatus is Finalized exactly when there is a final_result.
Finalized(m) ==
    match_results[m] # NoEntry /\ match_results[m].final_result # NoResult

EmptyEntry == [submissions |-> <<>>, final_result |-> NoResult]

----------------------------------------------------------------------------
(* Roles *)

ProposeAdmin(caller, new) ==
    /\ caller \in admins
    /\ pending_admin' = new
    /\ UNCHANGED <<admin, admins, operators, feederVars, match_results>>

AcceptAdmin(caller) ==
    /\ caller = pending_admin
    /\ admin' = caller
    /\ admins' = admins \cup {caller}
    /\ pending_admin' = Nobody
    /\ UNCHANGED <<operators, feederVars, match_results>>

AddAdmin(caller, new) ==
    /\ caller \in admins
    /\ admins' = admins \cup {new}
    /\ UNCHANGED <<admin, pending_admin, operators, feederVars, match_results>>

\* The model keeps no order of admins: any may become the first of the rest.
RemoveAdmin(caller, removed) ==
    /\ caller \in admins
    /\ Cardinality(admins) > 1
    /\ removed \in admins
    /\ admins' = admins \ {removed}
    /\ IF admin = removed THEN admin' \in admins' ELSE admin' = admin
    /\ UNCHANGED <<pending_admin, operators, feederVars, match_results>>

AddOperator(caller, new) ==
    /\ caller \in admins
    /\ new \notin operators
    /\ operators' = operators \cup {new}
    /\ UNCHANGED <<admin, admins, pending_admin, feederVars, match_results>>

RemoveOperator(caller, operator) ==
    /\ caller \in admins
    /\ operator \in operators
    /\ operators' = operators \ {operator}
    /\ UNCHANGED <<admin, admins, pending_admin, feederVars, match_results>>

----------------------------------------------------------------------------
(* Feeders and the threshold *)

AuthorizeFeeder_Bug(caller, feeder) ==
    /\ caller \in admins
    /\ feeder \notin authorized_feeders
    /\ Cardinality(authorized_feeders) <= MAX_FEEDERS
    /\ authorized_feeders' = authorized_feeders \cup {feeder}
    /\ UNCHANGED <<roleVars, consensus_threshold, match_results>>

\* set_feeder_authorized(feeder, true); for an active feeder it is a stutter.
AuthorizeFeeder(caller, feeder) ==
    /\ caller \in admins
    /\ feeder \notin authorized_feeders
    /\ Cardinality(authorized_feeders) < MAX_FEEDERS
    /\ authorized_feeders' = authorized_feeders \cup {feeder}
    /\ UNCHANGED <<roleVars, consensus_threshold, match_results>>

\* set_feeder_authorized(feeder, false).  Submissions made stay in place.
RevokeFeeder(caller, feeder) ==
    /\ caller \in admins
    /\ authorized_feeders' = authorized_feeders \ {feeder}
    /\ UNCHANGED <<roleVars, consensus_threshold, match_results>>

SetConsensusThreshold(caller, threshold) ==
    /\ caller \in admins
    /\ threshold \in 1..MAX_FEEDERS
    /\ consensus_threshold' = threshold
    /\ UNCHANGED <<roleVars, authorized_feeders, match_results>>

----------------------------------------------------------------------------
(* Matches and results *)

RegisterMatch(caller, m) ==
    /\ caller \in admins \cup operators
    /\ match_results[m] = NoEntry
    /\ match_results' = [match_results EXCEPT ![m] = EmptyEntry]
    /\ UNCHANGED <<roleVars, feederVars>>

\* Registers the match when it has to.
ForceFinalizeResult(caller, m, result) ==
    /\ caller \in admins \cup operators
    /\ ~Finalized(m)
    /\ LET entry == IF match_results[m] = NoEntry THEN EmptyEntry
                    ELSE match_results[m]
       IN match_results' = [match_results EXCEPT ![m] =
                               [entry EXCEPT !.final_result = result]]
    /\ UNCHANGED <<roleVars, feederVars>>

CancelResult_Bug(caller, m) ==
    /\ caller \in admins
    /\ match_results[m] # NoEntry
    /\ match_results' = [match_results EXCEPT ![m] = EmptyEntry]
    /\ UNCHANGED <<roleVars, feederVars>>

CancelResult(caller, m) ==
    /\ caller \in admins
    /\ match_results[m] # NoEntry /\ ~Finalized(m)
    /\ match_results' = [match_results EXCEPT ![m] = EmptyEntry]
    /\ UNCHANGED <<roleVars, feederVars>>

Backing_Bug(subs, active, result) ==
    Cardinality({i \in DOMAIN subs : subs[i].result = result})

\* How many submissions of active feeders agree on the result.
Backing(subs, active, result) ==
    Cardinality({i \in DOMAIN subs : /\ subs[i].feeder \in active
                                     /\ subs[i].result = result})

\* find_consensus takes submission i: the earliest of those best backed.
Leads(subs, active, i) ==
    /\ subs[i].feeder \in active
    /\ \A j \in DOMAIN subs : subs[j].feeder \in active =>
          LET mine == Backing(subs, active, subs[i].result)
              its == Backing(subs, active, subs[j].result)
          IN its <= mine /\ (j < i => its < mine)

SubmitResult(feeder, m, result) ==
    /\ feeder \in authorized_feeders
    /\ feeder \notin Faulty => result = Truth[m]
    /\ match_results[m] # NoEntry /\ ~Finalized(m)
    /\ \A i \in DOMAIN match_results[m].submissions :
          match_results[m].submissions[i].feeder # feeder
    /\ LET subs == Append(match_results[m].submissions,
                          [feeder |-> feeder, result |-> result])
       IN \E i \in DOMAIN subs :
            /\ Leads(subs, authorized_feeders, i)
            /\ match_results' = [match_results EXCEPT ![m] =
                  [submissions |-> subs,
                   final_result |->
                     IF Backing(subs, authorized_feeders, subs[i].result)
                          >= consensus_threshold
                     THEN subs[i].result ELSE NoResult]]
    /\ UNCHANGED <<roleVars, feederVars>>

----------------------------------------------------------------------------
ManageRoles ==
    \E caller \in Accounts :
        \/ AcceptAdmin(caller)
        \/ \E a \in Accounts :
            \/ ProposeAdmin(caller, a)
            \/ AddAdmin(caller, a) \/ RemoveAdmin(caller, a)
            \/ AddOperator(caller, a) \/ RemoveOperator(caller, a)

ManageFeeders ==
    \E caller \in Accounts :
        \/ \E f \in Feeders : AuthorizeFeeder(caller, f) \/ RevokeFeeder(caller, f)
        \/ \E t \in 0..MAX_FEEDERS + 1 : SetConsensusThreshold(caller, t)

ManageResults ==
    \E caller \in Accounts, m \in MatchIds :
        \/ RegisterMatch(caller, m)
        \/ CancelResult(caller, m)
        \/ \E r \in Results : ForceFinalizeResult(caller, m, r)

Next ==
    \/ ManageRoles
    \/ ManageFeeders
    \/ ManageResults
    \/ \E f \in Feeders, m \in MatchIds, r \in Results : SubmitResult(f, m, r)

Spec == Init /\ [][Next]_vars

----------------------------------------------------------------------------
(* Properties *)

\* The step finalizes m by a submission, not by force.
Agreed(m) ==
    /\ ~Finalized(m) /\ Finalized(m)'
    /\ match_results[m] # NoEntry
    /\ match_results'[m].submissions # match_results[m].submissions

(* A consensus is what was played whenever fewer faulty feeders than the   *)
(* threshold are authorized when it is reached, whoever was authorized,    *)
(* voted, was revoked or came back before, and whatever the threshold was. *)
ConsensusIsTrue ==
    [][\A m \in MatchIds :
         /\ Agreed(m)
         /\ Cardinality(authorized_feeders \cap Faulty) < consensus_threshold
         => match_results'[m].final_result = Truth[m]]_vars

(* What BolaoCore or the oracle-server read as final stays as they read    *)
(* it: no cancellation, force or late submission touches it.               *)
FinalResultsStay ==
    [][\A m \in MatchIds : Finalized(m) => match_results'[m] = match_results[m]]_vars
=============================================================================
