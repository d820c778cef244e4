--------------------------- MODULE BolaoMatchesMC ---------------------------
(* Instances of the betting and settlement handlers. *)
EXTENDS BolaoMatches, TLC

Result(home, away, pen) ==
    [score |-> [home |-> home, away |-> away], penalty_winner |-> pen]

\* A right and a wrong outcome, in the group stage and in a knockout.
SomeGuesses == {Result(1, 0, "None"), Result(1, 1, "Home"), Result(0, 1, "None")}
SomeReports == {Result(1, 0, "None"), Result(1, 1, "Home")}

Perms == Permutations(Users) \cup Permutations(QuerySlots) \cup Permutations(ReturnSlots)

(* The configuration that interferes with betting: the clock, the oracles, *)
(* the ledger and the lock.  The roles and the price have a run of their   *)
(* own; here the deployer is the only admin and the price is unset.        *)
Environment ==
    \/ Tick
    \/ \E oracle \in Oracles, authorized \in BOOLEAN :
          SetOracleAuthorized(Deployer, oracle, authorized)
    \/ \E l \in Ledgers \cup {Nobody} : SetFreebetLedger(Deployer, l)
    \/ LockStep

MCNext == MatchesStep \/ (Environment /\ UNCHANGED matchesVars)

MCInit == AdminInit /\ MatchesInit

MCSpec == MCInit /\ [][MCNext]_allMatchesVars
=============================================================================
