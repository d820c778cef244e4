----------------------------- MODULE BolaoCoreMC -----------------------------
(* Instances of the whole program and its index, in a small tournament. *)
EXTENDS Indexer, TLC

Result(home, away, pen) ==
    [score |-> [home |-> home, away |-> away], penalty_winner |-> pen]

HomeOrAway == {Result(1, 0, "None"), Result(0, 1, "None")}
HomeWin == {Result(1, 0, "None")}

Podium(a, b, c) == [champion |-> a, runner_up |-> b, third_place |-> c]
OnePodium == {Podium("brazil", "japan", "mexico")}
TwoPodiums == OnePodium \cup {Podium("brazil", "mexico", "japan")}

Perms ==
    Permutations(Users) \cup Permutations(Oracles) \cup Permutations(Accounts \ {Deployer})

(***************************************************************************)
(* Every instance takes part of the program's life:                        *)
(*   office      roles, trust, price and the migration lock, no matches;   *)
(*   tournament  two matches and the podium, nobody withdraws or migrates; *)
(*   treasury    one match and the podium, with withdrawals and the lock;  *)
(*   freebets    one match with bets from the ledger, and withdrawals;     *)
(*   index       one match and the podium, followed by the indexer.        *)
(***************************************************************************)
CONSTANT Scenarios

VARIABLE scenario

TimesOf == [office     |-> {0, 3600000, 3600001},
            tournament |-> {0, 1000000, 1120000},
            treasury   |-> {0, 1000000, 1120000, 1240000},
            freebets   |-> {0, 1000000, 1120000},
            index      |-> {0, 1000000, 1120000}]

MatchesOf ==
    [office |-> 0, tournament |-> 2, treasury |-> 1, freebets |-> 1, index |-> 1]

Environment ==
    \/ Tick
    \/ /\ authorized_oracles = {}
       /\ \E oracle \in Oracles : SetOracleAuthorized(Deployer, oracle, TRUE)
    \/ scenario = "freebets" /\ \E l \in Ledgers : SetFreebetLedger(Deployer, l)

TournamentNext ==
    \/ MatchesStep /\ UNCHANGED coreVars
    \/ PrizeStep
    \/ Environment /\ UNCHANGED <<matchesVars, coreVars>>

TreasuryNext ==
    \/ TournamentNext
    \/ WithdrawStep
    \/ LockForMigration(Deployer) /\ UNCHANGED <<matchesVars, coreVars>>

FreebetsNext ==
    \/ MatchesStep /\ UNCHANGED coreVars
    \/ WithdrawStep
    \/ Environment /\ UNCHANGED <<matchesVars, coreVars>>

MCInit ==
    /\ Init /\ IndexInit
    /\ scenario \in Scenarios
    /\ scenario = "office" \/ migration_sealed

MCNext ==
    /\ \/ scenario = "index" /\ IndexNext
       \/ /\ UNCHANGED indexVars
          /\ \/ scenario = "office" /\ AdminNext /\ UNCHANGED <<matchesVars, coreVars>>
             \/ scenario = "tournament" /\ TournamentNext
             \/ scenario = "treasury" /\ TreasuryNext
             \/ scenario = "freebets" /\ FreebetsNext
    /\ now' \in TimesOf[scenario] /\ next_match_id' <= MatchesOf[scenario]
    /\ UNCHANGED scenario

MCSpec == MCInit /\ [][MCNext]_<<vars, indexVars, scenario>>

(* Indexer!TablesFollowTheChain, where there is an indexer.                *)
IndexFollowsTheChain == scenario = "index" => TablesFollowTheChain
=============================================================================
