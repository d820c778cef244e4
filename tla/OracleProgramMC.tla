-------------------------- MODULE OracleProgramMC --------------------------
(* One match, four feeders of which two may be wrong, three at a time. *)
EXTENDS OracleProgram, TLC

CONSTANTS r1, r2, r3

Played == [m \in MatchIds |-> r1]
Perms == Permutations(Faulty) \cup Permutations(Feeders \ Faulty)
           \cup Permutations(Results \ {r1})
=============================================================================
