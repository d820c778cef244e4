-------------------------------- MODULE Sums --------------------------------
(***************************************************************************)
(* Sums of functions over finite sets.  The balances, pools and stakes of  *)
(* the other modules are added up with SumOver only; SumsProofs proves the *)
(* facts about it that their proofs need.                                  *)
(***************************************************************************)
EXTENDS Integers, FiniteSets, FiniteSetsExt

\* f[x] added up over the elements x of S.
SumOver(f, S) == MapThenSumSet(LAMBDA x : f[x], S)
=============================================================================
