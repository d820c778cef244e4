-------------------------- MODULE FreebetLedgerMC --------------------------
(* Instance of the freebet ledger. *)
EXTENDS FreebetLedger, TLC

Perms == Permutations(Users) \cup Permutations(GrantIds) \cup Permutations(SpendSlots)
=============================================================================
