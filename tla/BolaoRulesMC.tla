---------------------------- MODULE BolaoRulesMC ----------------------------
(* The pure rules over small inputs; wallets are interchangeable. *)
EXTENDS BolaoRulesCases, TLC

Perms == Permutations(Wallets)
=============================================================================
