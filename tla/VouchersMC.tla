----------------------------- MODULE VouchersMC -----------------------------
(* The vouchers with their bounds (VouchersMC.cfg).                        *)
EXTENDS Vouchers, TLC

Perms == Permutations(Slots)
=============================================================================
