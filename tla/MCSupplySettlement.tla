------------------------- MODULE MCSupplySettlement -------------------------
(* Small instances of SupplySettlement. *)
EXTENDS SupplySettlement, TLC

RequestSymmetry == Permutations(Rewards) \cup Permutations(Withdrawals)
=============================================================================
