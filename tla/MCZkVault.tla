------------------------------ MODULE MCZkVault ------------------------------
(* The zero-knowledge vault on a few users, deposits and moments. *)
EXTENDS ZkVault, TLC

Symmetry == Permutations(Users) \cup Permutations(Slots)
=============================================================================
