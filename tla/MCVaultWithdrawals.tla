--------------------------- MODULE MCVaultWithdrawals ---------------------------
(* The vault on a few users, tickets and seconds. *)
EXTENDS VaultWithdrawals, TLC

Symmetry == Permutations(Users) \cup Permutations(Slots)
=============================================================================
