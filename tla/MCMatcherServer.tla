--------------------------- MODULE MCMatcherServer ---------------------------
(* One user, two requests at a time, one bridged token with a finer decimal. *)
EXTENDS MatcherServer, TLC

CONSTANTS base, quote

MCWallet == [t \in SwapTokens |-> IF t = quote THEN 1 ELSE 0]
MCCustody == [t \in SwapTokens |-> IF t = base THEN 1 ELSE 0]

Symmetry == Permutations(Slots)
=============================================================================
