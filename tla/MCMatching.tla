----------------------------- MODULE MCMatching -----------------------------
(* Matching with two traders, a base unit of two atoms, so that most        *)
(* divisions truncate, and prices inside and outside the band of the        *)
(* reference price.                                                         *)
EXTENDS Matching

MCFunds == [u \in Users |-> [t \in Tokens |-> IF t = Quote THEN 6 ELSE 3]]
MCQuantities == {1, 3}
MCPrices == {1, 3}
MCRefPrices == {0, 1}
=============================================================================
