--------------------------- MODULE MCLiquidityRouter ---------------------------
(* The router on one routed market, cINIT/cUSDC, whose quote inventory drifts *)
(* when an instant swap takes from it.                                        *)
EXTENDS LiquidityRouter

CONSTANTS base, quote

MCFunds == [u \in Users |-> [t \in Tokens |-> IF t = base THEN 3 ELSE 2]]
MCBootstrap == [t \in Tokens |-> IF t = base THEN 2 ELSE 3]
MCPolicy == [t \in Tokens |->
                IF t = quote THEN [min |-> 1, target |-> 2, max |-> 9]
                             ELSE [min |-> 0, target |-> 2, max |-> 9]]
=============================================================================
