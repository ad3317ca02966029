------------------------- MODULE MCStrategyExecution -------------------------
(* One owner with a unit of base of his own and two units of quote. *)
EXTENDS StrategyExecution, TLC

CONSTANTS s1, owner, base, quote, r1

MCFunds == (owner :> ((base :> 1) @@ (quote :> 2)))
MCPayouts == 1 .. 2
=============================================================================
