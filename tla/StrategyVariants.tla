--------------------------- MODULE StrategyVariants ---------------------------
(***************************************************************************)
(* The candidates that the strategy agent writes over a draft when it      *)
(* looks for better parameters.                                            *)
(*                                                                         *)
(* It takes a strategy for one of four kinds by its name, or else by its   *)
(* first rule, so any strategy may be taken for any kind.  The numbers are *)
(* the language model's, which may say what it likes: one period varies    *)
(* here, and the other numbers have the defaults.  Names, and the limits   *)
(* that a candidate may set, are left out.                                 *)
(***************************************************************************)
EXTENDS StrategyRules

CONSTANT Periods   \* the periods that the model proposes

\* One side is all that the user asked for: the other one's rules are dropped.
Sided(s, side) ==
    CASE side = "long" -> [s EXCEPT !.sides = {"long"}, !.groups[2] = <<>>, !.groups[4] = <<>>]
      [] side = "short" -> [s EXCEPT !.sides = {"short"}, !.groups[1] = <<>>, !.groups[3] = <<>>]
      [] side = "both" -> s

\* The first rule for a purpose, if there is one.
HasRule(s, k) == s.groups[k] # <<>> /\ s.groups[k][1] # <<>>
FirstRule(s, k) == s.groups[k][1][1]

\* Everything but market and engine is replaced.
EmaVariant(s, period) ==
    LET cross(operator) == Rule(Ema(period), operator, Ema(21))
        draft == BothSides(<<cross("crosses_above"), cross("crosses_below"),
                             cross("crosses_below"), cross("crosses_above")>>)
    IN  [draft EXCEPT !.market = s.market, !.engine = s.engine]

\* Both rules compare an indicator, which becomes the RSI.
RsiVariant(s, period) ==
    LET rsi(k) == [FirstRule(s, k).operands[1] EXCEPT
                      !.indicator = "rsi", !.output = "value", !.params = [period |-> 10 * period]]
        fits == \A k \in {1, 3} : HasRule(s, k) /\ FirstRule(s, k).operands[1].type = "indicator_output"
    IN  IF ~fits THEN s
        ELSE [Sided(s, "long") EXCEPT
                 !.timeframe = "15m",
                 !.groups[1] = <<<<Rule(rsi(1), "<=", Constant(30))>>>>,
                 !.groups[3] = <<<<Rule(rsi(3), ">=", Constant(55))>>>>]

\* The first rule for a purpose, against another operand, is the only one.
Against(s, k, right) == <<<<[FirstRule(s, k) EXCEPT !.operands[2] = right]>>>>

\* The sides stay as they are.
BreakoutVariant(s, period) ==
    LET extreme(kind) == Indicator(kind, "value", [lookback |-> 10 * period])
        right == <<extreme("rolling_high"), extreme("rolling_low"), Ema(10), Ema(10)>>
    IN  IF \E k \in 1 .. 4 : ~HasRule(s, k) THEN s
        ELSE [s EXCEPT !.timeframe = "15m",
                       !.groups = [k \in 1 .. 4 |-> Against(s, k, right[k])]]

BollingerVariant(s, period) ==
    LET band(output) == Indicator("bollinger", output, [period |-> 10 * period, stdDev |-> 20])
    IN  IF ~(HasRule(s, 1) /\ HasRule(s, 3)) THEN s
        ELSE [Sided(s, "long") EXCEPT !.timeframe = "15m",
                                      !.groups[1] = Against(s, 1, band("lower")),
                                      !.groups[3] = Against(s, 3, band("middle"))]

\* A candidate of any kind, for the sides asked for.  Only the EMA candidates can be
\* long only without the user's asking for it.
Variants(s) ==
    {Sided(variant, side) :
        variant \in UNION {{EmaVariant(s, period), Sided(EmaVariant(s, period), "long"),
                            RsiVariant(s, period), BreakoutVariant(s, period),
                            BollingerVariant(s, period)} : period \in Periods},
        side \in {"long", "short", "both"}}

===============================================================================
