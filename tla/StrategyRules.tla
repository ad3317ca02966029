---------------------------- MODULE StrategyRules ----------------------------
(***************************************************************************)
(* Strategies of rules, as the matcher normalizes and validates them.      *)
(*                                                                         *)
(* A side is entered, or left, when all rules of one of its groups hold,   *)
(* and a rule compares two operands.  Identifiers are left out.  A         *)
(* normalized strategy has numbers where numbers belong; it always has a   *)
(* name, and its owner is the caller, or it would not have been stored.    *)
(* Numeric parameters are in tenths.                                       *)
(***************************************************************************)
EXTENDS Integers, Sequences, SequencesExt

CONSTANTS
    MaxRuleGroupsPerSide,   \* 5 in the code
    MaxRulesPerGroup        \* 8 in the code

ASSUME RuleLimits == MaxRuleGroupsPerSide \in Nat \ {0} /\ MaxRulesPerGroup \in Nat \ {0}

MaxIndicatorLookback == 400

Timeframes == {"1m", "5m", "15m", "1h", "4h", "1d"}
Operators == {">", ">=", "<", "<=", "==", "!=", "crosses_above", "crosses_below"}
PriceFields == {"open", "high", "low", "close", "volume", "hl2", "hlc3", "ohlc4"}
RiskKeys == <<"stopLossPct", "takeProfitPct", "trailingStopPct", "maxBarsInTrade">>
ParamNames == <<"period", "fastPeriod", "slowPeriod", "signalPeriod", "smoothK",
                "smoothD", "stdDev", "lookback">>

Whole(default, max) == [default |-> 10 * default, min |-> 10, max |-> 10 * max]
Entry(outputs, params, sourced) ==
    [outputs |-> outputs, params |-> params, sourced |-> sourced]

Catalog ==
    [sma |-> Entry({"value"}, [period |-> Whole(20, 400)], TRUE),
     ema |-> Entry({"value"}, [period |-> Whole(20, 400)], TRUE),
     rsi |-> Entry({"value"}, [period |-> Whole(14, 200)], TRUE),
     macd |-> Entry({"line", "signal", "histogram"},
                    [fastPeriod |-> Whole(12, 200), slowPeriod |-> Whole(26, 200),
                     signalPeriod |-> Whole(9, 200)], TRUE),
     bollinger |-> Entry({"upper", "middle", "lower"},
                         [period |-> Whole(20, 200),
                          stdDev |-> [default |-> 20, min |-> 1, max |-> 100]], TRUE),
     atr |-> Entry({"value"}, [period |-> Whole(14, 200)], FALSE),
     roc |-> Entry({"value"}, [period |-> Whole(9, 200)], TRUE),
     stoch |-> Entry({"k", "d"},
                     [period |-> Whole(14, 200), smoothK |-> Whole(3, 50),
                      smoothD |-> Whole(3, 50)], FALSE),
     vwap |-> Entry({"value"}, <<>>, FALSE),
     rolling_high |-> Entry({"value"}, [lookback |-> Whole(20, 400)], FALSE),
     rolling_low |-> Entry({"value"}, [lookback |-> Whole(20, 400)], FALSE),
     candle_body_pct |-> Entry({"value"}, <<>>, FALSE),
     candle_direction |-> Entry({"direction"}, <<>>, FALSE)]

-----------------------------------------------------------------------------
(* Operands, rules and strategies. *)

Constant(value) == [type |-> "constant", value |-> value]
Price(field) == [type |-> "price_field", field |-> field, barsAgo |-> 0]
Indicator(kind, output, params) ==
    [type |-> "indicator_output", indicator |-> kind, output |-> output,
     params |-> params, source |-> "none", barsAgo |-> 0]
Ema(period) == Indicator("ema", "value", [period |-> 10 * period])

Rule(left, operator, right) == [operator |-> operator, operands |-> <<left, right>>]
EmaCross(operator) == Rule(Ema(9), operator, Ema(21))

\* What normalization makes of any operand or rule.
IsOperand(o) ==
    \/ o \in [type : {"constant"}, value : Int]
    \/ o \in [type : {"price_field"}, field : STRING, barsAgo : Int]
    \/ /\ o \in [type : {"indicator_output"}, indicator : STRING, output : STRING,
                 params : [DOMAIN o.params -> Int], source : STRING, barsAgo : Int]
       /\ DOMAIN o.params \subseteq ToSet(ParamNames)
IsRule(rule) ==
    /\ rule \in [operator : STRING, operands : [1 .. 2 -> ToSet(rule.operands)]]
    /\ \A o \in 1 .. 2 : IsOperand(rule.operands[o])

\* The groups of a strategy: to enter long, enter short, leave long, leave short.
EntryOf == [long |-> 1, short |-> 2]
ExitOf == [long |-> 3, short |-> 4]

\* What normalization makes of any strategy.
RulesIn(s) ==
    UNION {UNION {ToSet(s.groups[k][g]) : g \in DOMAIN s.groups[k]} : k \in 1 .. 4}
IsDefinition(s) ==
    /\ s \in [market : STRING, timeframe : STRING, sides : SUBSET {"long", "short"},
              groups : [1 .. 4 -> Seq(Seq(RulesIn(s)))],
              sizing : [mode : {"percent_of_equity", "fixed_quote_notional"}, value : Int],
              risk : [DOMAIN s.risk -> Int],
              costs : [feeBps : Int, slippageBps : Int, startingEquity : Int],
              engine : {"none", "sound", "broken"}]
    /\ DOMAIN s.risk \subseteq ToSet(RiskKeys)
    /\ \A rule \in RulesIn(s) : IsRule(rule)

\* A new draft: both sides enabled, with one empty group for each purpose.
EmptyDraft ==
    [market |-> "known", timeframe |-> "15m", sides |-> {"long", "short"},
     groups |-> [k \in 1 .. 4 |-> <<<<>>>>],
     sizing |-> [mode |-> "percent_of_equity", value |-> 25],
     risk |-> [stopLossPct |-> 2, takeProfitPct |-> 4, trailingStopPct |-> 1,
               maxBarsInTrade |-> 40],
     costs |-> [feeBps |-> 10, slippageBps |-> 5, startingEquity |-> 10000],
     engine |-> "none"]

LongOnly(entry, exit) ==
    [EmptyDraft EXCEPT !.sides = {"long"},
                       !.groups = <<<<<<entry>>>>, <<>>, <<<<exit>>>>, <<>>>>]
BothSides(rules) == [EmptyDraft EXCEPT !.groups = [k \in 1 .. 4 |-> <<<<rules[k]>>>>]]

Templates ==
    LET rsi == Indicator("rsi", "value", [period |-> 140])
        band(output) == Indicator("bollinger", output,
                                  [period |-> 200, stdDev |-> 20])
        extreme(kind) == Indicator(kind, "value", [lookback |-> 200])
    IN  {BothSides(<<EmaCross("crosses_above"), EmaCross("crosses_below"),
                     EmaCross("crosses_below"), EmaCross("crosses_above")>>),
         LongOnly(Rule(rsi, "<=", Constant(30)), Rule(rsi, ">=", Constant(55))),
         BothSides(<<Rule(Price("close"), "crosses_above", extreme("rolling_high")),
                     Rule(Price("close"), "crosses_below", extreme("rolling_low")),
                     Rule(Price("close"), "<=", Ema(10)),
                     Rule(Price("close"), ">=", Ema(10))>>),
         LongOnly(Rule(Price("close"), "<=", band("lower")),
                  Rule(Price("close"), ">=", band("middle")))}

-----------------------------------------------------------------------------
(* Validation: a sequence of issues, each with what its fix is told. *)

When(condition, code, about) ==
    IF condition THEN <<[code |-> code, about |-> about]>> ELSE <<>>

\* The first n of some sequences, as one.
Joined(parts, n) ==
    LET first[k \in 0 .. n] == IF k = 0 THEN <<>> ELSE first[k - 1] \o parts[k]
    IN  first[n]

\* What there is of the members of a sequence, one after another.
Each(Of(_), members) == Joined([n \in DOMAIN members |-> Of(members[n])], Len(members))

ParamIssues(operand, name) ==
    IF name \notin DOMAIN Catalog[operand.indicator].params THEN <<>>
    ELSE IF name \notin DOMAIN operand.params
    THEN When(TRUE, "missing_indicator_param", name)
    ELSE LET param == Catalog[operand.indicator].params[name]
             value == operand.params[name]
         IN
         When(name # "stdDev" /\ value % 10 # 0, "indicator_param_not_integer", name)
         \o When(value < param.min, "indicator_param_low", name)
         \o When(value > param.max, "indicator_param_high", name)

IndicatorIssues(operand) ==
    IF operand.indicator \notin DOMAIN Catalog
    THEN When(TRUE, "invalid_indicator", operand.indicator)
    ELSE LET known == Catalog[operand.indicator]
         IN  When(operand.output \notin known.outputs, "invalid_indicator_output",
                  <<operand.indicator, operand.output>>)
             \o Each(LAMBDA name : ParamIssues(operand, name), ParamNames)
             \o When(known.sourced /\ operand.source \notin PriceFields \cup {"none"},
                     "invalid_indicator_source", "source")

OperandIssues(operand) ==
    IF operand.type = "constant" THEN <<>>
    ELSE When(operand.barsAgo < 0, "invalid_bars_ago", "barsAgo")
         \o When(operand.barsAgo > MaxIndicatorLookback, "bars_ago_above_limit", "barsAgo")
         \o IF operand.type = "price_field"
            THEN When(operand.field \notin PriceFields, "invalid_price_field", "field")
            ELSE IndicatorIssues(operand)

RuleIssues(rule) ==
    When(rule.operator \notin Operators, "invalid_operator", rule.operator)
    \o Each(OperandIssues, rule.operands)

GroupIssues(rules) ==
    When(Len(rules) > MaxRulesPerGroup, "too_many_rules", "rules")
    \o Each(RuleIssues, rules)

\* The groups for one purpose.
GroupsIssues(strategy, k) ==
    When(Len(strategy.groups[k]) > MaxRuleGroupsPerSide, "too_many_groups", k)
    \o Each(GroupIssues, strategy.groups[k])

IsEmpty(groups) == \A g \in DOMAIN groups : groups[g] = <<>>

\* What triggers: the rules of the engine's source, or else those of the groups,
\* which must be there and must not be the same for both sides.
TriggerIssues(strategy) ==
    IF strategy.engine # "none"
    THEN When(strategy.engine = "broken", "invalid_strategy_engine", "engine")
    ELSE Each(LAMBDA side : When(side \in strategy.sides
                                 /\ IsEmpty(strategy.groups[EntryOf[side]]),
                                 "missing_entry_rules", side),
              <<"long", "short">>)
         \o When(strategy.sides = {"long", "short"}
                 /\ strategy.groups[1] = strategy.groups[2],
                 "ambiguous_dual_side_entries", "short")

SettingIssues(strategy) ==
    LET size == strategy.sizing
        costs == strategy.costs
    IN  When(strategy.market # "known", "invalid_market", "marketId")
        \o When(strategy.timeframe \notin Timeframes, "invalid_timeframe", "timeframe")
        \o When(strategy.sides = {}, "missing_side", "enabledSides")
        \o When(size.value <= 0, "invalid_sizing", "sizing")
        \o When(size.mode = "percent_of_equity" /\ size.value > 100,
                "percent_above_limit", "sizing")
        \o When(costs.startingEquity <= 0, "invalid_starting_equity", "costs")
        \o When(costs.feeBps < 0 \/ costs.slippageBps < 0, "invalid_costs", "costs")
        \o Each(LAMBDA key : When(key \in DOMAIN strategy.risk
                                  /\ strategy.risk[key] <= 0, "invalid_risk", key),
                RiskKeys)

\* validateStrategyDefinition
Issues(strategy) ==
    SettingIssues(strategy) \o TriggerIssues(strategy)
    \o Each(LAMBDA k : GroupsIssues(strategy, k), <<1, 2, 3, 4>>)

Valid(strategy) == Issues(strategy) = <<>>
Codes(strategy) == LET issues == Issues(strategy)
                   IN  {issues[n].code : n \in DOMAIN issues}

===============================================================================
