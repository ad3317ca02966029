---------------------------- MODULE StrategyRepair ----------------------------
(***************************************************************************)
(* The repairs by rule that the strategy agent tries on an invalid draft.  *)
(*                                                                         *)
(* One fix is tried per issue, in their order, each on what the last one   *)
(* left.  A fix is told what an issue is about, not where it is: those of  *)
(* operands change the first operand that looks as if it were the one.     *)
(***************************************************************************)
EXTENDS StrategyRules

DefaultParams(kind) ==
    [name \in DOMAIN Catalog[kind].params |-> Catalog[kind].params[name].default]
DefaultOutput(kind) ==
    CASE kind = "macd" -> "line"
      [] kind = "bollinger" -> "middle"
      [] kind = "stoch" -> "k"
      [] kind = "candle_direction" -> "direction"
      [] OTHER -> "value"

\* What a fix leaves, and whether it says that it has fixed something.
Fix(strategy, success) == [strategy |-> strategy, success |-> success]

\* The operands in the order in which the fixes look at them.
Indexes(list) == [n \in DOMAIN list |-> n]
Places(strategy) ==
    LET groups == strategy.groups
        ofGroup(k, g) == Each(LAMBDA r : <<<<k, g, r, 1>>, <<k, g, r, 2>>>>,
                              Indexes(groups[k][g]))
        ofGroups(k) == Each(LAMBDA g : ofGroup(k, g), Indexes(groups[k]))
    IN  Each(ofGroups, <<1, 2, 3, 4>>)

RuleAt(strategy, place) == strategy.groups[place[1]][place[2]][place[3]]

\* The first operand that is of a kind becomes another; none is a failure.
FixFirst(strategy, IsFaulty(_), Fixed(_)) ==
    LET first == SelectInSeq(Places(strategy), LAMBDA place :
                     IsFaulty(RuleAt(strategy, place).operands[place[4]]))
    IN  IF first = 0 THEN Fix(strategy, FALSE)
        ELSE LET at == Places(strategy)[first]
             IN  Fix([strategy EXCEPT
                         !.groups[at[1]][at[2]][at[3]].operands[at[4]] = Fixed(@)], TRUE)

IsIndicator(operand) == operand.type = "indicator_output"

\* A side without rules gets an EMA crossover upwards, the short side too.
FixMissingEntryRules(strategy, side) ==
    LET k == EntryOf[side]
        cross == <<EmaCross("crosses_above")>>
        groups == strategy.groups[k]
    IN  Fix([strategy EXCEPT
                !.groups[k] = IF groups = <<>> THEN <<cross>>
                              ELSE IF groups[1] = <<>> THEN [groups EXCEPT ![1] = cross]
                              ELSE groups], TRUE)

WithDefault(operand, name) ==
    [operand EXCEPT !.params =
        [other \in DOMAIN @ \cup {name} |->
            IF other = name THEN DefaultParams(operand.indicator)[name] ELSE @[other]]]

\* The first indicator that has such a parameter gets its default, lacking or not.
FixMissingParam(strategy, name) ==
    FixFirst(strategy,
             LAMBDA operand : /\ IsIndicator(operand)
                              /\ operand.indicator \in DOMAIN Catalog
                              /\ name \in DOMAIN Catalog[operand.indicator].params,
             LAMBDA operand : WithDefault(operand, name))

\* One range per parameter, whatever the indicator.
LowestParam(name) == IF name = "stdDev" THEN 1 ELSE 10
HighestParam(name) == CASE name \in {"fastPeriod", "slowPeriod", "signalPeriod"} -> 2000
                        [] name = "stdDev" -> 100
                        [] OTHER -> 4000

Clamped(operand, name) ==
    [operand EXCEPT !.params[name] =
        IF @ < LowestParam(name) THEN LowestParam(name) ELSE HighestParam(name)]

FixParam(strategy, name) ==
    FixFirst(strategy,
             LAMBDA operand : /\ IsIndicator(operand)
                              /\ name \in DOMAIN operand.params
                              /\ operand.params[name]
                                     \notin LowestParam(name) .. HighestParam(name),
             LAMBDA operand : Clamped(operand, name))

\* Mutant: the parameters of the unknown indicator stay.
MutReplaced(operand) ==
    [operand EXCEPT !.indicator = "ema", !.output = DefaultOutput("ema")]

\* An unknown indicator becomes an EMA with its default parameters.
Replaced(operand) ==
    [operand EXCEPT !.indicator = "ema", !.output = DefaultOutput("ema"),
                    !.params = DefaultParams("ema"), !.source = "close"]

FixIndicator(strategy, kind) ==
    FixFirst(strategy,
             LAMBDA operand : IsIndicator(operand) /\ operand.indicator = kind,
             Replaced)

FixOutput(strategy, kind, output) ==
    FixFirst(strategy,
             LAMBDA operand : IsIndicator(operand) /\ operand.indicator = kind
                              /\ operand.output = output,
             LAMBDA operand : [operand EXCEPT !.output = DefaultOutput(kind)])

\* The fields the agent knows are fewer than the matcher's.
FixPriceField(strategy) ==
    FixFirst(strategy,
             LAMBDA operand : operand.type = "price_field" /\ operand.field
                                  \notin {"open", "high", "low", "close", "volume"},
             LAMBDA operand : [operand EXCEPT !.field = "close"])

FixOperator(strategy, operator) ==
    LET first == SelectInSeq(Places(strategy), LAMBDA place :
                     RuleAt(strategy, place).operator = operator)
    IN  IF first = 0 THEN Fix(strategy, FALSE)
        ELSE LET at == Places(strategy)[first]
             IN  Fix([strategy EXCEPT !.groups[at[1]][at[2]][at[3]].operator =
                         "crosses_above"], TRUE)

FixSizing(strategy) ==
    LET size == strategy.sizing
        quarter == [mode |-> "percent_of_equity", value |-> 25]
        wrong == size.value <= 0 \/ (size.mode = "percent_of_equity" /\ size.value > 100)
    IN  Fix(IF wrong THEN [strategy EXCEPT !.sizing = quarter] ELSE strategy, wrong)

\* All that is wrong with the costs is fixed at once, so the second fix of two
\* issues of the costs finds nothing and fails.
FixCosts(strategy) ==
    LET fixed == [feeBps |-> IF strategy.costs.feeBps < 0 THEN 10 ELSE strategy.costs.feeBps,
                  slippageBps |-> IF strategy.costs.slippageBps < 0 THEN 5
                                  ELSE strategy.costs.slippageBps,
                  startingEquity |-> IF strategy.costs.startingEquity <= 0 THEN 10000
                                     ELSE strategy.costs.startingEquity]
    IN  Fix([strategy EXCEPT !.costs = fixed], fixed # strategy.costs)

FixRisk(strategy, key) ==
    Fix([strategy EXCEPT !.risk[key] = EmptyDraft.risk[key]], TRUE)

\* The market of the run, if it has one.
FixMarket(strategy, market) ==
    IF market = "none" THEN Fix(strategy, FALSE)
    ELSE Fix([strategy EXCEPT !.market = market], TRUE)

FixTooManyGroups(strategy, k) ==
    IF Len(strategy.groups[k]) > MaxRuleGroupsPerSide
    THEN Fix([strategy EXCEPT !.groups[k] = SubSeq(@, 1, MaxRuleGroupsPerSide)], TRUE)
    ELSE Fix(strategy, FALSE)

\* Mutant: the same operator again.
MutInvertOperator(operator) == operator

InvertOperator(operator) ==
    IF operator = "crosses_above" THEN "crosses_below" ELSE "crosses_above"

\* Short rules that equal the long ones in their place, and can be inverted, are.
FixAmbiguousEntries(strategy) ==
    LET long == strategy.groups[1]
        short == strategy.groups[2]
        same(g, r) == /\ g \in DOMAIN long
                      /\ Len(long[g]) = Len(short[g])
                      /\ long[g][r] = short[g][r]
                      /\ short[g][r].operator \in {"crosses_above", "crosses_below"}
    IN  Fix([strategy EXCEPT !.groups[2] = [g \in DOMAIN short |-> [r \in DOMAIN short[g] |->
                IF same(g, r)
                THEN [short[g][r] EXCEPT !.operator = InvertOperator(@)]
                ELSE short[g][r]]]],
            \E g \in DOMAIN short : \E r \in DOMAIN short[g] : same(g, r))

\* The rest has no fix: neither has a group with too many rules, whose number the
\* fix looks for in the wrong part of the issue's path.
FixIssue(strategy, issue, market) ==
    CASE issue.code = "missing_entry_rules" -> FixMissingEntryRules(strategy, issue.about)
      [] issue.code = "missing_indicator_param" -> FixMissingParam(strategy, issue.about)
      [] issue.code \in {"indicator_param_low", "indicator_param_high"} ->
             FixParam(strategy, issue.about)
      [] issue.code = "invalid_indicator" -> FixIndicator(strategy, issue.about)
      [] issue.code = "invalid_indicator_output" ->
             FixOutput(strategy, issue.about[1], issue.about[2])
      [] issue.code = "invalid_operator" -> FixOperator(strategy, issue.about)
      [] issue.code \in {"invalid_sizing", "percent_above_limit"} -> FixSizing(strategy)
      [] issue.code \in {"invalid_costs", "invalid_starting_equity"} -> FixCosts(strategy)
      [] issue.code = "invalid_risk" -> FixRisk(strategy, issue.about)
      [] issue.code = "invalid_timeframe" -> Fix([strategy EXCEPT !.timeframe = "15m"], TRUE)
      [] issue.code = "invalid_market" -> FixMarket(strategy, market)
      [] issue.code = "too_many_groups" -> FixTooManyGroups(strategy, issue.about)
      [] issue.code = "invalid_price_field" -> FixPriceField(strategy)
      [] issue.code = "missing_side" ->
             Fix([strategy EXCEPT !.sides = {"long", "short"}], TRUE)
      [] issue.code = "ambiguous_dual_side_entries" -> FixAmbiguousEntries(strategy)
      [] OTHER -> Fix(strategy, FALSE)

\* After one fix more; the choice is from one, and has TLC evaluate the fix once.
AfterFix(result, issue, market) ==
    CHOOSE next \in {[strategy |-> fix.strategy, all |-> result.all /\ fix.success,
                      some |-> result.some \/ fix.success] :
                         fix \in {FixIssue(result.strategy, issue, market)}} : TRUE

\* attemptValidationRepair: every issue once, and which of the fixes succeeded.
Repair(strategy, market) ==
    LET issues == Issues(strategy)
        after[n \in 0 .. Len(issues)] ==
            IF n = 0 THEN [strategy |-> strategy, all |-> TRUE, some |-> FALSE]
            ELSE CHOOSE next \in {AfterFix(last, issues[n], market) :
                                      last \in {after[n - 1]}} : TRUE
    IN  after[Len(issues)]

===============================================================================
