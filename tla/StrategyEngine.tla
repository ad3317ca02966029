---------------------------- MODULE StrategyEngine ----------------------------
(***************************************************************************)
(* A draft on its way through tuning, validation, repair and a backtest.   *)
(*                                                                         *)
(* Of the candles, the backtest needs their closes and how the operands of *)
(* the rules compare at each of them; an indicator has no value until it   *)
(* has seen enough candles.  Of the money, it needs whether any is left to *)
(* open a position with: a short position can lose more than there is.     *)
(***************************************************************************)
EXTENDS StrategyRepair, StrategyVariants

CONSTANTS
    Drafts,       \* the drafts that are stored at first
    RunMarkets,   \* the markets that a run of the agent is given, or "none"
    Closes,       \* the prices at which candles close
    MaxRounds,    \* bound on the repairs
    Bars          \* bound on the candles of a backtest

ASSUME EngineInputs == /\ \A s \in Drafts : IsDefinition(s)
                       /\ RunMarkets \subseteq STRING
                       /\ Periods \subseteq Int

NoPosition == [side |-> "none"]

VARIABLES
    strategy,     \* the stored draft
    rounds,       \* the repairs of it so far
    bar,          \* the candles that the backtest has seen; 0 before it starts
    relations,    \* how the operands of each rule compare at the last of them
    position,
    solvent

engineVars == <<strategy, rounds, bar, relations, position, solvent>>

\* The operands that the rules compare, and how: "none" if one has no value.
Pairs(s) == {RuleAt(s, Places(s)[n]).operands : n \in DOMAIN Places(s)}
Relations(s) ==
    {rel \in [Pairs(s) -> {"<", "=", ">", "none"}] :
        \A pair \in Pairs(s) : pair[1] = pair[2] => rel[pair] \in {"=", "none"}}
Nothing(s) == [pair \in Pairs(s) |-> "none"]

EngineInit ==
    /\ strategy \in Drafts
    /\ rounds = 0
    /\ bar = 0
    /\ relations = Nothing(strategy)
    /\ position = NoPosition
    /\ solvent = TRUE

-----------------------------------------------------------------------------
(* Candidates and repairs. *)

\* A draft can be stored only in a market of this deployment.
Storable(s) == s.market = "known"

\* A run of the agent stores one candidate after another, all made of the strategy
\* as it was, and may leave any of them.
TryCandidate ==
    /\ bar = 0
    /\ strategy \in Drafts
    /\ rounds = 0
    /\ Storable(strategy)
    /\ strategy' \in Variants(strategy)
    /\ relations' = Nothing(strategy')
    /\ UNCHANGED <<rounds, bar, position, solvent>>

\* The creation of a strategy applies a repair that has fixed everything ("all"), or
\* so every fix says; the end of a run applies one that has fixed anything ("some").
Patch(market, fixed) ==
    LET repair == Repair(strategy, market) IN
    /\ bar = 0
    /\ rounds < MaxRounds
    /\ ~Valid(strategy)
    /\ repair[fixed]
    /\ Storable(repair.strategy)
    /\ strategy' = repair.strategy
    /\ rounds' = rounds + 1
    /\ relations' = Nothing(repair.strategy)
    /\ UNCHANGED <<bar, position, solvent>>

RepairOnce(market) == Patch(market, "all")
EnforceCompletion(market) == Patch(market, "some")

-----------------------------------------------------------------------------
(* The backtest. *)

\* A crossing needs both values at the candle before, and a change of side.
RuleHolds(rule, now, before) ==
    LET is == now[rule.operands]
        was == before[rule.operands]
    IN  CASE rule.operator = "==" -> is = "="
          [] rule.operator = "!=" -> is \in {"<", ">"}
          [] rule.operator = ">" -> is = ">"
          [] rule.operator = ">=" -> is \in {">", "="}
          [] rule.operator = "<" -> is = "<"
          [] rule.operator = "<=" -> is \in {"<", "="}
          [] rule.operator = "crosses_above" -> is = ">" /\ was \in {"<", "="}
          [] rule.operator = "crosses_below" -> is = "<" /\ was \in {">", "="}

\* Groups without rules do not count.
Populated(groups) == SelectSeq(groups, LAMBDA group : group # <<>>)

Triggered(groups, now, before) ==
    \E g \in DOMAIN Populated(groups) : \A r \in DOMAIN Populated(groups)[g] :
        RuleHolds(Populated(groups)[g][r], now, before)

\* What may trigger at a candle; the source of an engine may say anything.
SignalsAt(now) ==
    IF strategy.engine # "none" THEN [1 .. 4 -> BOOLEAN]
    ELSE {[k \in 1 .. 4 |-> Triggered(strategy.groups[k], now, relations)]}

Enters(signals, side) == side \in strategy.sides /\ signals[EntryOf[side]]

Other(side) == IF side = "long" THEN "short" ELSE "long"

\* Mutant: when both sides trigger, it is the long one.
MutEntrySides(signals) ==
    {side \in {"long", "short"} :
        Enters(signals, side) /\ (side = "short" => ~Enters(signals, "long"))}

\* The side to enter, if exactly one triggers.
EntrySides(signals) ==
    {side \in {"long", "short"} : Enters(signals, side) /\ ~Enters(signals, Other(side))}

\* Without money the position is not opened.
OpenAt(side, close, funded) ==
    IF funded THEN [side |-> side, entry |-> close, held |-> 0, best |-> close] ELSE NoPosition

\* The move from one price to another in favour of a side, against a percentage.
Gains(side, from, to, pct) ==
    IF side = "long" THEN to * 100 >= from * (100 + pct) ELSE to * 100 <= from * (100 - pct)
Loses(side, from, to, pct) == Gains(Other(side), from, to, pct)

Has(key) == key \in DOMAIN strategy.risk

\* The position at this candle, with the best close since its entry.
Aged(close) ==
    LET better == IF position.side = "long" THEN close > position.best
                  ELSE close < position.best
    IN  [position EXCEPT !.held = @ + 1, !.best = IF better THEN close ELSE @]

\* Why a position ends at a close: limits first, then rules.
ExitReason(p, close, signals) ==
    IF Has("stopLossPct") /\ Loses(p.side, p.entry, close, strategy.risk.stopLossPct)
    THEN "stop_loss"
    ELSE IF Has("takeProfitPct") /\ Gains(p.side, p.entry, close, strategy.risk.takeProfitPct)
    THEN "take_profit"
    ELSE IF Has("trailingStopPct") /\ Loses(p.side, p.best, close, strategy.risk.trailingStopPct)
    THEN "trailing_stop"
    ELSE IF Has("maxBarsInTrade") /\ p.held >= strategy.risk.maxBarsInTrade
    THEN "max_bars"
    ELSE IF signals[ExitOf[p.side]] THEN "rule"
    ELSE IF Enters(signals, Other(p.side)) THEN "reverse" ELSE "none"

\* Without a position, one side may open one.
Enter(close, signals) ==
    /\ position = NoPosition
    /\ position' = IF EntrySides(signals) = {} THEN NoPosition
                   ELSE OpenAt(CHOOSE side \in EntrySides(signals) : TRUE, close, solvent)
    /\ UNCHANGED solvent

Hold(close, signals) ==
    /\ position # NoPosition
    /\ ExitReason(Aged(close), close, signals) = "none"
    /\ position' = Aged(close)
    /\ UNCHANGED solvent

\* The position is closed, and the other side's opened when that was the reason.
Exit(close, signals) ==
    LET reason == ExitReason(Aged(close), close, signals) IN
    /\ position # NoPosition
    /\ reason # "none"
    /\ \E loss \in {FALSE, position.side = "short" /\ close > position.entry} :
           solvent' = (solvent /\ ~loss)
    /\ position' = IF reason = "reverse"
                   THEN OpenAt(Other(position.side), close, solvent') ELSE NoPosition

\* A backtest starts with a valid strategy only.
CanRun == bar = 0 => Valid(strategy)

Candle ==
    /\ CanRun
    /\ bar < Bars
    /\ bar' = bar + 1
    /\ rounds' = 0
    /\ \E now \in Relations(strategy) :
           /\ relations' = now
           /\ \E close \in Closes, signals \in SignalsAt(now) :
                  Enter(close, signals) \/ Hold(close, signals) \/ Exit(close, signals)
    /\ UNCHANGED strategy

\* A position that is left after the last candle is closed there.
Finish ==
    /\ bar = Bars
    /\ position # NoPosition
    /\ position' = NoPosition
    /\ UNCHANGED <<strategy, rounds, bar, relations, solvent>>

-----------------------------------------------------------------------------
EngineNext ==
    \/ TryCandidate
    \/ \E market \in RunMarkets : RepairOnce(market) \/ EnforceCompletion(market)
    \/ Candle
    \/ Finish

EngineSpec == EngineInit /\ [][EngineNext]_engineVars

-----------------------------------------------------------------------------
(* Properties. *)

\* Repairs come to an end: after MaxRounds of them the draft is valid, or nothing
\* that is left has a fix that can be stored.  Each round may bring up issues that
\* the ones before hid: a side that was enabled has no rules, rules that were added
\* equal the other side's.  A lacking parameter is left out: its fix counts as a
\* success also when it sets that of another operand, again and again.
RepairsEnd ==
    rounds = MaxRounds =>
        \/ Valid(strategy)
        \/ "missing_indicator_param" \in Codes(strategy)
        \/ \A market \in RunMarkets :
               ~(Repair(strategy, market).some /\ Storable(Repair(strategy, market).strategy))

\* A repair leaves no kind of issue that was not there before, but for entry rules
\* that are missing or ambiguous: fixes that choose their operand by its looks do
\* not break one that was sound.
RepairsAddNoFaults ==
    [][rounds' > rounds =>
           Codes(strategy') \subseteq
               Codes(strategy) \cup {"missing_entry_rules", "ambiguous_dual_side_entries"}]_engineVars

\* With the same rules on both sides no position is ever opened, which is why the
\* validation refuses such drafts; it does not see that groups without rules do not
\* count, so a valid strategy may be one that never trades.  And no position is on
\* a side that is not enabled, reversals included.
OpensOnlyIfSidesDiffer ==
    position # NoPosition =>
        /\ position.side \in strategy.sides
        /\ strategy.sides = {"long", "short"} /\ strategy.engine = "none" =>
               Populated(strategy.groups[1]) # Populated(strategy.groups[2])

===============================================================================
