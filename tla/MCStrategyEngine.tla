--------------------------- MODULE MCStrategyEngine ---------------------------
EXTENDS StrategyEngine

\* A rule of each kind that has something to repair, and two that are sound.
Cross == EmaCross("crosses_above")
Typical == Rule(Price("hl2"), ">", Constant(5))
Faulty ==
    {Rule(Price("typo"), "typo", Price("hl2")),
     Rule(Indicator("typo", "value", [period |-> 5000]), ">", Constant(5)),
     Rule(Indicator("macd", "value",
                    [fastPeriod |-> 5, slowPeriod |-> 260, signalPeriod |-> 90]), "<", Price("typo")),
     Rule(Indicator("rsi", "value", [period |-> 5000]), ">", Ema(0)),
     Rule(Indicator("stoch", "k", [period |-> 140]), "<", Ema(1000))}

SideGroups == {<<>>, <<<<>>>>, <<<<>>, <<Cross>>>>, <<<<Cross>>>>, <<<<Typical>>>>}
              \cup {<<<<Cross, rule>>>> : rule \in Faulty}
              \cup {<<<<>>, <<Cross>>, <<Typical>>>>, <<<<Cross, Typical, Typical>>>>}

WithRules ==
    {[EmptyDraft EXCEPT !.groups[1] = long, !.groups[2] = short, !.sides = sides] :
        long \in SideGroups, short \in SideGroups, sides \in SUBSET {"long", "short"}}

\* Settings that are wrong, alone or together, of a draft without rules.
WithSettings ==
    {[EmptyDraft EXCEPT !.sides = sides, !.sizing = sizing, !.costs = costs,
                        !.risk = risk, !.timeframe = timeframe, !.market = market,
                        !.engine = engine] :
        sides \in {{}, {"long"}},
        sizing \in {EmptyDraft.sizing, [EmptyDraft.sizing EXCEPT !.value = 200],
                    [mode |-> "fixed_quote_notional", value |-> 0]},
        costs \in {EmptyDraft.costs, [EmptyDraft.costs EXCEPT !.startingEquity = 0],
                   [EmptyDraft.costs EXCEPT !.startingEquity = 0, !.feeBps = -1]},
        risk \in {[maxBarsInTrade |-> 1], [stopLossPct |-> 0, trailingStopPct |-> 0]},
        timeframe \in {"15m", "typo"}, market \in {"known", "gone"},
        engine \in {"none", "sound", "broken"}}

MCDrafts == Templates \cup WithRules \cup WithSettings
===============================================================================
