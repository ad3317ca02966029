SPECIFICATION FairSpec
CONSTANTS
    Goals = {{"optimize"}, {"filter"}, {"question"},
             {"market", "analysis", "optimize"}, {"backtest"}}
    ForceFallback = FALSE
    Pnls = {0, 1}
    MaxCandidates = 2
    MaxTools = 2
    MaxCorrections = 2
    MaxFailures = 1
    MaxEdits = 1
INVARIANTS  PositiveIsStored OwnDraftIsAnswered
 
CHECK_DEADLOCK FALSE
