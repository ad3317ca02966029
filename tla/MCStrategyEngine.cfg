\* Templates, drafts with faulty rules on either side, drafts with faulty settings,
\* and the candidates that the agent makes of each.
SPECIFICATION EngineSpec
CONSTANTS
    MaxRuleGroupsPerSide = 2
    MaxRulesPerGroup = 2
    Drafts <- MCDrafts
    RunMarkets = {"none", "known"}
    Closes = {100, 103, 110}
    Periods = {20, 500}
    MaxRounds = 3
    Bars = 3
INVARIANTS RepairsEnd OpensOnlyIfSidesDiffer
PROPERTY RepairsAddNoFaults
CHECK_DEADLOCK FALSE
