\* A patched asset and another, a run of the script, polls that overlap.
SPECIFICATION FairPricesSpec
CONSTANTS
    Assets = {cINIT, tAAPL}
    Oracle = {cINIT}
    Polls = {1, 2}
    Horizon = 5
    MinGap = 1
    Buckets = {1, 2}
    Limits = {1, 2}
    MaxFailures = 1
INVARIANT CandlesAreComplete
PROPERTIES RealBarsStay CacheCatchesUp
CHECK_DEADLOCK FALSE
