SPECIFICATION Spec
CONSTANTS
    s1 = s1
    r1 = r1
    owner = owner
    base = base
    quote = quote
    None = None
    Deleted = Deleted
    Strategies = {s1}
    Runs = {r1}
    Owner = owner
    Base = base
    Quote = quote
    Funds <- MCFunds
    Payouts <- MCPayouts
    Deployments = {TRUE}
    Conditions = {"entry"}
    ApprovalTtls = {2}
    Expiries = {1}
    MaxVersions = 2
    MaxNonce = 1
    MaxClock = 2
    MaxCandles = 0
    MaxSwaps = 0
    MaxRuns = 2
    MaxStops = 0
INVARIANTS OneActiveApproval SignatureRunsOnce
 
CHECK_DEADLOCK FALSE
