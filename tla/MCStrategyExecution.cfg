SPECIFICATION Spec
CONSTANTS
    s1 = s1
    r1 = r1
    owner = owner
    base = base
    quote = quote
    None = None
    Deleted = Deleted
    Strategies = {s1}
    Runs = {r1}
    Owner = owner
    Base = base
    Quote = quote
    Funds <- MCFunds
    Payouts <- MCPayouts
    Deployments = {TRUE}
    Conditions = {"entry", "exit"}
    ApprovalTtls = {1}
    Expiries = {None}
    MaxVersions = 1
    MaxNonce = 0
    MaxClock = 0
    MaxCandles = 0
    MaxSwaps = 2
    MaxRuns = 1
    MaxStops = 1
 
PROPERTY OnlyActivationActivates
CHECK_DEADLOCK FALSE
