\* Two asynchronous swaps, an instant one beside them and its drift job, with failures
\* anywhere and a crash, under a fair worker.
SPECIFICATION FairSpec
CONSTANTS
    base = base
    quote = quote
    Tokens = {base, quote}
    None = None
    SpreadBps = 100
    Funds <- MCFunds
    Bootstrap <- MCBootstrap
    Policy <- MCPolicy
    Users = {u1}
    Slots = {c1}
    Amounts = {2}
    Quotes = {3}
    MaxSwaps = 2
    MaxRequests = 1
    MaxCrashes = 1
CHECK_DEADLOCK FALSE
INVARIANTS
    LockedCoversSwaps
    SwapFollowsJob
    L1SwapsNeedCrashes
    
PROPERTIES
    ImplementsAtomicSwap
    SwapsFinish
