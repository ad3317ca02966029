\* Claims, redemptions, instant swaps and sessions of one user.
SPECIFICATION Spec
CONSTANTS
    base = base
    quote = quote
    None = None
    Slots = {s1, s2}
    MaxRequests = 4
    MaxCrashes = 1
    Accounts = {u1}
    Addresses = {u1}
    Up = 2
    Down = 1
    RedeemAmounts = {1, 2}
    MaxBridged = 2
    NonceTtl = 1
    TokenTtl = 1
    MaxChallenges = 1
    MaxNow = 1
    SwapTokens = {base, quote}
    SwapAmounts = {1}
    Wallet <- MCWallet
    Custody <- MCCustody
SYMMETRY Symmetry
CHECK_DEADLOCK FALSE
INVARIANTS
    ClaimsAccounted
    QuietClaimsAreBacked
    ChallengesUsedOnce
    
    OnlyOthersRevert
