\* Three orders of two users in two markets with one quote token.
SPECIFICATION FairSpec
CONSTANTS
    NoMarket = NoMarket
    Users = {alice, bob}
    Markets = {baseA, baseB}
    Quote = quote
    Quantities <- MCQuantities
    Prices <- MCPrices
    RefPrices <- MCRefPrices
    BandBps = 5000
    BaseUnit = 2
    CancelUnit = 2
    Funds <- MCFunds
    MaxOrders = 3
INVARIANTS
    Conservation
    LockedCoversOrders
    DustBoundedByFills
    
PROPERTIES
    PriceTimePriority
    MatchTerminates
