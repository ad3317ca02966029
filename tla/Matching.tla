------------------------------- MODULE Matching -------------------------------
(***************************************************************************)
(* The private order book of the matcher (MatchingService over StateStore). *)
(*                                                                         *)
(* A market is named by its base token; every market is quoted in Quote.   *)
(* Amounts are atomic integers.  BaseUnit is 10^decimals of a base token   *)
(* and CancelUnit the 10^18 that cancelOrder hard-codes.                   *)
(*                                                                         *)
(* The service is single threaded and placeOrder never awaits, but it is   *)
(* two StateStore.mutate calls, and each flushes the state file: the book  *)
(* entry is durable before matching starts, the fills of one matching loop *)
(* become durable together when it returns, and an exception in the loop   *)
(* leaves its fills in memory only.  So the loop is taken one iteration at *)
(* a time and disk is what a restart would load.                           *)
(*                                                                         *)
(* createdAt never decreases and Array.sort is stable, so time priority is *)
(* the position of an order in the orders array.                           *)
(***************************************************************************)
EXTENDS Integers, Sequences, FiniteSets, Functions

CONSTANTS
    Users,       \* wallet addresses
    Markets,     \* base tokens, one market each
    Quote,       \* the quote token
    NoMarket,    \* no matching loop is running
    Quantities,  \* base amounts of orders
    Prices,      \* limit prices, in quote atoms per whole base token
    RefPrices,   \* what the price service may report (0: rounds to "0.00")
    BandBps,     \* PRICE_BAND_BPS
    BaseUnit,
    CancelUnit,
    Funds,       \* deposits already credited, per user and token
    MaxOrders    \* bound on the orders a behaviour creates

Tokens == Markets \cup {Quote}

ASSUME MarketNames == NoMarket \notin Markets /\ Quote \notin Markets
ASSUME InputAmounts ==
    /\ Quantities \subseteq Nat \ {0}
    /\ Prices \subseteq Nat
    /\ RefPrices \subseteq Nat
ASSUME Units == /\ BaseUnit \in Nat \ {0}
                /\ CancelUnit \in Nat \ {0}
                /\ BandBps \in Nat
                /\ MaxOrders \in Nat
\* Every base token of deployments/*.json has 18 decimals.
ASSUME CancelUnitIsBaseUnit == CancelUnit = BaseUnit
\* Wallet addresses are 20 bytes.
ASSUME FiniteUsers == IsFiniteSet(Users)
ASSUME FundsAreAmounts == Funds \in [Users -> [Tokens -> Nat]]

VARIABLES
    balances,  \* AppState.balances: what a user can spend
    locked,    \* AppState.locked: what orders hold
    orders,    \* AppState.orders, oldest first
    matching,  \* the market whose matching loop is on the stack, or NoMarket
    refPrice,  \* the reference price that loop reads (0 when none runs)
    executed,  \* history: fills of each order, with base and quote exchanged
    disk       \* the state file

vars == <<balances, locked, orders, matching, refPrice, executed, disk>>

Sides == {"BUY", "SELL"}
Statuses == {"OPEN", "PARTIAL", "FILLED", "CANCELLED"}

Order == [user : Users, market : Markets, side : Sides, limit : Nat,
          quantity : Nat, remaining : Nat, reserved : Nat, status : Statuses]
Execution == [fills : Nat, base : Nat, quote : Nat]

AppState == [balances : [Users -> [Tokens -> Nat]],
             locked   : [Users -> [Tokens -> Int]],
             orders   : Seq(Order),
             executed : Seq(Execution)]

\* What StateStore.flush writes.
Snapshot == [balances |-> balances, locked |-> locked,
             orders |-> orders, executed |-> executed]

MutNoFlush == UNCHANGED disk
Flush == disk' = Snapshot'

Add(ledger, u, t, delta) == [ledger EXCEPT ![u][t] = @ + delta]

-----------------------------------------------------------------------------
(* Order arithmetic: every division truncates. *)

QuoteFor(base, price) == (base * price) \div BaseUnit

ReservedToken(side, m) == IF side = "BUY" THEN Quote ELSE m

Reserve(side, qty, price) ==
    IF side = "BUY" THEN QuoteFor(qty, price) ELSE qty

\* Mutant: refund the whole order, as if nothing had filled.
MutRemainingReserve(o) ==
    IF o.side = "SELL" THEN o.quantity
                       ELSE (o.quantity * o.limit) \div CancelUnit

RemainingReserve(o) ==
    IF o.side = "SELL" THEN o.remaining
                       ELSE (o.remaining * o.limit) \div CancelUnit

IsOpen(o) == o.status \in {"OPEN", "PARTIAL"}

Side(m, side) == {i \in DOMAIN orders : /\ orders[i].market = m
                                        /\ orders[i].side = side
                                        /\ IsOpen(orders[i])}

\* Mutant: the newest order at a price is served first.
MutOutranks(i, j) ==
    \/ /\ orders[i].side = "BUY"
       /\ orders[i].limit > orders[j].limit
    \/ /\ orders[i].side = "SELL"
       /\ orders[i].limit < orders[j].limit
    \/ orders[i].limit = orders[j].limit /\ i >= j

\* Order i comes no later than order j of the same side in the sorted book.
Outranks(i, j) ==
    \/ /\ orders[i].side = "BUY"
       /\ orders[i].limit > orders[j].limit
    \/ /\ orders[i].side = "SELL"
       /\ orders[i].limit < orders[j].limit
    \/ orders[i].limit = orders[j].limit /\ i <= j

IsBest(i, m, side) ==
    i \in Side(m, side) /\ \A j \in Side(m, side) : Outranks(i, j)

Crosses(b, s) == orders[b].limit >= orders[s].limit

\* |execution - reference| exceeds the band; the execution price is the ask's.
OutOfBand(price, ref) ==
    LET diff == IF price > ref THEN price - ref ELSE ref - price
    IN  (diff * 10000) \div ref > BandBps

Reduce(o, traded) ==
    [o EXCEPT !.remaining = @ - traded,
              !.status    = IF o.remaining = traded THEN "FILLED" ELSE "PARTIAL",
              !.reserved  = IF o.remaining = traded THEN 0 ELSE @]

Record(e, base, quote) == [fills |-> e.fills + 1, base |-> e.base + base,
                           quote |-> e.quote + quote]

\* Mutants: unlock only what was paid, or hand the whole release back.
MutReleased(traded, bid, ask) == QuoteFor(traded, ask)
Released(traded, bid, ask) == QuoteFor(traded, bid)

MutRefund(traded, bid, ask) == Released(traded, bid, ask)
Refund(traded, bid, ask) == Released(traded, bid, ask) - QuoteFor(traded, ask)

-----------------------------------------------------------------------------
Init ==
    /\ balances = Funds
    /\ locked = [u \in Users |-> [t \in Tokens |-> 0]]
    /\ orders = <<>>
    /\ executed = <<>>
    /\ matching = NoMarket
    /\ refPrice = 0
    /\ disk = [balances |-> balances, locked |-> locked,
               orders |-> orders, executed |-> executed]

\* placeOrder up to its first flush; the call goes on in tryMatch.
PlaceOrder(u, m, side, qty, price) ==
    LET token   == ReservedToken(side, m)
        reserve == Reserve(side, qty, price)
    IN  /\ matching = NoMarket
        /\ Len(orders) < MaxOrders
        /\ reserve > 0
        /\ balances[u][token] >= reserve
        /\ balances' = Add(balances, u, token, -reserve)
        /\ locked' = Add(locked, u, token, reserve)
        /\ orders' = Append(orders,
               [user |-> u, market |-> m, side |-> side, limit |-> price,
                quantity |-> qty, remaining |-> qty, reserved |-> reserve,
                status |-> "OPEN"])
        /\ executed' = Append(executed, [fills |-> 0, base |-> 0, quote |-> 0])
        /\ Flush
        /\ matching' = m
        /\ refPrice' \in RefPrices

\* One iteration of tryMatch that trades: best bid b against best ask s.
Fill(b, s) ==
    LET buy    == orders[b]
        sell   == orders[s]
        traded == IF buy.remaining < sell.remaining THEN buy.remaining
                                                    ELSE sell.remaining
        cost   == QuoteFor(traded, sell.limit)
        paid   == Add(Add(balances, buy.user, matching, traded),
                      sell.user, Quote, cost)
    IN  /\ IsBest(b, matching, "BUY")
        /\ IsBest(s, matching, "SELL")
        /\ Crosses(b, s)
        /\ refPrice > 0
        /\ ~OutOfBand(sell.limit, refPrice)
        /\ locked' = Add(Add(locked, buy.user, Quote,
                             -Released(traded, buy.limit, sell.limit)),
                         sell.user, matching, -traded)
        /\ balances' = Add(paid, buy.user, Quote,
                           Refund(traded, buy.limit, sell.limit))
        /\ orders' = [orders EXCEPT ![b] = Reduce(@, traded),
                                    ![s] = Reduce(@, traded)]
        /\ executed' = [executed EXCEPT ![b] = Record(@, traded, cost),
                                        ![s] = Record(@, traded, cost)]
        /\ UNCHANGED <<matching, refPrice, disk>>

TryMatch == /\ matching # NoMarket
            /\ \E b, s \in DOMAIN orders : Fill(b, s)

\* Mutant: outside the price band the loop goes on instead of returning.
MutMatchReturn ==
    /\ matching # NoMarket
    /\ \A b, s \in DOMAIN orders :
           ~(/\ IsBest(b, matching, "BUY")
             /\ IsBest(s, matching, "SELL")
             /\ Crosses(b, s))
    /\ matching' = NoMarket
    /\ refPrice' = 0
    /\ UNCHANGED <<balances, locked, orders, executed>>
    /\ Flush

\* tryMatch returns: a side is empty, or the top of the book does not cross, or
\* the price band stops it.  mutate flushes the fills.
MatchReturn ==
    /\ matching # NoMarket
    /\ \A b, s \in DOMAIN orders :
           IsBest(b, matching, "BUY") /\ IsBest(s, matching, "SELL")
           => \/ ~Crosses(b, s)
              \/ refPrice > 0 /\ OutOfBand(orders[s].limit, refPrice)
    /\ matching' = NoMarket
    /\ refPrice' = 0
    /\ UNCHANGED <<balances, locked, orders, executed>>
    /\ Flush

\* A zero reference price divides by zero: the exception leaves mutate before
\* its flush, with the fills made so far in memory.
MatchThrow ==
    /\ matching # NoMarket
    /\ refPrice = 0
    /\ \E b, s \in DOMAIN orders : /\ IsBest(b, matching, "BUY")
                                   /\ IsBest(s, matching, "SELL")
                                   /\ Crosses(b, s)
    /\ matching' = NoMarket
    /\ UNCHANGED <<balances, locked, orders, executed, refPrice, disk>>

CancelOrder(u, i) ==
    LET o      == orders[i]
        token  == ReservedToken(o.side, o.market)
        refund == RemainingReserve(o)
    IN  /\ matching = NoMarket
        /\ o.user = u
        /\ IsOpen(o)
        /\ locked' = Add(locked, u, token, -refund)
        /\ balances' = Add(balances, u, token, refund)
        /\ orders' = [orders EXCEPT ![i].status = "CANCELLED",
                                    ![i].remaining = 0]
        /\ UNCHANGED <<matching, refPrice, executed>>
        /\ Flush

\* The process dies, possibly between the two flushes of placeOrder, and
\* StateStore.load reads the file.
Restart ==
    /\ balances' = disk.balances
    /\ locked' = disk.locked
    /\ orders' = disk.orders
    /\ executed' = disk.executed
    /\ matching' = NoMarket
    /\ refPrice' = 0
    /\ UNCHANGED disk

Next ==
    \/ \E u \in Users, m \in Markets, side \in Sides,
          qty \in Quantities, price \in Prices :
           PlaceOrder(u, m, side, qty, price)
    \/ \E u \in Users, i \in DOMAIN orders : CancelOrder(u, i)
    \/ TryMatch
    \/ MatchReturn
    \/ MatchThrow
    \/ Restart

Spec == Init /\ [][Next]_vars

\* The loop is synchronous: once entered it runs until it returns or throws.
FairSpec == Spec /\ WF_vars(TryMatch \/ MatchReturn \/ MatchThrow)

-----------------------------------------------------------------------------
(* Properties. *)

\* Shape of the ledger and of the book: available balances and remaining
\* quantities never go below zero.
TypeOK ==
    /\ balances \in [Users -> [Tokens -> Nat]]
    /\ locked \in [Users -> [Tokens -> Int]]
    /\ orders \in Seq(Order)
    /\ executed \in Seq(Execution)
    /\ matching \in Markets \cup {NoMarket}
    /\ refPrice \in RefPrices \cup {0}
    /\ disk \in AppState

\* What a ledger holds of token t, over all users, available and locked.
Held(bal, lck, t) == SumFunction([u \in Users |-> bal[u][t] + lck[u][t]])

\* Placing, matching, cancelling, failing and restarting neither create nor
\* destroy tokens, in memory and in the state file.
Conservation ==
    \A t \in Tokens :
        LET total == SumFunction([u \in Users |-> Funds[u][t]])
        IN  /\ Held(balances, locked, t) = total
            /\ Held(disk.balances, disk.locked, t) = total

OpenOf(ords, u, t) == {i \in DOMAIN ords :
    /\ ords[i].user = u
    /\ ReservedToken(ords[i].side, ords[i].market) = t
    /\ IsOpen(ords[i])}

\* What cancelling every open order of u would take out of locked.
Owed(ords, u, t) ==
    SumFunction([i \in OpenOf(ords, u, t) |-> RemainingReserve(ords[i])])

\* However the fills rounded, a user's locked amount still covers the refund of
\* every order that user has open, so no cancel can overdraw it.
LockedCoversOrders ==
    \A u \in Users, t \in Tokens :
        /\ locked[u][t] >= Owed(orders, u, t)
        /\ disk.locked[u][t] >= Owed(disk.orders, u, t)

\* What the rounding of partial fills leaves locked for ever is less than one
\* quote atom per fill of a buy order; base tokens leave nothing behind.
DustBoundedByFills ==
    \A u \in Users :
        /\ \A m \in Markets : locked[u][m] = Owed(orders, u, m)
        /\ LET buys == {i \in DOMAIN orders : orders[i].user = u
                                              /\ orders[i].side = "BUY"}
           IN  locked[u][Quote] - Owed(orders, u, Quote)
                   <= SumFunction([i \in buys |-> executed[i].fills])

SoundOrder(o, e) ==
    /\ o.quantity > 0
    /\ o.status = "OPEN"      => o.remaining = o.quantity
    /\ o.status = "PARTIAL"   => o.remaining > 0 /\ o.remaining < o.quantity
    /\ o.status = "FILLED"    => o.remaining = 0 /\ o.reserved = 0
    /\ o.status = "CANCELLED" => o.remaining = 0
    /\ o.status # "CANCELLED" => e.base = o.quantity - o.remaining
    /\ e.base <= o.quantity

\* The status of every order, what remains of it and what it has exchanged
\* agree, in memory and in what a restart would load.
OrdersWellFormed ==
    /\ Len(executed) = Len(orders)
    /\ \A i \in DOMAIN orders : SoundOrder(orders[i], executed[i])
    /\ Len(disk.executed) = Len(disk.orders)
    /\ \A i \in DOMAIN disk.orders :
           SoundOrder(disk.orders[i], disk.executed[i])

WithinLimit(o, e) ==
    /\ o.side = "BUY"  => e.quote * BaseUnit <= e.base * o.limit
    /\ o.side = "SELL" => (e.quote + e.fills) * BaseUnit >= e.base * o.limit

\* Over all its fills a buy order never pays more than its limit price for what
\* it received, and a sell order never receives less than its limit price, up to
\* the atom each fill may lose to truncation.
ExecutionWithinLimits ==
    /\ \A i \in DOMAIN orders : WithinLimit(orders[i], executed[i])
    /\ \A i \in DOMAIN disk.orders :
           WithinLimit(disk.orders[i], disk.executed[i])

\* A crash can undo fills that an exception or an unfinished loop left in
\* memory, but never an order that was accepted nor a cancel that was answered.
CrashLosesOnlyFills ==
    /\ Len(disk.orders) = Len(orders)
    /\ \A i \in DOMAIN orders :
         /\ disk.orders[i].status = "CANCELLED" <=> orders[i].status = "CANCELLED"
         /\ orders[i].remaining <= disk.orders[i].remaining
         /\ disk.executed[i].fills <= executed[i].fills

\* An order never trades while an older order of its side of the book, at a
\* price at least as good, is open and left untouched by the same step.
TradesInTurn ==
    \A i, j \in DOMAIN orders :
        (/\ executed'[i].fills > executed[i].fills
         /\ IsOpen(orders[j])
         /\ orders[j].market = orders[i].market
         /\ orders[j].side = orders[i].side
         /\ j < i
         /\ \/ orders[j].limit = orders[i].limit
            \/ orders[j].side = "BUY"  /\ orders[j].limit > orders[i].limit
            \/ orders[j].side = "SELL" /\ orders[j].limit < orders[i].limit)
        => executed'[j].fills > executed[j].fills
PriceTimePriority == [][TradesInTurn]_vars

\* The synchronous matching loop always ends: it never leaves the service
\* spinning on a pair that trades nothing.
MatchTerminates == (matching # NoMarket) ~> (matching = NoMarket)
===============================================================================
