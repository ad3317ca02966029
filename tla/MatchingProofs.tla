---------------------------- MODULE MatchingProofs ----------------------------
(***************************************************************************)
(* What Matching guarantees for any users, markets, amounts, prices, units *)
(* and band: no negative balance, orders that agree with what they traded, *)
(* executions within the limits, a state file that only lacks fills,       *)
(* price-time priority, no token made or lost, and locks that cover the    *)
(* open orders up to an atom per fill.                                     *)
(*                                                                         *)
(* The first four are inductive together: an exception leaves the file     *)
(* behind memory and a restart goes back to it, so both must hold a good   *)
(* book, and the file one that memory extends by fills.  Priority is a     *)
(* property of steps that needs only the types from the invariant.  The    *)
(* sums of the last two follow from what one entry of a ledger, or one     *)
(* order's reserve, changes by (SumFacts).                                 *)
(***************************************************************************)
EXTENDS Matching, SequenceTheorems, SumFacts

-----------------------------------------------------------------------------
(* Arithmetic of truncated prices. *)

\* Products of amounts are amounts.
LEMMA MulNat == \A x, y \in Nat : x * y \in Nat
  OBVIOUS

\* A higher price makes a quantity dearer.
LEMMA MulMono == \A x, p, q \in Nat : p <= q => x * p <= x * q
  OBVIOUS

\* A truncated quotient loses less than one unit.
LEMMA DivFacts ==
  ASSUME NEW n \in Nat, NEW d \in Nat \ {0}
  PROVE  /\ n \div d \in Nat
         /\ (n \div d) * d <= n
         /\ n < (n \div d + 1) * d
  OBVIOUS

\* Truncation keeps the order of two amounts.
LEMMA DivMono ==
  ASSUME NEW m \in Nat, NEW n \in Nat, NEW d \in Nat \ {0}, m <= n
  PROVE  m \div d <= n \div d
  <1> DEFINE a == m \div d
             b == n \div d
  <1>1. a \in Nat /\ b \in Nat /\ a * d <= m /\ n < (b + 1) * d
    BY DivFacts
  <1>2. a * d < (b + 1) * d
    BY <1>1, MulNat
  <1>3. a < b + 1
    <2>1. SUFFICES ASSUME b + 1 <= a PROVE FALSE
      BY <1>1
    <2>2. d * (b + 1) <= d * a
      BY <2>1, <1>1, MulMono
    <2> QED BY <2>2, <1>2, <1>1
  <1> QED BY <1>1, <1>3

\* What a quantity costs, up to the atom that truncation takes.
LEMMA QuoteForFacts ==
  ASSUME NEW x \in Nat, NEW p \in Nat
  PROVE  /\ QuoteFor(x, p) \in Nat
         /\ QuoteFor(x, p) * BaseUnit <= x * p
         /\ x * p <= (QuoteFor(x, p) + 1) * BaseUnit
  BY DivFacts, MulNat, Units DEF QuoteFor

\* A quantity never costs less at a higher price.
LEMMA QuoteForMono ==
  ASSUME NEW x \in Nat, NEW p \in Nat, NEW q \in Nat, p <= q
  PROVE  QuoteFor(x, p) <= QuoteFor(x, q)
  BY DivMono, MulNat, MulMono, Units DEF QuoteFor

-----------------------------------------------------------------------------
(* Ledger and book updates. *)

\* A ledger entry that stays at or above zero stays an amount.
LEMMA AddNat ==
  ASSUME NEW L \in [Users -> [Tokens -> Nat]],
         NEW u \in Users, NEW t \in Tokens, NEW d \in Int, L[u][t] + d >= 0
  PROVE  Add(L, u, t, d) \in [Users -> [Tokens -> Nat]]
  BY DEF Add

\* A ledger stays a ledger.
LEMMA AddInt ==
  ASSUME NEW L \in [Users -> [Tokens -> Int]],
         NEW u \in Users, NEW t \in Tokens, NEW d \in Int
  PROVE  Add(L, u, t, d) \in [Users -> [Tokens -> Int]]
  BY DEF Add

\* An append keeps what is there and adds one element at the end.
LEMMA AppendOne ==
  ASSUME NEW S, NEW q \in Seq(S), NEW x \in S
  PROVE  /\ Append(q, x) \in Seq(S)
         /\ Len(Append(q, x)) = Len(q) + 1
         /\ DOMAIN Append(q, x) = 1 .. Len(q) + 1
         /\ \A i \in 1 .. Len(q) : Append(q, x)[i] = q[i]
         /\ Append(q, x)[Len(q) + 1] = x
  OBVIOUS

\* Replacing two elements leaves the others alone.
LEMMA ReplaceTwo ==
  ASSUME NEW S, NEW q \in Seq(S), NEW i \in 1 .. Len(q), NEW j \in 1 .. Len(q),
         i # j, NEW x \in S, NEW y \in S,
         NEW r, r = [q EXCEPT ![i] = x, ![j] = y]
  PROVE  /\ r \in Seq(S)
         /\ Len(r) = Len(q)
         /\ r[i] = x /\ r[j] = y
         /\ \A k \in 1 .. Len(q) : k # i /\ k # j => r[k] = q[k]
  OBVIOUS

\* The elements of a sequence are where its length says.
LEMMA SeqDomain ==
  ASSUME NEW S, NEW q \in Seq(S)
  PROVE  /\ Len(q) \in Nat
         /\ DOMAIN q = 1 .. Len(q)
         /\ \A i \in 1 .. Len(q) : q[i] \in S
  OBVIOUS

-----------------------------------------------------------------------------
(* What a fill does to one order. *)

\* An order stays one when what remains of it changes,
LEMMA SetRemaining ==
  ASSUME NEW o \in Order, NEW n \in Nat
  PROVE  [o EXCEPT !.remaining = n] \in Order
  BY DEF Order

\* its status changes,
LEMMA SetStatus ==
  ASSUME NEW o \in Order, NEW s \in Statuses
  PROVE  [o EXCEPT !.status = s] \in Order
  BY DEF Order

\* or its reserve changes.
LEMMA SetReserved ==
  ASSUME NEW o \in Order, NEW n \in Nat
  PROVE  [o EXCEPT !.reserved = n] \in Order
  BY DEF Order

\* A fill leaves an order and its execution well typed.
LEMMA ReduceType ==
  ASSUME NEW o \in Order, NEW e \in Execution, NEW traded \in Nat,
         NEW cost \in Nat, traded <= o.remaining
  PROVE  Reduce(o, traded) \in Order /\ Record(e, traded, cost) \in Execution
  <1> DEFINE st == IF o.remaining = traded THEN "FILLED" ELSE "PARTIAL"
             rs == IF o.remaining = traded THEN 0 ELSE o.reserved
             x == [o EXCEPT !.remaining = o.remaining - traded]
             y == [x EXCEPT !.status = st]
             z == [y EXCEPT !.reserved = rs]
  <1>1. o.remaining - traded \in Nat /\ st \in Statuses /\ rs \in Nat
    BY DEF Order, Statuses
  <1>2. x \in Order
    BY <1>1, SetRemaining
  <1>3. y \in Order
    BY <1>1, <1>2, SetStatus
  <1>4. z \in Order
    BY <1>1, <1>3, SetReserved
  <1>5. Reduce(o, traded) = z
    BY DEF Reduce
  <1>6. Record(e, traded, cost) \in Execution
    BY DEF Record, Execution
  <1> QED BY <1>4, <1>5, <1>6

\* A fill keeps status, remaining and executed quantity in agreement.
LEMMA ReduceSound ==
  ASSUME NEW o \in Order, NEW e \in Execution, NEW traded \in Nat,
         NEW cost \in Nat, 0 < traded, traded <= o.remaining,
         IsOpen(o), SoundOrder(o, e)
  PROVE  SoundOrder(Reduce(o, traded), Record(e, traded, cost))
  BY DEF Reduce, Record, Order, Execution, Statuses, IsOpen, SoundOrder

\* A fill at the ask keeps both sides within their limits: each fill loses less
\* than an atom to truncation, and the bound counts the fills.
LEMMA ReduceWithinLimit ==
  ASSUME NEW o \in Order, NEW e \in Execution, NEW traded \in Nat,
         NEW price \in Nat, WithinLimit(o, e),
         o.side = "BUY" => price <= o.limit,
         o.side = "SELL" => price = o.limit
  PROVE  WithinLimit(Reduce(o, traded), Record(e, traded, QuoteFor(traded, price)))
  <1> DEFINE cost == QuoteFor(traded, price)
             r == Record(e, traded, cost)
  <1>1. /\ o.limit \in Nat /\ e.fills \in Nat /\ e.base \in Nat
        /\ e.quote \in Nat /\ BaseUnit \in Nat
    BY Units DEF Order, Execution
  <1>2. /\ cost \in Nat
        /\ cost * BaseUnit <= traded * price
        /\ traded * price <= (cost + 1) * BaseUnit
    BY QuoteForFacts
  <1>3. /\ r.fills = e.fills + 1 /\ r.base = e.base + traded
        /\ r.quote = e.quote + cost
    BY DEF Record
  <1>4. Reduce(o, traded).side = o.side /\ Reduce(o, traded).limit = o.limit
    BY DEF Reduce, Order
  <1> HIDE DEF cost, r
  <1>5. ASSUME o.side = "BUY"
        PROVE  r.quote * BaseUnit <= r.base * o.limit
    <2>1. traded * price <= traded * o.limit
      BY <1>1, <1>5, MulMono
    <2>2. cost * BaseUnit <= traded * o.limit
      BY <1>1, <1>2, <2>1, MulNat
    <2>3. e.quote * BaseUnit <= e.base * o.limit
      BY <1>5 DEF WithinLimit
    <2>4. (e.quote + cost) * BaseUnit = e.quote * BaseUnit + cost * BaseUnit
      BY <1>1, <1>2
    <2>5. (e.base + traded) * o.limit = e.base * o.limit + traded * o.limit
      BY <1>1
    <2> QED BY <1>1, <1>2, <1>3, <2>2, <2>3, <2>4, <2>5, MulNat
  <1>6. ASSUME o.side = "SELL"
        PROVE  (r.quote + r.fills) * BaseUnit >= r.base * o.limit
    <2>1. traded * o.limit <= (cost + 1) * BaseUnit
      BY <1>2, <1>6
    <2>2. (e.quote + e.fills) * BaseUnit >= e.base * o.limit
      BY <1>6 DEF WithinLimit
    <2>3. (e.quote + cost + (e.fills + 1)) * BaseUnit
              = (e.quote + e.fills) * BaseUnit + (cost + 1) * BaseUnit
      BY <1>1, <1>2
    <2>4. (e.base + traded) * o.limit = e.base * o.limit + traded * o.limit
      BY <1>1
    <2> QED BY <1>1, <1>2, <1>3, <2>1, <2>2, <2>3, <2>4, MulNat
  <1> QED BY <1>4, <1>5, <1>6 DEF WithinLimit, r, cost

-----------------------------------------------------------------------------
(* The inductive invariant.  A book (orders with their executions) is good  *)
(* when it has the right shape and every order of it is sound and within    *)
(* its limit; memory and the state file both hold a good book.              *)

GoodBook(ords, exec) ==
  /\ ords \in Seq(Order)
  /\ exec \in Seq(Execution)
  /\ Len(exec) = Len(ords)
  /\ \A i \in 1 .. Len(ords) :
        SoundOrder(ords[i], exec[i]) /\ WithinLimit(ords[i], exec[i])

IndInv == /\ TypeOK
          /\ OrdersWellFormed
          /\ ExecutionWithinLimits
          /\ CrashLosesOnlyFills

\* The invariant says that memory and the state file hold good books.
LEMMA BooksOfIndInv ==
  ASSUME IndInv
  PROVE  /\ GoodBook(orders, executed)
         /\ GoodBook(disk.orders, disk.executed)
         /\ DOMAIN orders = 1 .. Len(orders)
         /\ DOMAIN disk.orders = 1 .. Len(disk.orders)
  <1>1. /\ disk.orders \in Seq(Order) /\ disk.executed \in Seq(Execution)
        /\ orders \in Seq(Order) /\ executed \in Seq(Execution)
    BY DEF IndInv, TypeOK, AppState
  <1> QED BY <1>1, SeqDomain DEF IndInv, OrdersWellFormed,
             ExecutionWithinLimits, GoodBook

\* A good book stays good when a sound order joins it.
LEMMA AppendGood ==
  ASSUME NEW ords, NEW exec, GoodBook(ords, exec),
         NEW o \in Order, NEW e \in Execution, SoundOrder(o, e), WithinLimit(o, e)
  PROVE  GoodBook(Append(ords, o), Append(exec, e))
  <1> DEFINE ords2 == Append(ords, o)
             exec2 == Append(exec, e)
  <1>1. /\ ords \in Seq(Order) /\ exec \in Seq(Execution)
        /\ Len(exec) = Len(ords) /\ Len(ords) \in Nat
    BY DEF GoodBook
  <1>2. /\ ords2 \in Seq(Order) /\ Len(ords2) = Len(ords) + 1
        /\ \A i \in 1 .. Len(ords) : ords2[i] = ords[i]
        /\ ords2[Len(ords) + 1] = o
    BY <1>1, AppendOne
  <1>3. /\ exec2 \in Seq(Execution) /\ Len(exec2) = Len(exec) + 1
        /\ \A i \in 1 .. Len(exec) : exec2[i] = exec[i]
        /\ exec2[Len(exec) + 1] = e
    BY <1>1, AppendOne
  <1> HIDE DEF ords2, exec2
  <1>4. ASSUME NEW i \in 1 .. Len(ords2)
        PROVE  SoundOrder(ords2[i], exec2[i]) /\ WithinLimit(ords2[i], exec2[i])
    <2>1. CASE i \in 1 .. Len(ords)
      BY <2>1, <1>1, <1>2, <1>3 DEF GoodBook
    <2>2. CASE i = Len(ords) + 1
      BY <2>2, <1>1, <1>2, <1>3
    <2> QED BY <2>1, <2>2, <1>1, <1>2
  <1>5. GoodBook(ords2, exec2)
    BY <1>1, <1>2, <1>3, <1>4 DEF GoodBook
  <1> QED BY <1>5 DEF ords2, exec2

\* A good book stays good when two orders are replaced by sound ones.
LEMMA ReplaceTwoGood ==
  ASSUME NEW ords, NEW exec, GoodBook(ords, exec),
         NEW b \in 1 .. Len(ords), NEW s \in 1 .. Len(ords), b # s,
         NEW o1 \in Order, NEW e1 \in Execution,
         SoundOrder(o1, e1), WithinLimit(o1, e1),
         NEW o2 \in Order, NEW e2 \in Execution,
         SoundOrder(o2, e2), WithinLimit(o2, e2),
         NEW ords2, ords2 = [ords EXCEPT ![b] = o1, ![s] = o2],
         NEW exec2, exec2 = [exec EXCEPT ![b] = e1, ![s] = e2]
  PROVE  GoodBook(ords2, exec2)
  <1>1. /\ ords \in Seq(Order) /\ exec \in Seq(Execution)
        /\ Len(exec) = Len(ords)
        /\ b \in 1 .. Len(exec) /\ s \in 1 .. Len(exec)
    BY DEF GoodBook
  <1>2. /\ ords2 \in Seq(Order) /\ Len(ords2) = Len(ords)
        /\ ords2[b] = o1 /\ ords2[s] = o2
        /\ \A k \in 1 .. Len(ords) : k # b /\ k # s => ords2[k] = ords[k]
    BY <1>1
  <1>3. /\ exec2 \in Seq(Execution) /\ Len(exec2) = Len(exec)
        /\ exec2[b] = e1 /\ exec2[s] = e2
        /\ \A k \in 1 .. Len(exec) : k # b /\ k # s => exec2[k] = exec[k]
    BY <1>1, ReplaceTwo
  <1> QED BY <1>1, <1>2, <1>3 DEF GoodBook

-----------------------------------------------------------------------------
(* One lemma per action. *)

\* The empty book is good.
LEMMA InitInv == Init => IndInv
  <1> SUFFICES ASSUME Init PROVE IndInv
    OBVIOUS
  <1>1. balances \in [Users -> [Tokens -> Nat]]
    BY FundsAreAmounts DEF Init
  <1>2. locked \in [Users -> [Tokens -> Int]]
    BY DEF Init
  <1>3. orders = <<>> /\ executed = <<>>
    BY DEF Init
  <1>4. /\ orders \in Seq(Order) /\ executed \in Seq(Execution)
        /\ Len(orders) = 0 /\ Len(executed) = 0 /\ DOMAIN orders = {}
    BY <1>3
  <1>5. disk \in AppState /\ disk.orders = orders /\ disk.executed = executed
    BY <1>1, <1>2, <1>4 DEF Init, AppState
  <1> QED
    BY <1>1, <1>2, <1>4, <1>5 DEF Init, IndInv, TypeOK, OrdersWellFormed,
       ExecutionWithinLimits, CrashLosesOnlyFills

\* A flush makes the state file equal to a good memory.
LEMMA FlushInv ==
  ASSUME Flush,
         (balances \in [Users -> [Tokens -> Nat]])',
         (locked \in [Users -> [Tokens -> Int]])',
         (matching \in Markets \cup {NoMarket})',
         (refPrice \in RefPrices \cup {0})',
         GoodBook(orders', executed')
  PROVE  IndInv'
  <1>1. /\ orders' \in Seq(Order) /\ executed' \in Seq(Execution)
        /\ Len(executed') = Len(orders')
        /\ \A i \in 1 .. Len(orders') :
              /\ SoundOrder(orders'[i], executed'[i])
              /\ WithinLimit(orders'[i], executed'[i])
    BY DEF GoodBook
  <1>2. disk' \in AppState /\ disk'.orders = orders' /\ disk'.executed = executed'
    BY <1>1 DEF Flush, Snapshot, AppState
  <1>3. DOMAIN orders' = 1 .. Len(orders')
    BY <1>1, SeqDomain
  <1>4. \A i \in 1 .. Len(orders') :
           /\ orders'[i].remaining <= orders'[i].remaining
           /\ executed'[i].fills <= executed'[i].fills
    <2> TAKE i \in 1 .. Len(orders')
    <2>1. orders'[i] \in Order /\ executed'[i] \in Execution
      BY <1>1, SeqDomain
    <2> QED BY <2>1 DEF Order, Execution
  <1> QED
    BY <1>1, <1>2, <1>3, <1>4 DEF IndInv, TypeOK, OrdersWellFormed,
       ExecutionWithinLimits, CrashLosesOnlyFills

\* placeOrder, up to its first flush.
LEMMA PlaceOrderInv ==
  ASSUME IndInv, NEW u \in Users, NEW m \in Markets, NEW side \in Sides,
         NEW qty \in Quantities, NEW price \in Prices,
         PlaceOrder(u, m, side, qty, price)
  PROVE  IndInv'
  <1> DEFINE token == ReservedToken(side, m)
             reserve == Reserve(side, qty, price)
             o == [user |-> u, market |-> m, side |-> side, limit |-> price,
                   quantity |-> qty, remaining |-> qty, reserved |-> reserve,
                   status |-> "OPEN"]
             e == [fills |-> 0, base |-> 0, quote |-> 0]
  <1>1. token \in Tokens
    BY DEF ReservedToken, Tokens
  <1>2. qty \in Nat /\ qty > 0 /\ price \in Nat
    BY InputAmounts
  <1>3. reserve \in Nat
    BY <1>2, QuoteForFacts DEF Reserve
  <1>4. /\ balances \in [Users -> [Tokens -> Nat]]
        /\ locked \in [Users -> [Tokens -> Int]]
    BY DEF IndInv, TypeOK
  <1>5. (balances \in [Users -> [Tokens -> Nat]])'
    <2>1. balances[u][token] + (-reserve) >= 0 /\ -reserve \in Int
      BY <1>1, <1>3, <1>4 DEF PlaceOrder
    <2> QED BY <2>1, <1>1, <1>4, AddNat DEF PlaceOrder
  <1>6. (locked \in [Users -> [Tokens -> Int]])'
    <2>1. locked' = Add(locked, u, token, reserve) /\ reserve \in Int
      BY <1>3 DEF PlaceOrder
    <2> HIDE DEF reserve, token
    <2> QED BY <2>1, <1>1, <1>4, AddInt
  <1>7. o \in Order /\ e \in Execution
    BY <1>2, <1>3 DEF Order, Execution, Statuses
  <1>8. SoundOrder(o, e)
    BY <1>2 DEF SoundOrder
  <1>9. WithinLimit(o, e)
    BY <1>2, Units DEF WithinLimit
  <1>10. GoodBook(orders', executed')
    <2>1. orders' = Append(orders, o) /\ executed' = Append(executed, e)
      BY DEF PlaceOrder
    <2> HIDE DEF o, e
    <2> QED BY <2>1, <1>7, <1>8, <1>9, BooksOfIndInv, AppendGood
  <1>11. Flush /\ matching' \in Markets /\ refPrice' \in RefPrices
    BY DEF PlaceOrder
  <1> QED BY <1>5, <1>6, <1>10, <1>11, FlushInv

\* cancelOrder: the refund is what remains at the limit price, so the balance
\* stays an amount.
LEMMA CancelOrderInv ==
  ASSUME IndInv, NEW u \in Users, NEW i \in DOMAIN orders, CancelOrder(u, i)
  PROVE  IndInv'
  <1> DEFINE o == orders[i]
             token == ReservedToken(o.side, o.market)
             refund == RemainingReserve(o)
             x == [o EXCEPT !.status = "CANCELLED"]
             y == [x EXCEPT !.remaining = 0]
  <1>1. /\ GoodBook(orders, executed) /\ i \in 1 .. Len(orders)
        /\ orders \in Seq(Order) /\ executed \in Seq(Execution)
        /\ Len(executed) = Len(orders)
    BY BooksOfIndInv DEF GoodBook
  <1>2. o \in Order /\ executed[i] \in Execution
    BY <1>1, SeqDomain
  <1>3. token \in Tokens
    BY <1>2 DEF ReservedToken, Tokens, Order
  <1>4. refund \in Nat
    <2>1. o.remaining \in Nat /\ o.limit \in Nat
      BY <1>2 DEF Order
    <2> QED BY <2>1, MulNat, DivFacts, Units DEF RemainingReserve
  <1>5. /\ balances \in [Users -> [Tokens -> Nat]]
        /\ locked \in [Users -> [Tokens -> Int]]
        /\ matching \in Markets \cup {NoMarket}
        /\ refPrice \in RefPrices \cup {0}
    BY DEF IndInv, TypeOK
  <1>6. (balances \in [Users -> [Tokens -> Nat]])'
    <2>1. balances[u][token] + refund >= 0
      BY <1>3, <1>4, <1>5
    <2>2. balances' = Add(balances, u, token, refund)
      BY DEF CancelOrder
    <2> QED BY <2>1, <2>2, <1>3, <1>4, <1>5, AddNat
  <1>7. (locked \in [Users -> [Tokens -> Int]])'
    <2>1. locked' = Add(locked, u, token, -refund) /\ -refund \in Int
      BY <1>4 DEF CancelOrder
    <2> HIDE DEF refund, token
    <2> QED BY <2>1, <1>3, <1>5, AddInt
  <1>8. x \in Order
    BY <1>2, SetStatus DEF Statuses
  <1>9. y \in Order
    BY <1>8, SetRemaining
  <1>10. /\ y.status = "CANCELLED" /\ y.remaining = 0 /\ y.side = o.side
         /\ y.limit = o.limit /\ y.quantity = o.quantity
    BY <1>2 DEF Order
  <1>11. SoundOrder(o, executed[i]) /\ WithinLimit(o, executed[i])
    BY <1>1 DEF GoodBook
  <1>12. SoundOrder(y, executed[i]) /\ WithinLimit(y, executed[i])
    BY <1>10, <1>11 DEF SoundOrder, WithinLimit
  <1>13. orders' = [orders EXCEPT ![i] = y]
    BY DEF CancelOrder
  <1> HIDE DEF x, y
  <1>14. /\ orders' \in Seq(Order) /\ Len(orders') = Len(orders)
         /\ orders'[i] = y
         /\ \A k \in 1 .. Len(orders) : k # i => orders'[k] = orders[k]
    BY <1>1, <1>9, <1>13
  <1>15. GoodBook(orders', executed')
    BY <1>1, <1>12, <1>14 DEF GoodBook, CancelOrder
  <1>16. Flush /\ matching' = matching /\ refPrice' = refPrice
    BY DEF CancelOrder
  <1> QED BY <1>5, <1>6, <1>7, <1>15, <1>16, FlushInv

\* The two orders of a fill are the open tops of the two sides.
LEMMA FillFacts ==
  ASSUME IndInv, matching # NoMarket,
         NEW b \in DOMAIN orders, NEW s \in DOMAIN orders, Fill(b, s)
  PROVE  /\ b \in 1 .. Len(orders) /\ s \in 1 .. Len(orders) /\ b # s
         /\ orders[b] \in Order /\ orders[s] \in Order
         /\ executed[b] \in Execution /\ executed[s] \in Execution
         /\ orders[b].side = "BUY" /\ orders[s].side = "SELL"
         /\ IsOpen(orders[b]) /\ IsOpen(orders[s])
         /\ orders[s].limit <= orders[b].limit
  <1>1. b \in 1 .. Len(orders) /\ s \in 1 .. Len(orders)
    BY BooksOfIndInv
  <1>2. /\ orders[b] \in Order /\ orders[s] \in Order
        /\ executed[b] \in Execution /\ executed[s] \in Execution
    BY <1>1, SeqDomain, BooksOfIndInv DEF GoodBook
  <1>3. b \in Side(matching, "BUY") /\ s \in Side(matching, "SELL")
    BY DEF Fill, IsBest
  <1>4. orders[b].limit >= orders[s].limit
    BY DEF Fill, Crosses
  <1> QED BY <1>1, <1>2, <1>3, <1>4 DEF Side, Order

\* One iteration of tryMatch.
LEMMA FillInv ==
  ASSUME IndInv, matching # NoMarket,
         NEW b \in DOMAIN orders, NEW s \in DOMAIN orders, Fill(b, s)
  PROVE  IndInv'
  <1> DEFINE buy == orders[b]
             sell == orders[s]
             traded == IF buy.remaining < sell.remaining THEN buy.remaining
                                                         ELSE sell.remaining
             cost == QuoteFor(traded, sell.limit)
             held == Released(traded, buy.limit, sell.limit)
             refund == Refund(traded, buy.limit, sell.limit)
             o1 == Reduce(buy, traded)
             o2 == Reduce(sell, traded)
             e1 == Record(executed[b], traded, cost)
             e2 == Record(executed[s], traded, cost)
  <1>1. /\ b \in 1 .. Len(orders) /\ s \in 1 .. Len(orders) /\ b # s
        /\ buy \in Order /\ sell \in Order
        /\ executed[b] \in Execution /\ executed[s] \in Execution
        /\ buy.side = "BUY" /\ sell.side = "SELL"
        /\ IsOpen(buy) /\ IsOpen(sell)
        /\ sell.limit <= buy.limit
    BY FillFacts
  <1>2. /\ GoodBook(orders, executed)
        /\ SoundOrder(buy, executed[b]) /\ WithinLimit(buy, executed[b])
        /\ SoundOrder(sell, executed[s]) /\ WithinLimit(sell, executed[s])
    BY <1>1, BooksOfIndInv DEF GoodBook
  <1>3. /\ buy.remaining \in Nat /\ sell.remaining \in Nat
        /\ buy.limit \in Nat /\ sell.limit \in Nat
        /\ buy.user \in Users /\ sell.user \in Users
    BY <1>1 DEF Order
  <1>4. buy.remaining > 0 /\ sell.remaining > 0
    BY <1>1, <1>2, <1>3 DEF SoundOrder, IsOpen, Order
  <1>5. /\ traded \in Nat /\ 0 < traded
        /\ traded <= buy.remaining /\ traded <= sell.remaining
    BY <1>3, <1>4
  <1>6. /\ cost \in Nat /\ held \in Nat /\ cost <= held
        /\ refund = held - cost
    <2> HIDE DEF traded, buy, sell
    <2> QED BY <1>1, <1>3, <1>5, QuoteForFacts, QuoteForMono DEF Released, Refund
  <1>7. matching \in Markets /\ matching \in Tokens /\ Quote \in Tokens
    BY DEF IndInv, TypeOK, Tokens
  <1>8. /\ balances \in [Users -> [Tokens -> Nat]]
        /\ locked \in [Users -> [Tokens -> Int]]
        /\ refPrice \in RefPrices \cup {0}
        /\ disk \in AppState
    BY DEF IndInv, TypeOK
  <1>9. balances' \in [Users -> [Tokens -> Nat]]
    <2> DEFINE p1 == Add(balances, buy.user, matching, traded)
               p2 == Add(p1, sell.user, Quote, cost)
               p3 == Add(p2, buy.user, Quote, refund)
    <2>1. balances' = p3
      BY DEF Fill
    <2> HIDE DEF traded, cost, held, refund, buy, sell
    <2>2. p1 \in [Users -> [Tokens -> Nat]]
      <3>1. balances[buy.user][matching] + traded >= 0 /\ traded \in Int
        BY <1>3, <1>5, <1>7, <1>8
      <3> QED BY <3>1, <1>3, <1>5, <1>7, <1>8, AddNat
    <2> HIDE DEF p1
    <2>3. p2 \in [Users -> [Tokens -> Nat]]
      <3>1. p1[sell.user][Quote] + cost >= 0
        BY <1>3, <1>6, <1>7, <2>2
      <3> QED BY <3>1, <1>3, <1>6, <1>7, <2>2, AddNat
    <2> HIDE DEF p2
    <2>4. p3 \in [Users -> [Tokens -> Nat]]
      <3>1. p2[buy.user][Quote] + refund >= 0 /\ refund \in Int
        BY <1>3, <1>6, <1>7, <2>3
      <3> QED BY <3>1, <1>3, <1>7, <2>3, AddNat
    <2> QED BY <2>1, <2>4
  <1>10. locked' \in [Users -> [Tokens -> Int]]
    <2> DEFINE q1 == Add(locked, buy.user, Quote, -held)
               q2 == Add(q1, sell.user, matching, -traded)
    <2>1. locked' = q2
      BY DEF Fill
    <2>2. -held \in Int /\ -traded \in Int
      BY <1>5, <1>6
    <2> HIDE DEF traded, held, buy, sell
    <2>3. q1 \in [Users -> [Tokens -> Int]]
      BY <2>2, <1>3, <1>7, <1>8, AddInt
    <2> HIDE DEF q1
    <2>4. q2 \in [Users -> [Tokens -> Int]]
      BY <2>2, <2>3, <1>3, <1>7, AddInt
    <2> QED BY <2>1, <2>4
  <1>11. /\ orders' = [orders EXCEPT ![b] = o1, ![s] = o2]
         /\ executed' = [executed EXCEPT ![b] = e1, ![s] = e2]
    BY <1>1 DEF Fill
  <1>12. UNCHANGED <<matching, refPrice, disk>>
    BY DEF Fill
  <1> HIDE DEF traded, cost, held, refund
  <1>13. /\ o1 \in Order /\ e1 \in Execution
         /\ o2 \in Order /\ e2 \in Execution
    BY <1>1, <1>5, <1>6, ReduceType
  <1>14. SoundOrder(o1, e1) /\ SoundOrder(o2, e2)
    BY <1>1, <1>2, <1>5, <1>6, ReduceSound
  <1>15. WithinLimit(o1, e1)
    BY <1>1, <1>2, <1>3, <1>5, ReduceWithinLimit DEF cost
  <1>16. WithinLimit(o2, e2)
    BY <1>1, <1>2, <1>3, <1>5, ReduceWithinLimit DEF cost
  <1>17. /\ o1.remaining <= buy.remaining /\ o2.remaining <= sell.remaining
         /\ o1.status # "CANCELLED" /\ o2.status # "CANCELLED"
         /\ e1.fills = executed[b].fills + 1 /\ e2.fills = executed[s].fills + 1
    BY <1>1, <1>3, <1>5 DEF Reduce, Record, Order
  <1> HIDE DEF o1, o2, e1, e2
  <1>18. GoodBook(orders', executed')
    BY <1>1, <1>2, <1>11, <1>13, <1>14, <1>15, <1>16, ReplaceTwoGood
  <1>19. /\ orders \in Seq(Order) /\ executed \in Seq(Execution)
         /\ Len(executed) = Len(orders)
    BY <1>2 DEF GoodBook
  <1>20. /\ Len(orders') = Len(orders) /\ orders' \in Seq(Order)
         /\ orders'[b] = o1 /\ orders'[s] = o2
         /\ \A k \in 1 .. Len(orders) : k # b /\ k # s => orders'[k] = orders[k]
    BY <1>1, <1>11, <1>13, <1>19
  <1>21. /\ Len(executed') = Len(executed) /\ executed' \in Seq(Execution)
         /\ executed'[b] = e1 /\ executed'[s] = e2
         /\ \A k \in 1 .. Len(executed) :
                k # b /\ k # s => executed'[k] = executed[k]
    BY <1>1, <1>11, <1>13, <1>19
  <1>22. CrashLosesOnlyFills'
    <2>1. ASSUME NEW k \in 1 .. Len(orders)
          PROVE  /\ disk.orders[k].status = "CANCELLED"
                        <=> orders'[k].status = "CANCELLED"
                 /\ orders'[k].remaining <= disk.orders[k].remaining
                 /\ disk.executed[k].fills <= executed'[k].fills
      <3>1. /\ disk.orders[k].status = "CANCELLED"
                    <=> orders[k].status = "CANCELLED"
            /\ orders[k].remaining <= disk.orders[k].remaining
            /\ disk.executed[k].fills <= executed[k].fills
        BY BooksOfIndInv DEF IndInv, CrashLosesOnlyFills
      <3>2. /\ disk.orders[k] \in Order /\ disk.executed[k] \in Execution
            /\ orders[k] \in Order /\ executed[k] \in Execution
        <4>1. Len(disk.orders) = Len(orders)
          BY DEF IndInv, CrashLosesOnlyFills
        <4> QED BY <4>1, <1>19, SeqDomain, BooksOfIndInv DEF GoodBook
      <3>3. CASE k = b
        <4>1. /\ orders'[k] = o1 /\ executed'[k] = e1 /\ orders[k] = buy
          BY <3>3, <1>1, <1>19, <1>20, <1>21
        <4>2. /\ o1.remaining \in Nat /\ disk.orders[k].remaining \in Nat
              /\ buy.remaining \in Nat
              /\ disk.executed[k].fills \in Nat /\ executed[k].fills \in Nat
          BY <3>2, <1>3, <1>13 DEF Order, Execution
        <4>3. buy.status # "CANCELLED"
          BY <1>1 DEF IsOpen
        <4>4. /\ buy.status = orders[k].status
              /\ buy.remaining = orders[k].remaining
              /\ e1.fills = executed[k].fills + 1
          BY <3>3, <4>1, <1>17
        <4> HIDE DEF buy, sell
        <4>5. /\ disk.orders[k].status # "CANCELLED"
              /\ orders'[k].status # "CANCELLED"
          BY <3>1, <4>1, <4>3, <4>4, <1>17
        <4>6. orders'[k].remaining <= disk.orders[k].remaining
          BY <3>1, <4>1, <4>2, <4>4, <1>17
        <4>7. disk.executed[k].fills <= executed'[k].fills
          BY <3>1, <4>1, <4>2, <4>4
        <4> QED BY <4>5, <4>6, <4>7
      <3>4. CASE k = s
        <4>1. /\ orders'[k] = o2 /\ executed'[k] = e2 /\ orders[k] = sell
          BY <3>4, <1>1, <1>19, <1>20, <1>21
        <4>2. /\ o2.remaining \in Nat /\ disk.orders[k].remaining \in Nat
              /\ sell.remaining \in Nat
              /\ disk.executed[k].fills \in Nat /\ executed[k].fills \in Nat
          BY <3>2, <1>3, <1>13 DEF Order, Execution
        <4>3. sell.status # "CANCELLED"
          BY <1>1 DEF IsOpen
        <4>4. /\ sell.status = orders[k].status
              /\ sell.remaining = orders[k].remaining
              /\ e2.fills = executed[k].fills + 1
          BY <3>4, <4>1, <1>17
        <4> HIDE DEF buy, sell
        <4>5. /\ disk.orders[k].status # "CANCELLED"
              /\ orders'[k].status # "CANCELLED"
          BY <3>1, <4>1, <4>3, <4>4, <1>17
        <4>6. orders'[k].remaining <= disk.orders[k].remaining
          BY <3>1, <4>1, <4>2, <4>4, <1>17
        <4>7. disk.executed[k].fills <= executed'[k].fills
          BY <3>1, <4>1, <4>2, <4>4
        <4> QED BY <4>5, <4>6, <4>7
      <3>5. CASE k # b /\ k # s
        BY <3>1, <3>5, <1>19, <1>20, <1>21
      <3> QED BY <3>3, <3>4, <3>5
    <2>2. DOMAIN orders' = 1 .. Len(orders)
      BY <1>20, SeqDomain
    <2>3. Len(disk.orders) = Len(orders)
      BY DEF IndInv, CrashLosesOnlyFills
    <2> QED BY <2>1, <2>2, <2>3, <1>12, <1>20 DEF CrashLosesOnlyFills
  <1>23. DOMAIN orders' = 1 .. Len(orders')
    BY <1>20, SeqDomain
  <1>24. TypeOK'
    BY <1>7, <1>8, <1>9, <1>10, <1>12, <1>20, <1>21 DEF TypeOK
  <1>25. OrdersWellFormed' /\ ExecutionWithinLimits'
    BY <1>12, <1>18, <1>23, BooksOfIndInv
       DEF GoodBook, OrdersWellFormed, ExecutionWithinLimits
  <1> QED BY <1>22, <1>24, <1>25 DEF IndInv

\* The return of tryMatch, with its flush.
LEMMA MatchReturnInv ==
  ASSUME IndInv, MatchReturn
  PROVE  IndInv'
  <1>1. /\ Flush /\ matching' = NoMarket /\ refPrice' = 0
        /\ balances' = balances /\ locked' = locked
        /\ orders' = orders /\ executed' = executed
    BY DEF MatchReturn
  <1>2. /\ balances \in [Users -> [Tokens -> Nat]]
        /\ locked \in [Users -> [Tokens -> Int]]
    BY DEF IndInv, TypeOK
  <1> QED BY <1>1, <1>2, BooksOfIndInv, FlushInv

\* The exception of tryMatch changes neither the book nor the file.
LEMMA MatchThrowInv ==
  ASSUME IndInv, MatchThrow
  PROVE  IndInv'
  BY DEF MatchThrow, IndInv, TypeOK, OrdersWellFormed, ExecutionWithinLimits,
         CrashLosesOnlyFills

\* A restart loads a good book.
LEMMA RestartInv ==
  ASSUME IndInv, Restart
  PROVE  IndInv'
  <1>1. /\ balances' = disk.balances /\ locked' = disk.locked
        /\ orders' = disk.orders /\ executed' = disk.executed
        /\ matching' = NoMarket /\ refPrice' = 0 /\ disk' = disk
    BY DEF Restart
  <1>2. /\ disk \in AppState
        /\ disk.balances \in [Users -> [Tokens -> Nat]]
        /\ disk.locked \in [Users -> [Tokens -> Int]]
        /\ disk.orders \in Seq(Order) /\ disk.executed \in Seq(Execution)
    BY DEF IndInv, TypeOK, AppState
  <1>3. TypeOK'
    BY <1>1, <1>2 DEF TypeOK
  <1>4. OrdersWellFormed' /\ ExecutionWithinLimits'
    BY <1>1 DEF IndInv, OrdersWellFormed, ExecutionWithinLimits
  <1>5. CrashLosesOnlyFills'
    <2>1. \A i \in DOMAIN disk.orders :
             /\ disk.orders[i].remaining <= disk.orders[i].remaining
             /\ disk.executed[i].fills <= disk.executed[i].fills
      <3> TAKE i \in DOMAIN disk.orders
      <3>1. disk.orders[i] \in Order /\ disk.executed[i] \in Execution
        BY <1>2, SeqDomain, BooksOfIndInv DEF GoodBook
      <3> QED BY <3>1 DEF Order, Execution
    <2> QED BY <2>1, <1>1 DEF CrashLosesOnlyFills
  <1> QED BY <1>3, <1>4, <1>5 DEF IndInv

\* Every step keeps the invariant.
LEMMA NextInv == IndInv /\ [Next]_vars => IndInv'
  <1> SUFFICES ASSUME IndInv, [Next]_vars PROVE IndInv'
    OBVIOUS
  <1>1. ASSUME NEW u \in Users, NEW m \in Markets, NEW side \in Sides,
               NEW qty \in Quantities, NEW price \in Prices,
               PlaceOrder(u, m, side, qty, price)
        PROVE  IndInv'
    BY <1>1, PlaceOrderInv
  <1>2. ASSUME NEW u \in Users, NEW i \in DOMAIN orders, CancelOrder(u, i)
        PROVE  IndInv'
    BY <1>2, CancelOrderInv
  <1>3. CASE TryMatch
    BY <1>3, FillInv DEF TryMatch
  <1>4. CASE MatchReturn
    BY <1>4, MatchReturnInv
  <1>5. CASE MatchThrow
    BY <1>5, MatchThrowInv
  <1>6. CASE Restart
    BY <1>6, RestartInv
  <1>7. CASE UNCHANGED vars
    BY <1>7 DEF vars, IndInv, TypeOK, OrdersWellFormed, SoundOrder,
                ExecutionWithinLimits, WithinLimit, CrashLosesOnlyFills, IsOpen
  <1> QED BY <1>1, <1>2, <1>3, <1>4, <1>5, <1>6, <1>7 DEF Next

\* The inductive invariant holds in every reachable state.
THEOREM Invariance == Spec => []IndInv
  BY InitInv, NextInv, PTL DEF Spec

\* Balances and remaining quantities never go negative, whatever is placed,
\* filled, cancelled, interrupted by an exception or lost in a crash.
THEOREM TypeCorrect == Spec => []TypeOK
  <1>1. IndInv => TypeOK
    BY DEF IndInv
  <1> QED BY <1>1, Invariance, PTL

\* No sequence of partial fills makes a buy order pay above its limit price, nor
\* a sell order receive below it by more than an atom per fill.
THEOREM LimitsRespected == Spec => []ExecutionWithinLimits
  <1>1. IndInv => ExecutionWithinLimits
    BY DEF IndInv
  <1> QED BY <1>1, Invariance, PTL

\* Status, remaining quantity and executed quantity agree, also after a restart.
THEOREM BookWellFormed == Spec => []OrdersWellFormed
  <1>1. IndInv => OrdersWellFormed
    BY DEF IndInv
  <1> QED BY <1>1, Invariance, PTL

\* The state file never lacks an accepted order or an answered cancel.
THEOREM Durability == Spec => []CrashLosesOnlyFills
  <1>1. IndInv => CrashLosesOnlyFills
    BY DEF IndInv
  <1> QED BY <1>1, Invariance, PTL

-----------------------------------------------------------------------------
(* Price-time priority is a property of steps. *)

\* A fill takes the best order of each side.
LEMMA FillInTurn ==
  ASSUME IndInv, matching # NoMarket,
         NEW b \in DOMAIN orders, NEW s \in DOMAIN orders, Fill(b, s)
  PROVE  TradesInTurn
  <1>1. /\ b \in 1 .. Len(orders) /\ s \in 1 .. Len(orders) /\ b # s
        /\ orders[b].side = "BUY" /\ orders[s].side = "SELL"
    BY FillFacts
  <1>2. /\ orders \in Seq(Order) /\ executed \in Seq(Execution)
        /\ Len(executed) = Len(orders) /\ DOMAIN orders = 1 .. Len(orders)
    BY BooksOfIndInv DEF GoodBook
  <1>3. \A k \in 1 .. Len(orders) : k # b /\ k # s => executed'[k] = executed[k]
    BY <1>1, <1>2 DEF Fill
  <1>4. SUFFICES ASSUME NEW i \in DOMAIN orders, NEW j \in DOMAIN orders,
                        executed'[i].fills > executed[i].fills,
                        IsOpen(orders[j]),
                        orders[j].market = orders[i].market,
                        orders[j].side = orders[i].side,
                        j < i,
                        \/ orders[j].limit = orders[i].limit
                        \/ orders[j].side = "BUY"  /\ orders[j].limit > orders[i].limit
                        \/ orders[j].side = "SELL" /\ orders[j].limit < orders[i].limit
                 PROVE  FALSE
    BY DEF TradesInTurn
  <1>5. /\ orders[i] \in Order /\ orders[j] \in Order /\ executed[i] \in Execution
        /\ i \in Nat /\ j \in Nat
    BY <1>2, SeqDomain
  <1>6. i = b \/ i = s
    <2>1. SUFFICES ASSUME i # b, i # s PROVE FALSE
      OBVIOUS
    <2>2. executed'[i] = executed[i]
      BY <2>1, <1>2, <1>3
    <2>3. executed[i].fills \in Nat /\ executed'[i].fills > executed[i].fills
      BY <1>4, <1>5 DEF Execution
    <2> QED BY <2>2, <2>3
  <1>7. IsBest(i, matching, orders[i].side)
    BY <1>1, <1>6 DEF Fill
  <1>8. Outranks(i, j)
    <2>1. i \in Side(matching, orders[i].side)
      BY <1>7 DEF IsBest
    <2>2. j \in Side(matching, orders[i].side)
      BY <1>4, <2>1 DEF Side
    <2> QED BY <1>7, <2>2 DEF IsBest
  <1> QED BY <1>4, <1>5, <1>8 DEF Outranks, Order

\* No other step adds fills.
LEMMA OtherStepsInTurn ==
  ASSUME IndInv, [Next]_vars, ~TryMatch
  PROVE  TradesInTurn
  <1>1. /\ executed \in Seq(Execution) /\ Len(executed) = Len(orders)
        /\ DOMAIN orders = 1 .. Len(orders)
    BY BooksOfIndInv DEF GoodBook
  <1>2. \A i \in DOMAIN orders : executed[i].fills \in Nat
    <2>1. \A i \in DOMAIN orders : executed[i] \in Execution
      BY <1>1, SeqDomain
    <2> QED BY <2>1 DEF Execution
  <1>3. \A i \in DOMAIN orders : disk.executed[i].fills \in Nat
    <2>1. /\ disk.executed \in Seq(Execution)
          /\ Len(disk.executed) = Len(orders)
      BY BooksOfIndInv DEF GoodBook, IndInv, CrashLosesOnlyFills
    <2>2. \A i \in DOMAIN orders : disk.executed[i] \in Execution
      BY <1>1, <2>1, SeqDomain
    <2> QED BY <2>2 DEF Execution
  <1>4. \A i \in DOMAIN orders : /\ executed'[i].fills \in Nat
                                 /\ executed'[i].fills <= executed[i].fills
    <2>1. ASSUME NEW u \in Users, NEW m \in Markets, NEW side \in Sides,
                 NEW qty \in Quantities, NEW price \in Prices,
                 PlaceOrder(u, m, side, qty, price)
          PROVE  \A i \in DOMAIN orders : executed'[i] = executed[i]
      <3>1. executed' = Append(executed, [fills |-> 0, base |-> 0, quote |-> 0])
        BY <2>1 DEF PlaceOrder
      <3>2. [fills |-> 0, base |-> 0, quote |-> 0] \in Execution
        BY DEF Execution
      <3> QED BY <1>1, <3>1, <3>2, AppendOne
    <2>2. ASSUME NEW u \in Users, NEW i \in DOMAIN orders, CancelOrder(u, i)
          PROVE  executed' = executed
      BY <2>2 DEF CancelOrder
    <2>3. MatchReturn \/ MatchThrow \/ UNCHANGED vars => executed' = executed
      BY DEF MatchReturn, MatchThrow, vars
    <2>4. CASE Restart
      BY <2>4, <1>3 DEF Restart, IndInv, CrashLosesOnlyFills
    <2> QED BY <2>1, <2>2, <2>3, <2>4, <1>2 DEF Next
  <1> QED BY <1>2, <1>4 DEF TradesInTurn

\* No reachable step trades an order past an older one that is at least as good.
THEOREM Priority == Spec => PriceTimePriority
  <1>1. IndInv /\ [Next]_vars => TradesInTurn
    BY FillInTurn, OtherStepsInTurn DEF TryMatch
  <1>2. IndInv /\ [Next]_vars => [TradesInTurn]_vars
    BY <1>1
  <1> QED BY <1>2, Invariance, PTL DEF Spec, PriceTimePriority

-----------------------------------------------------------------------------
(* Conservation: every step adds to available and locked what it takes from *)
(* the other, or moves it between the two users of a fill.                  *)

\* What Add leaves in each entry.
LEMMA AddAt ==
  ASSUME NEW L \in [Users -> [Tokens -> Int]],
         NEW u \in Users, NEW t \in Tokens, NEW d \in Int
  PROVE  \A v \in Users, w \in Tokens :
            Add(L, u, t, d)[v][w] = IF v = u /\ w = t THEN L[v][w] + d ELSE L[v][w]
  BY DEF Add

Moves(bal, lck, bal2, lck2, t, x, z, d) ==
  \A v \in Users : bal2[v][t] + lck2[v][t]
      = bal[v][t] + lck[v][t] + (IF v = x THEN d ELSE 0) - (IF v = z THEN d ELSE 0)

\* Moving d of token t between two users, or none, keeps what is held of it.
LEMMA HeldKept ==
  ASSUME NEW bal \in [Users -> [Tokens -> Int]], NEW lck \in [Users -> [Tokens -> Int]],
         NEW bal2, NEW lck2, NEW t \in Tokens,
         NEW x \in Users, NEW z \in Users, NEW d \in Int,
         Moves(bal, lck, bal2, lck2, t, x, z, d)
  PROVE  Held(bal2, lck2, t) = Held(bal, lck, t)
  <1> DEFINE f == [v \in Users |-> bal[v][t] + lck[v][t]]
             g == [v \in Users |-> bal2[v][t] + lck2[v][t]]
  <1>1. \A v \in Users : f[v] \in Int
    OBVIOUS
  <1>2. Transfers(f, g, Users, x, z, d)
    BY DEF Moves, Transfers
  <1>3. /\ Held(bal, lck, t) = SumFunction(f) /\ Users = DOMAIN f
        /\ Held(bal2, lck2, t) = SumFunction(g) /\ Users = DOMAIN g
    BY DEF Held
  <1> HIDE DEF f, g
  <1>4. SumFunctionOnSet(g, Users) = SumFunctionOnSet(f, Users)
    BY <1>1, <1>2, FiniteUsers, SumTransfer
  <1> QED BY <1>3, <1>4, SumOfFunction

Shifts(bal, lck, bal2, lck2, u, w, d) ==
  bal2 = Add(bal, u, w, -d) /\ lck2 = Add(lck, u, w, d)

Ledgers == /\ balances \in [Users -> [Tokens -> Int]]
           /\ locked \in [Users -> [Tokens -> Int]]
           /\ disk.balances \in [Users -> [Tokens -> Int]]
           /\ disk.locked \in [Users -> [Tokens -> Int]]

\* Amounts that are naturals are integers, which is all the sums ask for.
LEMMA LedgersOfIndInv == ASSUME IndInv PROVE Ledgers
  <1>1. \A L \in [Users -> [Tokens -> Nat]] : L \in [Users -> [Tokens -> Int]]
    OBVIOUS
  <1> QED BY <1>1 DEF IndInv, TypeOK, AppState, Ledgers

\* In one user's entry, what leaves the balance is locked, or the reverse: such a
\* step keeps what is held of every token.
LEMMA ShiftConserves ==
  ASSUME IndInv, NEW u \in Users, NEW w \in Tokens, NEW t \in Tokens, NEW d \in Int,
         Shifts(balances, locked, balances', locked', u, w, d)
  PROVE  Held(balances', locked', t) = Held(balances, locked, t)
  <1> DEFINE f == [v \in Users |-> balances[v][t] + locked[v][t]]
             g == [v \in Users |-> balances'[v][t] + locked'[v][t]]
  <1>1. /\ balances \in [Users -> [Tokens -> Int]]
        /\ locked \in [Users -> [Tokens -> Int]]
    BY LedgersOfIndInv DEF Ledgers
  <1>2. balances' = Add(balances, u, w, -d) /\ locked' = Add(locked, u, w, d) /\ -d \in Int
    BY DEF Shifts
  <1>3. \A v \in Users :
           balances'[v][t] = IF v = u /\ t = w THEN balances[v][t] + -d ELSE balances[v][t]
    BY <1>1, <1>2, AddAt
  <1>4. \A v \in Users :
           locked'[v][t] = IF v = u /\ t = w THEN locked[v][t] + d ELSE locked[v][t]
    BY <1>1, <1>2, AddAt
  <1>5. \A v \in Users : balances[v][t] \in Int /\ locked[v][t] \in Int
    BY <1>1
  <1>6. \A v \in Users : balances'[v][t] + locked'[v][t] = balances[v][t] + locked[v][t]
    BY <1>3, <1>4, <1>5
  <1>7. f = g
    BY <1>6
  <1>8. Held(balances, locked, t) = SumFunction(f)
    BY DEF Held
  <1>9. Held(balances', locked', t) = SumFunction(g)
    BY DEF Held
  <1> QED BY <1>7, <1>8, <1>9

\* One iteration of tryMatch: the seller is paid what the buyer pays, in both
\* tokens.
LEMMA FillConserves ==
  ASSUME IndInv, matching # NoMarket,
         NEW b \in DOMAIN orders, NEW s \in DOMAIN orders, Fill(b, s),
         NEW t \in Tokens
  PROVE  Held(balances', locked', t) = Held(balances, locked, t)
  <1> DEFINE buyer == orders[b].user
             seller == orders[s].user
             traded == IF orders[b].remaining < orders[s].remaining
                       THEN orders[b].remaining ELSE orders[s].remaining
             cost == QuoteFor(traded, orders[s].limit)
             held == Released(traded, orders[b].limit, orders[s].limit)
             p1 == Add(balances, buyer, matching, traded)
             p2 == Add(p1, seller, Quote, cost)
             p3 == Add(p2, buyer, Quote, held - cost)
             q1 == Add(locked, buyer, Quote, -held)
             q2 == Add(q1, seller, matching, -traded)
  <1>1. buyer \in Users /\ seller \in Users /\ matching \in Tokens /\ Quote \in Tokens
        /\ matching # Quote
    BY FillFacts, MarketNames DEF Order, IndInv, TypeOK, Tokens
  <1>2. traded \in Nat
    BY FillFacts DEF Order
  <1>3. cost \in Nat /\ held \in Nat
    <2>1. orders[b].limit \in Nat /\ orders[s].limit \in Nat
      BY FillFacts DEF Order
    <2> HIDE DEF traded
    <2> QED BY <2>1, <1>2, QuoteForFacts DEF Released
  <1>4. balances' = p3 /\ locked' = q2
    BY DEF Fill, Refund
  <1>5. /\ balances \in [Users -> [Tokens -> Int]]
        /\ locked \in [Users -> [Tokens -> Int]]
    BY LedgersOfIndInv DEF Ledgers
  <1> HIDE DEF buyer, seller, traded, cost, held
  <1>6. p1 \in [Users -> [Tokens -> Int]] /\ q1 \in [Users -> [Tokens -> Int]]
    <2>1. traded \in Int /\ -held \in Int
      BY <1>2, <1>3
    <2> QED BY <2>1, <1>1, <1>5, AddInt
  <1> HIDE DEF p1, q1
  <1>7. p2 \in [Users -> [Tokens -> Int]]
    <2>1. cost \in Int
      BY <1>3
    <2> QED BY <2>1, <1>1, <1>6, AddInt
  <1> HIDE DEF p2
  <1>8. \A v \in Users :
           /\ p1[v][t] = balances[v][t]
                         + (IF v = buyer /\ t = matching THEN traded ELSE 0)
           /\ p2[v][t] = p1[v][t] + (IF v = seller /\ t = Quote THEN cost ELSE 0)
           /\ p3[v][t] = p2[v][t]
                         + (IF v = buyer /\ t = Quote THEN held - cost ELSE 0)
    <2>1. traded \in Int /\ cost \in Int /\ held - cost \in Int
      BY <1>2, <1>3
    <2>2. \A v \in Users : p1[v][t] = balances[v][t]
                         + (IF v = buyer /\ t = matching THEN traded ELSE 0)
      BY <2>1, <1>1, <1>5, AddAt DEF p1
    <2>3. \A v \in Users : p2[v][t] = p1[v][t]
                         + (IF v = seller /\ t = Quote THEN cost ELSE 0)
      BY <2>1, <1>1, <1>6, AddAt DEF p2
    <2>4. \A v \in Users : p3[v][t] = p2[v][t]
                         + (IF v = buyer /\ t = Quote THEN held - cost ELSE 0)
      BY <2>1, <1>1, <1>7, AddAt
    <2> QED BY <2>2, <2>3, <2>4
  <1>9. \A v \in Users :
           /\ q1[v][t] = locked[v][t]
                         - (IF v = buyer /\ t = Quote THEN held ELSE 0)
           /\ q2[v][t] = q1[v][t]
                         - (IF v = seller /\ t = matching THEN traded ELSE 0)
    <2>1. -traded \in Int /\ -held \in Int
      BY <1>2, <1>3
    <2>2. \A v \in Users : q1[v][t] = locked[v][t]
                         - (IF v = buyer /\ t = Quote THEN held ELSE 0)
      BY <2>1, <1>1, <1>3, <1>5, AddAt DEF q1
    <2>3. \A v \in Users : q2[v][t] = q1[v][t]
                         - (IF v = seller /\ t = matching THEN traded ELSE 0)
      BY <2>1, <1>1, <1>2, <1>6, AddAt
    <2> QED BY <2>2, <2>3
  <1> DEFINE d == IF t = Quote THEN cost ELSE IF t = matching THEN -traded ELSE 0
  <1> HIDE DEF p3, q2
  <1>10. Moves(balances, locked, p3, q2, t, seller, buyer, d)
    <2> SUFFICES ASSUME NEW v \in Users
                 PROVE  p3[v][t] + q2[v][t] = balances[v][t] + locked[v][t]
             + (IF v = seller THEN d ELSE 0) - (IF v = buyer THEN d ELSE 0)
      BY DEF Moves
    <2>1. balances[v][t] \in Int /\ locked[v][t] \in Int
      BY <1>5
    <2>2. /\ p1[v][t] = balances[v][t]
                        + (IF v = buyer /\ t = matching THEN traded ELSE 0)
          /\ p2[v][t] = p1[v][t] + (IF v = seller /\ t = Quote THEN cost ELSE 0)
          /\ p3[v][t] = p2[v][t]
                        + (IF v = buyer /\ t = Quote THEN held - cost ELSE 0)
          /\ q1[v][t] = locked[v][t]
                        - (IF v = buyer /\ t = Quote THEN held ELSE 0)
          /\ q2[v][t] = q1[v][t]
                        - (IF v = seller /\ t = matching THEN traded ELSE 0)
      BY <1>8, <1>9
    <2>3. traded \in Int /\ cost \in Int /\ held \in Int
      BY <1>2, <1>3
    <2> HIDE DEF d
    <2>4. CASE t = Quote
      <3>1. t # matching /\ d = cost
        BY <2>4, <1>1 DEF d
      <3> QED BY <2>1, <2>2, <2>3, <2>4, <3>1
    <2>5. CASE t = matching
      <3>1. t # Quote /\ d = -traded
        BY <2>5, <1>1 DEF d
      <3> QED BY <2>1, <2>2, <2>3, <2>5, <3>1
    <2>6. CASE t # Quote /\ t # matching
      <3>1. d = 0
        BY <2>6 DEF d
      <3> QED BY <2>1, <2>2, <2>3, <2>6, <3>1
    <2> QED BY <2>4, <2>5, <2>6
  <1>11. d \in Int
    BY <1>2, <1>3
  <1> HIDE DEF d
  <1> QED BY <1>1, <1>4, <1>5, <1>10, <1>11, HeldKept

\* Every step keeps what is held, in memory and in the state file.
LEMMA ConservationStep ==
  IndInv /\ Conservation /\ [Next]_vars => Conservation'
  <1> SUFFICES ASSUME IndInv, Conservation, [Next]_vars, NEW t \in Tokens
               PROVE  /\ Held(balances', locked', t) = Held(balances, locked, t)
                         \/ Held(balances', locked', t)
                                = Held(disk.balances, disk.locked, t)
                      /\ \/ disk' = disk
                         \/ disk'.balances = balances' /\ disk'.locked = locked'
    BY DEF Conservation
  <1>1. ASSUME NEW u \in Users, NEW m \in Markets, NEW side \in Sides,
               NEW qty \in Quantities, NEW price \in Prices,
               PlaceOrder(u, m, side, qty, price)
        PROVE  /\ Held(balances', locked', t) = Held(balances, locked, t)
               /\ disk'.balances = balances' /\ disk'.locked = locked'
    <2> DEFINE token == ReservedToken(side, m)
               reserve == Reserve(side, qty, price)
    <2>1. token \in Tokens
      BY DEF ReservedToken, Tokens
    <2>2. reserve \in Int
      BY InputAmounts, QuoteForFacts DEF Reserve
    <2>3. Shifts(balances, locked, balances', locked', u, token, reserve)
      BY <1>1 DEF PlaceOrder, Shifts
    <2>4. disk'.balances = balances' /\ disk'.locked = locked'
      BY <1>1 DEF PlaceOrder, Flush, Snapshot
    <2> HIDE DEF token, reserve
    <2>5. Held(balances', locked', t) = Held(balances, locked, t)
      BY <2>1, <2>2, <2>3, ShiftConserves
    <2> QED BY <2>4, <2>5
  <1>2. ASSUME NEW u \in Users, NEW i \in DOMAIN orders, CancelOrder(u, i)
        PROVE  /\ Held(balances', locked', t) = Held(balances, locked, t)
               /\ disk'.balances = balances' /\ disk'.locked = locked'
    <2> DEFINE token == ReservedToken(orders[i].side, orders[i].market)
               refund == RemainingReserve(orders[i])
               d == -refund
    <2>0. orders[i] \in Order
      BY BooksOfIndInv, SeqDomain DEF GoodBook
    <2>1. token \in Tokens
      BY <2>0 DEF ReservedToken, Tokens, Order
    <2>2. refund \in Nat
      <3>1. orders[i].remaining \in Nat /\ orders[i].limit \in Nat
        BY <2>0 DEF Order
      <3> QED BY <3>1, MulNat, DivFacts, Units DEF RemainingReserve
    <2>3. /\ balances' = Add(balances, u, token, refund)
          /\ locked' = Add(locked, u, token, d)
      BY <1>2 DEF CancelOrder
    <2>4. disk'.balances = balances' /\ disk'.locked = locked'
      BY <1>2 DEF CancelOrder, Flush, Snapshot
    <2> HIDE DEF token, refund
    <2>5. d \in Int /\ -d = refund
      BY <2>2
    <2> HIDE DEF d
    <2>6. Shifts(balances, locked, balances', locked', u, token, d)
      BY <2>3, <2>5 DEF Shifts
    <2>7. Held(balances', locked', t) = Held(balances, locked, t)
      BY <2>1, <2>5, <2>6, ShiftConserves
    <2> QED BY <2>4, <2>7
  <1>3. ASSUME TryMatch
        PROVE  Held(balances', locked', t) = Held(balances, locked, t) /\ disk' = disk
    <2>1. PICK b \in DOMAIN orders, s \in DOMAIN orders : Fill(b, s)
      BY <1>3 DEF TryMatch
    <2>2. matching # NoMarket
      BY <1>3 DEF TryMatch
    <2>3. disk' = disk
      BY <2>1 DEF Fill
    <2> QED BY <2>1, <2>2, <2>3, FillConserves
  <1>4. ASSUME MatchReturn
        PROVE  /\ balances' = balances /\ locked' = locked
               /\ disk'.balances = balances' /\ disk'.locked = locked'
    BY <1>4 DEF MatchReturn, Flush, Snapshot
  <1>5. ASSUME MatchThrow
        PROVE  balances' = balances /\ locked' = locked /\ disk' = disk
    BY <1>5 DEF MatchThrow
  <1>6. ASSUME Restart
        PROVE  balances' = disk.balances /\ locked' = disk.locked /\ disk' = disk
    BY <1>6 DEF Restart
  <1>7. ASSUME UNCHANGED vars
        PROVE  balances' = balances /\ locked' = locked /\ disk' = disk
    BY <1>7 DEF vars
  <1> QED BY <1>1, <1>2, <1>3, <1>4, <1>5, <1>6, <1>7 DEF Next

\* Placing, matching, cancelling, an exception and a crash neither create nor
\* destroy tokens, whatever the number of users and the rounding of the fills.
THEOREM Conserved == Spec => []Conservation
  <1>1. Init => Conservation
    <2> SUFFICES ASSUME Init, NEW t \in Tokens
                 PROVE  Held(Funds, [u \in Users |-> [w \in Tokens |-> 0]], t)
                            = SumFunction([u \in Users |-> Funds[u][t]])
      BY DEF Init, Conservation
    <2> DEFINE zero == [u \in Users |-> [w \in Tokens |-> 0]]
               f == [u \in Users |-> Funds[u][t] + zero[u][t]]
               g == [u \in Users |-> Funds[u][t]]
    <2>1. \A u \in Users : f[u] = g[u]
      BY FundsAreAmounts
    <2>2. f = g
      BY <2>1
    <2> QED BY <2>2 DEF Held
  <1> QED BY <1>1, ConservationStep, Invariance, PTL DEF Spec

-----------------------------------------------------------------------------
(* What locked covers.  The refunds an open book owes are a sum over all its *)
(* orders of a share that is zero for the others, so a step changes the sum  *)
(* by the shares of the one or two orders it touches.                        *)

Share(o, u, t) ==
  IF o.user = u /\ ReservedToken(o.side, o.market) = t /\ IsOpen(o)
  THEN RemainingReserve(o) ELSE 0

Shares(ords, u, t) == [i \in DOMAIN ords |-> Share(ords[i], u, t)]

Buys(ords, u) == {i \in DOMAIN ords : ords[i].user = u /\ ords[i].side = "BUY"}

BuyFills(ords, exec, u) == SumFunction([i \in Buys(ords, u) |-> exec[i].fills])

Bought(o, e, u) == IF o.user = u /\ o.side = "BUY" THEN e.fills ELSE 0

Boughts(ords, exec, u) == [i \in DOMAIN ords |-> Bought(ords[i], exec[i], u)]

\* A sequence has finitely many positions.
LEMMA FinitePositions ==
  ASSUME NEW S, NEW q \in Seq(S)
  PROVE  IsFiniteSet(1 .. Len(q))
  BY FS_Interval

\* What is left of an order is reserved as an amount.
LEMMA ReserveNat ==
  ASSUME NEW o \in Order
  PROVE  RemainingReserve(o) \in Nat
  <1>1. o.remaining \in Nat /\ o.limit \in Nat
    BY DEF Order
  <1> QED BY <1>1, MulNat, DivFacts, Units DEF RemainingReserve

\* The share of an order is an amount.
LEMMA ShareNat ==
  ASSUME NEW o \in Order, NEW u, NEW t
  PROVE  Share(o, u, t) \in Nat
  BY ReserveNat DEF Share

\* The refunds owed are the sum of all the shares.
LEMMA OwedIsSum ==
  ASSUME NEW ords \in Seq(Order), NEW u, NEW t
  PROVE  Owed(ords, u, t) = SumFunctionOnSet(Shares(ords, u, t), 1 .. Len(ords))
  <1> DEFINE S == 1 .. Len(ords)
             T == OpenOf(ords, u, t)
             f == [i \in T |-> RemainingReserve(ords[i])]
             g == Shares(ords, u, t)
  <1>1. DOMAIN ords = S /\ Len(ords) \in Nat /\ \A i \in S : ords[i] \in Order
    BY SeqDomain
  <1>2. IsFiniteSet(S)
    BY FinitePositions
  <1>3. T \in SUBSET S
    BY <1>1 DEF OpenOf
  <1>4. \A i \in T : f[i] \in Int
    BY <1>1, <1>3, ReserveNat
  <1>5. \A i \in S : g[i] = IF i \in T THEN f[i] ELSE 0
    BY <1>1 DEF Shares, Share, OpenOf
  <1>6. T = DOMAIN f /\ Owed(ords, u, t) = SumFunction(f)
    BY DEF Owed
  <1> HIDE DEF S, T, f, g
  <1>7. SumFunctionOnSet(f, T) = SumFunctionOnSet(g, S)
    BY <1>2, <1>3, <1>4, <1>5, SumFilter
  <1>8. SumFunction(f) = SumFunctionOnSet(f, T)
    BY <1>6, SumOfFunction
  <1> QED BY <1>6, <1>7, <1>8 DEF g, S

\* The fills of a user's buy orders are a sum over all the orders too.
LEMMA BuyFillsIsSum ==
  ASSUME NEW ords \in Seq(Order), NEW exec \in Seq(Execution),
         Len(exec) = Len(ords), NEW u
  PROVE  BuyFills(ords, exec, u)
             = SumFunctionOnSet(Boughts(ords, exec, u), 1 .. Len(ords))
  <1> DEFINE S == 1 .. Len(ords)
             T == Buys(ords, u)
             f == [i \in T |-> exec[i].fills]
             g == Boughts(ords, exec, u)
  <1>1. /\ DOMAIN ords = S /\ Len(ords) \in Nat
        /\ \A i \in S : exec[i] \in Execution
    BY SeqDomain
  <1>2. IsFiniteSet(S)
    BY FinitePositions
  <1>3. T \in SUBSET S
    BY <1>1 DEF Buys
  <1>4. \A i \in T : f[i] \in Int
    BY <1>1, <1>3 DEF Execution
  <1>5. \A i \in S : g[i] = IF i \in T THEN f[i] ELSE 0
    BY <1>1 DEF Boughts, Bought, Buys
  <1>6. T = DOMAIN f /\ BuyFills(ords, exec, u) = SumFunction(f)
    BY DEF BuyFills
  <1> HIDE DEF S, T, f, g
  <1>7. SumFunctionOnSet(f, T) = SumFunctionOnSet(g, S)
    BY <1>2, <1>3, <1>4, <1>5, SumFilter
  <1>8. SumFunction(f) = SumFunctionOnSet(f, T)
    BY <1>6, SumOfFunction
  <1> QED BY <1>6, <1>7, <1>8 DEF g, S

\* A sum over positions grows by the element at the new one.
LEMMA SumLonger ==
  ASSUME NEW f, NEW g, NEW n \in Nat, \A i \in 1 .. n : f[i] \in Int,
         \A i \in 1 .. n : g[i] = f[i], g[n + 1] \in Int
  PROVE  SumFunctionOnSet(g, 1 .. n + 1) = SumFunctionOnSet(f, 1 .. n) + g[n + 1]
  <1> DEFINE S == 1 .. n
             x == n + 1
  <1>1. IsFiniteSet(S) /\ x \notin S /\ 1 .. n + 1 = S \cup {x}
    <2>1. IsFiniteSet(1 .. n)
      BY FS_Interval
    <2>2. x \notin S /\ 1 .. n + 1 = S \cup {x}
      OBVIOUS
    <2> QED BY <2>1, <2>2
  <1>2. \A i \in S : g[i] \in Int /\ f[i] = g[i]
    OBVIOUS
  <1>3. g[x] \in Int
    OBVIOUS
  <1> HIDE DEF S, x
  <1>4. SumFunctionOnSet(g, S \cup {x}) = SumFunctionOnSet(g, S) + g[x]
    BY <1>1, <1>2, <1>3, SumWith
  <1>5. SumFunctionOnSet(f, S) = SumFunctionOnSet(g, S)
    BY <1>1, <1>2, SumAgree
  <1> QED BY <1>1, <1>4, <1>5 DEF S, x

\* A new order adds its own share.
LEMMA OwedAppend ==
  ASSUME NEW ords \in Seq(Order), NEW o \in Order, NEW u, NEW t
  PROVE  /\ Owed(Append(ords, o), u, t) = Owed(ords, u, t) + Share(o, u, t)
         /\ Owed(ords, u, t) \in Int
  <1> DEFINE n == Len(ords)
             ords2 == Append(ords, o)
             f == Shares(ords, u, t)
             g == Shares(ords2, u, t)
  <1>1. /\ n \in Nat /\ DOMAIN ords = 1 .. n /\ \A i \in 1 .. n : ords[i] \in Order
        /\ ords2 \in Seq(Order) /\ Len(ords2) = n + 1 /\ DOMAIN ords2 = 1 .. n + 1
        /\ \A i \in 1 .. n : ords2[i] = ords[i]
        /\ ords2[n + 1] = o
    BY SeqDomain, AppendOne
  <1> HIDE DEF ords2, n
  <1>2. \A i \in 1 .. n : f[i] \in Int /\ g[i] = f[i]
    BY <1>1, ShareNat DEF Shares
  <1>3. g[n + 1] = Share(o, u, t) /\ g[n + 1] \in Int
    BY <1>1, ShareNat DEF Shares
  <1>4. Owed(ords, u, t) = SumFunctionOnSet(f, 1 .. n)
    BY OwedIsSum DEF n
  <1>5. Owed(ords2, u, t) = SumFunctionOnSet(g, 1 .. n + 1)
    BY <1>1, OwedIsSum
  <1> HIDE DEF f, g
  <1>6. SumFunctionOnSet(g, 1 .. n + 1) = SumFunctionOnSet(f, 1 .. n) + g[n + 1]
    BY <1>1, <1>2, <1>3, SumLonger
  <1>7. SumFunctionOnSet(f, 1 .. n) \in Int
    <2>1. IsFiniteSet(1 .. n)
      BY <1>1, FS_Interval
    <2>2. \A i \in 1 .. n : f[i] \in Int
      BY <1>2
    <2> QED BY <2>1, <2>2, SumInt
  <1> QED BY <1>3, <1>4, <1>5, <1>6, <1>7 DEF ords2

\* Two books that differ at two orders.
DifferAt(ords, ords2, b, s) ==
  /\ ords \in Seq(Order) /\ ords2 \in Seq(Order) /\ Len(ords2) = Len(ords)
  /\ b \in 1 .. Len(ords) /\ s \in 1 .. Len(ords) /\ b # s
  /\ \A k \in 1 .. Len(ords) : k # b /\ k # s => ords2[k] = ords[k]

\* Changing two orders changes what is owed by their shares.
LEMMA OwedChangeTwo ==
  ASSUME NEW ords, NEW ords2, NEW b, NEW s, DifferAt(ords, ords2, b, s),
         NEW u, NEW t
  PROVE  /\ Owed(ords2, u, t) = Owed(ords, u, t)
                + (Share(ords2[b], u, t) - Share(ords[b], u, t))
                + (Share(ords2[s], u, t) - Share(ords[s], u, t))
         /\ Owed(ords, u, t) \in Int
  <1> DEFINE S == 1 .. Len(ords)
             f == Shares(ords, u, t)
             g == Shares(ords2, u, t)
  <1>0. ords \in Seq(Order) /\ ords2 \in Seq(Order) /\ Len(ords2) = Len(ords)
    BY DEF DifferAt
  <1>1. /\ DOMAIN ords = S /\ DOMAIN ords2 = S /\ Len(ords) \in Nat
        /\ \A i \in S : ords[i] \in Order /\ ords2[i] \in Order
    BY <1>0, SeqDomain
  <1>2. IsFiniteSet(S)
    BY <1>0, FinitePositions
  <1>3. /\ \A i \in S : f[i] \in Int /\ g[i] \in Int
        /\ \A i \in S : f[i] = Share(ords[i], u, t) /\ g[i] = Share(ords2[i], u, t)
    BY <1>1, ShareNat DEF Shares
  <1>4. \A i \in S : i # b /\ i # s => g[i] = f[i]
    BY <1>3 DEF DifferAt
  <1>5. Owed(ords, u, t) = SumFunctionOnSet(f, S)
    BY <1>0, OwedIsSum
  <1>6. Owed(ords2, u, t) = SumFunctionOnSet(g, S)
    BY <1>0, OwedIsSum
  <1>7. b \in S /\ s \in S /\ b # s
    BY DEF DifferAt
  <1> HIDE DEF S, f, g
  <1>8. SumFunctionOnSet(g, S)
            = SumFunctionOnSet(f, S) + (g[b] - f[b]) + (g[s] - f[s])
    BY <1>2, <1>3, <1>4, <1>7, SumChangeTwo
  <1>9. SumFunctionOnSet(f, S) \in Int
    BY <1>2, <1>3, SumInt
  <1> QED BY <1>3, <1>5, <1>6, <1>7, <1>8, <1>9

\* Changing one order changes what is owed by its share.
LEMMA OwedChangeOne ==
  ASSUME NEW ords \in Seq(Order), NEW ords2 \in Seq(Order),
         Len(ords2) = Len(ords), NEW b \in 1 .. Len(ords),
         \A k \in 1 .. Len(ords) : k # b => ords2[k] = ords[k],
         NEW u, NEW t
  PROVE  /\ Owed(ords2, u, t) = Owed(ords, u, t)
                + (Share(ords2[b], u, t) - Share(ords[b], u, t))
         /\ Owed(ords, u, t) \in Int
  <1> DEFINE S == 1 .. Len(ords)
             f == Shares(ords, u, t)
             g == Shares(ords2, u, t)
  <1>1. /\ DOMAIN ords = S /\ DOMAIN ords2 = S /\ Len(ords) \in Nat
        /\ \A i \in S : ords[i] \in Order /\ ords2[i] \in Order
    BY SeqDomain
  <1>2. IsFiniteSet(S)
    BY FinitePositions
  <1>3. /\ \A i \in S : f[i] \in Int /\ g[i] \in Int
        /\ \A i \in S : f[i] = Share(ords[i], u, t) /\ g[i] = Share(ords2[i], u, t)
    BY <1>1, ShareNat DEF Shares
  <1>4. \A i \in S : i # b => g[i] = f[i]
    BY <1>3
  <1>5. Owed(ords, u, t) = SumFunctionOnSet(f, S)
    BY OwedIsSum
  <1>6. Owed(ords2, u, t) = SumFunctionOnSet(g, S)
    BY OwedIsSum
  <1>7. b \in S
    OBVIOUS
  <1> HIDE DEF S, f, g
  <1>8. SumFunctionOnSet(g, S) = SumFunctionOnSet(f, S) + (g[b] - f[b])
    <2>1. \A y \in S : f[y] \in Int
      BY <1>3
    <2>2. g[b] \in Int
      BY <1>3, <1>7
    <2> QED BY <1>2, <1>4, <1>7, <2>1, <2>2, SumChange
  <1>9. SumFunctionOnSet(f, S) \in Int
    BY <1>2, <1>3, SumInt
  <1> QED BY <1>3, <1>5, <1>6, <1>7, <1>8, <1>9

\* A new order has bought nothing.
LEMMA BuyFillsAppend ==
  ASSUME NEW ords \in Seq(Order), NEW exec \in Seq(Execution),
         Len(exec) = Len(ords), NEW o \in Order, NEW e \in Execution, e.fills = 0,
         NEW u
  PROVE  /\ BuyFills(Append(ords, o), Append(exec, e), u) = BuyFills(ords, exec, u)
         /\ BuyFills(ords, exec, u) \in Int
  <1> DEFINE n == Len(ords)
             ords2 == Append(ords, o)
             exec2 == Append(exec, e)
             f == Boughts(ords, exec, u)
             g == Boughts(ords2, exec2, u)
  <1>1. /\ n \in Nat /\ DOMAIN ords = 1 .. n
        /\ ords2 \in Seq(Order) /\ Len(ords2) = n + 1 /\ DOMAIN ords2 = 1 .. n + 1
        /\ \A i \in 1 .. n : ords2[i] = ords[i]
    BY SeqDomain, AppendOne
  <1>2. /\ \A i \in 1 .. n : exec[i] \in Execution
        /\ exec2 \in Seq(Execution) /\ Len(exec2) = n + 1
        /\ \A i \in 1 .. n : exec2[i] = exec[i]
        /\ exec2[n + 1] = e
    BY SeqDomain, AppendOne
  <1> HIDE DEF ords2, exec2, n
  <1>3. \A i \in 1 .. n : exec[i].fills \in Int
    BY <1>2 DEF Execution
  <1>4. \A i \in 1 .. n : f[i] \in Int /\ g[i] = f[i]
    BY <1>1, <1>2, <1>3 DEF Boughts, Bought
  <1>5. g[n + 1] = 0
    BY <1>1, <1>2 DEF Boughts, Bought
  <1>6. BuyFills(ords, exec, u) = SumFunctionOnSet(f, 1 .. n)
    BY BuyFillsIsSum DEF n
  <1>7. BuyFills(ords2, exec2, u) = SumFunctionOnSet(g, 1 .. n + 1)
    BY <1>1, <1>2, BuyFillsIsSum
  <1> HIDE DEF f, g
  <1>8. SumFunctionOnSet(g, 1 .. n + 1) = SumFunctionOnSet(f, 1 .. n) + g[n + 1]
    <2>1. n \in Nat /\ g[n + 1] \in Int
      BY <1>1, <1>5
    <2>2. /\ \A i \in 1 .. n : f[i] \in Int
          /\ \A i \in 1 .. n : g[i] = f[i]
      BY <1>4
    <2> QED BY <2>1, <2>2, SumLonger
  <1>9. SumFunctionOnSet(f, 1 .. n) \in Int
    <2>1. IsFiniteSet(1 .. n)
      BY <1>1, FS_Interval
    <2>2. \A i \in 1 .. n : f[i] \in Int
      BY <1>4
    <2> QED BY <2>1, <2>2, SumInt
  <1> QED BY <1>5, <1>6, <1>7, <1>8, <1>9 DEF ords2, exec2

\* The fills of a user's buy orders depend only on who placed which side.
LEMMA BuyFillsSame ==
  ASSUME NEW ords \in Seq(Order), NEW ords2 \in Seq(Order),
         NEW exec \in Seq(Execution), Len(exec) = Len(ords), Len(ords2) = Len(ords),
         \A k \in 1 .. Len(ords) :
             ords2[k].user = ords[k].user /\ ords2[k].side = ords[k].side,
         NEW u
  PROVE  BuyFills(ords2, exec, u) = BuyFills(ords, exec, u)
  <1>1. DOMAIN ords = 1 .. Len(ords) /\ DOMAIN ords2 = 1 .. Len(ords)
    BY SeqDomain
  <1>2. Buys(ords2, u) = Buys(ords, u)
    BY <1>1 DEF Buys
  <1> QED BY <1>2 DEF BuyFills

\* One buy order records a fill.
BuysOnce(ords, exec, exec2, b) ==
  /\ ords[b].side = "BUY"
  /\ exec2[b].fills = exec[b].fills + 1
  /\ \A k \in 1 .. Len(ords) : k # b /\ ords[k].side = "BUY" => exec2[k] = exec[k]

\* One more fill of a buy order and of another order that sells counts once.
LEMMA BuyFillsMore ==
  ASSUME NEW ords \in Seq(Order), NEW exec \in Seq(Execution),
         NEW exec2 \in Seq(Execution),
         Len(exec) = Len(ords), Len(exec2) = Len(ords),
         NEW b \in 1 .. Len(ords), BuysOnce(ords, exec, exec2, b), NEW u
  PROVE  /\ BuyFills(ords, exec2, u) = BuyFills(ords, exec, u)
                                       + (IF ords[b].user = u THEN 1 ELSE 0)
         /\ BuyFills(ords, exec, u) \in Int
  <1> DEFINE S == 1 .. Len(ords)
             f == Boughts(ords, exec, u)
             g == Boughts(ords, exec2, u)
  <1>1. /\ DOMAIN ords = S /\ Len(ords) \in Nat
        /\ \A i \in S : exec[i] \in Execution /\ exec2[i] \in Execution
    BY SeqDomain
  <1>2. IsFiniteSet(S)
    BY FinitePositions
  <1>3. \A i \in S : exec[i].fills \in Int /\ exec2[i].fills \in Int
    <2>1. \A e \in Execution : e.fills \in Int
      BY DEF Execution
    <2> HIDE DEF S
    <2> QED BY <2>1, <1>1
  <1>4. \A i \in S : f[i] \in Int /\ g[i] \in Int
    BY <1>1, <1>3 DEF Boughts, Bought
  <1>5. \A i \in S : i # b => g[i] = f[i]
    BY <1>1 DEF Boughts, Bought, BuysOnce
  <1>6. g[b] - f[b] = IF ords[b].user = u THEN 1 ELSE 0
    BY <1>1, <1>3 DEF Boughts, Bought, BuysOnce
  <1>7. BuyFills(ords, exec, u) = SumFunctionOnSet(f, S)
    BY BuyFillsIsSum
  <1>8. BuyFills(ords, exec2, u) = SumFunctionOnSet(g, S)
    BY BuyFillsIsSum
  <1>9. b \in S
    OBVIOUS
  <1> HIDE DEF S, f, g
  <1>10. SumFunctionOnSet(g, S) = SumFunctionOnSet(f, S) + (g[b] - f[b])
    <2>1. \A i \in S : f[i] \in Int
      BY <1>4
    <2>2. g[b] \in Int
      BY <1>4, <1>9
    <2> QED BY <2>1, <2>2, <1>2, <1>5, <1>9, SumChange
  <1>11. SumFunctionOnSet(f, S) \in Int
    BY <1>2, <1>4, SumInt
  <1> QED BY <1>6, <1>7, <1>8, <1>10, <1>11

\* Splitting an amount before truncating loses at most one atom.
LEMMA DivSplit ==
  ASSUME NEW m \in Nat, NEW n \in Nat, NEW d \in Nat \ {0}
  PROVE  \/ (m + n) \div d = m \div d + n \div d
         \/ (m + n) \div d = m \div d + n \div d + 1
  <1> DEFINE a == m \div d
             b == n \div d
             c == (m + n) \div d
  <1>1. /\ a \in Nat /\ a * d <= m /\ m < (a + 1) * d
        /\ b \in Nat /\ b * d <= n /\ n < (b + 1) * d
        /\ c \in Nat /\ c * d <= m + n /\ m + n < (c + 1) * d
    BY DivFacts
  <1> HIDE DEF a, b, c
  <1>2. /\ a * d \in Nat /\ b * d \in Nat /\ c * d \in Nat
        /\ (a + 1) * d = a * d + d /\ (b + 1) * d = b * d + d
        /\ (c + 1) * d = c * d + d
        /\ (a + b) * d = a * d + b * d
        /\ (a + b + 2) * d = a * d + b * d + 2 * d
    BY <1>1, MulNat
  <1>3. c < a + b + 2
    <2>1. SUFFICES ASSUME a + b + 2 <= c PROVE FALSE
      BY <1>1
    <2>2. d * (a + b + 2) <= d * c
      BY <2>1, <1>1, MulMono
    <2> QED BY <2>2, <1>1, <1>2
  <1>4. a + b < c + 1
    <2>1. SUFFICES ASSUME c + 1 <= a + b PROVE FALSE
      BY <1>1
    <2>2. d * (c + 1) <= d * (a + b)
      BY <2>1, <1>1, MulMono
    <2> QED BY <2>2, <1>1, <1>2
  <1>5. c = a + b \/ c = a + b + 1
    BY <1>1, <1>3, <1>4
  <1> QED BY <1>5 DEF a, b, c

\* A fill takes from the share of an order what it unlocks for it, exactly for a
\* sell order, up to one atom for a buy order.
LEMMA ReduceShare ==
  ASSUME NEW o \in Order, IsOpen(o), NEW traded \in Nat, traded <= o.remaining,
         NEW u, NEW t
  PROVE  LET paid == Share(o, u, t) - Share(Reduce(o, traded), u, t)
             here == o.user = u /\ ReservedToken(o.side, o.market) = t
         IN  /\ ~here => paid = 0
             /\ here /\ o.side = "SELL" => paid = traded
             /\ here /\ o.side = "BUY" =>
                   \/ paid = QuoteFor(traded, o.limit)
                   \/ paid = QuoteFor(traded, o.limit) + 1
  <1> DEFINE r == Reduce(o, traded)
             left == o.remaining - traded
             here == o.user = u /\ ReservedToken(o.side, o.market) = t
  <1>1. /\ r.user = o.user /\ r.side = o.side /\ r.market = o.market
        /\ r.limit = o.limit /\ r.remaining = left
        /\ r.status = IF o.remaining = traded THEN "FILLED" ELSE "PARTIAL"
    BY DEF Reduce, Order
  <1>2. o.limit \in Nat /\ o.remaining \in Nat /\ left \in Nat
        /\ o.side \in {"BUY", "SELL"}
    BY DEF Order, Sides
  <1>3. BaseUnit \in Nat \ {0} /\ CancelUnit = BaseUnit
    BY Units, CancelUnitIsBaseUnit
  <1>4. Share(o, u, t) = IF here THEN RemainingReserve(o) ELSE 0
    BY DEF Share
  <1> HIDE DEF r
  <1>5. left = 0 => RemainingReserve(r) = 0
    <2>1. SUFFICES ASSUME left = 0 PROVE RemainingReserve(r) = 0
      OBVIOUS
    <2>2. 0 * o.limit = 0 /\ 0 \div BaseUnit = 0
      BY <1>2, <1>3
    <2> QED BY <2>1, <2>2, <1>1, <1>3 DEF RemainingReserve
  <1>6. Share(r, u, t) = IF here THEN RemainingReserve(r) ELSE 0
    <2>1. CASE o.remaining = traded
      <3>1. left = 0
        BY <2>1, <1>2
      <3>2. ~IsOpen(r)
        BY <2>1, <1>1 DEF IsOpen
      <3> QED BY <3>1, <3>2, <1>5 DEF Share
    <2>2. CASE o.remaining # traded
      BY <2>2, <1>1 DEF Share, IsOpen
    <2> QED BY <2>1, <2>2
  <1>7. o.side = "SELL" => RemainingReserve(o) - RemainingReserve(r) = traded
    BY <1>1, <1>2 DEF RemainingReserve
  <1>8. o.side = "BUY" =>
            \/ RemainingReserve(o) - RemainingReserve(r) = QuoteFor(traded, o.limit)
            \/ RemainingReserve(o) - RemainingReserve(r)
                   = QuoteFor(traded, o.limit) + 1
    <2>1. SUFFICES ASSUME o.side = "BUY"
                   PROVE  LET x == RemainingReserve(o) - RemainingReserve(r)
                          IN  \/ x = QuoteFor(traded, o.limit)
                              \/ x = QuoteFor(traded, o.limit) + 1
      OBVIOUS
    <2> DEFINE m == left * o.limit
               n == traded * o.limit
    <2>2. m \in Nat /\ n \in Nat
      BY <1>2, MulNat
    <2>3. o.remaining * o.limit = m + n
      BY <1>2
    <2>4. /\ RemainingReserve(o) = (o.remaining * o.limit) \div BaseUnit
          /\ RemainingReserve(r) = m \div BaseUnit
          /\ QuoteFor(traded, o.limit) = n \div BaseUnit
      BY <2>1, <1>1, <1>3 DEF RemainingReserve, QuoteFor
    <2> HIDE DEF m, n
    <2>5. \/ (m + n) \div BaseUnit = m \div BaseUnit + n \div BaseUnit
          \/ (m + n) \div BaseUnit = m \div BaseUnit + n \div BaseUnit + 1
      BY <2>2, <1>3, DivSplit
    <2>6. m \div BaseUnit \in Nat /\ n \div BaseUnit \in Nat
      BY <2>2, <1>3, DivFacts
    <2> QED BY <2>3, <2>4, <2>5, <2>6
  <1> QED BY <1>2, <1>4, <1>6, <1>7, <1>8 DEF r

\* What locked must cover for user v: the base refunds exactly, the quote refunds
\* up to an atom for each fill of a buy order.
CoversUser(lck, ords, exec, v) ==
  /\ \A m \in Markets : lck[v][m] = Owed(ords, v, m)
  /\ Owed(ords, v, Quote) <= lck[v][Quote]
  /\ lck[v][Quote] - Owed(ords, v, Quote) <= BuyFills(ords, exec, v)

Covers(lck, ords, exec) == \A v \in Users : CoversUser(lck, ords, exec, v)

CoverInv == /\ Covers(locked, orders, executed)
            /\ Covers(disk.locked, disk.orders, disk.executed)

\* The book owes user u d more of token w, and the other refunds stay.
OwesMore(ords, ords2, u, w, d) ==
  \A v \in Users, t \in Tokens :
      /\ Owed(ords, v, t) \in Int
      /\ Owed(ords2, v, t) = Owed(ords, v, t) + (IF v = u /\ t = w THEN d ELSE 0)

\* One locked amount changes by what one order's share changes.
LEMMA ShiftCovers ==
  ASSUME NEW lck \in [Users -> [Tokens -> Int]], NEW ords, NEW exec,
         Covers(lck, ords, exec),
         NEW u \in Users, NEW w \in Tokens, NEW d \in Int,
         NEW lck2, lck2 = Add(lck, u, w, d), NEW ords2, NEW exec2,
         OwesMore(ords, ords2, u, w, d),
         \A v \in Users : BuyFills(ords2, exec2, v) = BuyFills(ords, exec, v)
  PROVE  Covers(lck2, ords2, exec2)
  <1> SUFFICES ASSUME NEW v \in Users
               PROVE  CoversUser(lck2, ords2, exec2, v)
    BY DEF Covers
  <1>1. CoversUser(lck, ords, exec, v)
    BY DEF Covers
  <1>2. \A t \in Tokens :
           lck2[v][t] = IF v = u /\ t = w THEN lck[v][t] + d ELSE lck[v][t]
    BY AddAt
  <1>3. \A t \in Tokens : lck[v][t] \in Int
    OBVIOUS
  <1>4. \A t \in Tokens : Owed(ords, v, t) \in Int
    BY DEF OwesMore
  <1>5. \A t \in Tokens :
           lck2[v][t] - Owed(ords2, v, t) = lck[v][t] - Owed(ords, v, t)
    BY <1>2, <1>3 DEF OwesMore
  <1>6. \A t \in Tokens : Owed(ords2, v, t) \in Int /\ lck2[v][t] \in Int
    BY <1>2, <1>3 DEF OwesMore
  <1>7. BuyFills(ords2, exec2, v) = BuyFills(ords, exec, v)
    OBVIOUS
  <1>8. Quote \in Tokens /\ \A m \in Markets : m \in Tokens
    BY DEF Tokens
  <1>9. \A m \in Markets : lck2[v][m] = Owed(ords2, v, m)
    <2> TAKE m \in Markets
    <2>1. lck[v][m] = Owed(ords, v, m)
      BY <1>1 DEF CoversUser
    <2>2. lck2[v][m] - Owed(ords2, v, m) = lck[v][m] - Owed(ords, v, m)
          /\ lck2[v][m] \in Int /\ Owed(ords2, v, m) \in Int
          /\ lck[v][m] \in Int /\ Owed(ords, v, m) \in Int
      BY <1>3, <1>4, <1>5, <1>6, <1>8
    <2> QED BY <2>1, <2>2
  <1>10. /\ Owed(ords2, v, Quote) <= lck2[v][Quote]
         /\ lck2[v][Quote] - Owed(ords2, v, Quote) <= BuyFills(ords2, exec2, v)
    <2>1. /\ Owed(ords, v, Quote) <= lck[v][Quote]
          /\ lck[v][Quote] - Owed(ords, v, Quote) <= BuyFills(ords, exec, v)
      BY <1>1 DEF CoversUser
    <2>2. /\ lck2[v][Quote] - Owed(ords2, v, Quote) = lck[v][Quote] - Owed(ords, v, Quote)
          /\ lck2[v][Quote] \in Int /\ Owed(ords2, v, Quote) \in Int
          /\ lck[v][Quote] \in Int /\ Owed(ords, v, Quote) \in Int
      BY <1>3, <1>4, <1>5, <1>6, <1>8
    <2> QED BY <2>1, <2>2, <1>7
  <1> QED BY <1>9, <1>10 DEF CoversUser

\* A new order reserves its share.
LEMMA PlaceOrderCovers ==
  ASSUME IndInv, CoverInv, NEW u \in Users, NEW m \in Markets, NEW side \in Sides,
         NEW qty \in Quantities, NEW price \in Prices,
         PlaceOrder(u, m, side, qty, price)
  PROVE  Covers(locked', orders', executed')
  <1> DEFINE token == ReservedToken(side, m)
             reserve == Reserve(side, qty, price)
             o == [user |-> u, market |-> m, side |-> side, limit |-> price,
                   quantity |-> qty, remaining |-> qty, reserved |-> reserve,
                   status |-> "OPEN"]
             e == [fills |-> 0, base |-> 0, quote |-> 0]
  <1>1. token \in Tokens
    BY DEF ReservedToken, Tokens
  <1>2. qty \in Nat /\ price \in Nat
    BY InputAmounts
  <1>3. reserve \in Nat
    BY <1>2, QuoteForFacts DEF Reserve
  <1>4. o \in Order /\ e \in Execution /\ e.fills = 0
    BY <1>2, <1>3 DEF Order, Execution, Statuses
  <1>5. \A v, t : Share(o, v, t) = IF v = u /\ t = token THEN reserve ELSE 0
    <2>1. RemainingReserve(o) = reserve
      BY CancelUnitIsBaseUnit DEF RemainingReserve, Reserve, QuoteFor, Sides
    <2>2. IsOpen(o) /\ o.user = u /\ ReservedToken(o.side, o.market) = token
      BY DEF IsOpen
    <2> HIDE DEF o, reserve, token
    <2> QED BY <2>1, <2>2 DEF Share
  <1>6. /\ orders' = Append(orders, o) /\ executed' = Append(executed, e)
        /\ locked' = Add(locked, u, token, reserve)
    BY DEF PlaceOrder
  <1>7. /\ orders \in Seq(Order) /\ executed \in Seq(Execution)
        /\ Len(executed) = Len(orders)
    BY BooksOfIndInv DEF GoodBook
  <1>8. locked \in [Users -> [Tokens -> Int]] /\ Covers(locked, orders, executed)
    BY DEF IndInv, TypeOK, CoverInv
  <1> HIDE DEF o, e, token, reserve
  <1> DEFINE ords2 == Append(orders, o)
             exec2 == Append(executed, e)
             lck2 == Add(locked, u, token, reserve)
  <1>9. OwesMore(orders, ords2, u, token, reserve)
    BY <1>4, <1>5, <1>7, OwedAppend DEF OwesMore
  <1>10. \A v \in Users : BuyFills(ords2, exec2, v) = BuyFills(orders, executed, v)
    BY <1>4, <1>7, BuyFillsAppend
  <1>11. reserve \in Int
    BY <1>3
  <1> HIDE DEF ords2, exec2
  <1>12. Covers(lck2, ords2, exec2)
    BY <1>1, <1>8, <1>9, <1>10, <1>11, ShiftCovers
  <1> QED BY <1>6, <1>12 DEF ords2, exec2

\* cancelOrder unlocks its share.
LEMMA CancelOrderCovers ==
  ASSUME IndInv, CoverInv, NEW u \in Users, NEW i \in DOMAIN orders,
         CancelOrder(u, i)
  PROVE  Covers(locked', orders', executed')
  <1> DEFINE o == orders[i]
             token == ReservedToken(o.side, o.market)
             refund == RemainingReserve(o)
             x == [[o EXCEPT !.status = "CANCELLED"] EXCEPT !.remaining = 0]
             ords2 == [orders EXCEPT ![i] = x]
             d == -refund
             lck2 == Add(locked, u, token, d)
  <1>1. /\ i \in 1 .. Len(orders) /\ DOMAIN orders = 1 .. Len(orders)
        /\ orders \in Seq(Order) /\ executed \in Seq(Execution)
        /\ Len(executed) = Len(orders)
    BY BooksOfIndInv DEF GoodBook
  <1>2. o \in Order
    BY <1>1, SeqDomain
  <1>3. token \in Tokens /\ o.user = u /\ IsOpen(o)
    BY <1>2 DEF ReservedToken, Tokens, Order, CancelOrder
  <1>4. refund \in Nat /\ d \in Int
    BY <1>2, ReserveNat
  <1>5. x \in Order
    BY <1>2, SetStatus, SetRemaining DEF Statuses
  <1>6. /\ x.user = o.user /\ x.side = o.side /\ x.market = o.market
        /\ x.status = "CANCELLED"
    BY <1>2 DEF Order
  <1>7. orders' = ords2 /\ locked' = lck2 /\ executed' = executed
    BY <1>1 DEF CancelOrder
  <1>8. \A v, t : Share(x, v, t) - Share(o, v, t) = IF v = u /\ t = token THEN d ELSE 0
    <2> SUFFICES ASSUME NEW v, NEW t
                 PROVE  Share(x, v, t) - Share(o, v, t)
                            = IF v = u /\ t = token THEN d ELSE 0
      OBVIOUS
    <2>1. Share(x, v, t) = 0
      BY <1>6 DEF Share, IsOpen
    <2>2. Share(o, v, t) = IF v = u /\ t = token THEN refund ELSE 0
      BY <1>3 DEF Share
    <2> QED BY <2>1, <2>2, <1>4
  <1> HIDE DEF x, token, refund
  <1>9. /\ ords2 \in Seq(Order) /\ Len(ords2) = Len(orders) /\ ords2[i] = x
        /\ \A k \in 1 .. Len(orders) : k # i => ords2[k] = orders[k]
    BY <1>1, <1>5
  <1>10. locked \in [Users -> [Tokens -> Int]] /\ Covers(locked, orders, executed)
    BY DEF IndInv, TypeOK, CoverInv
  <1> HIDE DEF ords2, d
  <1>11. OwesMore(orders, ords2, u, token, d)
    <2> SUFFICES ASSUME NEW v \in Users, NEW t \in Tokens
                 PROVE  /\ Owed(orders, v, t) \in Int
                        /\ Owed(ords2, v, t) = Owed(orders, v, t)
                               + (IF v = u /\ t = token THEN d ELSE 0)
      BY DEF OwesMore
    <2>1. /\ Owed(ords2, v, t)
                 = Owed(orders, v, t) + (Share(ords2[i], v, t) - Share(orders[i], v, t))
          /\ Owed(orders, v, t) \in Int
      BY <1>1, <1>9, OwedChangeOne
    <2> QED BY <2>1, <1>8, <1>9
  <1>12. \A v \in Users : BuyFills(ords2, executed, v) = BuyFills(orders, executed, v)
    <2>1. \A k \in 1 .. Len(orders) :
             ords2[k].user = orders[k].user /\ ords2[k].side = orders[k].side
      BY <1>6, <1>9
    <2> QED BY <2>1, <1>1, <1>9, BuyFillsSame
  <1>13. Covers(lck2, ords2, executed)
    BY <1>3, <1>4, <1>10, <1>11, <1>12, ShiftCovers
  <1> QED BY <1>7, <1>13

\* One iteration of tryMatch unlocks the shares of what it trades, and keeps at
\* most one atom more of the buyer's.
LEMMA FillCovers ==
  ASSUME IndInv, CoverInv, matching # NoMarket,
         NEW b \in DOMAIN orders, NEW s \in DOMAIN orders, Fill(b, s)
  PROVE  Covers(locked', orders', executed')
  <1> DEFINE buy == orders[b]
             sell == orders[s]
             traded == IF buy.remaining < sell.remaining THEN buy.remaining
                                                         ELSE sell.remaining
             cost == QuoteFor(traded, sell.limit)
             held == Released(traded, buy.limit, sell.limit)
             o1 == Reduce(buy, traded)
             o2 == Reduce(sell, traded)
             e1 == Record(executed[b], traded, cost)
             e2 == Record(executed[s], traded, cost)
             ords2 == [orders EXCEPT ![b] = o1, ![s] = o2]
             exec2 == [executed EXCEPT ![b] = e1, ![s] = e2]
             q1 == Add(locked, buy.user, Quote, -held)
             q2 == Add(q1, sell.user, matching, -traded)
  <1>1. /\ b \in 1 .. Len(orders) /\ s \in 1 .. Len(orders) /\ b # s
        /\ buy \in Order /\ sell \in Order
        /\ executed[b] \in Execution /\ executed[s] \in Execution
        /\ buy.side = "BUY" /\ sell.side = "SELL"
        /\ IsOpen(buy) /\ IsOpen(sell)
        /\ sell.limit <= buy.limit
    BY FillFacts
  <1>2. /\ orders \in Seq(Order) /\ executed \in Seq(Execution)
        /\ Len(executed) = Len(orders)
    BY BooksOfIndInv DEF GoodBook
  <1>3. /\ buy.remaining \in Nat /\ sell.remaining \in Nat
        /\ buy.limit \in Nat /\ sell.limit \in Nat
        /\ buy.user \in Users /\ sell.user \in Users
    BY <1>1 DEF Order
  <1>4. traded \in Nat /\ traded <= buy.remaining /\ traded <= sell.remaining
    BY <1>3
  <1>5. cost \in Nat /\ held \in Nat /\ held = QuoteFor(traded, buy.limit)
    <2> HIDE DEF traded, buy, sell
    <2> QED BY <1>3, <1>4, QuoteForFacts DEF Released
  <1>6. /\ matching \in Markets /\ matching \in Tokens /\ Quote \in Tokens
        /\ matching # Quote
    BY MarketNames DEF IndInv, TypeOK, Tokens
  <1>7. buy.market = matching /\ sell.market = matching
    <2>1. b \in Side(matching, "BUY") /\ s \in Side(matching, "SELL")
      BY DEF Fill, IsBest
    <2> QED BY <2>1 DEF Side
  <1>8. locked \in [Users -> [Tokens -> Int]] /\ Covers(locked, orders, executed)
    BY DEF IndInv, TypeOK, CoverInv
  <1>9. orders' = ords2 /\ executed' = exec2 /\ locked' = q2
    BY <1>1, <1>2 DEF Fill
  <1> HIDE DEF buy, sell, traded, cost, held
  <1>10. o1 \in Order /\ o2 \in Order /\ e1 \in Execution /\ e2 \in Execution
    BY <1>1, <1>4, <1>5, ReduceType
  <1>11. o1.user = buy.user /\ o1.side = "BUY" /\ o2.user = sell.user /\ o2.side = "SELL"
    BY <1>1 DEF Reduce, Order
  <1>12. e1.fills = executed[b].fills + 1
    BY DEF Record
  <1>13. q1 \in [Users -> [Tokens -> Int]]
    <2>1. -held \in Int
      BY <1>5
    <2> QED BY <2>1, <1>3, <1>6, <1>8, AddInt
  <1>14. \A v \in Users, t \in Tokens :
             q2[v][t] = locked[v][t]
                        - (IF v = buy.user /\ t = Quote THEN held ELSE 0)
                        - (IF v = sell.user /\ t = matching THEN traded ELSE 0)
    <2>1. -traded \in Int /\ -held \in Int
      BY <1>4, <1>5
    <2>2. \A v \in Users, t \in Tokens : q1[v][t]
             = IF v = buy.user /\ t = Quote THEN locked[v][t] + -held ELSE locked[v][t]
      BY <2>1, <1>3, <1>6, <1>8, AddAt
    <2> HIDE DEF q1
    <2>3. \A v \in Users, t \in Tokens : q2[v][t]
             = IF v = sell.user /\ t = matching THEN q1[v][t] + -traded ELSE q1[v][t]
      <3> DEFINE n == -traded
      <3>1. n \in Int /\ sell.user \in Users /\ matching \in Tokens
        BY <2>1, <1>3, <1>6
      <3> HIDE DEF n
      <3>2. \A v \in Users, t \in Tokens : Add(q1, sell.user, matching, n)[v][t]
             = IF v = sell.user /\ t = matching THEN q1[v][t] + n ELSE q1[v][t]
        BY <3>1, <1>13, AddAt
      <3> QED BY <3>2 DEF n
    <2>4. \A v \in Users, t \in Tokens : locked[v][t] \in Int /\ q1[v][t] \in Int
      BY <1>8, <1>13
    <2> QED BY <2>2, <2>3, <2>4, <1>4, <1>5
  <1>15. \A v, t : LET paid == Share(buy, v, t) - Share(o1, v, t)
                   IN  IF v = buy.user /\ t = Quote
                       THEN paid = held \/ paid = held + 1
                       ELSE paid = 0
    BY <1>1, <1>4, <1>5, ReduceShare DEF ReservedToken
  <1>16. \A v, t : Share(sell, v, t) - Share(o2, v, t)
                       = IF v = sell.user /\ t = matching THEN traded ELSE 0
    BY <1>1, <1>4, <1>7, ReduceShare DEF ReservedToken
  <1>17. \A v, t : /\ Share(buy, v, t) \in Int /\ Share(o1, v, t) \in Int
                   /\ Share(sell, v, t) \in Int /\ Share(o2, v, t) \in Int
    BY <1>1, <1>10, ShareNat
  <1> HIDE DEF o1, o2, e1, e2
  <1>18. /\ ords2 \in Seq(Order) /\ Len(ords2) = Len(orders)
         /\ ords2[b] = o1 /\ ords2[s] = o2
         /\ \A k \in 1 .. Len(orders) : k # b /\ k # s => ords2[k] = orders[k]
    BY <1>1, <1>2, <1>10, ReplaceTwo
  <1>19. /\ exec2 \in Seq(Execution) /\ Len(exec2) = Len(orders)
         /\ exec2[b] = e1 /\ exec2[s] = e2
         /\ \A k \in 1 .. Len(orders) : k # b /\ k # s => exec2[k] = executed[k]
    BY <1>1, <1>2, <1>10, ReplaceTwo
  <1> HIDE DEF ords2, exec2, q1, q2
  <1>20. \A v, t : /\ Owed(orders, v, t) \in Int
                   /\ Owed(ords2, v, t) = Owed(orders, v, t)
                          - (Share(buy, v, t) - Share(o1, v, t))
                          - (Share(sell, v, t) - Share(o2, v, t))
    <2> SUFFICES ASSUME NEW v, NEW t
                 PROVE  /\ Owed(orders, v, t) \in Int
                        /\ Owed(ords2, v, t) = Owed(orders, v, t)
                               - (Share(buy, v, t) - Share(o1, v, t))
                               - (Share(sell, v, t) - Share(o2, v, t))
      OBVIOUS
    <2>1. /\ Owed(ords2, v, t) = Owed(orders, v, t)
                + (Share(ords2[b], v, t) - Share(orders[b], v, t))
                + (Share(ords2[s], v, t) - Share(orders[s], v, t))
          /\ Owed(orders, v, t) \in Int
      <3>1. DifferAt(orders, ords2, b, s)
        BY <1>1, <1>2, <1>18 DEF DifferAt
      <3> QED BY <3>1, OwedChangeTwo
    <2> QED BY <2>1, <1>17, <1>18 DEF buy, sell
  <1>21. \A v : /\ BuyFills(ords2, exec2, v)
                       = BuyFills(orders, executed, v) + (IF buy.user = v THEN 1 ELSE 0)
                /\ BuyFills(orders, executed, v) \in Int
    <2> SUFFICES ASSUME NEW v
                 PROVE  /\ BuyFills(ords2, exec2, v) = BuyFills(orders, executed, v)
                                                + (IF buy.user = v THEN 1 ELSE 0)
                        /\ BuyFills(orders, executed, v) \in Int
      OBVIOUS
    <2>1. \A k \in 1 .. Len(orders) :
             ords2[k].user = orders[k].user /\ ords2[k].side = orders[k].side
      BY <1>1, <1>11, <1>18 DEF buy, sell
    <2>2. BuyFills(ords2, exec2, v) = BuyFills(orders, exec2, v)
      BY <2>1, <1>2, <1>18, <1>19, BuyFillsSame
    <2>3. \A k \in 1 .. Len(orders) :
             k # b /\ orders[k].side = "BUY" => exec2[k] = executed[k]
      BY <1>1, <1>19 DEF sell
    <2>4. orders[b].side = "BUY" /\ exec2[b].fills = executed[b].fills + 1
      BY <1>1, <1>12, <1>19 DEF buy
    <2>5. /\ BuyFills(orders, exec2, v) = BuyFills(orders, executed, v)
                                          + (IF orders[b].user = v THEN 1 ELSE 0)
          /\ BuyFills(orders, executed, v) \in Int
      <3>1. BuysOnce(orders, executed, exec2, b)
        BY <2>3, <2>4 DEF BuysOnce
      <3> QED BY <3>1, <1>1, <1>2, <1>19, BuyFillsMore
    <2> QED BY <2>2, <2>5 DEF buy
  <1>22. ASSUME NEW v \in Users
         PROVE  CoversUser(q2, ords2, exec2, v)
    <2>1. CoversUser(locked, orders, executed, v)
      BY <1>8 DEF Covers
    <2>2. ASSUME NEW m \in Markets
          PROVE  q2[v][m] = Owed(ords2, v, m)
      <3>1. m \in Tokens /\ m # Quote
        BY MarketNames DEF Tokens
      <3>2. locked[v][m] = Owed(orders, v, m) /\ Owed(orders, v, m) \in Int
        BY <2>1, <1>20 DEF CoversUser
      <3>3. Share(buy, v, m) - Share(o1, v, m) = 0
        BY <3>1, <1>15
      <3>4. Owed(ords2, v, m) = Owed(orders, v, m)
                - (IF v = sell.user /\ m = matching THEN traded ELSE 0)
        BY <3>2, <3>3, <1>4, <1>16, <1>20
      <3>5. q2[v][m] = locked[v][m]
                - (IF v = sell.user /\ m = matching THEN traded ELSE 0)
        BY <3>1, <3>2, <1>4, <1>14
      <3> QED BY <3>2, <3>4, <3>5
    <2> DEFINE slack == locked[v][Quote] - Owed(orders, v, Quote)
    <2>3. /\ locked[v][Quote] \in Int /\ Owed(orders, v, Quote) \in Int
          /\ 0 <= slack /\ slack <= BuyFills(orders, executed, v)
      BY <2>1, <1>6, <1>8, <1>20 DEF CoversUser
    <2>4. q2[v][Quote] = locked[v][Quote] - (IF v = buy.user THEN held ELSE 0)
      BY <2>3, <1>4, <1>5, <1>6, <1>14
    <2>5. Share(sell, v, Quote) - Share(o2, v, Quote) = 0
      BY <1>6, <1>16
    <2>6. \/ Owed(ords2, v, Quote)
                 = Owed(orders, v, Quote) - (IF v = buy.user THEN held ELSE 0)
          \/ /\ v = buy.user
             /\ Owed(ords2, v, Quote) = Owed(orders, v, Quote) - (held + 1)
      BY <2>3, <2>5, <1>5, <1>15, <1>20
    <2>7. \/ q2[v][Quote] - Owed(ords2, v, Quote) = slack
          \/ /\ v = buy.user
             /\ q2[v][Quote] - Owed(ords2, v, Quote) = slack + 1
      BY <2>3, <2>4, <2>6, <1>5
    <2>8. q2[v][Quote] \in Int /\ Owed(ords2, v, Quote) \in Int
      BY <2>3, <2>4, <2>6, <1>5
    <2>9. /\ Owed(ords2, v, Quote) <= q2[v][Quote]
          /\ q2[v][Quote] - Owed(ords2, v, Quote) <= BuyFills(ords2, exec2, v)
      BY <2>3, <2>7, <2>8, <1>21
    <2> QED BY <2>2, <2>9 DEF CoversUser
  <1> QED BY <1>9, <1>22 DEF Covers

\* The empty book owes nothing.
LEMMA CoverInit == Init => CoverInv
  <1> SUFFICES ASSUME Init, NEW v \in Users
               PROVE  CoversUser(locked, orders, executed, v)
    BY DEF Init, CoverInv, Covers
  <1>1. /\ orders = <<>> /\ executed = <<>> /\ orders \in Seq(Order)
        /\ executed \in Seq(Execution) /\ Len(orders) = 0 /\ Len(executed) = 0
    BY DEF Init
  <1>2. 1 .. 0 = {}
    OBVIOUS
  <1>3. ASSUME NEW t PROVE Owed(orders, v, t) = 0
    <2>1. Owed(orders, v, t)
              = SumFunctionOnSet(Shares(orders, v, t), 1 .. Len(orders))
      BY <1>1, OwedIsSum
    <2> QED BY <2>1, <1>1, <1>2, SumEmpty
  <1>4. BuyFills(orders, executed, v) = 0
    <2>1. BuyFills(orders, executed, v)
              = SumFunctionOnSet(Boughts(orders, executed, v), 1 .. Len(orders))
      BY <1>1, BuyFillsIsSum
    <2> QED BY <2>1, <1>1, <1>2, SumEmpty
  <1>5. \A t \in Tokens : locked[v][t] = 0
    BY DEF Init
  <1>6. Quote \in Tokens /\ Markets \subseteq Tokens
    BY DEF Tokens
  <1> QED BY <1>3, <1>4, <1>5, <1>6 DEF CoversUser

\* Every step keeps both ledgers covering their books.
LEMMA CoverStep == IndInv /\ CoverInv /\ [Next]_vars => CoverInv'
  <1> SUFFICES ASSUME IndInv, CoverInv, [Next]_vars PROVE CoverInv'
    OBVIOUS
  <1>1. ASSUME Flush, Covers(locked', orders', executed') PROVE CoverInv'
    BY <1>1 DEF CoverInv, Flush, Snapshot
  <1>2. ASSUME NEW u \in Users, NEW m \in Markets, NEW side \in Sides,
               NEW qty \in Quantities, NEW price \in Prices,
               PlaceOrder(u, m, side, qty, price)
        PROVE  CoverInv'
    <2>1. Flush
      BY <1>2 DEF PlaceOrder
    <2>2. Covers(locked', orders', executed')
      BY <1>2, PlaceOrderCovers
    <2> QED BY <2>1, <2>2, <1>1
  <1>3. ASSUME NEW u \in Users, NEW i \in DOMAIN orders, CancelOrder(u, i)
        PROVE  CoverInv'
    <2>1. Flush
      BY <1>3 DEF CancelOrder
    <2>2. Covers(locked', orders', executed')
      BY <1>3, CancelOrderCovers
    <2> QED BY <2>1, <2>2, <1>1
  <1>4. CASE TryMatch
    <2>1. PICK b \in DOMAIN orders, s \in DOMAIN orders : Fill(b, s)
      BY <1>4 DEF TryMatch
    <2>2. disk' = disk /\ matching # NoMarket
      BY <1>4, <2>1 DEF Fill, TryMatch
    <2>3. Covers(locked', orders', executed')
      BY <2>1, <2>2, FillCovers
    <2> QED BY <2>2, <2>3 DEF CoverInv
  <1>5. CASE MatchReturn
    <2>1. Flush /\ UNCHANGED <<locked, orders, executed>>
      BY <1>5 DEF MatchReturn
    <2>2. Covers(locked', orders', executed')
      BY <2>1 DEF CoverInv
    <2> QED BY <2>1, <2>2, <1>1
  <1>6. CASE MatchThrow
    BY <1>6 DEF MatchThrow, CoverInv
  <1>7. CASE Restart
    BY <1>7 DEF Restart, CoverInv
  <1>8. CASE UNCHANGED vars
    BY <1>8 DEF vars, CoverInv
  <1> QED BY <1>2, <1>3, <1>4, <1>5, <1>6, <1>7, <1>8 DEF Next

\* In memory and in the state file, however many orders, fills, exceptions and
\* crashes, locked is what the open orders are owed plus the dust of the fills.
LEMMA CoverInvariance == Spec => []CoverInv
  <1> QED BY CoverInit, CoverStep, Invariance, PTL DEF Spec

\* No sequence of partial fills leaves a user's locked amount short of the
\* refunds of the orders still open: cancelOrder never overdraws it.
THEOREM RefundsCovered == Spec => []LockedCoversOrders
  <1>1. ASSUME IndInv, NEW lck \in [Users -> [Tokens -> Int]], NEW ords, NEW exec,
               Covers(lck, ords, exec), NEW u \in Users, NEW t \in Tokens
        PROVE  lck[u][t] >= Owed(ords, u, t)
    <2>1. CoversUser(lck, ords, exec, u) /\ lck[u][t] \in Int
      BY <1>1 DEF Covers
    <2> QED BY <2>1 DEF CoversUser, Tokens
  <1>2. IndInv /\ CoverInv => LockedCoversOrders
    <2> SUFFICES ASSUME IndInv, CoverInv PROVE LockedCoversOrders
      OBVIOUS
    <2>1. /\ locked \in [Users -> [Tokens -> Int]]
          /\ disk.locked \in [Users -> [Tokens -> Int]]
      BY DEF IndInv, TypeOK, AppState
    <2> QED BY <2>1, <1>1 DEF CoverInv, LockedCoversOrders
  <1> QED BY <1>2, Invariance, CoverInvariance, PTL

\* The rounding of partial fills strands at most one quote atom per fill of a
\* buy order, and no base token.
THEOREM DustBounded == Spec => []DustBoundedByFills
  <1>1. CoverInv => DustBoundedByFills
    BY DEF CoverInv, Covers, CoversUser, DustBoundedByFills, BuyFills, Buys
  <1> QED BY <1>1, CoverInvariance, PTL
===============================================================================
