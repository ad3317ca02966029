------------------------------ MODULE VaultProofs ------------------------------
(***************************************************************************)
(* What VaultWithdrawals guarantees for every set of users and amounts and *)
(* every bound: a nonce names one ticket, a ticket ends once, and the      *)
(* ledger owes what the vault holds but for amounts that have a name.      *)
(*                                                                         *)
(* The inductive invariant adds to the two properties what they need: the  *)
(* tickets and nonces are typed, the contract only pays tickets that were  *)
(* signed, and a withdrawal that is being synced has been paid.            *)
(***************************************************************************)
EXTENDS VaultWithdrawals, SumFacts

\* The part of TypeOK that the argument about tickets is about.
TicketTypes == /\ nonces \in [Users -> Nat]
               /\ signed \in SUBSET Ticket
               /\ paid \in SUBSET Ticket
               /\ clock \in Nat
               /\ calls \in [Slots -> {NoCall}
                                \cup [kind : {"deposit"}, tx : Nat]
                                \cup [kind : {"withdrawal"}, tx : Ticket]]
               /\ deposits \in Seq([user : Users, amount : Amounts])

PaidSigned == paid \subseteq signed

SyncsArePaid == \A c \in Slots : calls[c].kind = "withdrawal" => calls[c].tx \in paid

IndInv == /\ TicketTypes
          /\ PaidSigned
          /\ SyncsArePaid
          /\ OneTicketPerNonce
          /\ TicketsEndOnce

\* The initial state has no tickets.
LEMMA Starts == Init => IndInv
  <1> SUFFICES ASSUME Init PROVE IndInv
    OBVIOUS
  <1>1. TicketTypes
    BY VaultInputs DEF Init, TicketTypes
  <1>2. PaidSigned /\ OneTicketPerNonce /\ TicketsEndOnce
    BY DEF Init, PaidSigned, OneTicketPerNonce, TicketsEndOnce
  <1>3. SyncsArePaid
    BY DEF Init, SyncsArePaid, NoCall
  <1> QED BY <1>1, <1>2, <1>3 DEF IndInv

\* A step that hands out no ticket and only moves some from pending to refunded.
LEMMA Refunding ==
  ASSUME IndInv, NEW tickets \in SUBSET pending,
         pending' = pending \ tickets, refunded' = refunded \cup tickets,
         UNCHANGED <<nonces, signed, paid, settled, calls, deposits, clock>>
  PROVE  IndInv'
  <1>1. TicketTypes' /\ PaidSigned' /\ SyncsArePaid' /\ OneTicketPerNonce'
    BY DEF IndInv, TicketTypes, PaidSigned, SyncsArePaid, OneTicketPerNonce
  <1>2. TicketsEndOnce'
    BY DEF IndInv, TicketsEndOnce
  <1> QED BY <1>1, <1>2 DEF IndInv

\* A quote: the new nonce is above all the user's nonces, so its ticket is new.
LEMMA Quoting ==
  ASSUME IndInv, NEW u \in Users, NEW a \in Amounts, BuildWithdrawalQuote(u, a)
  PROVE  IndInv'
  <1> DEFINE t == [user |-> u, amount |-> a, nonce |-> NextNonce(u),
                   deadline |-> clock + Ttl]
  <1>1. /\ NextNonce(u) \in Nat /\ NextNonce(u) = nonces[u] + 1
        /\ nonces[u] \in Nat /\ t \in Ticket
    BY VaultInputs DEF IndInv, TicketTypes, NextNonce, Ticket
  <1>2. /\ t.user = u /\ t.nonce = nonces[u] + 1
    BY <1>1
  <1>3. /\ nonces' = [nonces EXCEPT ![u] = NextNonce(u)]
        /\ pending' = (pending \ Expired) \cup {t}
        /\ signed' = signed \cup {t}
        /\ refunded' = refunded \cup Expired
        /\ UNCHANGED <<calls, settled, paid, deposits, clock>>
    BY DEF BuildWithdrawalQuote, chain
  <1> HIDE DEF t
  <1>4. t \notin signed
    BY <1>1, <1>2 DEF IndInv, OneTicketPerNonce, TicketTypes, Ticket
  <1>5. TicketTypes'
    BY <1>1, <1>3 DEF IndInv, TicketTypes
  <1>6. PaidSigned' /\ SyncsArePaid'
    BY <1>3 DEF IndInv, PaidSigned, SyncsArePaid
  <1>7. OneTicketPerNonce'
    <2>1. \A v \in Users : nonces'[v] >= nonces[v]
      BY <1>1, <1>3 DEF IndInv, TicketTypes
    <2>2. nonces'[u] = nonces[u] + 1
      BY <1>1, <1>3 DEF IndInv, TicketTypes
    <2>3. \A s \in signed : /\ s.user \in Users /\ s.nonce \in Nat
                            /\ s.nonce <= nonces[s.user]
      BY DEF IndInv, TicketTypes, Ticket, OneTicketPerNonce
    <2>4. \A s \in signed' : s.nonce <= nonces'[s.user]
      <3> SUFFICES ASSUME NEW s \in signed' PROVE s.nonce <= nonces'[s.user]
        OBVIOUS
      <3>1. CASE s = t
        BY <3>1, <1>1, <1>2, <2>2
      <3>2. CASE s \in signed
        <4>1. /\ nonces[s.user] \in Nat /\ nonces'[s.user] \in Nat
          BY <3>2, <2>3, <1>5 DEF IndInv, TicketTypes
        <4> QED BY <3>2, <2>1, <2>3, <4>1
      <3> QED BY <3>1, <3>2, <1>3
    <2>5. \A s \in signed : ~(s.user = u /\ s.nonce = t.nonce)
      BY <1>1, <1>2, <2>3
    <2>6. \A s, r \in signed : s.user = r.user /\ s.nonce = r.nonce => s = r
      BY DEF IndInv, OneTicketPerNonce
    <2>7. \A s, r \in signed' : s.user = r.user /\ s.nonce = r.nonce => s = r
      BY <1>2, <1>3, <2>5, <2>6
    <2> QED BY <2>4, <2>7 DEF OneTicketPerNonce
  <1>8. TicketsEndOnce'
    BY <1>3, <1>4 DEF IndInv, TicketsEndOnce, PaidSigned, Expired
  <1> QED BY <1>5, <1>6, <1>7, <1>8 DEF IndInv

\* A sync that commits: only a pending ticket is settled, and it was paid.
LEMMA Syncing ==
  ASSUME IndInv, NEW c \in Slots, SyncWithdrawal(c)
  PROVE  IndInv'
  <1> DEFINE t == calls[c].tx
  <1>1. t \in paid /\ calls' = [calls EXCEPT ![c] = NoCall]
    BY DEF IndInv, SyncsArePaid, SyncWithdrawal
  <1>2. UNCHANGED <<nonces, signed, paid, refunded, deposits, clock>>
    BY DEF SyncWithdrawal, chain
  <1>3. TicketTypes' /\ PaidSigned' /\ OneTicketPerNonce'
    BY <1>1, <1>2 DEF IndInv, TicketTypes, PaidSigned, OneTicketPerNonce
  <1>4. SyncsArePaid'
    BY <1>1, <1>2 DEF IndInv, SyncsArePaid, TicketTypes, NoCall
  <1>5. TicketsEndOnce'
    <2>1. CASE t \in pending
      <3>1. pending' = pending \ {t} /\ settled' = settled \cup {t}
        BY <2>1 DEF SyncWithdrawal, Remaining
      <3> HIDE DEF t
      <3> QED BY <1>1, <1>2, <2>1, <3>1 DEF IndInv, TicketsEndOnce
    <2>2. CASE t \notin pending
      <3>1. UNCHANGED <<pending, settled>>
        BY <2>2 DEF SyncWithdrawal
      <3> QED BY <1>2, <3>1 DEF IndInv, TicketsEndOnce
    <2> QED BY <2>1, <2>2
  <1> QED BY <1>3, <1>4, <1>5 DEF IndInv

\* The steps of the calls that touch no ticket.
LEMMA Calling ==
  ASSUME IndInv, NEW c \in Slots,
         \/ \E tx \in DOMAIN deposits : RequestSync(c, "deposit", tx)
         \/ \E tx \in paid : RequestSync(c, "withdrawal", tx)
         \/ SyncDeposit(c)
         \/ SyncFails(c)
  PROVE  IndInv'
  <1>1. UNCHANGED <<nonces, signed, paid, pending, refunded, settled, deposits,
                    clock>>
    BY DEF RequestSync, SyncDeposit, SyncFails, ledger, history, chain
  <1>2. \E k : /\ k \in {NoCall} \cup [kind : {"deposit"}, tx : Nat]
                          \cup [kind : {"withdrawal"}, tx : Ticket]
               /\ k.kind = "withdrawal" => k.tx \in paid
               /\ calls' = [calls EXCEPT ![c] = k]
    <2>1. CASE \E tx \in DOMAIN deposits : RequestSync(c, "deposit", tx)
      <3>1. PICK tx \in DOMAIN deposits : RequestSync(c, "deposit", tx)
        BY <2>1
      <3>2. tx \in Nat
        BY DEF IndInv, TicketTypes
      <3> QED BY <3>1, <3>2 DEF RequestSync
    <2>2. CASE \E tx \in paid : RequestSync(c, "withdrawal", tx)
      BY <2>2 DEF RequestSync, IndInv, TicketTypes
    <2>3. CASE SyncDeposit(c) \/ SyncFails(c)
      BY <2>3 DEF SyncDeposit, SyncFails, NoCall
    <2> QED BY <2>1, <2>2, <2>3
  <1>3. PICK k : /\ k \in {NoCall} \cup [kind : {"deposit"}, tx : Nat]
                          \cup [kind : {"withdrawal"}, tx : Ticket]
                 /\ k.kind = "withdrawal" => k.tx \in paid
                 /\ calls' = [calls EXCEPT ![c] = k]
    BY <1>2
  <1>4. TicketTypes'
    BY <1>1, <1>3 DEF IndInv, TicketTypes
  <1>5. SyncsArePaid'
    BY <1>1, <1>3 DEF IndInv, SyncsArePaid, TicketTypes
  <1>6. PaidSigned' /\ OneTicketPerNonce' /\ TicketsEndOnce'
    BY <1>1 DEF IndInv, PaidSigned, OneTicketPerNonce, TicketsEndOnce
  <1> QED BY <1>4, <1>5, <1>6 DEF IndInv

\* The contract pays a signed ticket.
LEMMA Paying ==
  ASSUME IndInv, NEW t \in signed, Withdraw(t)
  PROVE  IndInv'
  <1>1. /\ paid' = paid \cup {t}
        /\ UNCHANGED <<nonces, signed, pending, refunded, settled, calls,
                       deposits, clock>>
    BY DEF Withdraw, ledger, history
  <1>2. t \in Ticket
    BY DEF IndInv, TicketTypes
  <1>3. TicketTypes'
    BY <1>1, <1>2 DEF IndInv, TicketTypes
  <1>4. PaidSigned' /\ SyncsArePaid' /\ OneTicketPerNonce' /\ TicketsEndOnce'
    BY <1>1 DEF IndInv, PaidSigned, SyncsArePaid, OneTicketPerNonce,
                TicketsEndOnce
  <1> QED BY <1>3, <1>4 DEF IndInv

\* Restarts, trades, deposits and time leave the tickets alone.
LEMMA Others ==
  ASSUME IndInv,
         \/ Restart
         \/ \E u, v \in Users, a \in Amounts : Trade(u, v, a)
         \/ \E u \in Users, a \in Amounts : Deposit(u, a)
         \/ PassSecond
         \/ UNCHANGED vars
  PROVE  IndInv'
  <1>1. UNCHANGED <<nonces, signed, paid, pending, refunded, settled>>
    BY DEF Restart, Trade, Deposit, PassSecond, vars, ledger, history, chain
  <1>2. calls' = calls \/ calls' = [c \in Slots |-> NoCall]
    BY DEF Restart, Trade, Deposit, PassSecond, vars
  <1>3. clock' \in Nat /\ deposits' \in Seq([user : Users, amount : Amounts])
    <2>1. CASE \E u \in Users, a \in Amounts : Deposit(u, a)
      <3>1. PICK u \in Users, a \in Amounts : Deposit(u, a)
        BY <2>1
      <3>2. [user |-> u, amount |-> a] \in [user : Users, amount : Amounts]
        OBVIOUS
      <3> QED BY <3>1, <3>2 DEF Deposit, IndInv, TicketTypes
    <2>2. CASE PassSecond
      BY <2>2 DEF PassSecond, chain, IndInv, TicketTypes
    <2>3. CASE Restart \/ UNCHANGED vars
               \/ \E u, v \in Users, a \in Amounts : Trade(u, v, a)
      BY <2>3 DEF Restart, Trade, vars, chain, IndInv, TicketTypes
    <2> QED BY <2>1, <2>2, <2>3
  <1>4. TicketTypes' /\ SyncsArePaid'
    BY <1>1, <1>2, <1>3 DEF IndInv, TicketTypes, SyncsArePaid, NoCall
  <1>5. PaidSigned' /\ OneTicketPerNonce' /\ TicketsEndOnce'
    BY <1>1 DEF IndInv, PaidSigned, OneTicketPerNonce, TicketsEndOnce
  <1> QED BY <1>4, <1>5 DEF IndInv

\* Every step preserves the invariant.
LEMMA Steps == IndInv /\ [Next]_vars => IndInv'
  <1> SUFFICES ASSUME IndInv, [Next]_vars PROVE IndInv'
    OBVIOUS
  <1>1. CASE ReleaseExpiredWithdrawals
    BY <1>1, Refunding DEF ReleaseExpiredWithdrawals, Expired, chain
  <1>2. CASE \E u \in Users, a \in Amounts : BuildWithdrawalQuote(u, a)
    BY <1>2, Quoting
  <1>3. CASE \E t \in pending : CancelPendingWithdrawal(t)
    BY <1>3, Refunding DEF CancelPendingWithdrawal, chain
  <1>4. ASSUME NEW c \in Slots, SyncWithdrawal(c) PROVE IndInv'
    BY <1>4, Syncing
  <1>5. ASSUME NEW c \in Slots,
               \/ \E tx \in DOMAIN deposits : RequestSync(c, "deposit", tx)
               \/ \E tx \in paid : RequestSync(c, "withdrawal", tx)
               \/ SyncDeposit(c)
               \/ SyncFails(c)
        PROVE  IndInv'
    BY <1>5, Calling
  <1>6. CASE \E t \in signed : Withdraw(t)
    BY <1>6, Paying
  <1>7. CASE \/ Restart
             \/ \E u, v \in Users, a \in Amounts : Trade(u, v, a)
             \/ \E u \in Users, a \in Amounts : Deposit(u, a)
             \/ PassSecond
             \/ UNCHANGED vars
    BY <1>7, Others
  <1> QED BY <1>1, <1>2, <1>3, <1>4, <1>5, <1>6, <1>7 DEF Next

\* Invariance: the strengthened invariant holds in every reachable state.
THEOREM Invariance == Spec => []IndInv
  BY Starts, Steps, PTL DEF Spec

\* NextNonce is never handed out twice, so the contract's nonceUsed tells any
\* two tickets apart, however many quotes, cancels and restarts there were.
THEOREM NoncesNameTickets == Spec => []OneTicketPerNonce
  <1>1. IndInv => OneTicketPerNonce
    BY DEF IndInv
  <1> QED BY <1>1, Invariance, PTL

\* Cancel, expiry and sync race for a ticket and exactly one of them gets it;
\* a sync gets it only after the contract paid.
THEOREM TicketsHaveOneFate == Spec => []TicketsEndOnce
  <1>1. IndInv => TicketsEndOnce
    BY DEF IndInv
  <1> QED BY <1>1, Invariance, PTL

-----------------------------------------------------------------------------
(* The ledger and the vault.  A ticket that was paid and whose lock no sync  *)
(* has removed is pending or refunded, so the two sums of LedgerBacked are   *)
(* one sum over the paid tickets that are not settled.                       *)

AmountOf == [t \in Ticket |-> t.amount]

Wealth == [u \in Users |-> balances[u] + locked[u]]

LedgerTypes == /\ balances \in [Users -> Int]
               /\ locked \in [Users -> Int]
               /\ custody \in Int
               /\ IsFiniteSet(signed)
               /\ credited \subseteq DOMAIN deposits

SyncsAreDeposits ==
  \A c \in Slots : calls[c].kind = "deposit" => calls[c].tx \in DOMAIN deposits

Backed == Owed + Uncredited = custody + Sum(paid \ settled)

LedgerInv == LedgerTypes /\ SyncsAreDeposits /\ Backed

\* Amounts of tickets are numbers.
LEMMA AmountInt ==
  /\ AmountOf \in [Ticket -> Int]
  /\ \A t \in Ticket : AmountOf[t] = t.amount /\ t.amount \in Int /\ t.amount \in Nat
  <1>1. \A t \in Ticket : t.amount \in Nat
    BY VaultInputs DEF Ticket
  <1> QED BY <1>1 DEF AmountOf

\* The sum of some tickets, over one function.
LEMMA SumOfTickets ==
  ASSUME NEW T \in SUBSET Ticket, IsFiniteSet(T)
  PROVE  /\ Sum(T) = SumFunctionOnSet(AmountOf, T)
         /\ Sum(T) \in Int
  <1> DEFINE f == [t \in T |-> t.amount]
  <1>1. \A t \in T : f[t] = AmountOf[t] /\ AmountOf[t] \in Int
    BY AmountInt
  <1>2. T = DOMAIN f /\ Sum(T) = SumFunction(f)
    BY DEF Sum
  <1> HIDE DEF f
  <1>3. SumFunctionOnSet(f, T) = SumFunctionOnSet(AmountOf, T)
    BY <1>1, SumAgree
  <1>4. SumFunctionOnSet(AmountOf, T) \in Int
    BY <1>1, SumInt
  <1> QED BY <1>2, <1>3, <1>4, SumOfFunction

\* No tickets sum to nothing,
LEMMA SumOfNone == Sum({}) = 0
  <1>1. IsFiniteSet({}) /\ {} \in SUBSET Ticket
    BY FS_EmptySet
  <1> QED BY <1>1, SumOfTickets, SumEmpty

\* and one more ticket adds its amount.
LEMMA SumOfOneMore ==
  ASSUME NEW T \in SUBSET Ticket, IsFiniteSet(T), NEW t \in Ticket, t \notin T
  PROVE  Sum(T \cup {t}) = Sum(T) + t.amount
  <1> DEFINE U == T \cup {t}
  <1>1. U \in SUBSET Ticket /\ IsFiniteSet(U)
    BY FS_AddElement
  <1>2. \A x \in T : AmountOf[x] \in Int
    BY AmountInt
  <1>3. AmountOf[t] = t.amount /\ AmountOf[t] \in Int
    BY AmountInt
  <1>4. SumFunctionOnSet(AmountOf, U) = SumFunctionOnSet(AmountOf, T) + AmountOf[t]
    BY <1>2, <1>3, SumWith
  <1> HIDE DEF U
  <1> QED BY <1>1, <1>3, <1>4, SumOfTickets DEF U

\* A step in which no user's balance and lock change together keeps what is owed.
LEMMA OwedKept ==
  ASSUME \A u \in Users : balances'[u] + locked'[u] = balances[u] + locked[u]
  PROVE  Owed' = Owed
  <1>1. [u \in Users |-> balances'[u] + locked'[u]]
            = [u \in Users |-> balances[u] + locked[u]]
    OBVIOUS
  <1> QED BY <1>1 DEF Owed

\* One ticket sums to its amount.
LEMMA SumOfOne == ASSUME NEW t \in Ticket PROVE Sum({t}) = t.amount
  <1> DEFINE none == {}
             one == {t}
  <1>1. /\ IsFiniteSet(none) /\ t \notin none /\ none \in SUBSET Ticket
        /\ one = none \cup {t}
    BY FS_EmptySet
  <1>2. Sum(none) = 0 /\ t.amount \in Int
    BY SumOfNone, AmountInt
  <1> HIDE DEF none, one
  <1>3. Sum(none \cup {t}) = Sum(none) + t.amount
    BY <1>1, SumOfOneMore
  <1>4. Sum(one) = t.amount
    BY <1>1, <1>2, <1>3
  <1> QED BY <1>4 DEF one

\* What is owed, over one function.
LEMMA OwedIsSum ==
  ASSUME LedgerTypes
  PROVE  /\ Owed = SumFunctionOnSet(Wealth, Users)
         /\ \A u \in Users : Wealth[u] = balances[u] + locked[u] /\ Wealth[u] \in Int
         /\ Owed \in Int
  <1>1. Users = DOMAIN Wealth /\ Owed = SumFunction(Wealth)
    BY DEF Wealth, Owed
  <1>2. \A u \in Users : Wealth[u] = balances[u] + locked[u] /\ Wealth[u] \in Int
    BY DEF Wealth, LedgerTypes
  <1>3. Owed = SumFunctionOnSet(Wealth, Users)
    BY <1>1, SumOfFunction
  <1> QED BY <1>2, <1>3, FiniteUsers, SumInt

\* A step that changes one user's total changes what is owed by as much.
LEMMA OwedChanges ==
  ASSUME LedgerTypes, NEW v \in Users, NEW d \in Int,
         \A u \in Users : balances'[u] + locked'[u]
             = balances[u] + locked[u] + (IF u = v THEN d ELSE 0)
  PROVE  Owed' = Owed + d
  <1> DEFINE g == [u \in Users |-> balances'[u] + locked'[u]]
  <1>1. /\ Owed = SumFunctionOnSet(Wealth, Users)
        /\ \A u \in Users : Wealth[u] = balances[u] + locked[u] /\ Wealth[u] \in Int
        /\ Owed \in Int
    BY OwedIsSum
  <1>2. Users = DOMAIN g /\ Owed' = SumFunction(g)
    BY DEF Owed
  <1>3. g[v] = Wealth[v] + d /\ \A u \in Users : u # v => g[u] = Wealth[u]
    BY <1>1
  <1>4. \A u \in Users : Wealth[u] \in Int
    BY <1>1
  <1>5. g[v] \in Int
    BY <1>3, <1>4
  <1> HIDE DEF g
  <1>6. SumFunctionOnSet(g, Users) = SumFunctionOnSet(Wealth, Users) + (g[v] - Wealth[v])
    BY <1>3, <1>4, <1>5, FiniteUsers, SumChange
  <1>7. Owed' = SumFunctionOnSet(g, Users)
    BY <1>2, SumOfFunction
  <1> QED BY <1>1, <1>3, <1>4, <1>6, <1>7

\* What moves between two users keeps what is owed.
LEMMA OwedMoves ==
  ASSUME LedgerTypes, NEW u \in Users, NEW v \in Users, u # v, NEW a \in Int,
         balances' = [balances EXCEPT ![u] = @ - a, ![v] = @ + a],
         locked' = locked
  PROVE  Owed' = Owed
  <1> DEFINE g == [w \in Users |-> balances'[w] + locked'[w]]
             d == -a
  <1>1. /\ Owed = SumFunctionOnSet(Wealth, Users)
        /\ \A w \in Users : Wealth[w] = balances[w] + locked[w] /\ Wealth[w] \in Int
    BY OwedIsSum
  <1>2. Users = DOMAIN g /\ Owed' = SumFunction(g)
    BY DEF Owed
  <1>3. balances \in [Users -> Int] /\ locked \in [Users -> Int]
    BY DEF LedgerTypes
  <1>4. /\ balances'[u] = balances[u] - a /\ balances'[v] = balances[v] + a
        /\ \A w \in Users : w # u /\ w # v => balances'[w] = balances[w]
    BY <1>3
  <1>5. \A w \in Users : g[w] = Wealth[w] + (IF w = v THEN a ELSE 0)
                                          - (IF w = u THEN a ELSE 0)
    BY <1>1, <1>3, <1>4
  <1>6. \A w \in Users : Wealth[w] \in Int
    BY <1>1
  <1> HIDE DEF g
  <1>7. Transfers(Wealth, g, Users, v, u, a)
    BY <1>5 DEF Transfers
  <1>8. SumFunctionOnSet(g, Users) = SumFunctionOnSet(Wealth, Users)
    BY <1>6, <1>7, FiniteUsers, SumTransfer
  <1> QED BY <1>1, <1>2, <1>8, SumOfFunction

\* The elements of a sequence over a set are in the set.
LEMMA ElementsTyped ==
  ASSUME NEW S, NEW q \in Seq(S)
  PROVE  \A i \in DOMAIN q : q[i] \in S
  OBVIOUS

DepositEvent == [user : Users, amount : Amounts]

\* A deposit has a user and an amount.
LEMMA EventTypes ==
  \A r \in DepositEvent : r.user \in Users /\ r.amount \in Int
  <1>1. \A r \in DepositEvent : r.user \in Users /\ r.amount \in Amounts
    BY DEF DepositEvent
  <1>2. \A a \in Amounts : a \in Int
    BY VaultInputs
  <1> QED BY <1>1, <1>2

GiftOf(deps) == [i \in DOMAIN deps |-> deps[i].amount]

Unbooked(deps, booked) == SumFunction([i \in DOMAIN deps \ booked |-> deps[i].amount])

\* What a ledger that booked some of the deposits has not been told of, over one
\* function.
LEMMA UnbookedIsSum ==
  ASSUME NEW deps \in Seq(DepositEvent), NEW booked
  PROVE  /\ Unbooked(deps, booked)
                = SumFunctionOnSet(GiftOf(deps), DOMAIN deps \ booked)
         /\ IsFiniteSet(DOMAIN deps \ booked)
         /\ \A i \in DOMAIN deps :
                /\ deps[i].user \in Users
                /\ GiftOf(deps)[i] = deps[i].amount /\ GiftOf(deps)[i] \in Int
         /\ Unbooked(deps, booked) \in Int
  <1> DEFINE S == DOMAIN deps
             T == S \ booked
             f == [i \in T |-> deps[i].amount]
             g == GiftOf(deps)
  <1>1. S = 1 .. Len(deps) /\ Len(deps) \in Nat
    OBVIOUS
  <1>2. IsFiniteSet(S)
    BY <1>1, FS_Interval
  <1>3. IsFiniteSet(T)
    BY <1>2, FS_Subset
  <1>4. \A i \in S : deps[i] \in DepositEvent
    BY ElementsTyped
  <1>5. \A i \in S : deps[i].user \in Users /\ deps[i].amount \in Int
    BY <1>4, EventTypes
  <1>6. \A i \in S : g[i] = deps[i].amount
    BY DEF GiftOf
  <1>7. T = DOMAIN f /\ Unbooked(deps, booked) = SumFunction(f)
    BY DEF Unbooked
  <1>8. \A i \in T : f[i] = g[i] /\ g[i] \in Int
    BY <1>5, <1>6
  <1> HIDE DEF f, T, g
  <1>9. SumFunctionOnSet(f, T) = SumFunctionOnSet(g, T)
    BY <1>3, <1>8, SumAgree
  <1>10. SumFunctionOnSet(g, T) \in Int
    BY <1>3, <1>8, SumInt
  <1>11. Unbooked(deps, booked) = SumFunctionOnSet(g, T)
    BY <1>7, <1>9, SumOfFunction
  <1> QED BY <1>3, <1>5, <1>6, <1>10, <1>11 DEF T, g

\* Booking one more deposit takes its amount away.
LEMMA BookOne ==
  ASSUME NEW deps \in Seq(DepositEvent), NEW booked, NEW tx \in DOMAIN deps \ booked
  PROVE  Unbooked(deps, booked \cup {tx}) = Unbooked(deps, booked) - deps[tx].amount
  <1> DEFINE T == DOMAIN deps \ booked
             U == DOMAIN deps \ (booked \cup {tx})
             g == GiftOf(deps)
  <1>1. /\ Unbooked(deps, booked) = SumFunctionOnSet(g, T) /\ IsFiniteSet(T)
        /\ \A i \in DOMAIN deps : g[i] = deps[i].amount /\ g[i] \in Int
    BY UnbookedIsSum
  <1>2. /\ Unbooked(deps, booked \cup {tx}) = SumFunctionOnSet(g, U)
        /\ SumFunctionOnSet(g, U) \in Int
    BY UnbookedIsSum
  <1>3. U = T \ {tx} /\ tx \in T /\ \A i \in T : g[i] \in Int
    BY <1>1
  <1>4. g[tx] = deps[tx].amount /\ g[tx] \in Int
    BY <1>1
  <1> HIDE DEF T, U, g
  <1>5. SumFunctionOnSet(g, T) = g[tx] + SumFunctionOnSet(g, T \ {tx})
    BY <1>1, <1>3, SumWithout
  <1> QED BY <1>1, <1>2, <1>3, <1>4, <1>5

\* A new deposit is not booked.
LEMMA DepositMore ==
  ASSUME NEW deps \in Seq(DepositEvent), NEW booked, booked \subseteq DOMAIN deps,
         NEW r \in DepositEvent
  PROVE  Unbooked(Append(deps, r), booked) = Unbooked(deps, booked) + r.amount
  <1> DEFINE deps2 == Append(deps, r)
             n == Len(deps) + 1
             T == DOMAIN deps \ booked
             U == DOMAIN deps2 \ booked
             f == GiftOf(deps)
             g == GiftOf(deps2)
  <1>1. /\ deps2 \in Seq(DepositEvent) /\ n \in Nat /\ n \notin DOMAIN deps
        /\ DOMAIN deps2 = DOMAIN deps \cup {n} /\ deps2[n] = r
        /\ \A i \in DOMAIN deps : deps2[i] = deps[i]
    OBVIOUS
  <1> HIDE DEF n, deps2
  <1>2. /\ Unbooked(deps, booked) = SumFunctionOnSet(f, T) /\ IsFiniteSet(T)
        /\ \A i \in DOMAIN deps : f[i] = deps[i].amount /\ f[i] \in Int
    BY UnbookedIsSum
  <1>3. Unbooked(deps2, booked) = SumFunctionOnSet(g, U)
    BY <1>1, UnbookedIsSum
  <1>4. \A i \in DOMAIN deps2 : g[i] = deps2[i].amount
    BY DEF GiftOf
  <1>5. U = T \cup {n} /\ n \notin T
    BY <1>1
  <1>6. \A i \in T : f[i] = g[i] /\ f[i] \in Int /\ g[i] \in Int
    BY <1>1, <1>2, <1>4
  <1>7. g[n] = r.amount /\ g[n] \in Int
    BY <1>1, <1>4, EventTypes
  <1> HIDE DEF T, U, f, g
  <1>8. SumFunctionOnSet(g, T \cup {n}) = SumFunctionOnSet(g, T) + g[n]
    BY <1>2, <1>5, <1>6, <1>7, SumWith
  <1>9. SumFunctionOnSet(f, T) = SumFunctionOnSet(g, T)
    BY <1>2, <1>6, SumAgree
  <1> QED BY <1>2, <1>3, <1>5, <1>7, <1>8, <1>9 DEF deps2

\* The tickets paid and not settled are pending or refunded.
LEMMA UnsettledSplits ==
  ASSUME IndInv, LedgerTypes
  PROVE  /\ Sum(paid \ settled) = Sum(paid \cap pending) + Sum(paid \cap refunded)
         /\ paid \ settled \in SUBSET Ticket /\ IsFiniteSet(paid \ settled)
         /\ Sum(paid \ settled) \in Int
  <1> DEFINE A == paid \cap pending
             B == paid \cap refunded
  <1>1. IsFiniteSet(signed) /\ paid \subseteq signed /\ paid \in SUBSET Ticket
    BY DEF IndInv, PaidSigned, LedgerTypes, TicketTypes
  <1>2. /\ A \in SUBSET Ticket /\ IsFiniteSet(A)
        /\ B \in SUBSET Ticket /\ IsFiniteSet(B)
    BY <1>1, FS_Subset
  <1>3. A \cap B = {} /\ A \cup B = paid \ settled
    BY <1>1 DEF IndInv, TicketsEndOnce
  <1>4. \A x \in A \cup B : AmountOf[x] \in Int
    BY <1>2, AmountInt
  <1>5. A \cup B \in SUBSET Ticket /\ IsFiniteSet(A \cup B)
    BY <1>2, FS_Union
  <1> HIDE DEF A, B
  <1>6. SumFunctionOnSet(AmountOf, A \cup B)
            = SumFunctionOnSet(AmountOf, A) + SumFunctionOnSet(AmountOf, B)
    BY <1>2, <1>3, <1>4, SumUnion
  <1>7. /\ Sum(A) = SumFunctionOnSet(AmountOf, A)
        /\ Sum(B) = SumFunctionOnSet(AmountOf, B)
        /\ Sum(A \cup B) = SumFunctionOnSet(AmountOf, A \cup B)
        /\ Sum(A \cup B) \in Int
    BY <1>2, <1>5, SumOfTickets
  <1> QED BY <1>3, <1>5, <1>6, <1>7 DEF A, B

-----------------------------------------------------------------------------
(* The steps of the ledger. *)

\* Initially nothing is owed, deposited or paid.
LEMMA LedgerStarts == Init => LedgerInv
  <1> SUFFICES ASSUME Init PROVE LedgerInv
    OBVIOUS
  <1>1. LedgerTypes
    BY FS_EmptySet DEF Init, LedgerTypes
  <1>2. SyncsAreDeposits
    BY DEF Init, SyncsAreDeposits, NoCall
  <1>3. Owed = 0
    <2>1. /\ Owed = SumFunctionOnSet(Wealth, Users)
          /\ \A u \in Users : Wealth[u] = balances[u] + locked[u]
      BY <1>1, OwedIsSum
    <2>2. \A u \in Users : balances[u] + locked[u] = 0
      BY DEF Init
    <2>3. \A u \in Users : Wealth[u] = 0
      BY <2>1, <2>2
    <2> QED BY <2>1, <2>3, FiniteUsers, SumZero
  <1>4. Uncredited = 0
    <2>1. deposits \in Seq(DepositEvent) /\ DOMAIN deposits \ credited = {}
      BY DEF Init
    <2>2. Uncredited = SumFunctionOnSet(GiftOf(deposits), DOMAIN deposits \ credited)
      BY <2>1, UnbookedIsSum DEF Unbooked, Uncredited
    <2> QED BY <2>1, <2>2, SumEmpty
  <1>5. Sum(paid \ settled) = 0 /\ custody = 0
    <2>1. paid \ settled = {} /\ custody = 0
      BY DEF Init
    <2> QED BY <2>1, SumOfNone
  <1> QED BY <1>1, <1>2, <1>3, <1>4, <1>5 DEF LedgerInv, Backed

\* What a release takes from a lock goes back to the same user's balance.
LEMMA RestoredUnlocked ==
  ASSUME LedgerTypes, NEW T \in SUBSET Ticket, IsFiniteSet(T)
  PROVE  /\ Restored(T) \in [Users -> Int] /\ Unlocked(T) \in [Users -> Int]
         /\ \A u \in Users : Restored(T)[u] + Unlocked(T)[u] = balances[u] + locked[u]
  <1>1. \A u \in Users : Sum(Of(T, u)) \in Int
    <2> TAKE u \in Users
    <2>1. Of(T, u) \in SUBSET Ticket /\ IsFiniteSet(Of(T, u))
      BY FS_Subset DEF Of
    <2> QED BY <2>1, SumOfTickets
  <1>2. balances \in [Users -> Int] /\ locked \in [Users -> Int]
    BY DEF LedgerTypes
  <1> QED BY <1>1, <1>2 DEF Restored, Unlocked

\* The release of one ticket concerns its user only.
LEMMA UnlockOne ==
  ASSUME LedgerTypes, NEW t \in Ticket
  PROVE  \A u \in Users : Unlocked({t})[u]
             = locked[u] - (IF u = t.user THEN t.amount ELSE 0)
  <1> SUFFICES ASSUME NEW u \in Users
               PROVE  Unlocked({t})[u] = locked[u] - (IF u = t.user THEN t.amount ELSE 0)
    OBVIOUS
  <1>1. Unlocked({t})[u] = locked[u] - Sum(Of({t}, u))
    BY DEF Unlocked
  <1>2. CASE u = t.user
    <2>1. Of({t}, u) = {t}
      BY <1>2 DEF Of
    <2> QED BY <1>1, <1>2, <2>1, SumOfOne
  <1>3. CASE u # t.user
    <2>1. Of({t}, u) = {}
      BY <1>3 DEF Of
    <2> QED BY <1>1, <1>3, <2>1, SumOfNone
  <1> QED BY <1>2, <1>3

\* A step that only moves amounts between a user's balance and lock.
LEMMA LedgerKept ==
  ASSUME IndInv, LedgerInv,
         balances' \in [Users -> Int], locked' \in [Users -> Int],
         Owed' = Owed,
         IsFiniteSet(signed'), SyncsAreDeposits',
         UNCHANGED <<credited, custody, deposits, paid, settled>>
  PROVE  LedgerInv'
  <1>1. LedgerTypes'
    BY DEF LedgerInv, LedgerTypes
  <1>2. Uncredited' = Uncredited
    BY DEF Uncredited
  <1>3. Backed'
    BY <1>2 DEF LedgerInv, Backed
  <1> QED BY <1>1, <1>3 DEF LedgerInv

\* Expired and cancelled tickets.
LEMMA RefundBacked ==
  ASSUME IndInv, LedgerInv, NEW T \in SUBSET pending,
         balances' = Restored(T), locked' = Unlocked(T),
         UNCHANGED <<signed, calls, credited, custody, deposits, paid, settled>>
  PROVE  LedgerInv'
  <1>1. T \in SUBSET Ticket /\ IsFiniteSet(T) /\ LedgerTypes
    <2>1. T \subseteq signed /\ signed \in SUBSET Ticket /\ IsFiniteSet(signed)
      BY DEF IndInv, TicketsEndOnce, TicketTypes, LedgerInv, LedgerTypes
    <2> QED BY <2>1, FS_Subset DEF LedgerInv
  <1>2. /\ balances' \in [Users -> Int] /\ locked' \in [Users -> Int]
        /\ \A u \in Users : balances'[u] + locked'[u] = balances[u] + locked[u]
    BY <1>1, RestoredUnlocked
  <1>3. Owed' = Owed
    BY <1>2, OwedKept
  <1>4. SyncsAreDeposits' /\ IsFiniteSet(signed')
    BY DEF LedgerInv, LedgerTypes, SyncsAreDeposits
  <1> QED BY <1>2, <1>3, <1>4, LedgerKept

\* A quote gives back what expired and locks what it signs.
LEMMA QuoteBacked ==
  ASSUME IndInv, LedgerInv, NEW u \in Users, NEW a \in Amounts,
         BuildWithdrawalQuote(u, a)
  PROVE  LedgerInv'
  <1> DEFINE bal == Restored(Expired)
             lck == Unlocked(Expired)
             ticket == [user |-> u, amount |-> a, nonce |-> NextNonce(u),
                        deadline |-> clock + Ttl]
  <1>1. Expired \in SUBSET Ticket /\ IsFiniteSet(Expired) /\ LedgerTypes
    <2>1. Expired \subseteq signed /\ signed \in SUBSET Ticket /\ IsFiniteSet(signed)
      BY DEF IndInv, TicketsEndOnce, TicketTypes, LedgerInv, LedgerTypes, Expired
    <2> QED BY <2>1, FS_Subset DEF LedgerInv
  <1>2. /\ bal \in [Users -> Int] /\ lck \in [Users -> Int]
        /\ \A v \in Users : bal[v] + lck[v] = balances[v] + locked[v]
    BY <1>1, RestoredUnlocked
  <1>3. /\ balances' = [bal EXCEPT ![u] = @ - a]
        /\ locked' = [lck EXCEPT ![u] = @ + a]
        /\ signed' = signed \cup {ticket}
        /\ UNCHANGED <<calls, credited, custody, deposits, paid, settled>>
    BY DEF BuildWithdrawalQuote, chain
  <1>4. a \in Int /\ IsFiniteSet(signed)
    BY VaultInputs DEF LedgerInv, LedgerTypes
  <1> HIDE DEF bal, lck, ticket
  <1>5. /\ balances' \in [Users -> Int] /\ locked' \in [Users -> Int]
        /\ \A v \in Users : balances'[v] + locked'[v] = balances[v] + locked[v]
    <2>1. balances' \in [Users -> Int] /\ locked' \in [Users -> Int]
      BY <1>2, <1>3, <1>4
    <2>2. ASSUME NEW v \in Users
          PROVE  balances'[v] + locked'[v] = bal[v] + lck[v]
      <3>1. CASE v = u
        <4>1. balances'[v] = bal[v] - a /\ locked'[v] = lck[v] + a
          BY <3>1, <1>2, <1>3
        <4>2. bal[v] \in Int /\ lck[v] \in Int
          BY <1>2
        <4> QED BY <4>1, <4>2, <1>4
      <3>2. CASE v # u
        BY <3>2, <1>2, <1>3
      <3> QED BY <3>1, <3>2
    <2> QED BY <2>1, <2>2, <1>2
  <1>6. Owed' = Owed
    BY <1>5, OwedKept
  <1>7. IsFiniteSet(signed')
    BY <1>3, <1>4, FS_AddElement
  <1>8. SyncsAreDeposits'
    BY <1>3 DEF LedgerInv, SyncsAreDeposits
  <1> QED BY <1>3, <1>5, <1>6, <1>7, <1>8, LedgerKept

\* A deposit that is synced moves from the vault's books to the ledger's.
LEMMA SyncDepositBacked ==
  ASSUME IndInv, LedgerInv, NEW c \in Slots, SyncDeposit(c)
  PROVE  LedgerInv'
  <1> DEFINE tx == calls[c].tx
  <1>1. /\ tx \in DOMAIN deposits
        /\ UNCHANGED <<locked, signed, custody, deposits, paid, settled>>
        /\ calls' = [calls EXCEPT ![c] = NoCall]
    BY DEF SyncDeposit, LedgerInv, SyncsAreDeposits, history, chain
  <1>2. SyncsAreDeposits'
    BY <1>1 DEF LedgerInv, SyncsAreDeposits, NoCall, IndInv, TicketTypes
  <1>3. LedgerTypes /\ Backed /\ TicketTypes
    BY DEF LedgerInv, IndInv
  <1>4. /\ deposits \in Seq(DepositEvent)
        /\ Uncredited = Unbooked(deposits, credited)
        /\ Uncredited' = Unbooked(deposits, credited')
    BY <1>1, <1>3 DEF TicketTypes, DepositEvent, Uncredited, Unbooked
  <1>5. CASE tx \in credited
    <2>1. UNCHANGED <<balances, credited>>
      BY <1>5 DEF SyncDeposit, IsNew
    <2>2. balances' \in [Users -> Int] /\ locked' \in [Users -> Int]
          /\ IsFiniteSet(signed')
      BY <2>1, <1>1, <1>3 DEF LedgerTypes
    <2>3. Owed' = Owed
      BY <2>1, <1>1 DEF Owed
    <2> QED BY <2>1, <2>2, <2>3, <1>1, <1>2, LedgerKept
  <1>6. CASE tx \notin credited
    <2> DEFINE v == deposits[tx].user
               d == deposits[tx].amount
    <2>1. /\ balances' = [balances EXCEPT ![v] = @ + d]
          /\ credited' = credited \cup {tx}
      BY <1>6 DEF SyncDeposit, IsNew
    <2>2. v \in Users /\ d \in Int /\ Uncredited \in Int
      BY <1>1, <1>4, ElementsTyped, EventTypes, UnbookedIsSum
    <2>3. Uncredited' = Uncredited - d
      BY <2>1, <1>1, <1>4, <1>6, BookOne
    <2> HIDE DEF v, d, tx
    <2>4. balances \in [Users -> Int] /\ locked \in [Users -> Int]
      BY <1>3 DEF LedgerTypes
    <2>5. balances' \in [Users -> Int]
      BY <2>1, <2>2, <2>4
    <2>6. \A u \in Users : balances'[u] + locked'[u]
              = balances[u] + locked[u] + (IF u = v THEN d ELSE 0)
      BY <2>1, <2>2, <2>4, <1>1
    <2>7. Owed' = Owed + d
      BY <2>2, <2>6, <1>3, OwedChanges
    <2>8. credited' \subseteq DOMAIN deposits
      BY <2>1, <1>1, <1>3 DEF LedgerTypes
    <2>9. LedgerTypes'
      BY <2>5, <2>8, <1>1, <1>3 DEF LedgerTypes
    <2>10. Sum(paid \ settled)' = Sum(paid \ settled)
      BY <1>1
    <2>11. Owed \in Int /\ custody \in Int /\ Sum(paid \ settled) \in Int
      BY <1>3, OwedIsSum, UnsettledSplits DEF LedgerTypes
    <2>12. Backed'
      BY <2>2, <2>3, <2>7, <2>10, <2>11, <1>1, <1>3 DEF Backed
    <2> QED BY <2>9, <2>12, <1>2 DEF LedgerInv
  <1> QED BY <1>5, <1>6

\* A synced ticket leaves the locks and the unsettled payments together.
LEMMA SyncWithdrawalBacked ==
  ASSUME IndInv, LedgerInv, NEW c \in Slots, SyncWithdrawal(c)
  PROVE  LedgerInv'
  <1> DEFINE t == calls[c].tx
             U == paid \ settled
  <1>1. /\ t \in paid /\ t \in Ticket
        /\ calls' = [calls EXCEPT ![c] = NoCall]
        /\ UNCHANGED <<balances, signed, custody, deposits, paid, credited>>
    BY DEF SyncWithdrawal, IndInv, SyncsArePaid, TicketTypes, chain
  <1>2. SyncsAreDeposits'
    BY <1>1 DEF LedgerInv, SyncsAreDeposits, NoCall, IndInv, TicketTypes
  <1>3. LedgerTypes /\ Backed
    BY DEF LedgerInv
  <1>4. balances \in [Users -> Int] /\ locked \in [Users -> Int]
        /\ IsFiniteSet(signed) /\ custody \in Int
    BY <1>3 DEF LedgerTypes
  <1>5. CASE t \notin pending
    <2>1. UNCHANGED <<locked, settled>>
      BY <1>5 DEF SyncWithdrawal
    <2>2. Owed' = Owed
      BY <2>1, <1>1 DEF Owed
    <2>3. balances' \in [Users -> Int] /\ locked' \in [Users -> Int]
          /\ IsFiniteSet(signed')
      BY <2>1, <1>1, <1>4
    <2> QED BY <2>1, <2>2, <2>3, <1>1, <1>2, LedgerKept
  <1>6. CASE t \in pending
    <2> DEFINE d == t.amount
    <2>1. locked' = Unlocked({t}) /\ settled' = settled \cup {t}
      BY <1>6 DEF SyncWithdrawal
    <2>2. t.user \in Users /\ d \in Int
      BY <1>1, AmountInt DEF Ticket
    <2> HIDE DEF t
    <2>3. locked' \in [Users -> Int]
      <3>1. {t} \in SUBSET Ticket /\ IsFiniteSet({t})
        BY <1>1, FS_Singleton
      <3> QED BY <3>1, <2>1, <1>3, RestoredUnlocked
    <2>4. \A u \in Users : locked'[u] = locked[u] - (IF u = t.user THEN d ELSE 0)
      BY <2>1, <1>1, <1>3, UnlockOne
    <2> DEFINE e == -d
    <2>5. e \in Int /\ \A u \in Users : balances'[u] + locked'[u]
              = balances[u] + locked[u] + (IF u = t.user THEN e ELSE 0)
      BY <2>2, <2>4, <1>1, <1>4
    <2> HIDE DEF e
    <2>6. Owed' = Owed + e
      BY <2>2, <2>5, <1>3, OwedChanges
    <2> DEFINE V == U \ {t}
    <2>7. t \notin settled /\ (paid \ settled)' = V /\ U = V \cup {t} /\ t \notin V
      BY <2>1, <1>1, <1>6 DEF IndInv, TicketsEndOnce
    <2>8. U \in SUBSET Ticket /\ IsFiniteSet(U) /\ Sum(U) \in Int
      BY <1>3, UnsettledSplits
    <2>9. V \in SUBSET Ticket /\ IsFiniteSet(V)
      BY <2>8, FS_Subset
    <2> HIDE DEF U, V, d
    <2>10. Sum(V) \in Int
      BY <2>9, SumOfTickets
    <2>11. Sum(V \cup {t}) = Sum(V) + d
      BY <2>7, <2>9, <1>1, SumOfOneMore DEF d
    <2>12. Sum(paid \ settled)' = Sum(paid \ settled) + e
      <3>1. Sum(U) = Sum(V) + d
        BY <2>7, <2>11
      <3>2. Sum(V) = Sum(U) + e
        BY <3>1, <2>2, <2>8, <2>10 DEF e
      <3> QED BY <3>2, <2>7 DEF U
    <2>13. Uncredited' = Uncredited
      BY <1>1 DEF Uncredited
    <2>14. Owed \in Int /\ Uncredited \in Int /\ Sum(paid \ settled) \in Int
      <3>1. deposits \in Seq(DepositEvent)
        BY DEF IndInv, TicketTypes, DepositEvent
      <3>2. Uncredited \in Int
        BY <3>1, UnbookedIsSum DEF Unbooked, Uncredited
      <3> QED BY <3>2, <2>8, <1>3, OwedIsSum DEF U
    <2>15. LedgerTypes'
      BY <2>3, <1>1, <1>3 DEF LedgerTypes
    <2>16. Owed + Uncredited = custody + Sum(paid \ settled)
      BY <1>3 DEF Backed
    <2>17. e \in Int /\ custody' = custody
      BY <2>5, <1>1
    <2>18. Owed' + Uncredited' = custody' + Sum(paid \ settled)'
      BY <2>6, <2>12, <2>13, <2>14, <2>16, <2>17, <1>4
    <2>19. Backed'
      BY <2>18 DEF Backed
    <2> QED BY <2>15, <2>19, <1>2 DEF LedgerInv
  <1> QED BY <1>5, <1>6

\* A trade moves an amount between two users.
LEMMA TradeBacked ==
  ASSUME IndInv, LedgerInv, NEW u \in Users, NEW v \in Users, NEW a \in Amounts,
         Trade(u, v, a)
  PROVE  LedgerInv'
  <1>1. /\ balances' = [balances EXCEPT ![u] = @ - a, ![v] = @ + a] /\ u # v
        /\ UNCHANGED <<locked, signed, calls, credited, custody, deposits, paid,
                       settled>>
    BY DEF Trade, history, chain
  <1>2. a \in Int /\ LedgerTypes
    BY VaultInputs DEF LedgerInv
  <1>3. Owed' = Owed
    BY <1>1, <1>2, OwedMoves
  <1>4. balances' \in [Users -> Int] /\ locked' \in [Users -> Int]
        /\ IsFiniteSet(signed')
    BY <1>1, <1>2 DEF LedgerTypes
  <1>5. SyncsAreDeposits'
    BY <1>1 DEF LedgerInv, SyncsAreDeposits
  <1> QED BY <1>1, <1>3, <1>4, <1>5, LedgerKept

\* A deposit adds to custody what the ledger has yet to be told.
LEMMA DepositBacked ==
  ASSUME IndInv, LedgerInv, NEW u \in Users, NEW a \in Amounts, Deposit(u, a)
  PROVE  LedgerInv'
  <1> DEFINE r == [user |-> u, amount |-> a]
  <1>1. /\ deposits' = Append(deposits, r) /\ custody' = custody + a
        /\ UNCHANGED <<balances, locked, signed, calls, credited, paid, settled>>
    BY DEF Deposit, ledger, history
  <1>2. a \in Int /\ r \in DepositEvent /\ r.amount = a
    BY VaultInputs DEF DepositEvent
  <1>3. deposits \in Seq(DepositEvent) /\ LedgerTypes /\ Backed /\ SyncsAreDeposits
    BY DEF IndInv, TicketTypes, DepositEvent, LedgerInv
  <1> HIDE DEF r
  <1>4. Uncredited' = Uncredited + a /\ Uncredited \in Int
    <2>1. credited \subseteq DOMAIN deposits
      BY <1>3 DEF LedgerTypes
    <2>2. /\ Uncredited = Unbooked(deposits, credited)
          /\ Uncredited' = Unbooked(Append(deposits, r), credited)
      BY <1>1 DEF Uncredited, Unbooked
    <2> QED BY <2>1, <2>2, <1>2, <1>3, DepositMore, UnbookedIsSum
  <1>5. DOMAIN deposits \subseteq DOMAIN deposits'
    BY <1>1, <1>3
  <1>6. LedgerTypes'
    BY <1>1, <1>2, <1>3, <1>5 DEF LedgerTypes
  <1>7. SyncsAreDeposits'
    BY <1>1, <1>3, <1>5 DEF SyncsAreDeposits
  <1>8. Owed' = Owed /\ Sum(paid \ settled)' = Sum(paid \ settled)
    BY <1>1 DEF Owed
  <1>9. Owed \in Int /\ custody \in Int /\ Sum(paid \ settled) \in Int
    BY <1>3, OwedIsSum, UnsettledSplits DEF LedgerTypes
  <1>10. Owed + Uncredited = custody + Sum(paid \ settled)
    BY <1>3 DEF Backed
  <1>11. Owed' + Uncredited' = custody' + Sum(paid \ settled)'
    <2>1. a \in Int /\ custody' = custody + a
      BY <1>1, <1>2
    <2> QED BY <2>1, <1>4, <1>8, <1>9, <1>10
  <1>12. Backed'
    BY <1>11 DEF Backed
  <1> QED BY <1>6, <1>7, <1>12 DEF LedgerInv

\* The contract's payment leaves custody and joins the unsettled payments.
LEMMA PaymentBacked ==
  ASSUME IndInv, LedgerInv, NEW t \in signed, Withdraw(t)
  PROVE  LedgerInv'
  <1> DEFINE U == paid \ settled
  <1>1. /\ paid' = paid \cup {t} /\ custody' = custody - t.amount
        /\ UNCHANGED <<balances, locked, signed, calls, credited, deposits, settled>>
    BY DEF Withdraw, ledger, history
  <1>2. t \notin paid
    BY DEF Withdraw, Unused
  <1>3. t \notin settled
    BY <1>2 DEF IndInv, TicketsEndOnce
  <1>4. LedgerTypes /\ Backed /\ SyncsAreDeposits
    BY DEF LedgerInv
  <1>5. t \in Ticket /\ t.amount \in Int
    BY AmountInt DEF IndInv, TicketTypes
  <1>6. U \in SUBSET Ticket /\ IsFiniteSet(U) /\ Sum(U) \in Int
    BY <1>4, UnsettledSplits
  <1>7. (paid \ settled)' = U \cup {t} /\ t \notin U
    BY <1>1, <1>2, <1>3
  <1>8. Sum(paid \ settled)' = Sum(paid \ settled) + t.amount
    <2> HIDE DEF U
    <2>1. Sum(U \cup {t}) = Sum(U) + t.amount
      BY <1>5, <1>6, <1>7, SumOfOneMore
    <2> QED BY <2>1, <1>7 DEF U
  <1>9. Owed' = Owed /\ Uncredited' = Uncredited
    BY <1>1 DEF Owed, Uncredited
  <1>10. Owed \in Int /\ Uncredited \in Int /\ custody \in Int
    <2>1. deposits \in Seq(DepositEvent)
      BY DEF IndInv, TicketTypes, DepositEvent
    <2>2. Uncredited \in Int
      BY <2>1, UnbookedIsSum DEF Unbooked, Uncredited
    <2> QED BY <2>2, <1>4, OwedIsSum DEF LedgerTypes
  <1>11. LedgerTypes'
    BY <1>1, <1>4, <1>5 DEF LedgerTypes
  <1>12. SyncsAreDeposits'
    BY <1>1, <1>4 DEF SyncsAreDeposits
  <1>13. Backed'
    BY <1>1, <1>4, <1>5, <1>6, <1>8, <1>9, <1>10 DEF Backed
  <1> QED BY <1>11, <1>12, <1>13 DEF LedgerInv

\* Requests, failures, restarts and time leave both sides alone.
LEMMA OthersBacked ==
  ASSUME IndInv, LedgerInv,
         \/ \E c \in Slots :
               \/ \E tx \in DOMAIN deposits : RequestSync(c, "deposit", tx)
               \/ \E tx \in paid : RequestSync(c, "withdrawal", tx)
               \/ SyncFails(c)
         \/ Restart \/ PassSecond \/ UNCHANGED vars
  PROVE  LedgerInv'
  <1>1. UNCHANGED <<balances, locked, signed, credited, custody, deposits, paid,
                    settled>>
    BY DEF RequestSync, SyncFails, Restart, PassSecond, vars, ledger, history, chain
  <1>2. SyncsAreDeposits'
    <2>1. CASE \E c \in Slots, tx \in DOMAIN deposits : RequestSync(c, "deposit", tx)
      BY <2>1, <1>1 DEF RequestSync, LedgerInv, SyncsAreDeposits, IndInv, TicketTypes
    <2>2. CASE \E c \in Slots, tx \in paid : RequestSync(c, "withdrawal", tx)
      BY <2>2, <1>1 DEF RequestSync, LedgerInv, SyncsAreDeposits, IndInv, TicketTypes
    <2>3. CASE \E c \in Slots : SyncFails(c)
      BY <2>3, <1>1 DEF SyncFails, LedgerInv, SyncsAreDeposits, IndInv, TicketTypes,
                        NoCall
    <2>4. CASE Restart
      BY <2>4 DEF Restart, SyncsAreDeposits, NoCall
    <2>5. CASE PassSecond \/ UNCHANGED vars
      BY <2>5, <1>1 DEF PassSecond, vars, LedgerInv, SyncsAreDeposits
    <2> QED BY <2>1, <2>2, <2>3, <2>4, <2>5
  <1>3. Owed' = Owed
    BY <1>1 DEF Owed
  <1>4. balances' \in [Users -> Int] /\ locked' \in [Users -> Int]
        /\ IsFiniteSet(signed')
    BY <1>1 DEF LedgerInv, LedgerTypes
  <1> QED BY <1>1, <1>2, <1>3, <1>4, LedgerKept

\* Every step keeps the ledger and the vault in step.
LEMMA LedgerStep == IndInv /\ LedgerInv /\ [Next]_vars => LedgerInv'
  <1> SUFFICES ASSUME IndInv, LedgerInv, [Next]_vars PROVE LedgerInv'
    OBVIOUS
  <1>1. CASE ReleaseExpiredWithdrawals
    BY <1>1, RefundBacked DEF ReleaseExpiredWithdrawals, Expired, chain
  <1>2. CASE \E u \in Users, a \in Amounts : BuildWithdrawalQuote(u, a)
    BY <1>2, QuoteBacked
  <1>3. CASE \E t \in pending : CancelPendingWithdrawal(t)
    BY <1>3, RefundBacked DEF CancelPendingWithdrawal, chain
  <1>4. ASSUME NEW c \in Slots, SyncDeposit(c) PROVE LedgerInv'
    BY <1>4, SyncDepositBacked
  <1>5. ASSUME NEW c \in Slots, SyncWithdrawal(c) PROVE LedgerInv'
    BY <1>5, SyncWithdrawalBacked
  <1>6. CASE \E u, v \in Users, a \in Amounts : Trade(u, v, a)
    BY <1>6, TradeBacked
  <1>7. CASE \E u \in Users, a \in Amounts : Deposit(u, a)
    BY <1>7, DepositBacked
  <1>8. CASE \E t \in signed : Withdraw(t)
    BY <1>8, PaymentBacked
  <1>9. ASSUME \/ \E c \in Slots :
                     \/ \E tx \in DOMAIN deposits : RequestSync(c, "deposit", tx)
                     \/ \E tx \in paid : RequestSync(c, "withdrawal", tx)
                     \/ SyncFails(c)
               \/ Restart \/ PassSecond \/ UNCHANGED vars
        PROVE  LedgerInv'
    BY <1>9, OthersBacked
  <1> QED BY <1>1, <1>2, <1>3, <1>4, <1>5, <1>6, <1>7, <1>8, <1>9 DEF Next

\* Whatever is quoted, cancelled, expired, synced, traded and restarted, and
\* however the syncs interleave, the ledger owes what the vault holds up to the
\* deposits and payments it has not been told of and the tickets paid although
\* their lock was given back.
THEOREM VaultBacksLedger == Spec => []LedgerBacked
  <1>1. Spec => []LedgerInv
    BY LedgerStarts, LedgerStep, Invariance, PTL DEF Spec
  <1>2. IndInv /\ LedgerInv => LedgerBacked
    <2> SUFFICES ASSUME IndInv, LedgerInv PROVE LedgerBacked
      OBVIOUS
    <2>1. Owed + Uncredited = custody + Sum(paid \ settled) /\ custody \in Int
      BY DEF LedgerInv, Backed, LedgerTypes
    <2>2. /\ Sum(paid \ settled) = Sum(paid \cap pending) + Sum(paid \cap refunded)
          /\ LedgerTypes /\ IsFiniteSet(signed)
      BY UnsettledSplits DEF LedgerInv, LedgerTypes
    <2>3. Sum(paid \cap pending) \in Int /\ Sum(paid \cap refunded) \in Int
      <3>1. paid \in SUBSET Ticket /\ IsFiniteSet(paid)
        BY <2>2, FS_Subset DEF IndInv, TicketTypes, PaidSigned
      <3>2. /\ paid \cap pending \in SUBSET Ticket /\ IsFiniteSet(paid \cap pending)
            /\ paid \cap refunded \in SUBSET Ticket /\ IsFiniteSet(paid \cap refunded)
        BY <3>1, FS_Subset
      <3> QED BY <3>2, SumOfTickets
    <2> QED BY <2>1, <2>2, <2>3 DEF LedgerBacked
  <1> QED BY <1>1, <1>2, Invariance, PTL
=============================================================================
