--------------------------- MODULE VaultWithdrawals ---------------------------
(***************************************************************************)
(* Deposits into DarkPoolVault and withdrawals from it by signed tickets:  *)
(* VaultService between its HTTP routes, the contract and the clock.       *)
(*                                                                         *)
(* A ticket is the EIP-712 message the matcher signs.  Its record in       *)
(* pendingWithdrawals can be dropped (cancel, expiry, sync), the signature *)
(* cannot: whoever holds it can use it until the contract's deadline.      *)
(*                                                                         *)
(* The signature is computed by a local account, without I/O, so a quote   *)
(* is never interleaved with another handler; the two sync handlers wait   *)
(* for a receipt.  Each handler ends in one flush, so a restart only loses *)
(* the calls in flight.                                                    *)
(*                                                                         *)
(* One token is enough: every record carries its own, and no handler mixes *)
(* two.  The matcher and the chain read one clock, in units of a second.   *)
(***************************************************************************)
EXTENDS Integers, Sequences, FiniteSetsExt, Functions

CONSTANTS
    Users,
    Amounts,
    Slots,        \* sync requests served at one time
    Ttl,          \* lifetime of a ticket, 15 minutes in the code
    MaxDeposits,  \* bound on deposits
    MaxTickets,   \* bound on tickets
    MaxClock      \* bound on time

ASSUME VaultInputs == /\ Amounts \subseteq Nat
                      /\ Ttl \in Nat
\* Wallet addresses are 20 bytes.
ASSUME FiniteUsers == IsFiniteSet(Users)

VARIABLES
    balances,     \* AppState.balances
    locked,       \* AppState.locked
    pending,      \* AppState.pendingWithdrawals
    nonces,       \* AppState.withdrawalNonces
    credited,     \* AppState.processedDeposits
    processed,    \* AppState.processedWithdrawals
    calls,        \* sync requests waiting for a receipt
    signed,       \* every ticket handed out
    refunded,     \* history: tickets whose lock went back to the balance
    settled,      \* history: tickets whose lock a sync removed
    deposits,     \* the contract's Deposit events, a transaction each
    paid,         \* tickets the contract paid: its Withdraw events, nonceUsed
    custody,      \* tokens in the vault
    clock

ledger == <<balances, locked, pending, nonces, credited, processed>>
history == <<refunded, settled>>
chain == <<deposits, paid, custody>>
vars == <<balances, locked, pending, nonces, credited, processed, calls,
          signed, refunded, settled, deposits, paid, custody, clock>>

Ticket == [user : Users, amount : Amounts, nonce : Nat, deadline : Nat]

NoCall == [kind |-> "none"]

Sum(tickets) == SumFunction([t \in tickets |-> t.amount])
Of(tickets, u) == {t \in tickets : t.user = u}

-----------------------------------------------------------------------------
Init ==
    /\ balances = [u \in Users |-> 0]
    /\ locked = [u \in Users |-> 0]
    /\ pending = {}
    /\ nonces = [u \in Users |-> 0]
    /\ credited = {}
    /\ processed = {}
    /\ calls = [c \in Slots |-> NoCall]
    /\ signed = {}
    /\ refunded = {}
    /\ settled = {}
    /\ deposits = << >>
    /\ paid = {}
    /\ custody = 0
    /\ clock = 0

(* VaultService. *)

Expired == {t \in pending : t.deadline <= clock}

\* The ledger once the locks of these tickets are given back.
Unlocked(tickets) == [u \in Users |-> locked[u] - Sum(Of(tickets, u))]
Restored(tickets) == [u \in Users |-> balances[u] + Sum(Of(tickets, u))]

ReleaseExpiredWithdrawals ==
    /\ Expired # {}
    /\ locked' = Unlocked(Expired)
    /\ balances' = Restored(Expired)
    /\ pending' = pending \ Expired
    /\ refunded' = refunded \cup Expired
    /\ UNCHANGED <<nonces, credited, processed, calls, signed, settled, chain,
                   clock>>

NextNonce(u) == nonces[u] + 1

Covers(u, amount) == Restored(Expired)[u] >= amount

\* buildWithdrawalQuote releases what has expired, then signs and locks.
BuildWithdrawalQuote(u, amount) ==
    LET ticket == [user |-> u, amount |-> amount, nonce |-> NextNonce(u),
                   deadline |-> clock + Ttl]
    IN  /\ Cardinality(signed) < MaxTickets
        /\ Covers(u, amount)
        /\ nonces' = [nonces EXCEPT ![u] = NextNonce(u)]
        /\ balances' = [Restored(Expired) EXCEPT ![u] = @ - amount]
        /\ locked' = [Unlocked(Expired) EXCEPT ![u] = @ + amount]
        /\ pending' = (pending \ Expired) \cup {ticket}
        /\ signed' = signed \cup {ticket}
        /\ refunded' = refunded \cup Expired
        /\ UNCHANGED <<credited, processed, calls, settled, chain, clock>>

CancelPendingWithdrawal(ticket) ==
    /\ ticket \in pending
    /\ locked' = Unlocked({ticket})
    /\ balances' = Restored({ticket})
    /\ pending' = pending \ {ticket}
    /\ refunded' = refunded \cup {ticket}
    /\ UNCHANGED <<nonces, credited, processed, calls, signed, settled, chain,
                   clock>>

\* The first look at the processed list, before the receipt is awaited.
RequestSync(c, kind, tx) ==
    /\ calls[c] = NoCall
    /\ \/ kind = "deposit" /\ tx \in DOMAIN deposits \ credited
       \/ kind = "withdrawal" /\ tx \in paid \ processed
    /\ calls' = [calls EXCEPT ![c] = [kind |-> kind, tx |-> tx]]
    /\ UNCHANGED <<ledger, signed, history, chain, clock>>

\* Mutant: the list is not looked at again.
MutIsNew(tx) == TRUE
IsNew(tx) == tx \notin credited

SyncDeposit(c) ==
    LET tx == calls[c].tx
    IN  /\ calls[c].kind = "deposit"
        /\ IF IsNew(tx)
           THEN /\ balances' = [balances EXCEPT ![deposits[tx].user] =
                                    @ + deposits[tx].amount]
                /\ credited' = credited \cup {tx}
           ELSE UNCHANGED <<balances, credited>>
        /\ calls' = [calls EXCEPT ![c] = NoCall]
        /\ UNCHANGED <<locked, pending, nonces, processed, signed, history,
                       chain, clock>>

\* Mutant: the lock is released but the record stays.
MutRemaining(ticket) == pending
Remaining(ticket) == pending \ {ticket}

\* A ticket that was cancelled or released meanwhile has no record left; its
\* transaction is marked as processed all the same.
SyncWithdrawal(c) ==
    LET ticket == calls[c].tx
    IN  /\ calls[c].kind = "withdrawal"
        /\ IF ticket \in pending
           THEN /\ locked' = Unlocked({ticket})
                /\ pending' = Remaining(ticket)
                /\ settled' = settled \cup {ticket}
           ELSE UNCHANGED <<locked, pending, settled>>
        /\ processed' = processed \cup {ticket}
        /\ calls' = [calls EXCEPT ![c] = NoCall]
        /\ UNCHANGED <<balances, nonces, credited, signed, refunded, chain,
                       clock>>

\* The node does not answer, or has no receipt yet.
SyncFails(c) ==
    /\ calls[c] # NoCall
    /\ calls' = [calls EXCEPT ![c] = NoCall]
    /\ UNCHANGED <<ledger, signed, history, chain, clock>>

Restart ==
    /\ calls' = [c \in Slots |-> NoCall]
    /\ UNCHANGED <<ledger, signed, history, chain, clock>>

\* Orders and swaps move balances between users through the other services.
Trade(u, v, amount) ==
    /\ u # v
    /\ balances[u] >= amount
    /\ balances' = [balances EXCEPT ![u] = @ - amount, ![v] = @ + amount]
    /\ UNCHANGED <<locked, pending, nonces, credited, processed, calls, signed,
                   history, chain, clock>>

(* DarkPoolVault and time. *)

Deposit(u, amount) ==
    /\ Len(deposits) < MaxDeposits
    /\ deposits' = Append(deposits, [user |-> u, amount |-> amount])
    /\ custody' = custody + amount
    /\ UNCHANGED <<ledger, calls, signed, history, paid, clock>>

Unused(ticket) ==
    \A t \in paid : <<t.user, t.nonce>> # <<ticket.user, ticket.nonce>>

Withdraw(ticket) ==
    /\ ticket \in signed
    /\ clock <= ticket.deadline
    /\ Unused(ticket)
    /\ custody >= ticket.amount
    /\ paid' = paid \cup {ticket}
    /\ custody' = custody - ticket.amount
    /\ UNCHANGED <<ledger, calls, signed, history, deposits, clock>>

PassSecond ==
    /\ clock < MaxClock
    /\ clock' = clock + 1
    /\ UNCHANGED <<ledger, calls, signed, history, chain>>

Next ==
    \/ ReleaseExpiredWithdrawals
    \/ \E u \in Users, a \in Amounts : BuildWithdrawalQuote(u, a)
    \/ \E t \in pending : CancelPendingWithdrawal(t)
    \/ \E c \in Slots :
           \/ \E tx \in DOMAIN deposits : RequestSync(c, "deposit", tx)
           \/ \E tx \in paid : RequestSync(c, "withdrawal", tx)
           \/ SyncDeposit(c)
           \/ SyncWithdrawal(c)
           \/ SyncFails(c)
    \/ Restart
    \/ \E u, v \in Users, a \in Amounts : Trade(u, v, a)
    \/ \E u \in Users, a \in Amounts : Deposit(u, a)
    \/ \E t \in signed : Withdraw(t)
    \/ PassSecond

Spec == Init /\ [][Next]_vars

-----------------------------------------------------------------------------
(* Properties. *)

\* Every variable has its type; balances never go below zero, whatever is
\* quoted, cancelled, expired and traded in between.
TypeOK ==
    /\ balances \in [Users -> Nat]
    /\ locked \in [Users -> Int]
    /\ pending \in SUBSET Ticket
    /\ nonces \in [Users -> Nat]
    /\ credited \in SUBSET Nat
    /\ processed \in SUBSET Ticket
    /\ calls \in [Slots -> {NoCall} \cup [kind : {"deposit"}, tx : Nat]
                                    \cup [kind : {"withdrawal"}, tx : Ticket]]
    /\ signed \in SUBSET Ticket
    /\ refunded \in SUBSET Ticket
    /\ settled \in SUBSET Ticket
    /\ deposits \in Seq([user : Users, amount : Amounts])
    /\ paid \in SUBSET Ticket
    /\ custody \in Nat
    /\ clock \in Nat

\* A user and a nonce name one ticket, and a ticket that was ever signed is not
\* signed again for another amount: the contract's nonceUsed can tell them apart.
OneTicketPerNonce ==
    /\ \A t \in signed : t.nonce <= nonces[t.user]
    /\ \A s, t \in signed : s.user = t.user /\ s.nonce = t.nonce => s = t

\* Every ticket handed out is pending, refunded or settled, and exactly one of
\* them; it is settled only if the contract paid it.
TicketsEndOnce ==
    /\ signed = pending \cup refunded \cup settled
    /\ pending \cap refunded = {}
    /\ pending \cap settled = {}
    /\ refunded \cap settled = {}
    /\ settled \subseteq paid

Owed == SumFunction([u \in Users |-> balances[u] + locked[u]])
Uncredited ==
    SumFunction([i \in DOMAIN deposits \ credited |-> deposits[i].amount])

\* The ledger owes what the vault holds, except for deposits it has not been
\* told of, tickets paid but not synced, and tickets paid although their lock
\* had been or is later given back: no other step, however syncs interleave,
\* separates the two.
LedgerBacked ==
    Owed + Uncredited = custody + Sum(paid \cap pending) + Sum(paid \cap refunded)

=============================================================================
