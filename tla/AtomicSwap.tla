------------------------------ MODULE AtomicSwap ------------------------------
(***************************************************************************)
(* What an asynchronous swap promises its user, with no worker, no jobs    *)
(* and no L1: the input is taken out of the balance and locked when the    *)
(* swap is opened, and later, at most once, it either leaves the account   *)
(* against a credit of the output token or goes back where it came from.   *)
(* Nothing else ever moves locked funds.                                   *)
(***************************************************************************)
EXTENDS Integers, Sequences

CONSTANTS
    Users,
    Tokens,
    Amounts,  \* what a user can put in
    Payouts,  \* what a swap can be credited with
    Funds,    \* initial balances
    None      \* a deal that paid nothing

VARIABLES
    balances,
    locked,
    deals     \* every swap opened so far, oldest first

abstractVars == <<balances, locked, deals>>

Change(ledger, u, t, delta) == [ledger EXCEPT ![u][t] = @ + delta]

Deal(u, from, to, amount) ==
    [user |-> u, from |-> from, to |-> to, amount |-> amount,
     outcome |-> "pending", out |-> None]

Init == /\ balances = Funds
        /\ locked = [u \in Users |-> [t \in Tokens |-> 0]]
        /\ deals = << >>

Open(u, from, to, amount) ==
    /\ from # to
    /\ balances[u][from] >= amount
    /\ balances' = Change(balances, u, from, -amount)
    /\ locked' = Change(locked, u, from, amount)
    /\ deals' = Append(deals, Deal(u, from, to, amount))

Pay(i, out) ==
    LET d == deals[i]
    IN  /\ d.outcome = "pending"
        /\ locked' = Change(locked, d.user, d.from, -d.amount)
        /\ balances' = Change(balances, d.user, d.to, out)
        /\ deals' = [deals EXCEPT ![i].outcome = "paid", ![i].out = out]

Refund(i) ==
    LET d == deals[i]
    IN  /\ d.outcome = "pending"
        /\ locked' = Change(locked, d.user, d.from, -d.amount)
        /\ balances' = Change(balances, d.user, d.from, d.amount)
        /\ deals' = [deals EXCEPT ![i].outcome = "refunded"]

\* The user trades on the spot with the same balances.
Trade(u, from, to, amount, out) ==
    /\ balances' = Change(Change(balances, u, from, -amount), u, to, out)
    /\ UNCHANGED <<locked, deals>>

Next ==
    \/ \E u \in Users, from, to \in Tokens, a \in Amounts : Open(u, from, to, a)
    \/ \E i \in DOMAIN deals, out \in Payouts : Pay(i, out)
    \/ \E i \in DOMAIN deals : Refund(i)
    \/ \E u \in Users, from, to \in Tokens, a \in Amounts, out \in Payouts :
           Trade(u, from, to, a, out)

Spec == Init /\ [][Next]_abstractVars
=============================================================================
