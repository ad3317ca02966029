---------------------------- MODULE MatcherSigner ----------------------------
(***************************************************************************)
(* The one account with which the matcher writes to the rollup, as the     *)
(* vault service and the bridge claims both use it: read the transaction   *)
(* count, estimate the gas, sign, send, wait for the receipt.  Each of     *)
(* these is an await, and nothing orders two requests that are in the      *)
(* middle of it.                                                           *)
(*                                                                         *)
(* A request is a record in a slot: what was asked (op, who, amount), how  *)
(* far its handler got (at), what it remembers, and, while it sends, the   *)
(* transaction (leg) and its nonce.                                        *)
(***************************************************************************)
EXTENDS Integers, FiniteSets

CONSTANTS
    Slots,        \* requests served at one time
    None,
    MaxRequests,  \* bound on requests
    MaxCrashes    \* bound on restarts

\* One process serves the requests.
ASSUME FiniteSlots == IsFiniteSet(Slots)

VARIABLES
    requests,  \* the handlers' frames, by slot
    account,   \* the account's transaction count, "latest"
    pool,      \* sent and not mined
    silent,    \* history: legs that were mined and reverted
    asked,     \* requests so far
    crashes    \* restarts so far

signerVars == <<requests, account, pool, silent, asked, crashes>>

Idle == [op |-> "idle", at |-> "idle", who |-> None, amount |-> 0, known |-> 0,
         leg |-> None, nonce |-> 0]

SignerInit ==
    /\ requests = [s \in Slots |-> Idle]
    /\ account = 0
    /\ pool = {}
    /\ silent = {}
    /\ asked = 0
    /\ crashes = 0

At(s, op, at) == requests[s].op = op /\ requests[s].at = at

Move(s, r) == requests' = [requests EXCEPT ![s] = r]

\* The steps of one transaction, each between two awaits.
Sending == {"count", "estimate", "send", "receipt"}

\* A handler starts to send the transaction of a leg of its work.
Start(r, leg) == [r EXCEPT !.at = "count", !.leg = leg]

GetTransactionCount(s) ==
    /\ requests[s].at = "count"
    /\ Move(s, [requests[s] EXCEPT !.at = "estimate", !.nonce = account])
    /\ UNCHANGED <<account, pool, silent, asked, crashes>>

\* The node runs the call on its latest state; a call that reverts throws.
\* The throw ends the request.
EstimateGas(s, works) ==
    /\ requests[s].at = "estimate"
    /\ Move(s, IF works THEN [requests[s] EXCEPT !.at = "send"] ELSE Idle)
    /\ UNCHANGED <<account, pool, silent, asked, crashes>>

\* External: the node takes a transaction if nothing with its nonce was mined
\* or waits.
Fits(nonce) == nonce >= account /\ \A tx \in pool : tx.nonce # nonce

\* Mutant: the node is believed to queue a second transaction of one nonce.
MutSendRawTransaction(s) ==
    LET r == requests[s]
    IN  /\ r.at = "send"
        /\ Move(s, [r EXCEPT !.at = "receipt",
                             !.nonce = account + Cardinality(pool)])
        /\ pool' = pool \cup
                     {[nonce |-> account + Cardinality(pool), leg |-> r.leg,
                       who |-> r.who, amount |-> r.amount, ref |-> r.known]}
        /\ UNCHANGED <<account, silent, asked, crashes>>
SendRawTransaction(s) ==
    LET r == requests[s]
    IN  /\ r.at = "send"
        /\ IF Fits(r.nonce)
           THEN /\ Move(s, [r EXCEPT !.at = "receipt"])
                /\ pool' = pool \cup {[nonce |-> r.nonce, leg |-> r.leg,
                                       who |-> r.who, amount |-> r.amount,
                                       ref |-> r.known]}
           ELSE /\ Move(s, Idle)
                /\ UNCHANGED pool
        /\ UNCHANGED <<account, silent, asked, crashes>>

\* The receipt does not come in time: the request fails, the transaction does
\* not.
ReceiptTimeout(s) ==
    /\ requests[s].at = "receipt"
    /\ Move(s, Idle)
    /\ UNCHANGED <<account, pool, silent, asked, crashes>>

\* External: the next transaction is mined, and reverts if it no longer works.
Mine(tx, works) ==
    /\ tx \in pool
    /\ tx.nonce = account
    /\ pool' = pool \ {tx}
    /\ account' = account + 1
    /\ silent' = IF works THEN silent ELSE silent \cup {tx.leg}
    /\ requests' = [s \in Slots |->
           IF requests[s].at = "receipt" /\ requests[s].nonce = tx.nonce
           THEN [requests[s] EXCEPT !.at = "mined"] ELSE requests[s]]
    /\ UNCHANGED <<asked, crashes>>

\* The process restarts: its requests are gone, the chain goes on.
StopSigner ==
    /\ crashes < MaxCrashes
    /\ crashes' = crashes + 1
    /\ requests' = [s \in Slots |-> Idle]
    /\ UNCHANGED <<account, pool, silent, asked>>

=============================================================================
