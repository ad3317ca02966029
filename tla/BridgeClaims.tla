----------------------------- MODULE BridgeClaims -----------------------------
(***************************************************************************)
(* BridgeClaimService: an INIT balance bridged to the rollup's bank is     *)
(* claimed as minted tokens, and redeemed by burning them.  The service    *)
(* keeps one number per address, how much of the bridged balance has been  *)
(* claimed; it is read before the first await of a request and written     *)
(* after the last.                                                         *)
(*                                                                         *)
(* An account stands for a user's Initia address and EVM address.          *)
(***************************************************************************)
EXTENDS MatcherSigner, Functions

CONSTANTS
    Accounts,
    Up, Down,       \* scale from the source's decimals to the token's
    RedeemAmounts,  \* what a user may ask to redeem, in units of the token
    MaxBridged      \* bound on what is bridged in

\* One of the two denominations is the finer one.
ASSUME Decimals == /\ Up \in Nat \ {0} /\ Down \in Nat \ {0}
                   /\ Up = 1 \/ Down = 1

\* redeem begins by refusing an amount that is not positive.
ASSUME RedeemInputs == RedeemAmounts \subseteq Nat \ {0}

VARIABLES
    bridged,    \* bank balance of the bridged denomination
    deposited,  \* history: everything ever bridged in
    tokens,     \* the wallet's minted tokens
    supply,     \* history: tokens minted for the account less those burnt
    claims,     \* AppState.bridgeClaims
    skew,       \* history: supply that no claim stands for, and why
    overlapped  \* history: accounts that had two requests at one time

claimVars == <<bridged, deposited, tokens, supply, claims, skew, overlapped>>

ClaimsInit ==
    LET zero == [u \in Accounts |-> 0]
    IN  /\ bridged = zero
        /\ deposited = zero
        /\ tokens = zero
        /\ supply = zero
        /\ claims = zero
        /\ skew = [u \in Accounts |-> [lost |-> 0, reverted |-> 0]]
        /\ overlapped = {}

ScaleAtomic(amount) == (amount * Up) \div Down
Unscale(amount) == (amount * Down) \div Up

Least(x, y) == IF x < y THEN x ELSE y

\* Mutant: what was claimed is not taken off.
MutClaimable(u) == bridged[u]
\* preview: the bank balance beyond what was claimed.
Claimable(u) == IF bridged[u] > claims[u] THEN bridged[u] - claims[u] ELSE 0

\* A request of the account, or a transaction of one, has not ended.
Busy(u) == \/ \E s \in Slots : requests[s].op \in {"claim", "redeem"}
                              /\ requests[s].who = u
           \/ \E tx \in pool : tx.who = u

Ask(u) == /\ asked < MaxRequests
          /\ asked' = asked + 1
          /\ overlapped' = IF Busy(u) THEN overlapped \cup {u} ELSE overlapped
          /\ UNCHANGED <<account, pool, silent, crashes, bridged, deposited,
                         tokens, supply, claims, skew>>

\* claim up to its first await after both numbers are known.
Claim(s, u) ==
    /\ requests[s] = Idle
    /\ Ask(u)
    /\ Claimable(u) > 0
    /\ ScaleAtomic(Claimable(u)) > 0
    /\ Move(s, Start([Idle EXCEPT !.op = "claim", !.who = u,
                                  !.amount = ScaleAtomic(Claimable(u)),
                                  !.known = Claimable(u)], "mint"))

\* The mutation that ends claim.
\* Mutant: what is recorded is the whole balance instead of the claim.
MutRecordClaim(s) ==
    /\ At(s, "claim", "mined")
    /\ claims' = [claims EXCEPT ![requests[s].who] = requests[s].known]
    /\ Move(s, Idle)
    /\ UNCHANGED <<account, pool, silent, asked, crashes, bridged, deposited,
                   tokens, supply, skew, overlapped>>
RecordClaim(s) ==
    /\ At(s, "claim", "mined")
    /\ claims' = [claims EXCEPT ![requests[s].who] = @ + requests[s].known]
    /\ Move(s, Idle)
    /\ UNCHANGED <<account, pool, silent, asked, crashes, bridged, deposited,
                   tokens, supply, skew, overlapped>>

\* redeem: the claimed amount is read, then the wallet's balance is awaited.
Redeem(s, u, amount) ==
    /\ requests[s] = Idle
    /\ Ask(u)
    /\ Move(s, [Idle EXCEPT !.op = "redeem", !.at = "balance", !.who = u,
                            !.amount = amount, !.known = claims[u]])

Redeemable(r) == Least(tokens[r.who], ScaleAtomic(r.known))

\* With a token coarser than its source the precision factor is a negative
\* power, which throws.
Refused(r) ==
    \/ Down > 1
    \/ r.amount % Up # 0
    \/ r.amount > Redeemable(r)
    \/ Unscale(r.amount) > r.known

CheckRedeem(s) ==
    /\ At(s, "redeem", "balance")
    /\ Move(s, IF Refused(requests[s]) THEN Idle
               ELSE Start(requests[s], "burn"))
    /\ UNCHANGED <<account, pool, silent, asked, crashes, claimVars>>

RecordRedeem(s) ==
    /\ At(s, "redeem", "mined")
    /\ claims' = [claims EXCEPT ![requests[s].who] =
                      @ - Unscale(requests[s].amount)]
    /\ Move(s, Idle)
    /\ UNCHANGED <<account, pool, silent, asked, crashes, bridged, deposited,
                   tokens, supply, skew, overlapped>>

-----------------------------------------------------------------------------
(* External: the token contract, the bank and the user's wallet. *)

TokenWorks(tx) == tx.leg = "mint" \/ tx.amount <= tokens[tx.who]

\* A request still waits for this transaction.
Awaited(tx) ==
    \E s \in Slots : requests[s].at = "receipt" /\ requests[s].nonce = tx.nonce

\* What a mined transaction does to the token.  A mint or a burn that no request
\* waits for any more is one that no claim will stand for; a burn that reverts
\* is one that a request will record all the same.
TokenEffect(tx) ==
    LET sign == IF tx.leg = "mint" THEN 1 ELSE -1
        done == TokenWorks(tx)
    IN  /\ tokens' = [tokens EXCEPT ![tx.who] =
               IF done THEN @ + sign * tx.amount ELSE @]
        /\ supply' = [supply EXCEPT ![tx.who] =
               IF done THEN @ + sign * tx.amount ELSE @]
        /\ skew' = [skew EXCEPT
               ![tx.who].lost = IF done /\ ~Awaited(tx)
                                THEN @ + sign * tx.amount ELSE @,
               ![tx.who].reverted = IF ~done /\ Awaited(tx)
                                    THEN @ + tx.amount ELSE @]
        /\ UNCHANGED <<bridged, deposited, claims, overlapped>>

BridgeIn(u) ==
    /\ deposited[u] < MaxBridged
    /\ bridged' = [bridged EXCEPT ![u] = @ + 1]
    /\ deposited' = [deposited EXCEPT ![u] = @ + 1]
    /\ UNCHANGED <<tokens, supply, claims, skew, overlapped, signerVars>>

\* The bank balance is the user's: redeemed or not, it can be bridged back.
BridgeOut(u) ==
    /\ bridged[u] > 0
    /\ bridged' = [bridged EXCEPT ![u] = @ - 1]
    /\ UNCHANGED <<deposited, tokens, supply, claims, skew, overlapped,
                   signerVars>>

\* The wallet sends tokens to others, or gets some that others hold.
Transfer(u, amount) ==
    /\ tokens[u] + amount >= 0
    /\ amount <= SumFunction([v \in Accounts |-> supply[v] - tokens[v]])
    /\ tokens' = [tokens EXCEPT ![u] = @ + amount]
    /\ UNCHANGED <<bridged, deposited, supply, claims, skew, overlapped,
                   signerVars>>

\* The requests that have a transaction mined and not recorded.
Unrecorded(op, u) ==
    {s \in Slots : At(s, op, "mined") /\ requests[s].who = u}

\* The tokens they minted, less those they burnt.
Pending(u) ==
    SumFunction([s \in Unrecorded("claim", u) |-> requests[s].amount])
    - SumFunction([s \in Unrecorded("redeem", u) |-> requests[s].amount])

\* A stop loses what was mined and not recorded.
StopClaims ==
    /\ skew' = [u \in Accounts |-> [skew[u] EXCEPT !.lost = @ + Pending(u)]]
    /\ UNCHANGED <<bridged, deposited, tokens, supply, claims, overlapped>>

-----------------------------------------------------------------------------
\* The tokens out for an account are those its claims stand for, those of the
\* requests between their transaction and their record, and what the history
\* names: transactions that outlived their request, and burns that reverted and
\* were recorded.  Nothing else makes a token without a claim or a claim without
\* a token (bridgeClaims.ts:168, :261: the record is relative, and comes last).
ClaimsAccounted ==
    \A u \in Accounts : Down = 1 =>
        supply[u] = ScaleAtomic(claims[u]) + Pending(u)
                    + skew[u].lost + skew[u].reverted

\* Who sends one request at a time, and whose transactions do not outlive them,
\* never holds more than was bridged in (bridgeClaims.ts:113-175).  Two claims at
\* a time, a restart or a late receipt between the mint and the record, or a burn
\* that reverts, do mint twice.
QuietClaimsAreBacked ==
    \A u \in Accounts \ overlapped :
        skew[u] = [lost |-> 0, reverted |-> 0] =>
            supply[u] \in 0 .. ScaleAtomic(deposited[u])
=============================================================================
