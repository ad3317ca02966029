------------------------------ MODULE Settlement ------------------------------
(***************************************************************************)
(* VaultService.settleInstantLocalSwap and its caller: an instant swap is  *)
(* two transactions of the matcher, the output into the vault and the      *)
(* input out of it, and then a change of the ledger.                       *)
(*                                                                         *)
(* The ledger is taken as what it owes in each token, the vault as what it *)
(* holds; a user's balance, the quote and the inventory are the business   *)
(* of LiquidityRouter, which sees the two transactions as one call.        *)
(***************************************************************************)
EXTENDS MatcherSigner, Sequences, Functions

CONSTANTS
    SwapTokens,
    SwapAmounts,
    Wallet,    \* what the matcher holds at first
    Custody    \* what the vault holds, and owes, at first

\* A swap has another token to go to, and amounts are atomic units.
ASSUME SwapInputs ==
    /\ SwapAmounts \subseteq Nat
    /\ \A t \in SwapTokens : \E v \in SwapTokens : v # t
    /\ Wallet \in [SwapTokens -> Nat]
    /\ Custody \in [SwapTokens -> Nat]

VARIABLES
    wallet,   \* the matcher's tokens
    custody,  \* the vault's
    owed,     \* the sum of the ledger
    swaps     \* history: [in, out, amount, done, booked], one for each swap

settleVars == <<wallet, custody, owed, swaps>>

SettleInit ==
    /\ wallet = Wallet
    /\ custody = Custody
    /\ owed = Custody
    /\ swaps = << >>

Other(t) == CHOOSE v \in SwapTokens : v # t

\* Mutant: the input is taken first.
MutFirstLeg == "withdraw"
FirstLeg == "transfer"

\* `known` is the swap's place in the history; `who` its input token, so that the
\* transactions carry the token they move.
SettleInstantLocalSwap(s, in, amount) ==
    /\ requests[s] = Idle
    /\ asked < MaxRequests
    /\ asked' = asked + 1
    /\ wallet[Other(in)] >= amount
    /\ custody[in] >= amount
    /\ swaps' = Append(swaps, [in |-> in, out |-> Other(in), amount |-> amount,
                               done |-> {}, booked |-> FALSE])
    /\ Move(s, Start([Idle EXCEPT !.op = "instant", !.who = in,
                                  !.amount = amount,
                                  !.known = Len(swaps) + 1], FirstLeg))
    /\ UNCHANGED <<account, pool, silent, crashes, wallet, custody, owed>>

\* Between the two, the withdrawal is signed.
SignWithdrawal(s) ==
    /\ At(s, "instant", "mined")
    /\ requests[s].leg = "transfer"
    /\ Move(s, Start(requests[s], "withdraw"))
    /\ UNCHANGED <<account, pool, silent, asked, crashes, settleVars>>

\* LiquidityRouter.execute once the settlement returns.
Book(s) ==
    LET r == requests[s]
        swap == swaps[r.known]
    IN  /\ At(s, "instant", "mined")
        /\ r.leg = "withdraw"
        /\ owed' = [owed EXCEPT ![swap.in] = @ - r.amount,
                                ![swap.out] = @ + r.amount]
        /\ swaps' = [swaps EXCEPT ![r.known].booked = TRUE]
        /\ Move(s, Idle)
        /\ UNCHANGED <<account, pool, silent, asked, crashes, wallet, custody>>

-----------------------------------------------------------------------------
(* External: the token contracts and the vault. *)

\* A withdrawal reverts when the vault has not enough, and when it is late.
SwapWorks(tx, late) ==
    IF tx.leg = "transfer" THEN wallet[Other(tx.who)] >= tx.amount
    ELSE custody[tx.who] >= tx.amount /\ ~late

SwapEffect(tx, works) ==
    LET paid == IF tx.leg = "transfer" THEN Other(tx.who) ELSE tx.who
        delta == IF ~works THEN 0
                 ELSE IF tx.leg = "transfer" THEN tx.amount ELSE -tx.amount
    IN  /\ custody' = [custody EXCEPT ![paid] = @ + delta]
        /\ wallet' = [wallet EXCEPT ![paid] = @ - delta]
        /\ swaps' = IF works THEN [swaps EXCEPT ![tx.ref].done = @ \cup {tx.leg}]
                    ELSE swaps
        /\ UNCHANGED owed

\* A user's withdrawal is paid and leaves the ledger.
VaultPays(t) ==
    /\ owed[t] > 0
    /\ custody[t] > 0
    /\ owed' = [owed EXCEPT ![t] = @ - 1]
    /\ custody' = [custody EXCEPT ![t] = @ - 1]
    /\ UNCHANGED <<wallet, swaps, signerVars>>

-----------------------------------------------------------------------------
\* Swaps whose input was withdrawn and that the ledger does not show.
Unbooked(t) == {i \in DOMAIN swaps : /\ swaps[i].in = t
                                     /\ "withdraw" \in swaps[i].done
                                     /\ ~swaps[i].booked}

\* What the vault holds covers what the ledger owes, but for inputs that were
\* withdrawn for a swap that is not booked: it is being booked, or its request
\* ended in between (vault.ts:267, a stop or a late receipt).  For each of those
\* the vault has the output already, because the transfer comes first and cannot
\* revert unseen.
VaultCovered ==
    /\ \A i \in DOMAIN swaps :
           "withdraw" \in swaps[i].done \/ swaps[i].booked
               => "transfer" \in swaps[i].done
    /\ \A t \in SwapTokens :
           owed[t] <= custody[t] + SumFunction([i \in Unbooked(t) |-> swaps[i].amount])

\* The matcher's own transfers never revert unseen, although two of them may be
\* prepared at one time and no receipt is looked at: the account's nonce lets only
\* one through in the state it was estimated in (vault.ts:134, :156).  Burns and
\* withdrawals have no such luck, others can move what they need.
OnlyOthersRevert == silent \subseteq {"burn", "withdraw"}
=============================================================================
