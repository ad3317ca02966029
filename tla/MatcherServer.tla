---------------------------- MODULE MatcherServer ----------------------------
(***************************************************************************)
(* The routes of the matcher that write to the rollup, on the account they *)
(* share: bridge claims, instant swaps, and the sessions that guard them.  *)
(***************************************************************************)
EXTENDS MatcherAuth, BridgeClaims, Settlement

serverVars == <<signerVars, authVars, claimVars, settleVars>>

Init == SignerInit /\ AuthInit /\ ClaimsInit /\ SettleInit

\* A call is run by the node on its latest state, by gas estimation and by
\* mining alike.
Works(call, late) ==
    IF call.leg \in {"mint", "burn"} THEN TokenWorks(call)
    ELSE SwapWorks(call, late)

\* The routes; preHandler has looked at the session.
PostAuthNonce(a) == CreateChallenge(a) /\ UNCHANGED <<claimVars, settleVars>>

PostAuthVerify(s, a, nonce, signer) ==
    /\ VerifyChallenge(s, a, nonce, signer)
    /\ UNCHANGED <<claimVars, settleVars>>

PostAuthRefresh(token) == RefreshToken(token) /\ UNCHANGED <<claimVars, settleVars>>

PostBridgeClaim(s, u) ==
    Authorised(u) /\ Claim(s, u) /\ UNCHANGED <<authVars, settleVars>>

PostBridgeRedeem(s, u, amount) ==
    Authorised(u) /\ Redeem(s, u, amount) /\ UNCHANGED <<authVars, settleVars>>

PostSwapExecute(s, u, in, amount) ==
    /\ Authorised(u)
    /\ SettleInstantLocalSwap(s, in, amount)
    /\ UNCHANGED <<authVars, claimVars>>

\* Handlers resume.
SignerStep(s) ==
    /\ \/ GetTransactionCount(s)
       \/ EstimateGas(s, Works(requests[s], FALSE))
       \/ SendRawTransaction(s)
       \/ ReceiptTimeout(s)
    /\ UNCHANGED <<authVars, claimVars, settleVars>>

AuthStep(s) == RecoverSigner(s) /\ UNCHANGED <<claimVars, settleVars>>

ClaimStep(s) ==
    /\ CheckRedeem(s) \/ RecordClaim(s) \/ RecordRedeem(s)
    /\ UNCHANGED <<authVars, settleVars>>

SettleStep(s) ==
    /\ SignWithdrawal(s) \/ Book(s)
    /\ UNCHANGED <<authVars, claimVars>>

\* External.
MineNext(late) ==
    \E tx \in pool :
        /\ Mine(tx, Works(tx, late))
        /\ IF tx.leg \in {"mint", "burn"}
           THEN TokenEffect(tx) /\ UNCHANGED settleVars
           ELSE SwapEffect(tx, Works(tx, late)) /\ UNCHANGED claimVars
        /\ UNCHANGED authVars

Elsewhere ==
    \/ \E u \in Accounts : /\ BridgeIn(u) \/ BridgeOut(u)
                              \/ \E amount \in {-Up, Up} : Transfer(u, amount)
                           /\ UNCHANGED <<authVars, settleVars>>
    \/ \E t \in SwapTokens : VaultPays(t) /\ UNCHANGED <<authVars, claimVars>>

Restart == StopSigner /\ StopAuth /\ StopClaims /\ UNCHANGED settleVars

Routes ==
    \/ \E a \in Addresses : PostAuthNonce(a)
    \/ \E s \in Slots, a, signer \in Addresses, n \in 1 .. issued :
           PostAuthVerify(s, a, n, signer)
    \/ \E token \in sessions : PostAuthRefresh(token)
    \/ \E s \in Slots, u \in Accounts : PostBridgeClaim(s, u)
    \/ \E s \in Slots, u \in Accounts, amount \in RedeemAmounts :
           PostBridgeRedeem(s, u, amount)
    \/ \E s \in Slots, u \in Accounts, in \in SwapTokens, amount \in SwapAmounts :
           PostSwapExecute(s, u, in, amount)

Next ==
    \/ Routes
    \/ \E s \in Slots : SignerStep(s) \/ AuthStep(s) \/ ClaimStep(s) \/ SettleStep(s)
    \/ \E late \in BOOLEAN : MineNext(late)
    \/ Elsewhere
    \/ Tick /\ UNCHANGED <<claimVars, settleVars>>
    \/ Restart

Spec == Init /\ [][Next]_serverVars
=============================================================================
