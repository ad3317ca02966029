----------------------------- MODULE MatcherAuth -----------------------------
(***************************************************************************)
(* MatcherAuthService: a wallet proves its address by signing a challenge, *)
(* and gets a token that the routes ask for.  Challenges live in memory,   *)
(* one for each address; tokens are signed and kept by the client.         *)
(*                                                                         *)
(* A verification is a request: `known` is the nonce that was sent, `leg`  *)
(* the address that signed.  HMAC and signature recovery are exact.        *)
(***************************************************************************)
EXTENDS MatcherSigner, FiniteSetsExt

CONSTANTS
    Addresses,
    NonceTtl,
    TokenTtl,
    MaxChallenges,  \* bound on challenges
    MaxNow          \* bound on time

ASSUME ChallengeBound == MaxChallenges \in Nat

VARIABLES
    now,
    challenges,  \* address -> None or the challenge
    issued,      \* challenges so far, the next nonce
    sessions,    \* tokens handed out
    uses         \* history: nonce -> tokens issued for it

authVars == <<now, challenges, issued, sessions, uses>>

AuthInit ==
    /\ now = 0
    /\ challenges = [a \in Addresses |-> None]
    /\ issued = 0
    /\ sessions = {}
    /\ uses = [n \in 1 .. MaxChallenges |-> 0]

\* pruneExpiredChallenges, with which both operations begin.
Kept == [a \in Addresses |->
    IF challenges[a] # None /\ challenges[a].expiresAt <= now
    THEN None ELSE challenges[a]]

CreateChallenge(a) ==
    /\ issued < MaxChallenges
    /\ issued' = issued + 1
    /\ challenges' = [Kept EXCEPT ![a] = [nonce |-> issued + 1,
                                          expiresAt |-> now + NonceTtl]]
    /\ UNCHANGED <<now, sessions, uses, signerVars>>

\* verifyChallenge up to the recovery of the signer.
VerifyChallenge(s, a, nonce, signer) ==
    /\ requests[s] = Idle
    /\ asked < MaxRequests
    /\ asked' = asked + 1
    /\ challenges' = Kept
    /\ Kept[a] # None
    /\ Kept[a].nonce = nonce
    /\ Move(s, [Idle EXCEPT !.op = "verify", !.at = "recover", !.who = a,
                            !.known = nonce, !.leg = signer])
    /\ UNCHANGED <<now, issued, sessions, uses, account, pool, silent, crashes>>

Token(a) == [sub |-> a, exp |-> now + TokenTtl]

\* Mutant: the challenge of a good signature stays.
MutSpent(r) == IF r.leg = r.who THEN challenges
               ELSE [challenges EXCEPT ![r.who] = None]
\* Whatever challenge the address has by now is deleted.
Spent(r) == [challenges EXCEPT ![r.who] = None]

\* The rest of verifyChallenge: the challenge goes, then the signer is compared.
RecoverSigner(s) ==
    LET r == requests[s]
    IN  /\ At(s, "verify", "recover")
        /\ challenges' = Spent(r)
        /\ IF r.leg = r.who
           THEN /\ sessions' = sessions \cup {Token(r.who)}
                /\ uses' = [uses EXCEPT ![r.known] = @ + 1]
           ELSE UNCHANGED <<sessions, uses>>
        /\ Move(s, Idle)
        /\ UNCHANGED <<now, issued, account, pool, silent, asked, crashes>>

\* verifyToken, and what the routes' preHandler asks of it.
Valid(token) == token \in sessions /\ token.exp > now
Authorised(a) == \E token \in sessions : Valid(token) /\ token.sub = a

RefreshToken(token) ==
    /\ Valid(token)
    /\ sessions' = sessions \cup {Token(token.sub)}
    /\ UNCHANGED <<now, challenges, issued, uses, signerVars>>

Tick ==
    /\ now < MaxNow
    /\ now' = now + 1
    /\ UNCHANGED <<challenges, issued, sessions, uses, signerVars>>

\* A restart forgets the challenges; the tokens go on.
StopAuth ==
    /\ challenges' = [a \in Addresses |-> None]
    /\ UNCHANGED <<now, issued, sessions, uses>>

-----------------------------------------------------------------------------
\* A challenge that gave a token is gone, and gives another only to a
\* verification that was already past the look at it (auth.ts:75): no more tokens
\* than requests at one time.
ChallengesUsedOnce ==
    \A n \in 1 .. issued : uses[n] > 0 =>
        /\ \A a \in Addresses : challenges[a] = None \/ challenges[a].nonce # n
        /\ uses[n] + Cardinality({s \in Slots : At(s, "verify", "recover")
                                                /\ requests[s].known = n})
               <= Cardinality(Slots)
=============================================================================
