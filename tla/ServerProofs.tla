----------------------------- MODULE ServerProofs -----------------------------
(***************************************************************************)
(* For any number of users, requests and restarts: what the matcher's      *)
(* routes that share one account of the rollup, and the sessions that      *)
(* guard them, promise.                                                    *)
(*                                                                         *)
(* Everything rests on one fact of the account (SignerInv): at most one    *)
(* transaction waits to be mined, it has the account's present nonce, and  *)
(* the one request that waits for a receipt waits for it.                  *)
(***************************************************************************)
EXTENDS MatcherServer, SumFacts

-----------------------------------------------------------------------------
(* The frames a handler can be in, and the transactions it sends. *)

SendPcs == Sending \cup {"mined"}

VerifyFrames == [op : {"verify"}, at : {"recover"}, who : Addresses,
                 amount : {0}, known : 1 .. MaxChallenges, leg : Addresses,
                 nonce : {0}]
BalanceFrames == [op : {"redeem"}, at : {"balance"}, who : Accounts,
                  amount : RedeemAmounts, known : Int, leg : {None}, nonce : {0}]
ClaimFrames == [op : {"claim"}, at : SendPcs, who : Accounts, amount : Nat,
                known : Nat, leg : {"mint"}, nonce : Nat]
RedeemFrames == [op : {"redeem"}, at : SendPcs, who : Accounts,
                 amount : RedeemAmounts, known : Int, leg : {"burn"}, nonce : Nat]
SwapFrames == [op : {"instant"}, at : SendPcs, who : SwapTokens,
               amount : SwapAmounts, known : Nat,
               leg : {"transfer", "withdraw"}, nonce : Nat]

SendFrames == ClaimFrames \cup RedeemFrames \cup SwapFrames
Frames == {Idle} \cup VerifyFrames \cup BalanceFrames \cup SendFrames

\* The transaction a frame sends.
Sent(r) == [nonce |-> r.nonce, leg |-> r.leg, who |-> r.who,
            amount |-> r.amount, ref |-> r.known]

TokenTxs == [nonce : Nat, leg : {"mint", "burn"}, who : Accounts, amount : Nat,
             ref : Int]
SwapTxs == [nonce : Nat, leg : {"transfer", "withdraw"}, who : SwapTokens,
            amount : SwapAmounts, ref : Nat]

FramesOK == requests \in [Slots -> Frames] /\ account \in Nat

\* One transaction waits at most, with the nonce the account is at.
PoolOK ==
  /\ pool \subseteq TokenTxs \cup SwapTxs
  /\ \A tx \in pool : tx.nonce = account
  /\ \A x, y \in pool : x = y

\* A nonce that was read is not ahead of the account; who waits for a receipt
\* waits for the transaction that is out, and nobody else does.
WaitOK ==
  /\ \A s \in Slots : requests[s].at \in {"estimate", "send"} =>
                          requests[s].nonce <= account
  /\ \A s \in Slots : requests[s].at = "receipt" => Sent(requests[s]) \in pool
  /\ \A s, z \in Slots : requests[s].at = "receipt" /\ requests[z].at = "receipt"
                             => s = z

SignerInv == FramesOK /\ PoolOK /\ WaitOK

\* A frame, field by field.
Frame(op, at, who, amount, known, leg, nonce) ==
  [op |-> op, at |-> at, who |-> who, amount |-> amount, known |-> known,
   leg |-> leg, nonce |-> nonce]

\* A handler's transaction starts from its frame.
LEMMA StartOf ==
  ASSUME NEW op, NEW at, NEW who, NEW amount, NEW known, NEW leg, NEW nonce,
         NEW next, NEW f, f = Frame(op, at, who, amount, known, leg, nonce)
  PROVE  Start(f, next) = Frame(op, "count", who, amount, known, next, nonce)
  <1> DEFINE g == [f EXCEPT !.at = "count"]
  <1>1. g = Frame(op, "count", who, amount, known, leg, nonce)
    BY DEF Frame
  <1>2. Start(f, next) = [g EXCEPT !.leg = next]
    BY DEF Start
  <1> HIDE DEF g
  <1> QED BY <1>1, <1>2 DEF Frame

\* The frames that the routes write.
Asked(op, who, amount, known) ==
  [Idle EXCEPT !.op = op, !.who = who, !.amount = amount, !.known = known]
AskedAt(op, at, who, amount, known) ==
  [Idle EXCEPT !.op = op, !.at = at, !.who = who, !.amount = amount, !.known = known]
AskedBy(op, at, who, known, leg) ==
  [Idle EXCEPT !.op = op, !.at = at, !.who = who, !.known = known, !.leg = leg]

\* A new request's frame, field by field.
LEMMA NewFrame ==
  ASSUME NEW op, NEW at, NEW who, NEW amount, NEW known, NEW leg
  PROVE  /\ Asked(op, who, amount, known)
                = Frame(op, "idle", who, amount, known, None, 0)
         /\ AskedAt(op, at, who, amount, known)
                = Frame(op, at, who, amount, known, None, 0)
         /\ AskedBy(op, at, who, known, leg) = Frame(op, at, who, 0, known, leg, 0)
  <1> DEFINE a == [Idle EXCEPT !.op = op]
             b == [a EXCEPT !.who = who]
             c == [b EXCEPT !.amount = amount]
             d == [a EXCEPT !.at = at]
             e == [d EXCEPT !.who = who]
             g == [e EXCEPT !.amount = amount]
             h == [e EXCEPT !.known = known]
  <1>1. Idle = Frame("idle", "idle", None, 0, 0, None, 0)
    BY DEF Idle, Frame
  <1>2. a = Frame(op, "idle", None, 0, 0, None, 0)
    BY <1>1 DEF Frame
  <1>3. Asked(op, who, amount, known) = [c EXCEPT !.known = known]
    BY DEF Asked
  <1>4. /\ AskedAt(op, at, who, amount, known) = [g EXCEPT !.known = known]
        /\ AskedBy(op, at, who, known, leg) = [h EXCEPT !.leg = leg]
    BY DEF AskedAt, AskedBy
  <1> HIDE DEF a
  <1>5. b = Frame(op, "idle", who, 0, 0, None, 0) /\ d = Frame(op, at, None, 0, 0, None, 0)
    BY <1>2 DEF Frame
  <1> HIDE DEF b, d
  <1>6. c = Frame(op, "idle", who, amount, 0, None, 0) /\ e = Frame(op, at, who, 0, 0, None, 0)
    BY <1>5 DEF Frame
  <1> HIDE DEF c, e
  <1>7. /\ g = Frame(op, at, who, amount, 0, None, 0)
        /\ h = Frame(op, at, who, 0, known, None, 0)
    BY <1>6 DEF Frame
  <1> HIDE DEF g, h
  <1>8. [c EXCEPT !.known = known] = Frame(op, "idle", who, amount, known, None, 0)
    BY <1>6 DEF Frame
  <1>9. [g EXCEPT !.known = known] = Frame(op, at, who, amount, known, None, 0)
    BY <1>7 DEF Frame
  <1>10. [h EXCEPT !.leg = leg] = Frame(op, at, who, 0, known, leg, 0)
    BY <1>7 DEF Frame
  <1> QED BY <1>3, <1>4, <1>8, <1>9, <1>10

\* Amounts of requests are amounts.
LEMMA InputsNat ==
  /\ SwapAmounts \subseteq Nat /\ RedeemAmounts \subseteq Nat
  /\ \A x \in SwapAmounts : x \in Nat /\ x \in Int
  /\ \A x \in RedeemAmounts : x \in Nat /\ x \in Int /\ x > 0
  BY SwapInputs, RedeemInputs

\* What a frame that sends is made of.
LEMMA SendFrameParts ==
  ASSUME NEW r \in SendFrames
  PROVE  /\ r.nonce \in Nat /\ r.at \in SendPcs /\ r.amount \in Nat
         /\ r.known \in Int
         /\ Sent(r) \in TokenTxs \cup SwapTxs
         /\ Sent(r).nonce = r.nonce /\ Sent(r).leg = r.leg /\ Sent(r).who = r.who
         /\ Sent(r).amount = r.amount /\ Sent(r).ref = r.known
         /\ r \in ClaimFrames <=> r.op = "claim"
         /\ r \in RedeemFrames <=> r.op = "redeem"
         /\ r \in SwapFrames <=> r.op = "instant"
  <1>1. CASE r \in ClaimFrames
    BY <1>1 DEF ClaimFrames, RedeemFrames, SwapFrames, Sent, TokenTxs
  <1>2. CASE r \in RedeemFrames
    BY <1>2, InputsNat DEF ClaimFrames, RedeemFrames, SwapFrames, Sent, TokenTxs
  <1>3. CASE r \in SwapFrames
    <2>1. /\ r.op = "instant" /\ r.at \in SendPcs /\ r.who \in SwapTokens
          /\ r.amount \in SwapAmounts /\ r.known \in Nat /\ r.nonce \in Nat
          /\ r.leg \in {"transfer", "withdraw"}
      BY <1>3 DEF SwapFrames
    <2>2. r.amount \in Nat
      BY <2>1, InputsNat
    <2>3. r \notin ClaimFrames /\ r \notin RedeemFrames
      BY <2>1 DEF ClaimFrames, RedeemFrames
    <2>4. Sent(r) \in SwapTxs
      BY <2>1 DEF Sent, SwapTxs
    <2> QED BY <1>3, <2>1, <2>2, <2>3, <2>4 DEF Sent
  <1> QED BY <1>1, <1>2, <1>3 DEF SendFrames

\* Which frames are where.
LEMMA FrameAt ==
  ASSUME NEW r \in Frames
  PROVE  /\ r.at \in SendPcs => r \in SendFrames
         /\ r.op = "verify" => r \in VerifyFrames
         /\ r.op = "instant" => r \in SwapFrames
         /\ r.op = "redeem" /\ r.at = "balance" => r \in BalanceFrames
         /\ r.op = "claim" => r \in ClaimFrames
         /\ r.op = "redeem" /\ r.at # "balance" => r \in RedeemFrames
  BY DEF Frames, Idle, VerifyFrames, BalanceFrames, SendFrames, ClaimFrames,
         RedeemFrames, SwapFrames, SendPcs, Sending

\* A frame that moves on in its transaction.
LEMMA FrameMoves ==
  ASSUME NEW r \in SendFrames, NEW at \in SendPcs, NEW q, q = [r EXCEPT !.at = at]
  PROVE  /\ q \in SendFrames /\ q \in Frames
         /\ q.at = at /\ q.op = r.op /\ q.who = r.who /\ q.amount = r.amount
         /\ q.known = r.known /\ q.leg = r.leg /\ q.nonce = r.nonce
  <1>1. CASE r \in ClaimFrames
    BY <1>1 DEF ClaimFrames, SendFrames, Frames
  <1>2. CASE r \in RedeemFrames
    BY <1>2 DEF RedeemFrames, SendFrames, Frames
  <1>3. CASE r \in SwapFrames
    BY <1>3 DEF SwapFrames, SendFrames, Frames
  <1> QED BY <1>1, <1>2, <1>3 DEF SendFrames

\* A frame that has read its nonce.
LEMMA FrameCounts ==
  ASSUME NEW r \in SendFrames, NEW n \in Nat, NEW q, q = [r EXCEPT !.nonce = n]
  PROVE  /\ q \in SendFrames /\ q \in Frames
         /\ q.nonce = n /\ q.op = r.op /\ q.who = r.who /\ q.amount = r.amount
         /\ q.known = r.known /\ q.leg = r.leg /\ q.at = r.at
  <1>1. CASE r \in ClaimFrames
    BY <1>1 DEF ClaimFrames, SendFrames, Frames
  <1>2. CASE r \in RedeemFrames
    BY <1>2 DEF RedeemFrames, SendFrames, Frames
  <1>3. CASE r \in SwapFrames
    BY <1>3 DEF SwapFrames, SendFrames, Frames
  <1> QED BY <1>1, <1>2, <1>3 DEF SendFrames

\* A transaction is a token's or a swap's.
LEMMA TxParts ==
  ASSUME NEW tx \in TokenTxs \cup SwapTxs
  PROVE  /\ tx.nonce \in Nat /\ tx.amount \in Nat
         /\ tx.leg \in {"mint", "burn"} <=> tx \in TokenTxs
         /\ tx.leg \in {"transfer", "withdraw"} <=> tx \in SwapTxs
         /\ tx \in TokenTxs => tx.who \in Accounts
         /\ tx \in SwapTxs => tx.who \in SwapTokens /\ tx.ref \in Nat
                              /\ tx.amount \in SwapAmounts
  BY InputsNat DEF TokenTxs, SwapTxs
-----------------------------------------------------------------------------
(* How requests change: one frame is replaced, a transaction is sent, one is *)
(* mined, or all frames are lost.                                            *)

\* One frame changes, the others stay.
Only(s, r) == /\ requests'[s] = r
              /\ \A z \in Slots : z # s => requests'[z] = requests[z]

\* A frame is replaced by one that does not wait for a receipt.
LEMMA Replaced ==
  ASSUME SignerInv, NEW s \in Slots, NEW r \in Frames, Move(s, r),
         UNCHANGED <<account, pool>>, r.at # "receipt",
         r.at \in {"estimate", "send"} => r.nonce <= account
  PROVE  SignerInv' /\ Only(s, r)
  <1>1. requests' \in [Slots -> Frames] /\ Only(s, r)
    BY DEF SignerInv, FramesOK, Move, Only
  <1>2. PoolOK' /\ FramesOK'
    BY <1>1 DEF SignerInv, FramesOK, PoolOK
  <1>3. WaitOK'
    BY <1>1 DEF SignerInv, WaitOK, Only
  <1> QED BY <1>1, <1>2, <1>3 DEF SignerInv

\* Nothing happens to the account.
LEMMA SignerKept == ASSUME SignerInv, UNCHANGED signerVars PROVE SignerInv'
  BY DEF SignerInv, FramesOK, PoolOK, WaitOK, signerVars

\* A frame that is not sending.
LEMMA IdleFrame == Idle \in Frames /\ Idle.at = "idle" /\ Idle.op = "idle"
  BY DEF Frames, Idle

\* The nonce is read.
LEMMA Counted ==
  ASSUME SignerInv, NEW s \in Slots, GetTransactionCount(s), NEW f, f = requests[s]
  PROVE  /\ SignerInv' /\ f \in SendFrames /\ f.at = "count"
         /\ \E r \in SendFrames :
               /\ Only(s, r) /\ r.at = "estimate" /\ r.nonce = account
               /\ r.op = f.op /\ r.who = f.who /\ r.amount = f.amount
               /\ r.known = f.known /\ r.leg = f.leg
  <1> DEFINE q == [f EXCEPT !.at = "estimate"]
             r == [q EXCEPT !.nonce = account]
  <1>1. /\ f \in Frames /\ f.at = "count" /\ account \in Nat
        /\ Move(s, r) /\ UNCHANGED <<account, pool>>
    BY DEF SignerInv, FramesOK, GetTransactionCount
  <1>2. f \in SendFrames
    BY <1>1, FrameAt DEF SendPcs, Sending
  <1>3. /\ q \in SendFrames /\ q.at = "estimate" /\ q.op = f.op /\ q.who = f.who
        /\ q.amount = f.amount /\ q.known = f.known /\ q.leg = f.leg
    BY <1>2, FrameMoves DEF SendPcs, Sending
  <1> HIDE DEF q
  <1>4. /\ r \in SendFrames /\ r \in Frames /\ r.at = "estimate" /\ r.op = f.op
        /\ r.who = f.who /\ r.amount = f.amount /\ r.known = f.known
        /\ r.leg = f.leg /\ r.nonce = account
    BY <1>1, <1>3, FrameCounts
  <1> HIDE DEF r
  <1>5. SignerInv' /\ Only(s, r)
    BY <1>1, <1>4, Replaced
  <1> QED BY <1>1, <1>2, <1>4, <1>5

\* The call is estimated: the handler signs, or ends.
LEMMA Estimated ==
  ASSUME SignerInv, NEW s \in Slots, NEW works, EstimateGas(s, works),
         NEW f, f = requests[s]
  PROVE  /\ SignerInv' /\ f \in SendFrames /\ f.at = "estimate"
         /\ \/ Only(s, Idle)
            \/ /\ works
               /\ \E r \in SendFrames :
                     /\ Only(s, r) /\ r.at = "send" /\ r.nonce = f.nonce
                     /\ r.op = f.op /\ r.who = f.who /\ r.amount = f.amount
                     /\ r.known = f.known /\ r.leg = f.leg
  <1> DEFINE r == [f EXCEPT !.at = "send"]
  <1>1. /\ f \in Frames /\ f.at = "estimate" /\ account \in Nat
        /\ Move(s, Idle) \/ (works /\ Move(s, r))
        /\ UNCHANGED <<account, pool>>
    BY DEF SignerInv, FramesOK, EstimateGas
  <1>2. f \in SendFrames /\ f.nonce <= account
    BY <1>1, FrameAt DEF SendPcs, Sending, SignerInv, WaitOK
  <1>3. /\ r \in SendFrames /\ r \in Frames /\ r.at = "send" /\ r.op = f.op
        /\ r.who = f.who /\ r.amount = f.amount /\ r.known = f.known
        /\ r.leg = f.leg /\ r.nonce = f.nonce
    BY <1>2, FrameMoves DEF SendPcs, Sending
  <1> HIDE DEF r
  <1>4. CASE Move(s, Idle)
    BY <1>1, <1>2, <1>4, IdleFrame, Replaced
  <1>5. CASE works /\ Move(s, r)
    <2>1. SignerInv' /\ Only(s, r)
      BY <1>1, <1>2, <1>3, <1>5, Replaced
    <2> QED BY <1>1, <1>2, <1>3, <1>5, <2>1
  <1> QED BY <1>1, <1>4, <1>5

\* The transaction is sent: it is the only one, and has the account's nonce.
LEMMA SentOne ==
  ASSUME SignerInv, NEW s \in Slots, SendRawTransaction(s), NEW f, f = requests[s]
  PROVE  /\ SignerInv' /\ f \in SendFrames /\ f.at = "send" /\ UNCHANGED account
         /\ \/ Only(s, Idle) /\ UNCHANGED pool
            \/ /\ pool = {} /\ pool' = {Sent(f)} /\ f.nonce = account
               /\ \E r \in SendFrames :
                     /\ Only(s, r) /\ r.at = "receipt" /\ r.nonce = f.nonce
                     /\ r.op = f.op /\ r.who = f.who /\ r.amount = f.amount
                     /\ r.known = f.known /\ r.leg = f.leg
  <1> DEFINE r == [f EXCEPT !.at = "receipt"]
  <1>1. /\ f \in Frames /\ f.at = "send" /\ account \in Nat /\ UNCHANGED account
        /\ \/ Move(s, Idle) /\ UNCHANGED pool
           \/ Fits(f.nonce) /\ Move(s, r) /\ pool' = pool \cup {Sent(f)}
    BY DEF SignerInv, FramesOK, SendRawTransaction, Sent
  <1>2. f \in SendFrames /\ f.nonce <= account /\ f.nonce \in Nat
    <2>1. f \in SendFrames /\ f.nonce <= account
      BY <1>1, FrameAt DEF SendPcs, Sending, SignerInv, WaitOK
    <2> QED BY <2>1, SendFrameParts
  <1>3. /\ r \in SendFrames /\ r \in Frames /\ r.at = "receipt" /\ r.op = f.op
        /\ r.who = f.who /\ r.amount = f.amount /\ r.known = f.known
        /\ r.leg = f.leg /\ r.nonce = f.nonce
    BY <1>2, FrameMoves DEF SendPcs, Sending
  <1> HIDE DEF r
  <1>4. CASE Move(s, Idle) /\ UNCHANGED pool
    BY <1>1, <1>2, <1>4, IdleFrame, Replaced
  <1>5. CASE Fits(f.nonce) /\ Move(s, r) /\ pool' = pool \cup {Sent(f)}
    <2>1. f.nonce = account
      BY <1>1, <1>2, <1>5 DEF Fits
    <2>2. pool = {} /\ pool' = {Sent(f)}
      BY <1>5, <2>1 DEF Fits, SignerInv, PoolOK
    <2>3. Sent(f) \in TokenTxs \cup SwapTxs /\ Sent(f).nonce = account
      BY <1>2, <2>1, SendFrameParts
    <2>4. requests' \in [Slots -> Frames] /\ Only(s, r)
      BY <1>3, <1>5 DEF SignerInv, FramesOK, Move, Only
    <2>5. FramesOK' /\ PoolOK'
      BY <1>1, <2>2, <2>3, <2>4 DEF FramesOK, PoolOK
    <2>6. Sent(r) = Sent(f)
      BY <1>3 DEF Sent
    <2>7. WaitOK'
      BY <1>1, <1>3, <2>2, <2>4, <2>6 DEF WaitOK, SignerInv, Only
    <2> QED BY <1>1, <1>2, <1>3, <2>1, <2>2, <2>4, <2>5, <2>7 DEF SignerInv
  <1> QED BY <1>1, <1>4, <1>5

\* The handler waits no more; its transaction stays.
LEMMA TimedOut ==
  ASSUME SignerInv, NEW s \in Slots, ReceiptTimeout(s)
  PROVE  SignerInv' /\ Only(s, Idle) /\ requests[s].at = "receipt"
  <1>1. Move(s, Idle) /\ UNCHANGED <<account, pool>> /\ requests[s].at = "receipt"
    BY DEF ReceiptTimeout
  <1> QED BY <1>1, IdleFrame, Replaced

\* A mined transaction is the one of whoever waits.
LEMMA Mined ==
  ASSUME SignerInv, NEW tx, NEW works, Mine(tx, works)
  PROVE  /\ SignerInv' /\ pool = {tx} /\ pool' = {} /\ account' = account + 1
         /\ tx \in TokenTxs \cup SwapTxs
         /\ \A s \in Slots : requests[s].at # "receipt" => requests'[s] = requests[s]
         /\ \A s \in Slots : requests[s].at = "receipt" =>
               /\ requests[s] \in SendFrames /\ Sent(requests[s]) = tx
               /\ requests'[s] \in SendFrames /\ requests'[s].at = "mined"
               /\ requests'[s].op = requests[s].op
               /\ requests'[s].who = requests[s].who
               /\ requests'[s].amount = requests[s].amount
               /\ requests'[s].known = requests[s].known
               /\ requests'[s].leg = requests[s].leg
  <1>1. /\ tx \in pool /\ pool' = pool \ {tx} /\ account' = account + 1
        /\ requests' = [s \in Slots |->
               IF requests[s].at = "receipt" /\ requests[s].nonce = tx.nonce
               THEN [requests[s] EXCEPT !.at = "mined"] ELSE requests[s]]
    BY DEF Mine
  <1>2. pool = {tx} /\ pool' = {} /\ tx \in TokenTxs \cup SwapTxs /\ account \in Nat
    BY <1>1 DEF SignerInv, PoolOK, FramesOK
  <1>3. ASSUME NEW s \in Slots, requests[s].at = "receipt"
        PROVE  /\ requests[s] \in SendFrames /\ Sent(requests[s]) = tx
               /\ requests'[s] \in SendFrames /\ requests'[s] \in Frames
               /\ requests'[s].at = "mined"
               /\ requests'[s].op = requests[s].op
               /\ requests'[s].who = requests[s].who
               /\ requests'[s].amount = requests[s].amount
               /\ requests'[s].known = requests[s].known
               /\ requests'[s].leg = requests[s].leg
    <2> DEFINE f == requests[s]
               r == [f EXCEPT !.at = "mined"]
    <2>1. f \in SendFrames
      BY <1>3, FrameAt DEF SignerInv, FramesOK, SendPcs, Sending
    <2>2. Sent(f) = tx
      BY <1>2, <1>3 DEF SignerInv, WaitOK
    <2>3. requests'[s] = r
      BY <1>1, <1>3, <2>1, <2>2, SendFrameParts
    <2>4. /\ r \in SendFrames /\ r \in Frames /\ r.at = "mined" /\ r.op = f.op
          /\ r.who = f.who /\ r.amount = f.amount /\ r.known = f.known
          /\ r.leg = f.leg
      BY <2>1, FrameMoves DEF SendPcs
    <2> HIDE DEF r
    <2> QED BY <2>1, <2>2, <2>3, <2>4
  <1>4. \A s \in Slots : requests[s].at # "receipt" => requests'[s] = requests[s]
    BY <1>1
  <1>5. FramesOK'
    <2>1. \A s \in Slots : requests'[s] \in Frames
      BY <1>3, <1>4 DEF SignerInv, FramesOK
    <2> QED BY <1>1, <1>2, <2>1 DEF FramesOK
  <1>6. PoolOK'
    BY <1>2 DEF PoolOK
  <1>7. WaitOK'
    <2>1. \A s \in Slots : requests'[s].at # "receipt"
      BY <1>3, <1>4
    <2>2. ASSUME NEW s \in Slots, requests'[s].at \in {"estimate", "send"}
          PROVE  requests'[s].nonce <= account'
      <3>1. requests'[s] = requests[s] /\ requests[s].nonce <= account
        BY <1>3, <1>4, <2>2 DEF SignerInv, WaitOK
      <3>2. requests[s] \in SendFrames
        BY <2>2, <3>1, FrameAt DEF SignerInv, FramesOK, SendPcs, Sending
      <3>3. requests[s].nonce \in Nat
        BY <3>2, SendFrameParts
      <3> QED BY <1>1, <1>2, <3>1, <3>3
    <2> QED BY <2>1, <2>2 DEF WaitOK
  <1> QED BY <1>1, <1>2, <1>3, <1>4, <1>5, <1>6, <1>7 DEF SignerInv

\* After a stop nobody waits.
LEMMA Stopped ==
  ASSUME SignerInv, StopSigner
  PROVE  /\ SignerInv' /\ UNCHANGED <<account, pool, silent>>
         /\ \A s \in Slots : requests'[s] = Idle
  BY IdleFrame DEF StopSigner, SignerInv, FramesOK, PoolOK, WaitOK
-----------------------------------------------------------------------------
(* Types of the other variables, and the frames that the routes start with. *)

ClaimTypes ==
  /\ bridged \in [Accounts -> Int] /\ deposited \in [Accounts -> Int]
  /\ tokens \in [Accounts -> Int] /\ supply \in [Accounts -> Int]
  /\ claims \in [Accounts -> Int]
  /\ skew \in [Accounts -> [lost : Int, reverted : Int]]
  /\ overlapped \subseteq Accounts

Swaps == [in : SwapTokens, out : SwapTokens, amount : SwapAmounts,
          done : SUBSET {"transfer", "withdraw"}, booked : BOOLEAN]

SwapTypes ==
  /\ wallet \in [SwapTokens -> Int] /\ custody \in [SwapTokens -> Int]
  /\ owed \in [SwapTokens -> Int]
  /\ swaps \in Seq(Swaps)

AuthTypes ==
  /\ issued \in 0 .. MaxChallenges
  /\ uses \in [1 .. MaxChallenges -> Nat]
  /\ challenges = [a \in Addresses |-> challenges[a]]
  /\ \A a \in Addresses : challenges[a] = None \/ challenges[a].nonce \in 1 .. issued

Types == SignerInv /\ ClaimTypes /\ SwapTypes /\ AuthTypes

\* Scaling keeps amounts amounts.
LEMMA ScaleNat ==
  /\ \A x \in Nat : ScaleAtomic(x) \in Nat /\ Unscale(x) \in Nat
  /\ \A x \in Int : ScaleAtomic(x) \in Int /\ Unscale(x) \in Int
  <1>1. Up \in Nat \ {0} /\ Down \in Nat \ {0}
    BY Decimals
  <1>2. \A x, y \in Int : x * y \in Int
    OBVIOUS
  <1>3. \A x, y \in Nat : x * y \in Nat
    OBVIOUS
  <1>4. \A x \in Int : x * Up \in Int /\ x * Down \in Int
    BY <1>1, <1>2
  <1>5. \A x \in Nat : x * Up \in Nat /\ x * Down \in Nat
    BY <1>1, <1>3
  <1>6. ASSUME NEW x \in Int, NEW d \in Nat \ {0} PROVE x \div d \in Int
    OBVIOUS
  <1>7. ASSUME NEW x \in Nat, NEW d \in Nat \ {0} PROVE x \div d \in Nat
    OBVIOUS
  <1> QED BY <1>1, <1>4, <1>5, <1>6, <1>7 DEF ScaleAtomic, Unscale

\* What can be claimed is what was bridged beyond the claims.
LEMMA ClaimableNat ==
  ASSUME ClaimTypes, NEW u \in Accounts
  PROVE  /\ Claimable(u) \in Nat /\ ScaleAtomic(Claimable(u)) \in Nat
         /\ Claimable(u) > 0 => Claimable(u) = bridged[u] - claims[u]
  <1>1. Claimable(u) \in Nat /\ (Claimable(u) > 0 => Claimable(u) = bridged[u] - claims[u])
    BY DEF ClaimTypes, Claimable
  <1> QED BY <1>1, ScaleNat

\* A claim starts with its mint.
LEMMA Claimed ==
  ASSUME SignerInv, ClaimTypes, NEW s \in Slots, NEW u \in Accounts, Claim(s, u)
  PROVE  /\ SignerInv' /\ requests[s] = Idle
         /\ \E r \in ClaimFrames :
               /\ Only(s, r) /\ r.at = "count" /\ r.who = u
               /\ r.known = Claimable(u) /\ r.amount = ScaleAtomic(Claimable(u))
  <1> DEFINE x == Claimable(u)
             y == ScaleAtomic(x)
             f == Asked("claim", u, y, x)
             r == Frame("claim", "count", u, y, x, "mint", 0)
  <1>1. x \in Nat /\ y \in Nat
    BY ClaimableNat
  <1>2. /\ requests[s] = Idle /\ UNCHANGED <<account, pool>>
        /\ Move(s, Start(f, "mint"))
    BY DEF Claim, Ask, Asked
  <1> HIDE DEF x, y
  <1>3. Move(s, r)
    <2>1. f = Frame("claim", "idle", u, y, x, None, 0)
      BY NewFrame
    <2> HIDE DEF f, r
    <2>2. Start(f, "mint") = r
      BY <2>1, StartOf DEF r
    <2> QED BY <1>2, <2>2
  <1>4. /\ r \in ClaimFrames /\ r.at = "count" /\ r.who = u /\ r.known = x
        /\ r.amount = y
    BY <1>1 DEF ClaimFrames, SendPcs, Sending, Frame
  <1>5. r \in Frames
    BY <1>4 DEF Frames, SendFrames
  <1>6. SignerInv' /\ Only(s, r)
    <2> HIDE DEF r
    <2> QED BY <1>2, <1>3, <1>4, <1>5, Replaced
  <1> QED BY <1>2, <1>4, <1>6 DEF x, y

\* A redemption starts with a look at the wallet.
LEMMA Redeemed ==
  ASSUME SignerInv, ClaimTypes, NEW s \in Slots, NEW u \in Accounts,
         NEW amount \in RedeemAmounts, Redeem(s, u, amount)
  PROVE  /\ SignerInv' /\ requests[s] = Idle
         /\ \E r \in BalanceFrames :
               Only(s, r) /\ r.who = u /\ r.known = claims[u] /\ r.amount = amount
  <1> DEFINE x == claims[u]
             f == AskedAt("redeem", "balance", u, amount, x)
             r == Frame("redeem", "balance", u, amount, x, None, 0)
  <1>1. claims[u] \in Int
    BY DEF ClaimTypes
  <1>2. requests[s] = Idle /\ UNCHANGED <<account, pool>> /\ Move(s, r)
    <2>1. requests[s] = Idle /\ UNCHANGED <<account, pool>> /\ Move(s, f)
      BY DEF Redeem, Ask, AskedAt
    <2> HIDE DEF x
    <2>2. f = r
      BY NewFrame
    <2> QED BY <2>1, <2>2
  <1>3. /\ r \in BalanceFrames /\ r.at = "balance" /\ r.who = u /\ r.known = claims[u]
        /\ r.amount = amount
    BY <1>1 DEF BalanceFrames, Frame
  <1>4. r \in Frames
    BY <1>3 DEF Frames
  <1>5. SignerInv' /\ Only(s, r)
    <2> HIDE DEF r
    <2> QED BY <1>2, <1>3, <1>4, Replaced
  <1> QED BY <1>2, <1>3, <1>5

\* The look at the wallet ends it or goes on to the burn.
LEMMA RedeemChecked ==
  ASSUME SignerInv, NEW s \in Slots, CheckRedeem(s), NEW f, f = requests[s]
  PROVE  /\ SignerInv' /\ f \in BalanceFrames
         /\ \/ Only(s, Idle)
            \/ /\ ~Refused(f)
               /\ \E r \in RedeemFrames :
                     /\ Only(s, r) /\ r.at = "count" /\ r.who = f.who
                     /\ r.amount = f.amount /\ r.known = f.known
  <1> DEFINE r == Frame("redeem", "count", f.who, f.amount, f.known, "burn", f.nonce)
  <1>1. /\ f.op = "redeem" /\ f.at = "balance" /\ UNCHANGED <<account, pool>>
        /\ Move(s, Idle) \/ (~Refused(f) /\ Move(s, Start(f, "burn")))
    BY DEF CheckRedeem, At
  <1>2. f \in BalanceFrames
    BY <1>1, FrameAt DEF SignerInv, FramesOK
  <1>3. Start(f, "burn") = r
    <2>1. f = Frame("redeem", "balance", f.who, f.amount, f.known, None, f.nonce)
      BY <1>2 DEF BalanceFrames, Frame
    <2> HIDE DEF r
    <2>2. Start(f, "burn") = r
      BY <2>1, StartOf DEF r
    <2> QED BY <2>2
  <1>4. r \in RedeemFrames
    BY <1>2, InputsNat DEF BalanceFrames, RedeemFrames, SendPcs, Sending, Frame
  <1>5. r \in Frames /\ r.at = "count"
    BY <1>4 DEF Frames, SendFrames, Frame
  <1>6. r.who = f.who /\ r.amount = f.amount /\ r.known = f.known
    BY DEF Frame
  <1> HIDE DEF r
  <1>7. CASE Move(s, Idle)
    BY <1>1, <1>2, <1>7, IdleFrame, Replaced
  <1>8. CASE ~Refused(f) /\ Move(s, r)
    <2>1. SignerInv' /\ Only(s, r)
      BY <1>1, <1>5, <1>8, Replaced
    <2> QED BY <1>2, <1>4, <1>5, <1>6, <1>8, <2>1
  <1> QED BY <1>1, <1>3, <1>7, <1>8

\* A handler that ends.
LEMMA Ended ==
  ASSUME SignerInv, NEW s \in Slots, Move(s, Idle), UNCHANGED <<account, pool>>
  PROVE  SignerInv' /\ Only(s, Idle)
  BY IdleFrame, Replaced

\* A swap starts with its transfer.
LEMMA SwapStarted ==
  ASSUME SignerInv, SwapTypes, NEW s \in Slots, NEW in \in SwapTokens,
         NEW amount \in SwapAmounts, SettleInstantLocalSwap(s, in, amount)
  PROVE  /\ SignerInv' /\ requests[s] = Idle
         /\ \E r \in SwapFrames :
               /\ Only(s, r) /\ r.at = "count" /\ r.who = in /\ r.amount = amount
               /\ r.known = Len(swaps) + 1 /\ r.leg = "transfer"
  <1> DEFINE n == Len(swaps) + 1
             f == Asked("instant", in, amount, n)
             r == Frame("instant", "count", in, amount, n, "transfer", 0)
  <1>1. n \in Nat
    BY DEF SwapTypes
  <1>2. /\ requests[s] = Idle /\ UNCHANGED <<account, pool>>
        /\ Move(s, Start(f, "transfer"))
    BY DEF SettleInstantLocalSwap, FirstLeg, Asked
  <1> HIDE DEF n
  <1>3. Move(s, r)
    <2>1. f = Frame("instant", "idle", in, amount, n, None, 0)
      BY NewFrame
    <2> HIDE DEF f, r
    <2>2. Start(f, "transfer") = r
      BY <2>1, StartOf DEF r
    <2> QED BY <1>2, <2>2
  <1>4. /\ r \in SwapFrames /\ r.at = "count" /\ r.who = in /\ r.amount = amount
        /\ r.known = n /\ r.leg = "transfer"
    BY <1>1 DEF SwapFrames, SendPcs, Sending, Frame
  <1>5. r \in Frames
    BY <1>4 DEF Frames, SendFrames
  <1>6. SignerInv' /\ Only(s, r)
    <2> HIDE DEF r
    <2> QED BY <1>2, <1>3, <1>4, <1>5, Replaced
  <1> QED BY <1>2, <1>4, <1>6 DEF n

\* and goes on to its withdrawal.
LEMMA WithdrawalSigned ==
  ASSUME SignerInv, NEW s \in Slots, SignWithdrawal(s), NEW f, f = requests[s]
  PROVE  /\ SignerInv' /\ f \in SwapFrames /\ f.at = "mined" /\ f.leg = "transfer"
         /\ \E r \in SwapFrames :
               /\ Only(s, r) /\ r.at = "count" /\ r.who = f.who
               /\ r.amount = f.amount /\ r.known = f.known /\ r.leg = "withdraw"
  <1> DEFINE r == Frame("instant", "count", f.who, f.amount, f.known, "withdraw", f.nonce)
  <1>1. /\ f.op = "instant" /\ f.at = "mined" /\ f.leg = "transfer"
        /\ UNCHANGED <<account, pool>> /\ Move(s, Start(f, "withdraw"))
    BY DEF SignWithdrawal, At
  <1>2. f \in SwapFrames
    BY <1>1, FrameAt DEF SignerInv, FramesOK
  <1>3. Start(f, "withdraw") = r
    <2>1. f = Frame("instant", "mined", f.who, f.amount, f.known, "transfer", f.nonce)
      BY <1>1, <1>2 DEF SwapFrames, Frame
    <2> HIDE DEF r
    <2>2. Start(f, "withdraw") = r
      BY <2>1, StartOf DEF r
    <2> QED BY <2>2
  <1>4. r \in SwapFrames
    BY <1>2 DEF SwapFrames, SendPcs, Sending, Frame
  <1>5. r \in Frames /\ r.at = "count"
    BY <1>4 DEF Frames, SendFrames, Frame
  <1>6. r.who = f.who /\ r.amount = f.amount /\ r.known = f.known /\ r.leg = "withdraw"
    BY DEF Frame
  <1> HIDE DEF r
  <1>7. SignerInv' /\ Only(s, r)
    BY <1>1, <1>3, <1>5, Replaced
  <1> QED BY <1>1, <1>2, <1>4, <1>5, <1>6, <1>7

\* A verification waits for the recovery of the signer.
LEMMA Verifying ==
  ASSUME SignerInv, AuthTypes, NEW s \in Slots, NEW a \in Addresses,
         NEW n \in 1 .. issued, NEW signer \in Addresses,
         VerifyChallenge(s, a, n, signer)
  PROVE  /\ SignerInv' /\ requests[s] = Idle
         /\ \E r \in VerifyFrames :
               Only(s, r) /\ r.who = a /\ r.known = n /\ r.leg = signer
  <1> DEFINE f == AskedBy("verify", "recover", a, n, signer)
             r == Frame("verify", "recover", a, 0, n, signer, 0)
  <1>1. requests[s] = Idle /\ UNCHANGED <<account, pool>> /\ Move(s, r)
    <2>1. requests[s] = Idle /\ UNCHANGED <<account, pool>> /\ Move(s, f)
      BY DEF VerifyChallenge, AskedBy
    <2>2. f = r
      BY NewFrame
    <2> QED BY <2>1, <2>2
  <1>2. /\ r \in VerifyFrames /\ r.at = "recover" /\ r.who = a /\ r.known = n
        /\ r.leg = signer
    BY ChallengeBound DEF VerifyFrames, AuthTypes, Frame
  <1>3. r \in Frames
    BY <1>2 DEF Frames
  <1>4. SignerInv' /\ Only(s, r)
    <2> HIDE DEF r
    <2> QED BY <1>1, <1>2, <1>3, Replaced
  <1> QED BY <1>1, <1>2, <1>4
-----------------------------------------------------------------------------
(* The sum of what is mined and not recorded. *)

\* The requests that have a transaction of an operation mined, and their part.
MinedOf(R, op, u) ==
  {s \in Slots : (R[s].op = op /\ R[s].at = "mined") /\ R[s].who = u}
PartOf(r, op, u) == IF (r.op = op /\ r.at = "mined") /\ r.who = u THEN r.amount ELSE 0
SumOf(R, op, u) == SumFunctionOnSet([s \in Slots |-> PartOf(R[s], op, u)], Slots)

\* A frame's amount is an integer.
LEMMA FrameAmount ==
  ASSUME NEW r \in Frames
  PROVE  r.amount \in Int
  <1>1. CASE r \in SendFrames
    BY <1>1, SendFrameParts
  <1>2. CASE r = Idle \/ r \in VerifyFrames
    BY <1>2 DEF Idle, VerifyFrames
  <1>3. CASE r \in BalanceFrames
    <2>1. r.amount \in RedeemAmounts
      BY <1>3 DEF BalanceFrames
    <2> QED BY <2>1, InputsNat
  <1> QED BY <1>1, <1>2, <1>3 DEF Frames

\* The sum over the requests that are mined is one over all slots.
LEMMA MinedIsSum ==
  ASSUME NEW R \in [Slots -> Frames], NEW op, NEW u
  PROVE  /\ SumFunction([s \in MinedOf(R, op, u) |-> R[s].amount]) = SumOf(R, op, u)
         /\ SumOf(R, op, u) \in Int
  <1> DEFINE M == MinedOf(R, op, u)
             f == [s \in M |-> R[s].amount]
             g == [s \in Slots |-> PartOf(R[s], op, u)]
  <1>1. M \in SUBSET Slots /\ IsFiniteSet(Slots) /\ IsFiniteSet(M)
    BY FiniteSlots, FS_Subset DEF MinedOf
  <1>2. \A s \in Slots : R[s].amount \in Int
    BY FrameAmount
  <1>3. \A s \in M : f[s] \in Int
    BY <1>1, <1>2
  <1>4. \A s \in Slots : g[s] = IF s \in M THEN f[s] ELSE 0
    BY DEF PartOf, MinedOf
  <1>5. \A s \in Slots : g[s] \in Int
    BY <1>2 DEF PartOf
  <1>6. M = DOMAIN f
    OBVIOUS
  <1> HIDE DEF M, f, g
  <1>7. SumFunctionOnSet(f, M) = SumFunctionOnSet(g, Slots)
    BY <1>1, <1>3, <1>4, SumFilter
  <1>8. SumFunctionOnSet(g, Slots) \in Int
    BY <1>1, <1>5, SumInt
  <1>9. SumFunction(f) = SumFunctionOnSet(f, M)
    BY <1>6, SumOfFunction
  <1> QED BY <1>7, <1>8, <1>9 DEF SumOf, f, g, M

\* What is pending is the mints less the burns.
LEMMA PendingIsSums ==
  ASSUME FramesOK, NEW u
  PROVE  /\ Pending(u) = SumOf(requests, "claim", u) - SumOf(requests, "redeem", u)
         /\ Pending(u) \in Int
         /\ SumOf(requests, "claim", u) \in Int /\ SumOf(requests, "redeem", u) \in Int
  <1> DEFINE a == SumFunction([s \in MinedOf(requests, "claim", u) |-> requests[s].amount])
             b == SumFunction([s \in MinedOf(requests, "redeem", u) |-> requests[s].amount])
  <1>1. requests \in [Slots -> Frames]
    BY DEF FramesOK
  <1>2. /\ a = SumOf(requests, "claim", u) /\ a \in Int
        /\ b = SumOf(requests, "redeem", u) /\ b \in Int
    BY <1>1, MinedIsSum
  <1>3. Pending(u) = a - b
    BY DEF Pending, Unrecorded, At, MinedOf
  <1> HIDE DEF a, b
  <1> QED BY <1>2, <1>3

\* The same in the next state.
LEMMA PendingIsSumsNext ==
  ASSUME FramesOK', NEW u
  PROVE  /\ Pending(u)' = SumOf(requests', "claim", u) - SumOf(requests', "redeem", u)
         /\ Pending(u)' \in Int
         /\ SumOf(requests', "claim", u) \in Int /\ SumOf(requests', "redeem", u) \in Int
  <1> DEFINE a == SumFunction([s \in MinedOf(requests', "claim", u) |-> requests'[s].amount])
             b == SumFunction([s \in MinedOf(requests', "redeem", u) |-> requests'[s].amount])
  <1>1. requests' \in [Slots -> Frames]
    BY DEF FramesOK
  <1>2. /\ a = SumOf(requests', "claim", u) /\ a \in Int
        /\ b = SumOf(requests', "redeem", u) /\ b \in Int
    BY <1>1, MinedIsSum
  <1>3. Pending(u)' = a - b
    BY DEF Pending, Unrecorded, At, MinedOf
  <1> HIDE DEF a, b
  <1> QED BY <1>2, <1>3

\* What a frame has pending for an account.
Share(r, u) == PartOf(r, "claim", u) - PartOf(r, "redeem", u)

\* A change of one frame changes a sum by its parts.
LEMMA SumOfMoves ==
  ASSUME NEW R \in [Slots -> Frames], NEW T \in [Slots -> Frames], NEW s \in Slots,
         \A z \in Slots : z # s => T[z] = R[z], NEW op, NEW u
  PROVE  SumOf(T, op, u) = SumOf(R, op, u) + (PartOf(T[s], op, u) - PartOf(R[s], op, u))
  <1> DEFINE f == [z \in Slots |-> PartOf(R[z], op, u)]
             g == [z \in Slots |-> PartOf(T[z], op, u)]
  <1>1. \A z \in Slots : R[z].amount \in Int /\ T[z].amount \in Int
    BY FrameAmount
  <1>2. /\ \A z \in Slots : f[z] \in Int
        /\ g[s] \in Int /\ g[s] = PartOf(T[s], op, u) /\ f[s] = PartOf(R[s], op, u)
        /\ \A z \in Slots : z # s => g[z] = f[z]
    BY <1>1 DEF PartOf
  <1>3. SumOf(R, op, u) = SumFunctionOnSet(f, Slots) /\ SumOf(T, op, u) = SumFunctionOnSet(g, Slots)
    BY DEF SumOf
  <1> HIDE DEF f, g
  <1>4. SumFunctionOnSet(g, Slots) = SumFunctionOnSet(f, Slots) + (g[s] - f[s])
    BY <1>2, FiniteSlots, SumChange
  <1> QED BY <1>2, <1>3, <1>4

\* A change of one frame changes what is pending by its share.
LEMMA PendingMoves ==
  ASSUME FramesOK, FramesOK', NEW s \in Slots, NEW r, Only(s, r), NEW u
  PROVE  /\ Pending(u)' = Pending(u) + Share(r, u) - Share(requests[s], u)
         /\ Pending(u) \in Int /\ Share(r, u) \in Int /\ Share(requests[s], u) \in Int
  <1> DEFINE a == PartOf(r, "claim", u)
             b == PartOf(r, "redeem", u)
             c == PartOf(requests[s], "claim", u)
             d == PartOf(requests[s], "redeem", u)
  <1>1. /\ requests \in [Slots -> Frames] /\ requests' \in [Slots -> Frames]
        /\ requests'[s] = r /\ \A z \in Slots : z # s => requests'[z] = requests[z]
    BY DEF FramesOK, Only
  <1>2. a \in Int /\ b \in Int /\ c \in Int /\ d \in Int
    BY <1>1, FrameAmount DEF PartOf
  <1>3. /\ SumOf(requests', "claim", u) = SumOf(requests, "claim", u) + (a - c)
        /\ SumOf(requests', "redeem", u) = SumOf(requests, "redeem", u) + (b - d)
    BY <1>1, SumOfMoves
  <1>4. /\ Pending(u) = SumOf(requests, "claim", u) - SumOf(requests, "redeem", u)
        /\ Pending(u)' = SumOf(requests', "claim", u) - SumOf(requests', "redeem", u)
        /\ SumOf(requests, "claim", u) \in Int /\ SumOf(requests, "redeem", u) \in Int
        /\ Pending(u) \in Int
    BY PendingIsSums, PendingIsSumsNext
  <1>5. Share(r, u) = a - b /\ Share(requests[s], u) = c - d
    BY DEF Share
  <1> HIDE DEF a, b, c, d
  <1> QED BY <1>2, <1>3, <1>4, <1>5
-----------------------------------------------------------------------------
(* What the steps do to the claims. *)

\* Nothing of the claims changes.
LEMMA ClaimsKept == ASSUME ClaimTypes, UNCHANGED claimVars PROVE ClaimTypes'
  BY DEF ClaimTypes, claimVars

\* What a mined transaction of the token adds to the supply.
Minted(tx) == IF tx.leg = "mint" THEN tx.amount ELSE -tx.amount

\* A mined transaction changes the books of its account only.
LEMMA TokenParts ==
  ASSUME ClaimTypes, NEW tx \in TokenTxs, TokenEffect(tx), NEW w, w = tx.who,
         NEW d, d = Minted(tx)
  PROVE  /\ ClaimTypes' /\ w \in Accounts /\ d \in Int
         /\ UNCHANGED <<bridged, deposited, claims, overlapped>>
         /\ \A u \in Accounts : u # w => supply'[u] = supply[u] /\ skew'[u] = skew[u]
         /\ TokenWorks(tx) => supply'[w] = supply[w] + d
         /\ ~TokenWorks(tx) => supply'[w] = supply[w]
         /\ TokenWorks(tx) /\ ~Awaited(tx) => skew'[w].lost = skew[w].lost + d
         /\ ~(TokenWorks(tx) /\ ~Awaited(tx)) => skew'[w].lost = skew[w].lost
         /\ ~TokenWorks(tx) /\ Awaited(tx) =>
                skew'[w].reverted = skew[w].reverted + tx.amount
         /\ ~(~TokenWorks(tx) /\ Awaited(tx)) =>
                skew'[w].reverted = skew[w].reverted
  <1> DEFINE sign == IF tx.leg = "mint" THEN 1 ELSE -1
             e == sign * tx.amount
             done == TokenWorks(tx)
             lost == IF done /\ ~Awaited(tx) THEN skew[w].lost + e ELSE skew[w].lost
             reverted == IF ~done /\ Awaited(tx) THEN skew[w].reverted + tx.amount
                         ELSE skew[w].reverted
             more == IF done THEN tokens[w] + e ELSE tokens[w]
             out == IF done THEN supply[w] + e ELSE supply[w]
             one == [skew EXCEPT ![w].lost = lost]
             two == [one EXCEPT ![w].reverted = reverted]
  <1>1. w \in Accounts /\ tx.amount \in Nat /\ tx.leg \in {"mint", "burn"}
    BY DEF TokenTxs
  <1>2. e = d /\ d \in Int
    BY <1>1 DEF Minted
  <1>3. /\ tokens' = [tokens EXCEPT ![w] = more]
        /\ supply' = [supply EXCEPT ![w] = out]
        /\ UNCHANGED <<bridged, deposited, claims, overlapped>>
    BY DEF TokenEffect
  <1>4. skew' = two
    BY DEF TokenEffect
  <1>5. skew[w].lost \in Int /\ skew[w].reverted \in Int /\ supply[w] \in Int /\ tokens[w] \in Int
        /\ skew[w] \in [lost : Int, reverted : Int]
    BY <1>1 DEF ClaimTypes
  <1> HIDE DEF e
  <1>6. lost \in Int /\ reverted \in Int /\ more \in Int /\ out \in Int
    BY <1>1, <1>2, <1>5
  <1>7. /\ done => out = supply[w] + d
        /\ ~done => out = supply[w]
        /\ done /\ ~Awaited(tx) => lost = skew[w].lost + d
        /\ ~(done /\ ~Awaited(tx)) => lost = skew[w].lost
        /\ ~done /\ Awaited(tx) => reverted = skew[w].reverted + tx.amount
        /\ ~(~done /\ Awaited(tx)) => reverted = skew[w].reverted
    BY <1>2
  <1> HIDE DEF lost, reverted, more, out, done
  <1>8. /\ one \in [Accounts -> [lost : Int, reverted : Int]]
        /\ one[w].lost = lost /\ one[w].reverted = skew[w].reverted
        /\ \A u \in Accounts : u # w => one[u] = skew[u]
    BY <1>1, <1>5, <1>6 DEF ClaimTypes
  <1> HIDE DEF one
  <1>9. /\ skew' \in [Accounts -> [lost : Int, reverted : Int]]
        /\ skew'[w].lost = lost /\ skew'[w].reverted = reverted
        /\ \A u \in Accounts : u # w => skew'[u] = skew[u]
    BY <1>1, <1>4, <1>6, <1>8
  <1>10. /\ supply'[w] = out /\ supply' \in [Accounts -> Int]
         /\ tokens' \in [Accounts -> Int]
         /\ \A u \in Accounts : u # w => supply'[u] = supply[u]
    BY <1>1, <1>3, <1>6 DEF ClaimTypes
  <1>11. ClaimTypes'
    BY <1>3, <1>9, <1>10 DEF ClaimTypes
  <1>12. /\ done => supply'[w] = supply[w] + d
         /\ ~done => supply'[w] = supply[w]
         /\ done /\ ~Awaited(tx) => skew'[w].lost = skew[w].lost + d
         /\ ~(done /\ ~Awaited(tx)) => skew'[w].lost = skew[w].lost
         /\ ~done /\ Awaited(tx) => skew'[w].reverted = skew[w].reverted + tx.amount
         /\ ~(~done /\ Awaited(tx)) => skew'[w].reverted = skew[w].reverted
    BY <1>7, <1>9, <1>10
  <1>13. \A u \in Accounts : u # w => supply'[u] = supply[u] /\ skew'[u] = skew[u]
    BY <1>9, <1>10
  <1> QED BY <1>1, <1>2, <1>3, <1>11, <1>12, <1>13 DEF done

\* A stop turns what is pending into what is lost.
LEMMA StopParts ==
  ASSUME ClaimTypes, FramesOK, StopClaims
  PROVE  /\ ClaimTypes' /\ UNCHANGED <<bridged, deposited, tokens, supply, claims, overlapped>>
         /\ \A u \in Accounts : /\ skew'[u].lost = skew[u].lost + Pending(u)
                                /\ skew'[u].reverted = skew[u].reverted
  <1>1. \A u \in Accounts : Pending(u) \in Int
    BY PendingIsSums
  <1>2. /\ skew' = [u \in Accounts |-> [skew[u] EXCEPT !.lost = @ + Pending(u)]]
        /\ UNCHANGED <<bridged, deposited, tokens, supply, claims, overlapped>>
    BY DEF StopClaims
  <1>3. ASSUME NEW u \in Accounts
        PROVE  /\ skew'[u] \in [lost : Int, reverted : Int]
               /\ skew'[u].lost = skew[u].lost + Pending(u)
               /\ skew'[u].reverted = skew[u].reverted
    <2> DEFINE p == Pending(u)
    <2>1. skew[u] \in [lost : Int, reverted : Int] /\ p \in Int
      BY <1>1 DEF ClaimTypes
    <2>2. skew'[u] = [skew[u] EXCEPT !.lost = @ + p]
      BY <1>2
    <2> HIDE DEF p
    <2>3. /\ skew'[u] \in [lost : Int, reverted : Int]
          /\ skew'[u].lost = skew[u].lost + p
          /\ skew'[u].reverted = skew[u].reverted
      BY <2>1, <2>2
    <2> QED BY <2>3 DEF p
  <1>4. skew' \in [Accounts -> [lost : Int, reverted : Int]]
    BY <1>2, <1>3
  <1>5. ClaimTypes'
    BY <1>2, <1>4 DEF ClaimTypes
  <1> QED BY <1>2, <1>3, <1>5

\* A request notes who asks; nothing else of the claims changes.
LEMMA AskParts ==
  ASSUME ClaimTypes, NEW u \in Accounts, Ask(u)
  PROVE  ClaimTypes'
  BY DEF Ask, ClaimTypes

\* A mined claim is recorded.
LEMMA ClaimRecorded ==
  ASSUME SignerInv, ClaimTypes, NEW s \in Slots, RecordClaim(s), NEW f, f = requests[s]
  PROVE  /\ SignerInv' /\ ClaimTypes' /\ Only(s, Idle)
         /\ f \in ClaimFrames /\ f.at = "mined"
         /\ UNCHANGED <<bridged, deposited, tokens, supply, skew, overlapped, account, pool>>
         /\ claims'[f.who] = claims[f.who] + f.known
         /\ \A u \in Accounts : u # f.who => claims'[u] = claims[u]
  <1>1. /\ f.op = "claim" /\ f.at = "mined" /\ Move(s, Idle)
        /\ UNCHANGED <<bridged, deposited, tokens, supply, skew, overlapped, account, pool>>
        /\ claims' = [claims EXCEPT ![f.who] = @ + f.known]
    BY DEF RecordClaim, At
  <1>2. f \in ClaimFrames
    BY <1>1, FrameAt DEF SignerInv, FramesOK
  <1>3. f.who \in Accounts /\ f.known \in Int
    BY <1>2 DEF ClaimFrames
  <1>4. /\ claims' \in [Accounts -> Int] /\ claims'[f.who] = claims[f.who] + f.known
        /\ \A u \in Accounts : u # f.who => claims'[u] = claims[u]
    BY <1>1, <1>3 DEF ClaimTypes
  <1>5. ClaimTypes'
    BY <1>1, <1>4 DEF ClaimTypes
  <1> QED BY <1>1, <1>2, <1>4, <1>5, Ended

\* A mined burn is recorded.
LEMMA RedeemRecorded ==
  ASSUME SignerInv, ClaimTypes, NEW s \in Slots, RecordRedeem(s), NEW f, f = requests[s]
  PROVE  /\ SignerInv' /\ ClaimTypes' /\ Only(s, Idle)
         /\ f \in RedeemFrames /\ f.at = "mined"
         /\ UNCHANGED <<bridged, deposited, tokens, supply, skew, overlapped, account, pool>>
         /\ claims'[f.who] = claims[f.who] - Unscale(f.amount)
         /\ \A u \in Accounts : u # f.who => claims'[u] = claims[u]
  <1> DEFINE x == Unscale(f.amount)
  <1>1. /\ f.op = "redeem" /\ f.at = "mined" /\ Move(s, Idle)
        /\ UNCHANGED <<bridged, deposited, tokens, supply, skew, overlapped, account, pool>>
        /\ claims' = [claims EXCEPT ![f.who] = @ - x]
    BY DEF RecordRedeem, At
  <1>2. f \in RedeemFrames
    BY <1>1, FrameAt DEF SignerInv, FramesOK
  <1>3. f.who \in Accounts /\ x \in Int
    <2>1. f.who \in Accounts /\ f.amount \in RedeemAmounts
      BY <1>2 DEF RedeemFrames
    <2> QED BY <2>1, InputsNat, ScaleNat
  <1> HIDE DEF x
  <1>4. /\ claims' \in [Accounts -> Int] /\ claims'[f.who] = claims[f.who] - x
        /\ \A u \in Accounts : u # f.who => claims'[u] = claims[u]
    BY <1>1, <1>3 DEF ClaimTypes
  <1>5. ClaimTypes'
    BY <1>1, <1>4 DEF ClaimTypes
  <1> QED BY <1>1, <1>2, <1>4, <1>5, Ended DEF x

\* Coins come and go, and tokens change hands, without a request.
LEMMA ElsewhereParts ==
  ASSUME ClaimTypes, NEW u \in Accounts,
         BridgeIn(u) \/ BridgeOut(u) \/ \E amount \in {-Up, Up} : Transfer(u, amount)
  PROVE  ClaimTypes' /\ UNCHANGED <<supply, claims, skew, overlapped, signerVars>>
  <1>1. CASE BridgeIn(u)
    BY <1>1 DEF BridgeIn, ClaimTypes
  <1>2. CASE BridgeOut(u)
    BY <1>2 DEF BridgeOut, ClaimTypes
  <1>3. ASSUME NEW amount \in {-Up, Up}, Transfer(u, amount)
        PROVE  ClaimTypes' /\ UNCHANGED <<supply, claims, skew, overlapped, signerVars>>
    <2>1. amount \in Int
      BY Decimals
    <2> QED BY <1>3, <2>1 DEF Transfer, ClaimTypes
  <1> QED BY <1>1, <1>2, <1>3
-----------------------------------------------------------------------------
(* What the steps do to the swaps. *)

\* A swap goes from a token to another.
LEMMA OtherToken ==
  ASSUME NEW t \in SwapTokens
  PROVE  Other(t) \in SwapTokens /\ Other(t) # t
  BY SwapInputs DEF Other

\* Every reference is to a swap of the history.
RefsOK ==
  /\ \A s \in Slots : requests[s].op = "instant" => requests[s].known \in DOMAIN swaps
  /\ \A tx \in pool : tx.leg \in {"transfer", "withdraw"} => tx.ref \in DOMAIN swaps

\* Nothing of the swaps changes.
LEMMA SwapsKept == ASSUME SwapTypes, UNCHANGED settleVars PROVE SwapTypes'
  BY DEF SwapTypes, settleVars

\* The history is where its length says.
LEMMA SwapDomain ==
  ASSUME NEW q \in Seq(Swaps)
  PROVE  /\ Len(q) \in Nat /\ DOMAIN q = 1 .. Len(q)
         /\ \A i \in DOMAIN q : q[i] \in Swaps
  OBVIOUS

\* A new swap.
LEMMA SwapAdded ==
  ASSUME SwapTypes, NEW s \in Slots, NEW in \in SwapTokens, NEW amount \in SwapAmounts,
         SettleInstantLocalSwap(s, in, amount), NEW n, n = Len(swaps) + 1
  PROVE  /\ SwapTypes' /\ UNCHANGED <<wallet, custody, owed>>
         /\ DOMAIN swaps' = DOMAIN swaps \cup {n} /\ n \notin DOMAIN swaps
         /\ \A i \in DOMAIN swaps : swaps'[i] = swaps[i]
         /\ swaps'[n].in = in /\ swaps'[n].out = Other(in)
         /\ swaps'[n].amount = amount /\ swaps'[n].done = {} /\ swaps'[n].booked = FALSE
  <1> DEFINE x == [in |-> in, out |-> Other(in), amount |-> amount, done |-> {},
                   booked |-> FALSE]
  <1>1. x \in Swaps
    BY OtherToken DEF Swaps
  <1>2. swaps' = Append(swaps, x) /\ UNCHANGED <<wallet, custody, owed>>
    BY DEF SettleInstantLocalSwap
  <1>3. /\ x.in = in /\ x.out = Other(in) /\ x.amount = amount /\ x.done = {}
        /\ x.booked = FALSE
    OBVIOUS
  <1> HIDE DEF x
  <1>4. swaps \in Seq(Swaps) /\ DOMAIN swaps = 1 .. Len(swaps) /\ Len(swaps) \in Nat
    BY SwapDomain DEF SwapTypes
  <1>5. /\ swaps' \in Seq(Swaps) /\ Len(swaps') = n /\ swaps'[n] = x
        /\ \A i \in DOMAIN swaps : swaps'[i] = swaps[i]
    BY <1>1, <1>2, <1>4
  <1>6. DOMAIN swaps' = DOMAIN swaps \cup {n} /\ n \notin DOMAIN swaps
    BY <1>4, <1>5
  <1>7. SwapTypes'
    BY <1>2, <1>5 DEF SwapTypes
  <1> QED BY <1>2, <1>3, <1>5, <1>6, <1>7

\* A record of the history that changes.
LEMMA SwapChanged ==
  ASSUME NEW q \in Seq(Swaps), NEW i \in DOMAIN q, NEW x \in Swaps,
         NEW r, r = [q EXCEPT ![i] = x]
  PROVE  /\ r \in Seq(Swaps) /\ DOMAIN r = DOMAIN q /\ r[i] = x
         /\ \A k \in DOMAIN q : k # i => r[k] = q[k]
  OBVIOUS

\* What a handler's booking of swap i does.
Books(s, f, i) ==
  /\ UNCHANGED <<wallet, custody, account, pool>> /\ Only(s, Idle)
  /\ f \in SwapFrames /\ f.at = "mined" /\ f.leg = "withdraw" /\ i \in DOMAIN swaps
  /\ DOMAIN swaps' = DOMAIN swaps
  /\ \A k \in DOMAIN swaps : k # i => swaps'[k] = swaps[k]
  /\ swaps'[i].in = swaps[i].in /\ swaps'[i].out = swaps[i].out
  /\ swaps'[i].amount = swaps[i].amount /\ swaps'[i].done = swaps[i].done
  /\ swaps'[i].booked = TRUE
  /\ swaps[i].in # swaps[i].out =>
        /\ owed'[swaps[i].in] = owed[swaps[i].in] - f.amount
        /\ owed'[swaps[i].out] = owed[swaps[i].out] + f.amount
  /\ \A t \in SwapTokens :
        t # swaps[i].in /\ t # swaps[i].out => owed'[t] = owed[t]

\* The ledger shows the swap.
LEMMA Booked ==
  ASSUME SignerInv, SwapTypes, RefsOK, NEW s \in Slots, Book(s), NEW f, f = requests[s],
         NEW i, i = f.known
  PROVE  SignerInv' /\ SwapTypes' /\ Only(s, Idle) /\ DOMAIN swaps' = DOMAIN swaps /\ Books(s, f, i)
  <1> DEFINE o == swaps[i]
             x == [o EXCEPT !.booked = TRUE]
             a == swaps[i].in
             b == swaps[i].out
             n == f.amount
             one == [owed EXCEPT ![a] = @ - n]
  <1>1. /\ f.op = "instant" /\ f.at = "mined" /\ f.leg = "withdraw" /\ Move(s, Idle)
        /\ UNCHANGED <<wallet, custody, account, pool>>
        /\ swaps' = [swaps EXCEPT ![i] = x]
        /\ owed' = [one EXCEPT ![b] = owed[b] + n]
    BY DEF Book, At
  <1>2. f \in SwapFrames
    BY <1>1, FrameAt DEF SignerInv, FramesOK
  <1>3. i \in DOMAIN swaps /\ swaps \in Seq(Swaps) /\ o \in Swaps
    BY <1>1, SwapDomain DEF RefsOK, SwapTypes
  <1>4. n \in Int
    <2>1. n \in SwapAmounts
      BY <1>2 DEF SwapFrames
    <2> QED BY <2>1, InputsNat
  <1>5. /\ x \in Swaps /\ x.in = a /\ x.out = b /\ x.amount = o.amount /\ x.done = o.done
        /\ x.booked = TRUE
    BY <1>3 DEF Swaps
  <1>6. a \in SwapTokens /\ b \in SwapTokens
    BY <1>3 DEF Swaps
  <1> HIDE DEF x
  <1>7. /\ swaps' \in Seq(Swaps) /\ DOMAIN swaps' = DOMAIN swaps /\ swaps'[i] = x
        /\ \A k \in DOMAIN swaps : k # i => swaps'[k] = swaps[k]
    BY <1>1, <1>3, <1>5, SwapChanged
  <1> HIDE DEF a, b, n
  <1>8. /\ one \in [SwapTokens -> Int] /\ one[a] = owed[a] - n /\ owed[b] \in Int
        /\ \A t \in SwapTokens : t # a => one[t] = owed[t]
    BY <1>4, <1>6 DEF SwapTypes
  <1> HIDE DEF one
  <1>9. /\ owed' \in [SwapTokens -> Int]
        /\ a # b => owed'[a] = owed[a] - n /\ owed'[b] = owed[b] + n
        /\ \A t \in SwapTokens : t # a /\ t # b => owed'[t] = owed[t]
    BY <1>1, <1>4, <1>6, <1>8
  <1>10. SwapTypes'
    BY <1>1, <1>7, <1>9 DEF SwapTypes
  <1>11. SignerInv' /\ Only(s, Idle)
    BY <1>1, Ended
  <1>12. Books(s, f, i)
    BY <1>1, <1>2, <1>3, <1>5, <1>7, <1>9, <1>11 DEF a, b, n, Books
  <1> QED BY <1>7, <1>10, <1>11, <1>12

\* The token a transaction pays, and what it adds to the vault.
PaidTo(tx) == IF tx.leg = "transfer" THEN Other(tx.who) ELSE tx.who
Paid(tx, works) == IF ~works THEN 0
                   ELSE IF tx.leg = "transfer" THEN tx.amount ELSE -tx.amount

\* A mined transaction moves its amount between the wallet and the vault.
LEMMA SwapEffectParts ==
  ASSUME SwapTypes, NEW tx \in SwapTxs, tx.ref \in DOMAIN swaps, NEW works,
         SwapEffect(tx, works), NEW i, i = tx.ref
  PROVE  /\ SwapTypes' /\ UNCHANGED owed
         /\ PaidTo(tx) \in SwapTokens /\ Paid(tx, works) \in Int
         /\ custody'[PaidTo(tx)] = custody[PaidTo(tx)] + Paid(tx, works)
         /\ \A t \in SwapTokens : t # PaidTo(tx) => custody'[t] = custody[t]
         /\ ~works => UNCHANGED swaps
         /\ DOMAIN swaps' = DOMAIN swaps
         /\ \A k \in DOMAIN swaps : k # i => swaps'[k] = swaps[k]
         /\ works =>
              /\ swaps'[i].in = swaps[i].in /\ swaps'[i].out = swaps[i].out
              /\ swaps'[i].amount = swaps[i].amount /\ swaps'[i].booked = swaps[i].booked
              /\ swaps'[i].done = swaps[i].done \cup {tx.leg}
  <1> DEFINE p == PaidTo(tx)
             d == Paid(tx, works)
             o == swaps[i]
             x == [o EXCEPT !.done = @ \cup {tx.leg}]
  <1>1. p \in SwapTokens /\ d \in Int
    <2>1. tx.who \in SwapTokens /\ tx.amount \in SwapAmounts
      BY DEF SwapTxs
    <2>2. tx.amount \in Int
      BY <2>1, InputsNat
    <2>3. -tx.amount \in Int
      BY <2>2
    <2> QED BY <2>1, <2>2, <2>3, OtherToken DEF PaidTo, Paid
  <1>2. /\ custody' = [custody EXCEPT ![p] = @ + d]
        /\ wallet' = [wallet EXCEPT ![p] = @ - d]
        /\ works => swaps' = [swaps EXCEPT ![i] = x]
        /\ ~works => swaps' = swaps
        /\ UNCHANGED owed
    BY DEF SwapEffect, PaidTo, Paid
  <1>3. swaps \in Seq(Swaps) /\ o \in Swaps /\ tx.leg \in {"transfer", "withdraw"}
    BY SwapDomain DEF SwapTypes, SwapTxs
  <1>4. /\ x \in Swaps /\ x.in = o.in /\ x.out = o.out /\ x.amount = o.amount
        /\ x.booked = o.booked /\ x.done = o.done \cup {tx.leg}
    BY <1>3 DEF Swaps
  <1> HIDE DEF x
  <1>5. /\ works => /\ swaps' \in Seq(Swaps) /\ DOMAIN swaps' = DOMAIN swaps
                    /\ swaps'[i] = x
                    /\ \A k \in DOMAIN swaps : k # i => swaps'[k] = swaps[k]
        /\ ~works => swaps' \in Seq(Swaps)
    BY <1>2, <1>3, <1>4, SwapChanged
  <1> HIDE DEF p, d
  <1>6. /\ custody' \in [SwapTokens -> Int] /\ wallet' \in [SwapTokens -> Int]
        /\ custody'[p] = custody[p] + d
        /\ \A t \in SwapTokens : t # p => custody'[t] = custody[t]
    BY <1>1, <1>2 DEF SwapTypes
  <1>7. SwapTypes'
    BY <1>2, <1>5, <1>6 DEF SwapTypes
  <1>8. works => /\ swaps'[i].in = o.in /\ swaps'[i].out = o.out
                 /\ swaps'[i].amount = o.amount /\ swaps'[i].booked = o.booked
                 /\ swaps'[i].done = o.done \cup {tx.leg}
    BY <1>4, <1>5
  <1>9. /\ DOMAIN swaps' = DOMAIN swaps
        /\ \A k \in DOMAIN swaps : k # i => swaps'[k] = swaps[k]
    BY <1>2, <1>5
  <1> QED BY <1>1, <1>2, <1>6, <1>7, <1>8, <1>9 DEF p, d

\* A withdrawal of a user takes the same from the vault and from the ledger.
LEMMA VaultPaysParts ==
  ASSUME SwapTypes, NEW t \in SwapTokens, VaultPays(t)
  PROVE  /\ SwapTypes' /\ UNCHANGED <<wallet, swaps, signerVars>>
         /\ owed'[t] = owed[t] - 1 /\ custody'[t] = custody[t] - 1
         /\ \A v \in SwapTokens : v # t => owed'[v] = owed[v] /\ custody'[v] = custody[v]
  BY DEF VaultPays, SwapTypes
-----------------------------------------------------------------------------
(* The types and references hold in every state. *)

BaseInv == Types /\ RefsOK

\* References of requests stay good while the history keeps its swaps.
LEMMA RefsKept ==
  ASSUME RefsOK, NEW s \in Slots, NEW r, Only(s, r), DOMAIN swaps \subseteq DOMAIN swaps',
         r.op = "instant" => r.known \in DOMAIN swaps', pool' = pool
  PROVE  RefsOK'
  BY DEF RefsOK, Only

\* The same when no request changes.
LEMMA RefsStay ==
  ASSUME RefsOK, UNCHANGED <<requests, pool>>, DOMAIN swaps' = DOMAIN swaps
  PROVE  RefsOK'
  BY DEF RefsOK

\* The sessions' variables do not change.
LEMMA AuthKept == ASSUME AuthTypes, UNCHANGED authVars PROVE AuthTypes'
  BY DEF AuthTypes, authVars

\* Kept challenges are challenges.
LEMMA KeptParts ==
  ASSUME AuthTypes
  PROVE  /\ Kept = [a \in Addresses |-> Kept[a]]
         /\ \A a \in Addresses : Kept[a] = None \/ Kept[a] = challenges[a]
         /\ \A a \in Addresses : Kept[a] = None \/ Kept[a].nonce \in 1 .. issued
         /\ issued \in Nat
  BY ChallengeBound DEF Kept, AuthTypes

\* A new challenge has the next nonce.
LEMMA ChallengeMade ==
  ASSUME AuthTypes, NEW a \in Addresses, CreateChallenge(a)
  PROVE  /\ AuthTypes' /\ UNCHANGED <<signerVars, uses>>
         /\ issued' = issued + 1 /\ issued' \in 1 .. MaxChallenges
         /\ challenges'[a].nonce = issued'
         /\ \A b \in Addresses : b # a => challenges'[b] = None \/ challenges'[b] = challenges[b]
  <1> DEFINE x == [nonce |-> issued + 1, expiresAt |-> now + NonceTtl]
  <1>1. /\ issued < MaxChallenges /\ issued' = issued + 1 /\ issued \in 0 .. MaxChallenges
        /\ challenges' = [Kept EXCEPT ![a] = x] /\ UNCHANGED <<signerVars, uses>>
    BY DEF CreateChallenge, AuthTypes
  <1>2. x.nonce = issued + 1
    OBVIOUS
  <1> HIDE DEF x
  <1>3. /\ challenges' = [b \in Addresses |-> challenges'[b]] /\ challenges'[a] = x
        /\ \A b \in Addresses : b # a => challenges'[b] = Kept[b]
    BY <1>1, KeptParts
  <1>4. issued \in Nat /\ MaxChallenges \in Nat
    BY ChallengeBound, KeptParts
  <1>5. issued' \in 1 .. MaxChallenges
    BY <1>1, <1>4
  <1>6. \A b \in Addresses : challenges'[b] = None \/ challenges'[b].nonce \in 1 .. issued'
    BY <1>1, <1>2, <1>3, <1>4, KeptParts
  <1>7. \A b \in Addresses : b # a => challenges'[b] = None \/ challenges'[b] = challenges[b]
    BY <1>3, KeptParts
  <1>8. AuthTypes'
    BY <1>1, <1>3, <1>5, <1>6 DEF AuthTypes
  <1> QED BY <1>1, <1>2, <1>3, <1>5, <1>7, <1>8

\* A verification takes note of the challenge it looked at.
LEMMA VerifyParts ==
  ASSUME AuthTypes, NEW s \in Slots, NEW a \in Addresses, NEW n, NEW signer,
         VerifyChallenge(s, a, n, signer)
  PROVE  /\ AuthTypes' /\ UNCHANGED <<uses, issued>>
         /\ challenges[a] # None /\ challenges[a].nonce = n
         /\ \A b \in Addresses : challenges'[b] = None \/ challenges'[b] = challenges[b]
  BY KeptParts DEF VerifyChallenge, AuthTypes

\* A recovery spends the challenge and may hand out a token.
LEMMA Recovered ==
  ASSUME SignerInv, AuthTypes, NEW s \in Slots, RecoverSigner(s), NEW f, f = requests[s]
  PROVE  /\ SignerInv' /\ AuthTypes' /\ Only(s, Idle) /\ UNCHANGED <<issued, account, pool>>
         /\ f \in VerifyFrames /\ f.op = "verify" /\ f.at = "recover"
         /\ challenges'[f.who] = None
         /\ \A a \in Addresses : a # f.who => challenges'[a] = challenges[a]
         /\ \A n \in 1 .. MaxChallenges : n # f.known => uses'[n] = uses[n]
         /\ uses'[f.known] = uses[f.known] \/ uses'[f.known] = uses[f.known] + 1
  <1>1. /\ f.op = "verify" /\ f.at = "recover" /\ Move(s, Idle)
        /\ UNCHANGED <<issued, account, pool>>
        /\ challenges' = [challenges EXCEPT ![f.who] = None]
        /\ uses' = uses \/ uses' = [uses EXCEPT ![f.known] = @ + 1]
    BY DEF RecoverSigner, At, Spent
  <1>2. f \in VerifyFrames
    BY <1>1, FrameAt DEF SignerInv, FramesOK
  <1>3. f.who \in Addresses /\ f.known \in 1 .. MaxChallenges
    BY <1>2 DEF VerifyFrames
  <1>4. /\ uses' \in [1 .. MaxChallenges -> Nat]
        /\ \A n \in 1 .. MaxChallenges : n # f.known => uses'[n] = uses[n]
        /\ uses'[f.known] = uses[f.known] \/ uses'[f.known] = uses[f.known] + 1
    <2> DEFINE n == f.known
    <2>1. uses \in [1 .. MaxChallenges -> Nat] /\ n \in 1 .. MaxChallenges /\ uses[n] \in Nat
      BY <1>3 DEF AuthTypes
    <2>2. uses' = uses \/ uses' = [uses EXCEPT ![n] = uses[n] + 1]
      BY <1>1
    <2> HIDE DEF n
    <2>3. CASE uses' = uses
      BY <2>1, <2>3 DEF n
    <2>4. CASE uses' = [uses EXCEPT ![n] = uses[n] + 1]
      <3>1. uses[n] + 1 \in Nat
        BY <2>1
      <3>2. /\ uses' \in [1 .. MaxChallenges -> Nat] /\ uses'[n] = uses[n] + 1
            /\ \A k \in 1 .. MaxChallenges : k # n => uses'[k] = uses[k]
        BY <2>1, <2>4, <3>1
      <3> QED BY <3>2 DEF n
    <2> QED BY <2>2, <2>3, <2>4
  <1>5. /\ challenges' = [a \in Addresses |-> challenges'[a]]
        /\ challenges'[f.who] = None
        /\ \A a \in Addresses : a # f.who => challenges'[a] = challenges[a]
    BY <1>1, <1>3 DEF AuthTypes
  <1>6. AuthTypes'
    BY <1>1, <1>4, <1>5 DEF AuthTypes
  <1> QED BY <1>1, <1>2, <1>4, <1>5, <1>6, Ended

\* A start forgets every challenge.
LEMMA AuthStopped ==
  ASSUME AuthTypes, StopAuth
  PROVE  /\ AuthTypes' /\ UNCHANGED <<uses, issued>>
         /\ \A a \in Addresses : challenges'[a] = None
  BY DEF AuthTypes, StopAuth

\* Nothing is asked, sent or owed at the start but what the vault holds.
LEMMA BaseStart == Init => BaseInv
  <1> SUFFICES ASSUME Init PROVE BaseInv
    OBVIOUS
  <1>1. SignerInv
    BY IdleFrame DEF Init, SignerInit, SignerInv, FramesOK, PoolOK, WaitOK
  <1>2. ClaimTypes
    BY DEF Init, ClaimsInit, ClaimTypes
  <1>3. SwapTypes
    <2>1. Custody \in [SwapTokens -> Int] /\ Wallet \in [SwapTokens -> Int]
      BY SwapInputs
    <2> QED BY <2>1 DEF Init, SettleInit, SwapTypes
  <1>4. AuthTypes
    BY ChallengeBound DEF Init, AuthInit, AuthTypes
  <1>5. RefsOK
    BY IdleFrame DEF Init, SignerInit, RefsOK
  <1> QED BY <1>1, <1>2, <1>3, <1>4, <1>5 DEF BaseInv, Types

\* A route keeps the types.
LEMMA BaseRoutes == BaseInv /\ Routes => BaseInv'
  <1> SUFFICES ASSUME BaseInv, Routes PROVE BaseInv'
    OBVIOUS
  <1> USE DEF BaseInv, Types
  <1>1. ASSUME NEW a \in Addresses, PostAuthNonce(a) PROVE BaseInv'
    <2>1. CreateChallenge(a) /\ UNCHANGED claimVars /\ UNCHANGED settleVars
      BY <1>1 DEF PostAuthNonce
    <2>2. AuthTypes' /\ UNCHANGED signerVars
      BY <2>1, ChallengeMade
    <2>3. RefsOK'
      BY <2>1, <2>2, RefsStay DEF signerVars, settleVars
    <2> QED BY <2>1, <2>2, <2>3, SignerKept, ClaimsKept, SwapsKept
  <1>2. ASSUME NEW s \in Slots, NEW a \in Addresses, NEW signer \in Addresses,
               NEW n \in 1 .. issued, PostAuthVerify(s, a, n, signer)
        PROVE  BaseInv'
    <2>1. /\ VerifyChallenge(s, a, n, signer) /\ UNCHANGED claimVars
          /\ UNCHANGED settleVars /\ pool' = pool
      BY <1>2 DEF PostAuthVerify, VerifyChallenge
    <2>2. SignerInv' /\ \E r \in VerifyFrames : Only(s, r)
      BY <2>1, Verifying
    <2>3. PICK r \in VerifyFrames : Only(s, r)
      BY <2>2
    <2>4. r.op # "instant"
      BY DEF VerifyFrames
    <2>5. RefsOK'
      BY <2>1, <2>3, <2>4, RefsKept DEF settleVars
    <2>6. AuthTypes'
      BY <2>1, VerifyParts
    <2> QED BY <2>1, <2>2, <2>5, <2>6, ClaimsKept, SwapsKept
  <1>3. ASSUME NEW token \in sessions, PostAuthRefresh(token) PROVE BaseInv'
    <2>1. /\ UNCHANGED <<challenges, issued, uses>> /\ UNCHANGED signerVars
          /\ UNCHANGED claimVars /\ UNCHANGED settleVars
      BY <1>3 DEF PostAuthRefresh, RefreshToken
    <2>2. AuthTypes' /\ RefsOK'
      BY <2>1, RefsStay DEF AuthTypes, signerVars, settleVars
    <2> QED BY <2>1, <2>2, SignerKept, ClaimsKept, SwapsKept
  <1>4. ASSUME NEW s \in Slots, NEW u \in Accounts, PostBridgeClaim(s, u) PROVE BaseInv'
    <2>1. /\ Claim(s, u) /\ Ask(u) /\ UNCHANGED authVars /\ UNCHANGED settleVars
          /\ pool' = pool
      BY <1>4 DEF PostBridgeClaim, Claim, Ask
    <2>2. SignerInv' /\ \E r \in ClaimFrames : Only(s, r)
      BY <2>1, Claimed
    <2>3. PICK r \in ClaimFrames : Only(s, r)
      BY <2>2
    <2>4. r.op # "instant"
      BY DEF ClaimFrames
    <2>5. RefsOK'
      BY <2>1, <2>3, <2>4, RefsKept DEF settleVars
    <2> QED BY <2>1, <2>2, <2>5, AskParts, AuthKept, SwapsKept
  <1>5. ASSUME NEW s \in Slots, NEW u \in Accounts, NEW amount \in RedeemAmounts,
               PostBridgeRedeem(s, u, amount)
        PROVE  BaseInv'
    <2>1. /\ Redeem(s, u, amount) /\ Ask(u) /\ UNCHANGED authVars /\ UNCHANGED settleVars
          /\ pool' = pool
      BY <1>5 DEF PostBridgeRedeem, Redeem, Ask
    <2>2. SignerInv' /\ \E r \in BalanceFrames : Only(s, r)
      BY <2>1, Redeemed
    <2>3. PICK r \in BalanceFrames : Only(s, r)
      BY <2>2
    <2>4. r.op # "instant"
      BY DEF BalanceFrames
    <2>5. RefsOK'
      BY <2>1, <2>3, <2>4, RefsKept DEF settleVars
    <2> QED BY <2>1, <2>2, <2>5, AskParts, AuthKept, SwapsKept
  <1>6. ASSUME NEW s \in Slots, NEW u \in Accounts, NEW in \in SwapTokens,
               NEW amount \in SwapAmounts, PostSwapExecute(s, u, in, amount)
        PROVE  BaseInv'
    <2> DEFINE n == Len(swaps) + 1
    <2>1. /\ SettleInstantLocalSwap(s, in, amount) /\ UNCHANGED authVars
          /\ UNCHANGED claimVars /\ pool' = pool
      BY <1>6 DEF PostSwapExecute, SettleInstantLocalSwap
    <2>2. SignerInv' /\ \E r \in SwapFrames : Only(s, r) /\ r.known = n
      BY <2>1, SwapStarted
    <2>3. SwapTypes' /\ DOMAIN swaps' = DOMAIN swaps \cup {n}
      BY <2>1, SwapAdded
    <2> HIDE DEF n
    <2>4. PICK r \in SwapFrames : Only(s, r) /\ r.known = n
      BY <2>2
    <2>5. RefsOK'
      BY <2>1, <2>3, <2>4, RefsKept
    <2> QED BY <2>1, <2>2, <2>3, <2>5, AuthKept, ClaimsKept
  <1> QED BY <1>1, <1>2, <1>3, <1>4, <1>5, <1>6 DEF Routes

\* A frame goes on with the transaction of the one before.
Continues(f, r) == /\ r \in SendFrames /\ r.op = f.op /\ r.who = f.who
                   /\ r.amount = f.amount /\ r.known = f.known /\ r.leg = f.leg

\* A handler's step on the account: it goes on or ends, and a transaction is sent
\* when none is out, by a handler that has the account's nonce and saw it work.
SignerMove(s, f, r) ==
  /\ Only(s, r)
  /\ r = Idle \/ (Continues(f, r) /\ f.at # "receipt")
  /\ r.at \in {"idle", "estimate", "send", "receipt"}
  /\ r.at = "send" /\ r.leg = "transfer" => wallet[Other(r.who)] >= r.amount
  /\ \/ pool' = pool /\ r.at # "receipt"
     \/ /\ f.at = "send" /\ f.nonce = account /\ pool = {} /\ pool' = {Sent(f)}
        /\ Continues(f, r) /\ r.at = "receipt"

\* A handler's step on the account is such a step.
LEMMA SignerMoves ==
  ASSUME SignerInv, NEW s \in Slots, SignerStep(s), NEW f, f = requests[s]
  PROVE  /\ SignerInv' /\ f \in SendFrames /\ f.at \in Sending
         /\ account' = account /\ silent' = silent /\ UNCHANGED authVars
         /\ UNCHANGED claimVars /\ UNCHANGED settleVars
         /\ \E r \in Frames : SignerMove(s, f, r)
  <1>1. /\ UNCHANGED authVars /\ UNCHANGED claimVars /\ UNCHANGED settleVars
        /\ account' = account /\ silent' = silent
    BY DEF SignerStep, GetTransactionCount, EstimateGas, SendRawTransaction, ReceiptTimeout
  <1>2. CASE GetTransactionCount(s)
    <2>1. /\ SignerInv' /\ f \in SendFrames /\ f.at = "count"
          /\ \E r \in SendFrames :
                /\ Only(s, r) /\ r.at = "estimate" /\ r.nonce = account
                /\ r.op = f.op /\ r.who = f.who /\ r.amount = f.amount
                /\ r.known = f.known /\ r.leg = f.leg
      BY <1>2, Counted
    <2>2. PICK r \in SendFrames : Only(s, r) /\ r.at = "estimate" /\ Continues(f, r)
      BY <2>1 DEF Continues
    <2>3. pool' = pool
      BY <1>2 DEF GetTransactionCount
    <2>4. SignerMove(s, f, r) /\ r \in Frames
      BY <2>1, <2>2, <2>3 DEF SignerMove, Frames
    <2> QED BY <1>1, <2>1, <2>4 DEF Sending
  <1>3. CASE EstimateGas(s, Works(requests[s], FALSE))
    <2> DEFINE works == Works(f, FALSE)
    <2>1. EstimateGas(s, works) /\ pool' = pool
      BY <1>3 DEF EstimateGas
    <2>2. f.leg = "transfer" /\ works => wallet[Other(f.who)] >= f.amount
      BY DEF Works, SwapWorks
    <2> HIDE DEF works
    <2>3. /\ SignerInv' /\ f \in SendFrames /\ f.at = "estimate"
          /\ \/ Only(s, Idle)
             \/ /\ works
                /\ \E r \in SendFrames :
                      /\ Only(s, r) /\ r.at = "send" /\ r.nonce = f.nonce
                      /\ r.op = f.op /\ r.who = f.who /\ r.amount = f.amount
                      /\ r.known = f.known /\ r.leg = f.leg
      BY <2>1, Estimated
    <2>4. CASE Only(s, Idle)
      BY <1>1, <2>1, <2>3, <2>4, IdleFrame DEF SignerMove, Sending, Idle
    <2>5. ASSUME works, NEW r \in SendFrames, Only(s, r), r.at = "send", Continues(f, r)
          PROVE  SignerMove(s, f, r) /\ r \in Frames
      BY <2>1, <2>2, <2>3, <2>5 DEF SignerMove, Continues, Frames
    <2> QED BY <1>1, <2>3, <2>4, <2>5 DEF Continues, Sending
  <1>4. CASE SendRawTransaction(s)
    <2>1. /\ SignerInv' /\ f \in SendFrames /\ f.at = "send"
          /\ \/ Only(s, Idle) /\ UNCHANGED pool
             \/ /\ pool = {} /\ pool' = {Sent(f)} /\ f.nonce = account
                /\ \E r \in SendFrames :
                      /\ Only(s, r) /\ r.at = "receipt" /\ r.nonce = f.nonce
                      /\ r.op = f.op /\ r.who = f.who /\ r.amount = f.amount
                      /\ r.known = f.known /\ r.leg = f.leg
      BY <1>4, SentOne
    <2>2. CASE Only(s, Idle) /\ UNCHANGED pool
      BY <1>1, <2>1, <2>2, IdleFrame DEF SignerMove, Sending, Idle
    <2>3. ASSUME NEW r \in SendFrames, Only(s, r), r.at = "receipt", Continues(f, r),
                 pool = {}, pool' = {Sent(f)}, f.nonce = account
          PROVE  SignerMove(s, f, r) /\ r \in Frames
      BY <2>1, <2>3 DEF SignerMove, Frames
    <2> QED BY <1>1, <2>1, <2>2, <2>3 DEF Continues, Sending
  <1>5. CASE ReceiptTimeout(s)
    <2>1. SignerInv' /\ Only(s, Idle) /\ f.at = "receipt" /\ pool' = pool
      BY <1>5, TimedOut DEF ReceiptTimeout
    <2>2. f \in SendFrames
      BY <2>1, FrameAt DEF SignerInv, FramesOK, SendPcs, Sending
    <2> QED BY <1>1, <2>1, <2>2, IdleFrame DEF SignerMove, Sending, Idle
  <1> QED BY <1>2, <1>3, <1>4, <1>5 DEF SignerStep

\* A handler that resumes keeps the types.
LEMMA BaseHandlers ==
  ASSUME BaseInv, NEW s \in Slots,
         SignerStep(s) \/ AuthStep(s) \/ ClaimStep(s) \/ SettleStep(s)
  PROVE  BaseInv'
  <1> USE DEF BaseInv, Types
  <1> DEFINE f == requests[s]
  <1>0. f \in Frames /\ (f.op = "instant" => f.known \in DOMAIN swaps)
    BY DEF SignerInv, FramesOK, RefsOK
  <1>1. CASE SignerStep(s)
    <2>1. /\ SignerInv' /\ f \in SendFrames /\ UNCHANGED authVars
          /\ UNCHANGED claimVars /\ UNCHANGED settleVars
          /\ \E r \in Frames : SignerMove(s, f, r)
      BY <1>1, SignerMoves
    <2>2. PICK r \in Frames : SignerMove(s, f, r)
      BY <2>1
    <2>3. r.op = "instant" => r.known \in DOMAIN swaps
      BY <1>0, <2>2, IdleFrame DEF SignerMove, Continues
    <2>4. CASE pool' = pool
      <3>1. RefsOK'
        BY <2>1, <2>2, <2>3, <2>4, RefsKept DEF settleVars, SignerMove
      <3> QED BY <2>1, <3>1, AuthKept, ClaimsKept, SwapsKept
    <2>5. CASE pool' = {Sent(f)}
      <3>1. /\ Sent(f) \in TokenTxs \cup SwapTxs /\ Sent(f).ref = f.known
            /\ Sent(f).leg = f.leg /\ (f \in SwapFrames <=> f.op = "instant")
        BY <2>1, SendFrameParts
      <3>2. Sent(f).leg \in {"transfer", "withdraw"} => f.op = "instant"
        BY <2>1, <3>1 DEF SendFrames, ClaimFrames, RedeemFrames
      <3>3. RefsOK'
        BY <1>0, <2>1, <2>2, <2>3, <2>5, <3>1, <3>2
           DEF RefsOK, SignerMove, Only, settleVars
      <3> QED BY <2>1, <3>3, AuthKept, ClaimsKept, SwapsKept
    <2> QED BY <2>2, <2>4, <2>5 DEF SignerMove
  <1>2. CASE AuthStep(s)
    <2>1. RecoverSigner(s) /\ UNCHANGED claimVars /\ UNCHANGED settleVars
      BY <1>2 DEF AuthStep
    <2>2. SignerInv' /\ AuthTypes' /\ Only(s, Idle) /\ pool' = pool
      BY <2>1, Recovered
    <2>3. RefsOK'
      BY <2>1, <2>2, IdleFrame, RefsKept DEF settleVars
    <2> QED BY <2>1, <2>2, <2>3, ClaimsKept, SwapsKept
  <1>3. CASE ClaimStep(s)
    <2>1. /\ CheckRedeem(s) \/ RecordClaim(s) \/ RecordRedeem(s)
          /\ UNCHANGED authVars /\ UNCHANGED settleVars /\ pool' = pool
      BY <1>3 DEF ClaimStep, CheckRedeem, RecordClaim, RecordRedeem
    <2>2. CASE CheckRedeem(s)
      <3>1. UNCHANGED claimVars
        BY <2>2 DEF CheckRedeem
      <3>2. SignerInv' /\ (Only(s, Idle) \/ \E r \in RedeemFrames : Only(s, r))
        BY <2>2, RedeemChecked
      <3>3. \E r \in Frames : r.op # "instant" /\ Only(s, r)
        BY <3>2, IdleFrame DEF Frames, SendFrames, RedeemFrames
      <3>4. PICK r \in Frames : r.op # "instant" /\ Only(s, r)
        BY <3>3
      <3>5. RefsOK'
        BY <2>1, <3>4, RefsKept DEF settleVars
      <3> QED BY <2>1, <3>1, <3>2, <3>5, AuthKept, ClaimsKept, SwapsKept
    <2>3. CASE RecordClaim(s)
      <3>1. SignerInv' /\ ClaimTypes' /\ Only(s, Idle)
        BY <2>3, ClaimRecorded
      <3>2. RefsOK'
        BY <2>1, <3>1, IdleFrame, RefsKept DEF settleVars
      <3> QED BY <2>1, <3>1, <3>2, AuthKept, SwapsKept
    <2>4. CASE RecordRedeem(s)
      <3>1. SignerInv' /\ ClaimTypes' /\ Only(s, Idle)
        BY <2>4, RedeemRecorded
      <3>2. RefsOK'
        BY <2>1, <3>1, IdleFrame, RefsKept DEF settleVars
      <3> QED BY <2>1, <3>1, <3>2, AuthKept, SwapsKept
    <2> QED BY <2>1, <2>2, <2>3, <2>4
  <1>4. CASE SettleStep(s)
    <2>1. /\ SignWithdrawal(s) \/ Book(s)
          /\ UNCHANGED authVars /\ UNCHANGED claimVars /\ pool' = pool
      BY <1>4 DEF SettleStep, SignWithdrawal, Book
    <2>2. CASE SignWithdrawal(s)
      <3>1. UNCHANGED settleVars
        BY <2>2 DEF SignWithdrawal
      <3>2. /\ SignerInv' /\ f \in SwapFrames
            /\ \E r \in SwapFrames : Only(s, r) /\ r.known = f.known
        BY <2>2, WithdrawalSigned
      <3>3. PICK r \in SwapFrames : Only(s, r) /\ r.known = f.known
        BY <3>2
      <3>4. RefsOK'
        BY <1>0, <2>1, <3>1, <3>2, <3>3, RefsKept DEF settleVars, SwapFrames
      <3> QED BY <2>1, <3>1, <3>2, <3>4, AuthKept, ClaimsKept, SwapsKept
    <2>3. CASE Book(s)
      <3>1. SignerInv' /\ SwapTypes' /\ Only(s, Idle) /\ DOMAIN swaps' = DOMAIN swaps
        BY <2>3, Booked
      <3>2. RefsOK'
        BY <2>1, <3>1, IdleFrame, RefsKept
      <3> QED BY <2>1, <3>1, <3>2, AuthKept, ClaimsKept
    <2> QED BY <2>1, <2>2, <2>3
  <1> QED BY <1>1, <1>2, <1>3, <1>4

\* A mined transaction changes the token's books or the swaps'.
LEMMA BaseMine ==
  ASSUME BaseInv, NEW late \in BOOLEAN, MineNext(late)
  PROVE  BaseInv'
  <1> USE DEF BaseInv, Types
  <1>1. PICK tx \in pool :
          /\ Mine(tx, Works(tx, late)) /\ UNCHANGED authVars
          /\ \/ /\ tx.leg \in {"mint", "burn"} /\ TokenEffect(tx)
                /\ UNCHANGED settleVars
             \/ /\ tx.leg \notin {"mint", "burn"} /\ SwapEffect(tx, Works(tx, late))
                /\ UNCHANGED claimVars
    BY DEF MineNext
  <1>2. /\ SignerInv' /\ pool' = {} /\ tx \in TokenTxs \cup SwapTxs
        /\ \A s \in Slots : requests[s].at # "receipt" => requests'[s] = requests[s]
        /\ \A s \in Slots : requests[s].at = "receipt" =>
              /\ requests'[s].op = requests[s].op
              /\ requests'[s].known = requests[s].known
    BY <1>1, Mined
  <1>3. /\ tx.leg \in {"mint", "burn"} => tx \in TokenTxs
        /\ tx.leg \notin {"mint", "burn"} => tx \in SwapTxs /\ tx.ref \in DOMAIN swaps
    BY <1>2, TxParts DEF RefsOK
  <1>4. DOMAIN swaps' = DOMAIN swaps => RefsOK'
    BY <1>2 DEF RefsOK
  <1>5. CASE tx.leg \in {"mint", "burn"} /\ TokenEffect(tx) /\ UNCHANGED settleVars
    <2>1. ClaimTypes'
      BY <1>3, <1>5, TokenParts
    <2> QED BY <1>1, <1>2, <1>4, <1>5, <2>1, AuthKept, SwapsKept DEF settleVars
  <1>6. CASE /\ tx.leg \notin {"mint", "burn"} /\ SwapEffect(tx, Works(tx, late))
             /\ UNCHANGED claimVars
    <2> DEFINE works == Works(tx, late)
    <2>0. SwapEffect(tx, works)
      BY <1>6
    <2> HIDE DEF works
    <2>1. SwapTypes' /\ DOMAIN swaps' = DOMAIN swaps
      BY <1>3, <1>6, <2>0, SwapEffectParts
    <2> QED BY <1>1, <1>2, <1>4, <1>6, <2>1, AuthKept, ClaimsKept
  <1> QED BY <1>1, <1>5, <1>6

\* Every step keeps the types.
LEMMA BaseStep == BaseInv /\ [Next]_serverVars => BaseInv'
  <1> SUFFICES ASSUME BaseInv, [Next]_serverVars PROVE BaseInv'
    OBVIOUS
  <1>1. CASE Routes
    BY <1>1, BaseRoutes
  <1>2. ASSUME NEW s \in Slots, SignerStep(s) \/ AuthStep(s) \/ ClaimStep(s) \/ SettleStep(s)
        PROVE  BaseInv'
    BY <1>2, BaseHandlers
  <1>3. ASSUME NEW late \in BOOLEAN, MineNext(late) PROVE BaseInv'
    BY <1>3, BaseMine
  <1> USE DEF BaseInv, Types
  <1>4. CASE Elsewhere
    <2>1. ASSUME NEW u \in Accounts,
                 BridgeIn(u) \/ BridgeOut(u) \/ \E amount \in {-Up, Up} : Transfer(u, amount),
                 UNCHANGED authVars, UNCHANGED settleVars
          PROVE  BaseInv'
      <3>1. ClaimTypes' /\ UNCHANGED signerVars
        BY <2>1, ElsewhereParts
      <3>2. RefsOK'
        BY <2>1, <3>1, RefsStay DEF signerVars, settleVars
      <3> QED BY <2>1, <3>1, <3>2, SignerKept, AuthKept, SwapsKept
    <2>2. ASSUME NEW t \in SwapTokens, VaultPays(t), UNCHANGED authVars, UNCHANGED claimVars
          PROVE  BaseInv'
      <3>1. SwapTypes' /\ swaps' = swaps /\ UNCHANGED signerVars
        BY <2>2, VaultPaysParts
      <3>2. RefsOK'
        BY <3>1, RefsStay DEF signerVars
      <3> QED BY <2>2, <3>1, <3>2, SignerKept, AuthKept, ClaimsKept
    <2> QED BY <1>4, <2>1, <2>2 DEF Elsewhere
  <1>5. CASE Tick /\ UNCHANGED <<claimVars, settleVars>>
    <2>1. /\ UNCHANGED <<challenges, issued, uses>> /\ UNCHANGED signerVars
          /\ UNCHANGED claimVars /\ UNCHANGED settleVars
      BY <1>5 DEF Tick
    <2>2. AuthTypes' /\ RefsOK'
      BY <2>1, RefsStay DEF AuthTypes, signerVars, settleVars
    <2> QED BY <2>1, <2>2, SignerKept, ClaimsKept, SwapsKept
  <1>6. CASE Restart
    <2>1. StopSigner /\ StopAuth /\ StopClaims /\ UNCHANGED settleVars
      BY <1>6 DEF Restart
    <2>2. SignerInv' /\ pool' = pool /\ \A s \in Slots : requests'[s] = Idle
      BY <2>1, Stopped
    <2>3. ClaimTypes' /\ AuthTypes'
      BY <2>1, StopParts, AuthStopped DEF SignerInv
    <2>4. RefsOK'
      BY <2>1, <2>2, IdleFrame DEF RefsOK, settleVars
    <2> QED BY <2>1, <2>2, <2>3, <2>4, SwapsKept
  <1>7. CASE UNCHANGED serverVars
    <2>1. /\ UNCHANGED signerVars /\ UNCHANGED authVars /\ UNCHANGED claimVars
          /\ UNCHANGED settleVars
      BY <1>7 DEF serverVars
    <2>2. RefsOK'
      BY <2>1, RefsStay DEF signerVars, settleVars
    <2> QED BY <2>1, <2>2, SignerKept, AuthKept, ClaimsKept, SwapsKept
  <1> QED BY <1>1, <1>2, <1>3, <1>4, <1>5, <1>6, <1>7 DEF Next

\* At most one transaction of the account is out, with the account's present nonce,
\* and every handler, transaction and book is of its type, whatever the requests do
\* (vault.ts:134, :156; bridgeClaims.ts:113-175).
THEOREM OneTransactionOut == Spec => []BaseInv
  BY BaseStart, BaseStep, PTL DEF Spec
-----------------------------------------------------------------------------
(* A challenge gives tokens only to verifications that saw it. *)

Held(a, n) == challenges[a] # None /\ challenges[a].nonce = n
Verifies(n) == {s \in Slots : At(s, "verify", "recover") /\ requests[s].known = n}

\* A nonce is one address's; it is used only once its challenge is gone; and who
\* is past the look at a challenge verifies for the address that has it.
AuthInv ==
  /\ \A a, b \in Addresses, n \in 1 .. MaxChallenges : Held(a, n) /\ Held(b, n) => a = b
  /\ \A n \in 1 .. MaxChallenges : n > issued => uses[n] = 0
  /\ \A a \in Addresses, n \in 1 .. MaxChallenges : Held(a, n) => uses[n] = 0
  /\ \A s \in Slots : requests[s].op = "verify" => requests[s].known \in 1 .. issued
  /\ \A s \in Slots, a \in Addresses, n \in 1 .. MaxChallenges :
         requests[s].op = "verify" /\ requests[s].known = n /\ Held(a, n)
             => a = requests[s].who
  /\ \A n \in 1 .. MaxChallenges :
         uses[n] > 0 => uses[n] + Cardinality(Verifies(n)) <= Cardinality(Slots)

\* No verification begins.
NoneVerifies == \A s \in Slots : requests'[s].op = "verify" => requests'[s] = requests[s]

\* Verifications are requests.
LEMMA VerifiesFinite ==
  ASSUME NEW n
  PROVE  /\ IsFiniteSet(Slots) /\ Cardinality(Slots) \in Nat
         /\ IsFiniteSet(Verifies(n)) /\ Cardinality(Verifies(n)) \in Nat
         /\ Cardinality(Verifies(n)) <= Cardinality(Slots)
         /\ Verifies(n) \subseteq Slots
  BY FiniteSlots, FS_Subset, FS_CardinalityType DEF Verifies

\* With fewer verifications, a nonce's are fewer.
LEMMA VerifiesFewer ==
  ASSUME NEW n, NoneVerifies
  PROVE  Cardinality(Verifies(n)') \in Nat /\ Cardinality(Verifies(n)') <= Cardinality(Verifies(n))
  <1>1. Verifies(n)' \subseteq Verifies(n)
    BY DEF Verifies, NoneVerifies, At
  <1> QED BY <1>1, VerifiesFinite, FS_Subset, FS_CardinalityType

\* A step that begins no verification and makes no challenge.
LEMMA AuthQuiet ==
  ASSUME AuthInv, AuthTypes, NoneVerifies, UNCHANGED <<uses, issued>>,
         \A a \in Addresses : challenges'[a] = None \/ challenges'[a] = challenges[a]
  PROVE  AuthInv'
  <1>1. \A a \in Addresses, n \in 1 .. MaxChallenges : Held(a, n)' => Held(a, n)
    BY DEF Held
  <1>2. \A n \in 1 .. MaxChallenges : uses[n] \in Nat
    BY DEF AuthTypes
  <1>3. ASSUME NEW n \in 1 .. MaxChallenges, uses'[n] > 0
        PROVE  uses'[n] + Cardinality(Verifies(n)') <= Cardinality(Slots)
    BY <1>2, <1>3, VerifiesFewer, VerifiesFinite DEF AuthInv
  <1>4. \A s \in Slots : requests'[s].op = "verify" => requests'[s].known \in 1 .. issued'
    BY DEF AuthInv, NoneVerifies
  <1>5. \A s \in Slots, a \in Addresses, n \in 1 .. MaxChallenges :
            requests'[s].op = "verify" /\ requests'[s].known = n /\ Held(a, n)'
                => a = requests'[s].who
    BY <1>1 DEF AuthInv, NoneVerifies
  <1> QED BY <1>1, <1>3, <1>4, <1>5 DEF AuthInv

\* A new challenge has a nonce that nobody used or saw.
LEMMA AuthCreate ==
  ASSUME AuthInv, AuthTypes, NEW a \in Addresses, CreateChallenge(a)
  PROVE  AuthInv'
  <1> DEFINE k == issued + 1
  <1>1. /\ UNCHANGED <<requests, uses>> /\ issued' = k /\ k \in 1 .. MaxChallenges
        /\ challenges'[a].nonce = k /\ issued \in Nat
        /\ \A b \in Addresses : b # a => challenges'[b] = None \/ challenges'[b] = challenges[b]
    BY ChallengeMade, KeptParts DEF signerVars
  <1>2. \A b \in Addresses : challenges[b] = None \/ challenges[b].nonce \in 1 .. issued
    BY DEF AuthTypes
  <1>3. \A b \in Addresses, n \in 1 .. MaxChallenges :
            Held(b, n)' => (b = a /\ n = k) \/ (b # a /\ Held(b, n) /\ n \in 1 .. issued)
    BY <1>1, <1>2 DEF Held
  <1>4. uses[k] = 0 /\ \A n \in 1 .. issued : n # k
    BY <1>1 DEF AuthInv
  <1> HIDE DEF k
  <1>5. \A b, c \in Addresses, n \in 1 .. MaxChallenges : Held(b, n)' /\ Held(c, n)' => b = c
    BY <1>3, <1>4 DEF AuthInv
  <1>6. \A b \in Addresses, n \in 1 .. MaxChallenges : Held(b, n)' => uses'[n] = 0
    BY <1>1, <1>3, <1>4 DEF AuthInv
  <1>7. \A n \in 1 .. MaxChallenges : n > issued' => uses'[n] = 0
    BY <1>1 DEF AuthInv, k
  <1>8. \A s \in Slots : requests'[s].op = "verify" => requests'[s].known \in 1 .. issued'
    BY <1>1 DEF AuthInv, k
  <1>9. ASSUME NEW s \in Slots, NEW b \in Addresses, NEW n \in 1 .. MaxChallenges,
               requests'[s].op = "verify", requests'[s].known = n, Held(b, n)'
        PROVE  b = requests'[s].who
    <2>1. requests[s].op = "verify" /\ requests[s].known = n /\ n \in 1 .. issued
      BY <1>1, <1>9 DEF AuthInv
    <2>2. Held(b, n)
      BY <1>3, <1>4, <1>9, <2>1
    <2> QED BY <1>1, <2>1, <2>2 DEF AuthInv
  <1>10. \A n \in 1 .. MaxChallenges : uses'[n] > 0 =>
             uses'[n] + Cardinality(Verifies(n)') <= Cardinality(Slots)
    BY <1>1 DEF AuthInv, Verifies, At
  <1> QED BY <1>5, <1>6, <1>7, <1>8, <1>9, <1>10 DEF AuthInv

\* A verification begins with a challenge that is there, so not used.
LEMMA AuthVerify ==
  ASSUME SignerInv, AuthInv, AuthTypes, NEW s \in Slots, NEW a \in Addresses,
         NEW signer \in Addresses, NEW n \in 1 .. issued, VerifyChallenge(s, a, n, signer)
  PROVE  AuthInv'
  <1>1. \E r \in VerifyFrames : Only(s, r) /\ r.who = a /\ r.known = n
    BY Verifying
  <1>2. PICK r \in VerifyFrames : Only(s, r) /\ r.who = a /\ r.known = n
    BY <1>1
  <1>3. /\ UNCHANGED <<uses, issued>> /\ Held(a, n)
        /\ \A b \in Addresses : challenges'[b] = None \/ challenges'[b] = challenges[b]
    BY VerifyParts DEF Held
  <1>4. \A b \in Addresses, k \in 1 .. MaxChallenges : Held(b, k)' => Held(b, k)
    BY <1>3 DEF Held
  <1>5. n \in 1 .. MaxChallenges
    BY ChallengeBound DEF AuthTypes
  <1>6. ASSUME NEW k \in 1 .. MaxChallenges, uses'[k] > 0
        PROVE  uses'[k] + Cardinality(Verifies(k)') <= Cardinality(Slots)
    <2>1. uses[k] > 0 /\ k # n /\ uses[k] \in Nat
      BY <1>3, <1>5, <1>6 DEF AuthInv, AuthTypes
    <2>2. Verifies(k)' \subseteq Verifies(k)
      BY <1>2, <2>1 DEF Verifies, At, Only
    <2>3. Cardinality(Verifies(k)') \in Nat /\ Cardinality(Verifies(k)') <= Cardinality(Verifies(k))
      BY <2>2, VerifiesFinite, FS_Subset, FS_CardinalityType
    <2> QED BY <1>3, <2>1, <2>3, VerifiesFinite DEF AuthInv
  <1>7. \A z \in Slots : requests'[z].op = "verify" => requests'[z].known \in 1 .. issued'
    BY <1>2, <1>3 DEF AuthInv, Only
  <1>8. ASSUME NEW z \in Slots, NEW b \in Addresses, NEW k \in 1 .. MaxChallenges,
               requests'[z].op = "verify", requests'[z].known = k, Held(b, k)'
        PROVE  b = requests'[z].who
    <2>1. CASE z # s
      BY <1>2, <1>4, <1>8, <2>1 DEF AuthInv, Only
    <2>2. CASE z = s
      BY <1>2, <1>3, <1>4, <1>8, <2>2 DEF AuthInv, Only
    <2> QED BY <2>1, <2>2
  <1> QED BY <1>3, <1>4, <1>6, <1>7, <1>8 DEF AuthInv

\* A recovery uses the nonce of a challenge that it takes away.
LEMMA AuthRecover ==
  ASSUME SignerInv, AuthInv, AuthTypes, NEW s \in Slots, RecoverSigner(s),
         NEW f, f = requests[s], NEW n, n = f.known
  PROVE  AuthInv'
  <1>1. /\ Only(s, Idle) /\ UNCHANGED issued /\ AuthTypes'
        /\ f \in VerifyFrames /\ f.op = "verify" /\ f.at = "recover"
        /\ challenges'[f.who] = None
        /\ \A a \in Addresses : a # f.who => challenges'[a] = challenges[a]
        /\ \A k \in 1 .. MaxChallenges : k # n => uses'[k] = uses[k]
        /\ uses'[n] = uses[n] \/ uses'[n] = uses[n] + 1
    BY Recovered
  <1>2. n \in 1 .. MaxChallenges /\ n \in 1 .. issued /\ issued \in Nat
    BY <1>1, KeptParts DEF VerifyFrames, AuthInv
  <1>3. \A a \in Addresses, k \in 1 .. MaxChallenges : Held(a, k)' => Held(a, k) /\ k # n
    BY <1>1, <1>2 DEF Held, AuthInv
  <1>4. NoneVerifies
    BY <1>1, IdleFrame DEF NoneVerifies, Only
  <1>5. \A k \in 1 .. MaxChallenges : uses[k] \in Nat
    BY DEF AuthTypes
  <1>6. ASSUME NEW k \in 1 .. MaxChallenges, k # n, uses'[k] > 0
        PROVE  uses'[k] + Cardinality(Verifies(k)') <= Cardinality(Slots)
    BY <1>1, <1>4, <1>5, <1>6, VerifiesFewer, VerifiesFinite DEF AuthInv
  <1>7. uses'[n] > 0 => uses'[n] + Cardinality(Verifies(n)') <= Cardinality(Slots)
    <2>0. s \in Verifies(n)
      BY <1>1 DEF Verifies, At
    <2>1. s \in Verifies(n) /\ Verifies(n)' = Verifies(n) \ {s}
      BY <1>1, <2>0, IdleFrame DEF Verifies, At, Only
    <2>2. Cardinality(Verifies(n)') = Cardinality(Verifies(n)) - 1
      <3>1. IsFiniteSet(Verifies(n))
        BY VerifiesFinite
      <3>2. Cardinality(Verifies(n) \ {s}) = Cardinality(Verifies(n)) - 1
        BY <2>1, <3>1, FS_RemoveElement
      <3> QED BY <2>1, <3>2
    <2>3. uses[n] = 0 \/ uses[n] + Cardinality(Verifies(n)) <= Cardinality(Slots)
      BY <1>2, <1>5 DEF AuthInv
    <2>4. /\ Cardinality(Verifies(n)) \in Nat /\ Cardinality(Slots) \in Nat
          /\ Cardinality(Verifies(n)) <= Cardinality(Slots)
      BY VerifiesFinite
    <2> QED BY <1>1, <1>2, <1>5, <2>2, <2>3, <2>4
  <1>8. \A k \in 1 .. MaxChallenges : k > issued' => uses'[k] = 0
    BY <1>1, <1>2 DEF AuthInv
  <1>9. \A a \in Addresses, k \in 1 .. MaxChallenges : Held(a, k)' => uses'[k] = 0
    BY <1>1, <1>3 DEF AuthInv
  <1>10. \A z \in Slots : requests'[z].op = "verify" => requests'[z].known \in 1 .. issued'
    BY <1>1, <1>4 DEF AuthInv, NoneVerifies
  <1>11. \A z \in Slots, a \in Addresses, k \in 1 .. MaxChallenges :
             requests'[z].op = "verify" /\ requests'[z].known = k /\ Held(a, k)'
                 => a = requests'[z].who
    BY <1>3, <1>4 DEF AuthInv, NoneVerifies
  <1> QED BY <1>3, <1>6, <1>7, <1>8, <1>9, <1>10, <1>11 DEF AuthInv

\* A frame that is no verification takes the place of another.
LEMMA NoVerification ==
  ASSUME NEW s \in Slots, NEW r, Only(s, r), r.op # "verify"
  PROVE  NoneVerifies
  BY DEF NoneVerifies, Only

\* Who sends does not verify.
LEMMA SendersDoNotVerify ==
  /\ \A r \in SendFrames \cup BalanceFrames : r.op # "verify"
  /\ \A r \in SwapFrames \cup ClaimFrames \cup RedeemFrames : r.op # "verify"
  /\ Idle.op # "verify"
  BY DEF SendFrames, ClaimFrames, RedeemFrames, SwapFrames, BalanceFrames, Idle

\* Everything but the challenge's own routes leaves the sessions alone, or forgets
\* challenges.
LEMMA AuthAlone ==
  ASSUME BaseInv, UNCHANGED authVars, NoneVerifies, AuthInv
  PROVE  AuthInv'
  BY AuthQuiet DEF authVars, BaseInv, Types

\* No challenge, no verification and no token at the start.
LEMMA AuthStarts == Init => AuthInv
  <1> SUFFICES ASSUME Init PROVE AuthInv
    OBVIOUS
  <1>1. /\ \A a \in Addresses : challenges[a] = None
        /\ \A n \in 1 .. MaxChallenges : uses[n] = 0
        /\ \A s \in Slots : requests[s].op # "verify"
    BY SendersDoNotVerify DEF Init, SignerInit, AuthInit
  <1> QED BY <1>1 DEF AuthInv, Held

\* A route keeps what holds of challenges.
LEMMA AuthRoutes == BaseInv /\ AuthInv /\ Routes => AuthInv'
  <1> SUFFICES ASSUME BaseInv, AuthInv, Routes PROVE AuthInv'
    OBVIOUS
  <1> USE DEF BaseInv, Types
  <1>1. ASSUME NEW a \in Addresses, PostAuthNonce(a) PROVE AuthInv'
    BY <1>1, AuthCreate DEF PostAuthNonce
  <1>2. ASSUME NEW s \in Slots, NEW a \in Addresses, NEW signer \in Addresses,
               NEW n \in 1 .. issued, PostAuthVerify(s, a, n, signer)
        PROVE  AuthInv'
    <2>1. VerifyChallenge(s, a, n, signer)
      BY <1>2 DEF PostAuthVerify
    <2> QED BY <2>1, AuthVerify
  <1>3. ASSUME NEW token \in sessions, PostAuthRefresh(token) PROVE AuthInv'
    <2>1. UNCHANGED <<challenges, issued, uses, requests>>
      BY <1>3 DEF PostAuthRefresh, RefreshToken, signerVars
    <2> QED BY <2>1, AuthQuiet DEF NoneVerifies
  <1>4. ASSUME NEW s \in Slots, NEW u \in Accounts, PostBridgeClaim(s, u) PROVE AuthInv'
    <2>1. Claim(s, u) /\ UNCHANGED authVars
      BY <1>4 DEF PostBridgeClaim
    <2>2. \E r \in ClaimFrames : Only(s, r)
      BY <2>1, Claimed
    <2> QED BY <2>1, <2>2, SendersDoNotVerify, NoVerification, AuthAlone
  <1>5. ASSUME NEW s \in Slots, NEW u \in Accounts, NEW amount \in RedeemAmounts,
               PostBridgeRedeem(s, u, amount)
        PROVE  AuthInv'
    <2>1. Redeem(s, u, amount) /\ UNCHANGED authVars
      BY <1>5 DEF PostBridgeRedeem
    <2>2. \E r \in BalanceFrames : Only(s, r)
      BY <2>1, Redeemed
    <2> QED BY <2>1, <2>2, SendersDoNotVerify, NoVerification, AuthAlone
  <1>6. ASSUME NEW s \in Slots, NEW u \in Accounts, NEW in \in SwapTokens,
               NEW amount \in SwapAmounts, PostSwapExecute(s, u, in, amount)
        PROVE  AuthInv'
    <2>1. SettleInstantLocalSwap(s, in, amount) /\ UNCHANGED authVars
      BY <1>6 DEF PostSwapExecute
    <2>2. \E r \in SwapFrames : Only(s, r)
      BY <2>1, SwapStarted
    <2> QED BY <2>1, <2>2, SendersDoNotVerify, NoVerification, AuthAlone
  <1> QED BY <1>1, <1>2, <1>3, <1>4, <1>5, <1>6 DEF Routes

\* So does a handler that resumes.
LEMMA AuthHandlers ==
  ASSUME BaseInv, AuthInv, NEW s \in Slots,
         SignerStep(s) \/ AuthStep(s) \/ ClaimStep(s) \/ SettleStep(s)
  PROVE  AuthInv'
  <1> USE DEF BaseInv, Types
  <1> DEFINE f == requests[s]
  <1>1. CASE SignerStep(s)
    <2>1. /\ UNCHANGED authVars /\ f \in SendFrames
          /\ \E r \in Frames : SignerMove(s, f, r)
      BY <1>1, SignerMoves
    <2>2. PICK r \in Frames : SignerMove(s, f, r)
      BY <2>1
    <2>3. Only(s, r) /\ r.op # "verify"
      BY <2>1, <2>2, SendersDoNotVerify DEF SignerMove, Continues
    <2> QED BY <2>1, <2>3, NoVerification, AuthAlone
  <1>2. CASE AuthStep(s)
    BY <1>2, AuthRecover DEF AuthStep
  <1>3. CASE ClaimStep(s)
    <2>1. UNCHANGED authVars /\ (CheckRedeem(s) \/ RecordClaim(s) \/ RecordRedeem(s))
      BY <1>3 DEF ClaimStep
    <2>2. Only(s, Idle) \/ \E r \in RedeemFrames : Only(s, r)
      BY <2>1, RedeemChecked, ClaimRecorded, RedeemRecorded
    <2> QED BY <2>1, <2>2, SendersDoNotVerify, NoVerification, AuthAlone
  <1>4. CASE SettleStep(s)
    <2>1. UNCHANGED authVars /\ (SignWithdrawal(s) \/ Book(s))
      BY <1>4 DEF SettleStep
    <2>2. Only(s, Idle) \/ \E r \in SwapFrames : Only(s, r)
      BY <2>1, WithdrawalSigned, Booked
    <2> QED BY <2>1, <2>2, SendersDoNotVerify, NoVerification, AuthAlone
  <1> QED BY <1>1, <1>2, <1>3, <1>4

\* And every other step.
LEMMA AuthKeeps == BaseInv /\ AuthInv /\ [Next]_serverVars => AuthInv'
  <1> SUFFICES ASSUME BaseInv, AuthInv, [Next]_serverVars PROVE AuthInv'
    OBVIOUS
  <1> USE DEF BaseInv, Types
  <1>1. CASE Routes
    BY <1>1, AuthRoutes
  <1>2. ASSUME NEW s \in Slots, SignerStep(s) \/ AuthStep(s) \/ ClaimStep(s) \/ SettleStep(s)
        PROVE  AuthInv'
    BY <1>2, AuthHandlers
  <1>3. ASSUME NEW late \in BOOLEAN, MineNext(late) PROVE AuthInv'
    <2>1. PICK tx \in pool : Mine(tx, Works(tx, late)) /\ UNCHANGED authVars
      BY <1>3 DEF MineNext
    <2>2. /\ \A s \in Slots : requests[s].at # "receipt" => requests'[s] = requests[s]
          /\ \A s \in Slots : requests[s].at = "receipt" => requests'[s] \in SendFrames
      BY <2>1, Mined
    <2>3. NoneVerifies
      BY <2>2, SendersDoNotVerify DEF NoneVerifies
    <2> QED BY <2>1, <2>3, AuthAlone
  <1>4. CASE Elsewhere
    <2>1. UNCHANGED authVars /\ UNCHANGED requests
      BY <1>4 DEF Elsewhere, BridgeIn, BridgeOut, Transfer, VaultPays, signerVars
    <2> QED BY <2>1, AuthAlone DEF NoneVerifies
  <1>5. CASE Tick
    <2>1. UNCHANGED <<challenges, issued, uses, requests>>
      BY <1>5 DEF Tick, signerVars
    <2> QED BY <2>1, AuthQuiet DEF NoneVerifies
  <1>6. CASE Restart
    <2>1. StopSigner /\ StopAuth
      BY <1>6 DEF Restart
    <2>2. NoneVerifies
      BY <2>1, Stopped, SendersDoNotVerify DEF NoneVerifies
    <2> QED BY <2>1, <2>2, AuthStopped, AuthQuiet
  <1>7. CASE UNCHANGED serverVars
    <2>1. UNCHANGED authVars /\ UNCHANGED requests
      BY <1>7 DEF serverVars, signerVars
    <2> QED BY <2>1, AuthAlone DEF NoneVerifies
  <1> QED BY <1>1, <1>2, <1>3, <1>4, <1>5, <1>6, <1>7 DEF Next

\* A challenge that gave a token is gone, and the tokens it gave are no more than the
\* requests at one time (auth.ts:75).
THEOREM ChallengesAreSpent == Spec => []ChallengesUsedOnce
  <1>1. Init => BaseInv /\ AuthInv
    BY BaseStart, AuthStarts
  <1>2. BaseInv /\ AuthInv /\ [Next]_serverVars => BaseInv' /\ AuthInv'
    BY BaseStep, AuthKeeps
  <1>3. BaseInv /\ AuthInv => ChallengesUsedOnce
    <2> SUFFICES ASSUME BaseInv, AuthInv, NEW n \in 1 .. issued, uses[n] > 0
                 PROVE  /\ \A a \in Addresses : challenges[a] = None \/ challenges[a].nonce # n
                        /\ uses[n] + Cardinality({s \in Slots : At(s, "verify", "recover")
                                                                /\ requests[s].known = n})
                               <= Cardinality(Slots)
      BY DEF ChallengesUsedOnce
    <2>1. n \in 1 .. MaxChallenges
      BY ChallengeBound DEF BaseInv, Types, AuthTypes
    <2>2. uses[n] + Cardinality(Verifies(n)) <= Cardinality(Slots)
      BY <2>1 DEF AuthInv
    <2>3. \A a \in Addresses : ~Held(a, n)
      BY <2>1 DEF AuthInv
    <2> QED BY <2>2, <2>3 DEF Held, Verifies
  <1> QED BY <1>1, <1>2, <1>3, PTL DEF Spec
-----------------------------------------------------------------------------
(* The matcher's own transfers do not revert. *)

\* A transfer that is out, or that its handler is about to send with the account's
\* nonce, has what it needs: only a transaction of the account takes from its wallet.
TransferInv ==
  /\ silent \subseteq {"burn", "withdraw"}
  /\ \A tx \in pool : tx.leg = "transfer" => wallet[Other(tx.who)] >= tx.amount
  /\ \A s \in Slots :
         requests[s].at = "send" /\ requests[s].leg = "transfer"
             /\ requests[s].nonce = account
             => wallet[Other(requests[s].who)] >= requests[s].amount

\* A step that neither mines nor sends.
LEMMA TransferQuiet ==
  ASSUME TransferInv, UNCHANGED <<silent, pool, account, wallet>>,
         \A s \in Slots : requests'[s].at = "send" => requests'[s] = requests[s]
  PROVE  TransferInv'
  BY DEF TransferInv

\* A frame that is not about to send takes the place of another.
LEMMA NoSend ==
  ASSUME NEW s \in Slots, NEW r, Only(s, r), r.at # "send"
  PROVE  \A z \in Slots : requests'[z].at = "send" => requests'[z] = requests[z]
  BY DEF Only

\* A handler's step on the account: what it sends worked when it was estimated, and
\* with the nonce of that time.
LEMMA TransferSent ==
  ASSUME SignerInv, TransferInv, NEW s \in Slots, SignerStep(s)
  PROVE  TransferInv'
  <1> DEFINE f == requests[s]
  <1>1. /\ f \in SendFrames /\ account' = account /\ silent' = silent
        /\ UNCHANGED settleVars /\ \E r \in Frames : SignerMove(s, f, r)
    BY SignerMoves
  <1>2. PICK r \in Frames : SignerMove(s, f, r)
    BY <1>1
  <1>3. wallet' = wallet
    BY <1>1 DEF settleVars
  <1>4. ASSUME NEW z \in Slots, requests'[z].at = "send", requests'[z].leg = "transfer",
               requests'[z].nonce = account'
        PROVE  wallet'[Other(requests'[z].who)] >= requests'[z].amount
    <2>1. CASE z = s
      BY <1>2, <1>3, <1>4, <2>1 DEF SignerMove, Only
    <2>2. CASE z # s
      BY <1>1, <1>2, <1>3, <1>4, <2>2 DEF SignerMove, Only, TransferInv
    <2> QED BY <2>1, <2>2
  <1>5. ASSUME NEW tx \in pool', tx.leg = "transfer"
        PROVE  wallet'[Other(tx.who)] >= tx.amount
    <2>1. CASE pool' = pool
      BY <1>3, <1>5, <2>1 DEF TransferInv
    <2>2. CASE f.at = "send" /\ f.nonce = account /\ pool' = {Sent(f)}
      <3>1. tx.leg = f.leg /\ tx.who = f.who /\ tx.amount = f.amount
        BY <1>1, <1>5, <2>2, SendFrameParts
      <3> QED BY <1>3, <1>5, <2>2, <3>1 DEF TransferInv
    <2> QED BY <1>2, <2>1, <2>2 DEF SignerMove
  <1> QED BY <1>1, <1>4, <1>5 DEF TransferInv

\* A transaction is mined: a transfer works, and whoever is about to send is late.
LEMMA TransferMined ==
  ASSUME SignerInv, TransferInv, NEW late \in BOOLEAN, MineNext(late)
  PROVE  TransferInv'
  <1>1. PICK tx \in pool : Mine(tx, Works(tx, late))
    BY DEF MineNext
  <1>2. /\ pool' = {} /\ account' = account + 1 /\ tx \in TokenTxs \cup SwapTxs
        /\ \A s \in Slots : requests[s].at # "receipt" => requests'[s] = requests[s]
        /\ \A s \in Slots : requests[s].at = "receipt" => requests'[s].at = "mined"
    BY <1>1, Mined
  <1>3. ~Works(tx, late) => tx.leg \in {"burn", "withdraw"}
    <2>1. tx.leg \in {"mint", "burn", "transfer", "withdraw"}
      BY <1>2 DEF TokenTxs, SwapTxs
    <2>2. tx.leg = "mint" => Works(tx, late)
      BY DEF Works, TokenWorks
    <2>3. tx.leg = "transfer" => Works(tx, late)
      BY <1>1 DEF Works, SwapWorks, TransferInv
    <2> QED BY <2>1, <2>2, <2>3
  <1>4. silent' = silent \/ (~Works(tx, late) /\ silent' = silent \cup {tx.leg})
    BY <1>1 DEF Mine
  <1>5. silent' \subseteq {"burn", "withdraw"}
    BY <1>3, <1>4 DEF TransferInv
  <1>6. ASSUME NEW s \in Slots, requests'[s].at = "send" PROVE requests'[s].nonce # account'
    <2>1. requests'[s] = requests[s] /\ requests[s].at = "send"
      BY <1>2, <1>6
    <2>2. requests[s] \in SendFrames /\ requests[s].nonce <= account /\ account \in Nat
      BY <2>1, FrameAt DEF SignerInv, FramesOK, WaitOK, SendPcs, Sending
    <2>3. requests[s].nonce \in Nat
      BY <2>2, SendFrameParts
    <2> QED BY <1>2, <2>1, <2>2, <2>3
  <1> QED BY <1>2, <1>5, <1>6 DEF TransferInv

\* Nothing is sent or about to be at the start.
LEMMA TransferStarts == Init => TransferInv
  BY IdleFrame DEF Init, SignerInit, TransferInv

\* Every step keeps the transfers covered.
LEMMA TransferKeeps == BaseInv /\ TransferInv /\ [Next]_serverVars => TransferInv'
  <1> SUFFICES ASSUME BaseInv, TransferInv, [Next]_serverVars PROVE TransferInv'
    OBVIOUS
  <1> USE DEF BaseInv, Types
  <1>1. ASSUME NEW a \in Addresses, PostAuthNonce(a) PROVE TransferInv'
    BY <1>1, TransferQuiet DEF PostAuthNonce, CreateChallenge, signerVars, settleVars
  <1>2. ASSUME NEW s \in Slots, NEW a \in Addresses, NEW signer \in Addresses,
               NEW n \in 1 .. issued, PostAuthVerify(s, a, n, signer)
        PROVE  TransferInv'
    <2>1. VerifyChallenge(s, a, n, signer) /\ UNCHANGED <<silent, pool, account, wallet>>
      BY <1>2 DEF PostAuthVerify, VerifyChallenge, settleVars
    <2>2. \E r \in VerifyFrames : Only(s, r)
      BY <2>1, Verifying
    <2>3. \A r \in VerifyFrames : r.at # "send"
      BY DEF VerifyFrames
    <2> QED BY <2>1, <2>2, <2>3, NoSend, TransferQuiet
  <1>3. ASSUME NEW token \in sessions, PostAuthRefresh(token) PROVE TransferInv'
    BY <1>3, TransferQuiet DEF PostAuthRefresh, RefreshToken, signerVars, settleVars
  <1>4. ASSUME NEW s \in Slots, NEW u \in Accounts, PostBridgeClaim(s, u) PROVE TransferInv'
    <2>1. Claim(s, u) /\ UNCHANGED <<silent, pool, account, wallet>>
      BY <1>4 DEF PostBridgeClaim, Claim, Ask, settleVars
    <2>2. \E r \in ClaimFrames : Only(s, r) /\ r.at = "count"
      BY <2>1, Claimed
    <2> QED BY <2>1, <2>2, NoSend, TransferQuiet
  <1>5. ASSUME NEW s \in Slots, NEW u \in Accounts, NEW amount \in RedeemAmounts,
               PostBridgeRedeem(s, u, amount)
        PROVE  TransferInv'
    <2>1. Redeem(s, u, amount) /\ UNCHANGED <<silent, pool, account, wallet>>
      BY <1>5 DEF PostBridgeRedeem, Redeem, Ask, settleVars
    <2>2. \E r \in BalanceFrames : Only(s, r)
      BY <2>1, Redeemed
    <2>3. \A r \in BalanceFrames : r.at # "send"
      BY DEF BalanceFrames
    <2> QED BY <2>1, <2>2, <2>3, NoSend, TransferQuiet
  <1>6. ASSUME NEW s \in Slots, NEW u \in Accounts, NEW in \in SwapTokens,
               NEW amount \in SwapAmounts, PostSwapExecute(s, u, in, amount)
        PROVE  TransferInv'
    <2>1. /\ SettleInstantLocalSwap(s, in, amount)
          /\ UNCHANGED <<silent, pool, account, wallet>>
      BY <1>6 DEF PostSwapExecute, SettleInstantLocalSwap
    <2>2. \E r \in SwapFrames : Only(s, r) /\ r.at = "count"
      BY <2>1, SwapStarted
    <2> QED BY <2>1, <2>2, NoSend, TransferQuiet
  <1>7. ASSUME NEW s \in Slots, SignerStep(s) PROVE TransferInv'
    BY <1>7, TransferSent
  <1>8. ASSUME NEW s \in Slots, AuthStep(s) PROVE TransferInv'
    <2>1. RecoverSigner(s) /\ UNCHANGED <<silent, pool, account, wallet>>
      BY <1>8 DEF AuthStep, RecoverSigner, settleVars
    <2>2. Only(s, Idle)
      BY <2>1, Recovered
    <2> QED BY <2>1, <2>2, IdleFrame, NoSend, TransferQuiet
  <1>9. ASSUME NEW s \in Slots, ClaimStep(s) PROVE TransferInv'
    <2>1. /\ CheckRedeem(s) \/ RecordClaim(s) \/ RecordRedeem(s)
          /\ UNCHANGED <<silent, pool, account, wallet>>
      BY <1>9 DEF ClaimStep, CheckRedeem, RecordClaim, RecordRedeem, settleVars
    <2>2. Only(s, Idle) \/ \E r \in RedeemFrames : Only(s, r) /\ r.at = "count"
      BY <2>1, RedeemChecked, ClaimRecorded, RedeemRecorded
    <2> QED BY <2>1, <2>2, IdleFrame, NoSend, TransferQuiet
  <1>10. ASSUME NEW s \in Slots, SettleStep(s) PROVE TransferInv'
    <2>1. /\ SignWithdrawal(s) \/ Book(s)
          /\ UNCHANGED <<silent, pool, account, wallet>>
      BY <1>10 DEF SettleStep, SignWithdrawal, Book, settleVars
    <2>2. SignWithdrawal(s) => \E r \in SwapFrames : Only(s, r) /\ r.at = "count"
      BY WithdrawalSigned
    <2>3. Book(s) => Only(s, Idle)
      BY Booked
    <2> QED BY <2>1, <2>2, <2>3, IdleFrame, NoSend, TransferQuiet
  <1>11. ASSUME NEW late \in BOOLEAN, MineNext(late) PROVE TransferInv'
    BY <1>11, TransferMined
  <1>12. CASE Elsewhere
    BY <1>12, TransferQuiet
       DEF Elsewhere, BridgeIn, BridgeOut, Transfer, VaultPays, signerVars, settleVars
  <1>13. CASE Tick /\ UNCHANGED <<claimVars, settleVars>>
    BY <1>13, TransferQuiet DEF Tick, signerVars, settleVars
  <1>14. CASE Restart
    <2>1. StopSigner /\ UNCHANGED wallet
      BY <1>14 DEF Restart, settleVars
    <2>2. /\ UNCHANGED <<account, pool, silent>>
          /\ \A s \in Slots : requests'[s] = Idle
      BY <2>1, Stopped
    <2> QED BY <2>1, <2>2, IdleFrame, TransferQuiet
  <1>15. CASE UNCHANGED serverVars
    BY <1>15, TransferQuiet DEF serverVars, signerVars, settleVars
  <1> QED BY <1>1, <1>2, <1>3, <1>4, <1>5, <1>6, <1>7, <1>8, <1>9, <1>10, <1>11, <1>12,
             <1>13, <1>14, <1>15 DEF Next, Routes

\* No transfer of the matcher reverts unseen, whatever is prepared at one time
\* (vault.ts:134, :156).
THEOREM TransfersDoNotRevert == Spec => []OnlyOthersRevert
  <1>1. Init => BaseInv /\ TransferInv
    BY BaseStart, TransferStarts
  <1>2. BaseInv /\ TransferInv /\ [Next]_serverVars => BaseInv' /\ TransferInv'
    BY BaseStep, TransferKeeps
  <1>3. TransferInv => OnlyOthersRevert
    BY DEF TransferInv, OnlyOthersRevert
  <1> QED BY <1>1, <1>2, <1>3, PTL DEF Spec
-----------------------------------------------------------------------------
(* The vault covers the ledger. *)

\* What a swap that is not booked has brought into the vault, and taken out of it.
DueOf(o, t) ==
  IF (o.out = t /\ "transfer" \in o.done) /\ o.booked = FALSE THEN o.amount ELSE 0
BackOf(o, t) ==
  IF (o.in = t /\ "withdraw" \in o.done) /\ o.booked = FALSE THEN o.amount ELSE 0

DueSum(q, t) == SumFunctionOnSet([i \in DOMAIN q |-> DueOf(q[i], t)], DOMAIN q)
BackSum(q, t) == SumFunctionOnSet([i \in DOMAIN q |-> BackOf(q[i], t)], DOMAIN q)

\* A swap's parts.
LEMMA SwapParts ==
  ASSUME NEW q \in Seq(Swaps)
  PROVE  /\ IsFiniteSet(DOMAIN q)
         /\ \A i \in DOMAIN q :
               /\ q[i].in \in SwapTokens /\ q[i].out \in SwapTokens
               /\ q[i].amount \in Nat /\ q[i].amount \in Int
               /\ q[i].booked \in BOOLEAN
               /\ q[i].done \subseteq {"transfer", "withdraw"}
  <1>1. DOMAIN q = 1 .. Len(q) /\ Len(q) \in Nat /\ \A i \in DOMAIN q : q[i] \in Swaps
    BY SwapDomain
  <1>2. IsFiniteSet(DOMAIN q)
    BY <1>1, FS_Interval
  <1> QED BY <1>1, <1>2, InputsNat DEF Swaps

\* Each part of a sum is an amount.
LEMMA PartsNat ==
  ASSUME NEW q \in Seq(Swaps), NEW i \in DOMAIN q, NEW t
  PROVE  /\ DueOf(q[i], t) \in Nat /\ BackOf(q[i], t) \in Nat
         /\ DueOf(q[i], t) \in Int /\ BackOf(q[i], t) \in Int
  BY SwapParts DEF DueOf, BackOf

\* So are the sums.
LEMMA SumsNat ==
  ASSUME NEW q \in Seq(Swaps), NEW t
  PROVE  DueSum(q, t) \in Nat /\ BackSum(q, t) \in Nat
  <1> DEFINE f == [i \in DOMAIN q |-> DueOf(q[i], t)]
             g == [i \in DOMAIN q |-> BackOf(q[i], t)]
  <1>1. IsFiniteSet(DOMAIN q) /\ \A i \in DOMAIN q : f[i] \in Nat /\ g[i] \in Nat
    BY SwapParts, PartsNat
  <1>2. DueSum(q, t) = SumFunctionOnSet(f, DOMAIN q) /\ BackSum(q, t) = SumFunctionOnSet(g, DOMAIN q)
    BY DEF DueSum, BackSum
  <1> HIDE DEF f, g
  <1>3. SumFunctionOnSet(f, DOMAIN q) \in Nat /\ SumFunctionOnSet(g, DOMAIN q) \in Nat
    BY <1>1, SumNat
  <1> QED BY <1>2, <1>3

\* A swap that changes changes the sums by its parts.
LEMMA SumsChange ==
  ASSUME NEW q \in Seq(Swaps), NEW r \in Seq(Swaps), DOMAIN r = DOMAIN q,
         NEW i \in DOMAIN q, \A k \in DOMAIN q : k # i => r[k] = q[k], NEW t
  PROVE  /\ DueSum(r, t) = DueSum(q, t) + (DueOf(r[i], t) - DueOf(q[i], t))
         /\ BackSum(r, t) = BackSum(q, t) + (BackOf(r[i], t) - BackOf(q[i], t))
  <1> DEFINE S == DOMAIN q
             f == [k \in S |-> DueOf(q[k], t)]
             g == [k \in S |-> DueOf(r[k], t)]
             b == [k \in S |-> BackOf(q[k], t)]
             c == [k \in S |-> BackOf(r[k], t)]
  <1>1. /\ IsFiniteSet(S)
        /\ \A k \in S : f[k] \in Int /\ b[k] \in Int
        /\ g[i] \in Int /\ c[i] \in Int
    BY SwapParts, PartsNat
  <1>2. /\ \A k \in S : k # i => g[k] = f[k] /\ c[k] = b[k]
        /\ f[i] = DueOf(q[i], t) /\ g[i] = DueOf(r[i], t)
        /\ b[i] = BackOf(q[i], t) /\ c[i] = BackOf(r[i], t)
    OBVIOUS
  <1>3. /\ DueSum(q, t) = SumFunctionOnSet(f, S) /\ DueSum(r, t) = SumFunctionOnSet(g, S)
        /\ BackSum(q, t) = SumFunctionOnSet(b, S) /\ BackSum(r, t) = SumFunctionOnSet(c, S)
    BY DEF DueSum, BackSum
  <1> HIDE DEF f, g, b, c
  <1>4. SumFunctionOnSet(g, S) = SumFunctionOnSet(f, S) + (g[i] - f[i])
    BY <1>1, <1>2, SumChange
  <1>5. SumFunctionOnSet(c, S) = SumFunctionOnSet(b, S) + (c[i] - b[i])
    BY <1>1, <1>2, SumChange
  <1> QED BY <1>2, <1>3, <1>4, <1>5

\* A new swap has no part in them.
LEMMA SumsGrow ==
  ASSUME NEW q \in Seq(Swaps), NEW r \in Seq(Swaps), NEW n, n \notin DOMAIN q,
         DOMAIN r = DOMAIN q \cup {n}, r[n].done = {},
         \A k \in DOMAIN q : r[k] = q[k], NEW t
  PROVE  DueSum(r, t) = DueSum(q, t) /\ BackSum(r, t) = BackSum(q, t)
  <1> DEFINE S == DOMAIN q
             f == [k \in S |-> DueOf(q[k], t)]
             g == [k \in DOMAIN r |-> DueOf(r[k], t)]
             b == [k \in S |-> BackOf(q[k], t)]
             c == [k \in DOMAIN r |-> BackOf(r[k], t)]
  <1>1. /\ IsFiniteSet(S)
        /\ \A k \in S : f[k] \in Int /\ b[k] \in Int
    BY SwapParts, PartsNat
  <1>2. g[n] = 0 /\ c[n] = 0
    BY DEF DueOf, BackOf
  <1>3. \A k \in S : g[k] = f[k] /\ c[k] = b[k]
    OBVIOUS
  <1>4. /\ DueSum(q, t) = SumFunctionOnSet(f, S)
        /\ DueSum(r, t) = SumFunctionOnSet(g, S \cup {n})
        /\ BackSum(q, t) = SumFunctionOnSet(b, S)
        /\ BackSum(r, t) = SumFunctionOnSet(c, S \cup {n})
    BY DEF DueSum, BackSum
  <1> HIDE DEF f, g, b, c, S
  <1>5. n \notin S
    BY DEF S
  <1>6. /\ SumFunctionOnSet(g, S) = SumFunctionOnSet(f, S)
        /\ SumFunctionOnSet(c, S) = SumFunctionOnSet(b, S)
    BY <1>1, <1>3, SumAgree
  <1>7. /\ SumFunctionOnSet(f, S) \in Int /\ SumFunctionOnSet(b, S) \in Int
    BY <1>1, SumInt
  <1>8. /\ SumFunctionOnSet(g, S \cup {n}) = SumFunctionOnSet(g, S) + g[n]
        /\ SumFunctionOnSet(c, S \cup {n}) = SumFunctionOnSet(c, S) + c[n]
    BY <1>1, <1>2, <1>3, <1>5, SumWith
  <1> QED BY <1>2, <1>4, <1>6, <1>7, <1>8

\* The sum of the swaps that are not booked is such a sum.
LEMMA UnbookedIsBack ==
  ASSUME SwapTypes, NEW t
  PROVE  SumFunction([i \in Unbooked(t) |-> swaps[i].amount]) = BackSum(swaps, t)
  <1> DEFINE S == DOMAIN swaps
             U == Unbooked(t)
             f == [i \in U |-> swaps[i].amount]
             g == [i \in S |-> BackOf(swaps[i], t)]
  <1>1. swaps \in Seq(Swaps)
    BY DEF SwapTypes
  <1>2. /\ IsFiniteSet(S) /\ U \in SUBSET S
        /\ \A i \in S : swaps[i].amount \in Int /\ swaps[i].booked \in BOOLEAN
    BY <1>1, SwapParts DEF Unbooked
  <1>3. /\ \A i \in U : f[i] \in Int /\ f[i] = swaps[i].amount
        /\ \A i \in S : g[i] = BackOf(swaps[i], t)
        /\ U = DOMAIN f
    BY <1>2
  <1>4. \A i \in S : i \in U <=> /\ swaps[i].in = t /\ "withdraw" \in swaps[i].done
                                /\ swaps[i].booked = FALSE
    BY <1>2 DEF Unbooked
  <1>5. BackSum(swaps, t) = SumFunctionOnSet(g, S)
    BY DEF BackSum
  <1> HIDE DEF f, g, U
  <1>6. \A i \in S : g[i] = IF i \in U THEN f[i] ELSE 0
    BY <1>3, <1>4 DEF BackOf
  <1>7. SumFunctionOnSet(f, U) = SumFunctionOnSet(g, S)
    BY <1>2, <1>3, <1>6, SumFilter
  <1>8. SumFunction(f) = SumFunctionOnSet(f, U)
    BY <1>3, SumOfFunction
  <1> QED BY <1>5, <1>7, <1>8 DEF f, U

\* How far the handler of a swap is, and what the swap's record shows of it.
SwapGoes(r, o) ==
  /\ o.in = r.who /\ o.amount = r.amount /\ o.booked = FALSE
  /\ r.leg = "transfer" /\ r.at # "mined" => o.done = {}
  /\ r.leg = "transfer" /\ r.at = "mined" => o.done = {"transfer"}
  /\ r.leg = "withdraw" /\ r.at # "mined" => o.done = {"transfer"}
  /\ r.leg = "withdraw" /\ r.at = "mined" => "transfer" \in o.done

\* What it shows of a transaction that is out, whether somebody waits for it or not.
TxGoes(tx, o) ==
  /\ o.in = tx.who /\ o.amount = tx.amount /\ o.booked = FALSE
  /\ tx.leg = "transfer" => o.done = {}
  /\ tx.leg = "withdraw" => o.done = {"transfer"}

IsSwap(tx) == tx.leg \in {"transfer", "withdraw"}
IsInstant(s) == requests[s].op = "instant"

HistoryInv ==
  \A i \in DOMAIN swaps :
      /\ swaps[i].out = Other(swaps[i].in)
      /\ "withdraw" \in swaps[i].done \/ swaps[i].booked = TRUE
             => "transfer" \in swaps[i].done

\* A swap has one handler at most, and only its own transactions.
HandlersInv ==
  /\ \A s \in Slots : IsInstant(s) => SwapGoes(requests[s], swaps[requests[s].known])
  /\ \A s, z \in Slots : IsInstant(s) /\ IsInstant(z)
                             /\ requests[s].known = requests[z].known => s = z
  /\ \A s \in Slots, tx \in pool :
         IsInstant(s) /\ requests[s].at # "receipt" /\ IsSwap(tx)
             => tx.ref # requests[s].known

PoolSwaps == \A tx \in pool : IsSwap(tx) => TxGoes(tx, swaps[tx.ref])

BooksInv ==
  \A t \in SwapTokens :
      owed[t] + DueSum(swaps, t) <= custody[t] + BackSum(swaps, t)

SwapInv == HistoryInv /\ HandlersInv /\ PoolSwaps /\ BooksInv

\* A step that is about no swap.
LEMMA SwapQuiet ==
  ASSUME SwapInv, UNCHANGED settleVars, pool' \subseteq pool,
         \A s \in Slots : requests'[s].op = "instant" => requests'[s] = requests[s]
  PROVE  SwapInv'
  <1>1. HistoryInv' /\ BooksInv'
    BY DEF SwapInv, HistoryInv, BooksInv, settleVars
  <1>2. PoolSwaps'
    BY DEF SwapInv, PoolSwaps, settleVars
  <1>3. \A s \in Slots : IsInstant(s)' => IsInstant(s)
    BY DEF IsInstant
  <1>4. HandlersInv'
    BY <1>3 DEF SwapInv, HandlersInv, IsInstant, settleVars
  <1> QED BY <1>1, <1>2, <1>4 DEF SwapInv

\* A frame that is no swap takes the place of another.
LEMMA NoSwap ==
  ASSUME NEW s \in Slots, NEW r, Only(s, r), r.op # "instant"
  PROVE  \A z \in Slots : requests'[z].op = "instant" => requests'[z] = requests[z]
  BY DEF Only

\* A swap begins: it has done nothing, and nothing refers to it.
LEMMA SwapBegins ==
  ASSUME Types, RefsOK, SwapInv, NEW s \in Slots, NEW in \in SwapTokens,
         NEW amount \in SwapAmounts, SettleInstantLocalSwap(s, in, amount),
         NEW n, n = Len(swaps) + 1
  PROVE  SwapInv'
  <1> USE DEF Types
  <1>1. PICK r \in SwapFrames : /\ Only(s, r) /\ r.at = "count" /\ r.who = in
                                /\ r.amount = amount /\ r.known = n /\ r.leg = "transfer"
    BY SwapStarted
  <1>2. /\ SwapTypes' /\ UNCHANGED <<wallet, custody, owed>>
        /\ DOMAIN swaps' = DOMAIN swaps \cup {n} /\ n \notin DOMAIN swaps
        /\ \A i \in DOMAIN swaps : swaps'[i] = swaps[i]
        /\ swaps'[n].in = in /\ swaps'[n].out = Other(in)
        /\ swaps'[n].amount = amount /\ swaps'[n].done = {} /\ swaps'[n].booked = FALSE
    <2>1. SwapTypes /\ SettleInstantLocalSwap(s, in, amount) /\ n = Len(swaps) + 1
      OBVIOUS
    <2> QED BY <2>1, SwapAdded, Zenon
  <1>3. pool' = pool
    BY DEF SettleInstantLocalSwap
  <1>4. HistoryInv'
    BY <1>2 DEF SwapInv, HistoryInv
  <1>5. PoolSwaps'
    BY <1>2, <1>3 DEF SwapInv, PoolSwaps, RefsOK, IsSwap
  <1>6. ASSUME NEW t \in SwapTokens
        PROVE  owed'[t] + DueSum(swaps', t) <= custody'[t] + BackSum(swaps', t)
    <2>1. swaps \in Seq(Swaps) /\ swaps' \in Seq(Swaps)
      BY <1>2 DEF SwapTypes
    <2>2. DueSum(swaps', t) = DueSum(swaps, t) /\ BackSum(swaps', t) = BackSum(swaps, t)
      BY <1>2, <2>1, SumsGrow
    <2> QED BY <1>2, <2>2 DEF SwapInv, BooksInv
  <1>7. \A z \in Slots : z # s /\ IsInstant(z)' => /\ IsInstant(z) /\ requests'[z] = requests[z]
                                                   /\ requests[z].known \in DOMAIN swaps
    BY <1>1 DEF Only, IsInstant, RefsOK
  <1>8. requests'[s] = r
    BY <1>1 DEF Only
  <1>9. \A z \in Slots : IsInstant(z)' => SwapGoes(requests'[z], swaps'[requests'[z].known])
    <2>1. SwapGoes(r, swaps'[n])
      BY <1>1, <1>2 DEF SwapGoes
    <2>2. ASSUME NEW z \in Slots, z # s, IsInstant(z)'
          PROVE  SwapGoes(requests'[z], swaps'[requests'[z].known])
      BY <1>2, <1>7, <2>2 DEF SwapInv, HandlersInv
    <2> QED BY <1>1, <1>8, <2>1, <2>2
  <1>10. \A x, z \in Slots : IsInstant(x)' /\ IsInstant(z)'
                                 /\ requests'[x].known = requests'[z].known => x = z
    BY <1>1, <1>2, <1>7, <1>8 DEF SwapInv, HandlersInv
  <1>11. ASSUME NEW z \in Slots, NEW tx \in pool', IsInstant(z)', requests'[z].at # "receipt",
                IsSwap(tx)
         PROVE  tx.ref # requests'[z].known
    <2>1. tx.ref \in DOMAIN swaps
      BY <1>3, <1>11 DEF RefsOK, IsSwap
    <2> QED BY <1>1, <1>2, <1>3, <1>7, <1>8, <1>11, <2>1 DEF SwapInv, HandlersInv
  <1>12. HandlersInv'
    BY <1>9, <1>10, <1>11 DEF HandlersInv, IsSwap
  <1> QED BY <1>4, <1>5, <1>6, <1>12 DEF SwapInv, BooksInv

\* A step of its transaction, up to the receipt.
LEMMA SwapSends ==
  ASSUME Types, RefsOK, SwapInv, NEW s \in Slots, SignerStep(s), NEW f, f = requests[s]
  PROVE  SwapInv'
  <1> USE DEF Types
  <1>1. /\ f \in SendFrames /\ f.at \in Sending /\ UNCHANGED settleVars
        /\ \E r \in Frames : SignerMove(s, f, r)
    BY SignerMoves
  <1>2. PICK r \in Frames : SignerMove(s, f, r)
    BY <1>1
  <1>3. swaps' = swaps /\ owed' = owed /\ custody' = custody
    BY <1>1 DEF settleVars
  <1>4. HistoryInv' /\ BooksInv'
    BY <1>3 DEF SwapInv, HistoryInv, BooksInv
  <1>5. /\ requests'[s] = r /\ \A z \in Slots : z # s => requests'[z] = requests[z]
        /\ r.at \in {"idle", "estimate", "send", "receipt"}
    BY <1>2 DEF SignerMove, Only
  <1>6. r.op = "instant" => /\ f.op = "instant" /\ f.at # "receipt" /\ f.at # "mined"
                            /\ r.who = f.who /\ r.amount = f.amount /\ r.known = f.known
                            /\ r.leg = f.leg
    BY <1>1, <1>2, IdleFrame DEF SignerMove, Continues, Sending
  <1>7. \A z \in Slots : IsInstant(z)' => /\ IsInstant(z)
                                          /\ requests'[z].known = requests[z].known
    BY <1>5, <1>6 DEF IsInstant
  <1>8. ASSUME NEW z \in Slots, IsInstant(z)'
        PROVE  SwapGoes(requests'[z], swaps'[requests'[z].known])
    <2>1. SwapGoes(requests[z], swaps[requests[z].known])
      BY <1>7, <1>8 DEF SwapInv, HandlersInv
    <2>2. CASE z = s
      <3>1. r.op = "instant"
        BY <1>5, <1>8, <2>2 DEF IsInstant
      <3>2. SwapGoes(r, swaps[r.known])
        BY <1>5, <1>6, <2>1, <2>2, <3>1 DEF SwapGoes
      <3> QED BY <1>3, <1>5, <2>2, <3>2
    <2>3. CASE z # s
      BY <1>3, <1>5, <2>1, <2>3
    <2> QED BY <2>2, <2>3
  <1>9. \A x, z \in Slots : IsInstant(x)' /\ IsInstant(z)'
                                /\ requests'[x].known = requests'[z].known => x = z
    BY <1>7 DEF SwapInv, HandlersInv
  <1>10. CASE pool' = pool /\ r.at # "receipt"
    <2>1. PoolSwaps'
      BY <1>3, <1>10 DEF SwapInv, PoolSwaps
    <2>2. ASSUME NEW z \in Slots, NEW tx \in pool', IsInstant(z)',
                 requests'[z].at # "receipt", IsSwap(tx)
          PROVE  tx.ref # requests'[z].known
      <3>1. IsInstant(z) /\ requests[z].at # "receipt"
        BY <1>5, <1>6, <1>7, <2>2 DEF IsInstant
      <3> QED BY <1>7, <1>10, <2>2, <3>1 DEF SwapInv, HandlersInv
    <2>3. HandlersInv'
      BY <1>8, <1>9, <2>2 DEF HandlersInv, IsSwap
    <2> QED BY <1>4, <2>1, <2>3 DEF SwapInv
  <1>11. CASE f.at = "send" /\ pool' = {Sent(f)} /\ r.at = "receipt" /\ Continues(f, r)
    <2>1. /\ Sent(f).ref = f.known /\ Sent(f).leg = f.leg /\ Sent(f).who = f.who
          /\ Sent(f).amount = f.amount /\ (f \in SwapFrames <=> f.op = "instant")
      BY <1>1, SendFrameParts
    <2>2. IsSwap(Sent(f)) => f.op = "instant"
      BY <1>1, <2>1 DEF IsSwap, SendFrames, ClaimFrames, RedeemFrames
    <2>3. f.op = "instant" => TxGoes(Sent(f), swaps[f.known])
      <3>1. f.op = "instant" => SwapGoes(f, swaps[f.known])
        BY DEF SwapInv, HandlersInv, IsInstant
      <3> QED BY <1>11, <2>1, <3>1 DEF SwapGoes, TxGoes
    <2>4. PoolSwaps'
      BY <1>3, <1>11, <2>1, <2>2, <2>3 DEF PoolSwaps, IsSwap
    <2>5. ASSUME NEW z \in Slots, NEW tx \in pool', IsInstant(z)',
                 requests'[z].at # "receipt", IsSwap(tx)
          PROVE  tx.ref # requests'[z].known
      <3>1. z # s /\ tx.ref = f.known /\ IsInstant(s)
        BY <1>5, <1>11, <2>1, <2>2, <2>5 DEF IsInstant
      <3> QED BY <1>7, <2>5, <3>1 DEF SwapInv, HandlersInv
    <2>6. HandlersInv'
      BY <1>8, <1>9, <2>5 DEF HandlersInv, IsSwap
    <2> QED BY <1>4, <2>4, <2>6 DEF SwapInv
  <1> QED BY <1>2, <1>10, <1>11 DEF SignerMove

\* It goes on to its withdrawal.
LEMMA SwapSigns ==
  ASSUME Types, RefsOK, SwapInv, NEW s \in Slots, SignWithdrawal(s)
  PROVE  SwapInv'
  <1> USE DEF Types
  <1> DEFINE f == requests[s]
  <1>1. /\ f \in SwapFrames /\ f.at = "mined" /\ f.leg = "transfer"
        /\ \E r \in SwapFrames :
              /\ Only(s, r) /\ r.at = "count" /\ r.who = f.who
              /\ r.amount = f.amount /\ r.known = f.known /\ r.leg = "withdraw"
    BY WithdrawalSigned
  <1>2. PICK r \in SwapFrames :
           /\ Only(s, r) /\ r.at = "count" /\ r.who = f.who
           /\ r.amount = f.amount /\ r.known = f.known /\ r.leg = "withdraw"
    BY <1>1
  <1>3. swaps' = swaps /\ owed' = owed /\ custody' = custody /\ pool' = pool
    BY DEF SignWithdrawal, settleVars
  <1>4. HistoryInv' /\ BooksInv' /\ PoolSwaps'
    BY <1>3 DEF SwapInv, HistoryInv, BooksInv, PoolSwaps
  <1>5. /\ IsInstant(s) /\ requests'[s] = r
        /\ \A z \in Slots : z # s => requests'[z] = requests[z]
    BY <1>1, <1>2 DEF Only, IsInstant, SwapFrames
  <1>6. \A z \in Slots : IsInstant(z)' => /\ IsInstant(z)
                                          /\ requests'[z].known = requests[z].known
                                          /\ requests'[z].at # "receipt" => requests[z].at # "receipt"
    BY <1>1, <1>2, <1>5 DEF IsInstant
  <1>7. SwapGoes(r, swaps[r.known])
    <2>1. SwapGoes(f, swaps[f.known])
      BY <1>5 DEF SwapInv, HandlersInv
    <2> QED BY <1>1, <1>2, <2>1 DEF SwapGoes
  <1>8. ASSUME NEW z \in Slots, IsInstant(z)'
        PROVE  SwapGoes(requests'[z], swaps'[requests'[z].known])
    BY <1>3, <1>5, <1>6, <1>7, <1>8 DEF SwapInv, HandlersInv
  <1>9. \A x, z \in Slots : IsInstant(x)' /\ IsInstant(z)'
                                /\ requests'[x].known = requests'[z].known => x = z
    BY <1>6 DEF SwapInv, HandlersInv
  <1>10. \A z \in Slots, tx \in pool' :
             IsInstant(z)' /\ requests'[z].at # "receipt" /\ IsSwap(tx)
                 => tx.ref # requests'[z].known
    BY <1>3, <1>6 DEF SwapInv, HandlersInv
  <1>11. HandlersInv'
    BY <1>8, <1>9, <1>10 DEF HandlersInv, IsSwap
  <1> QED BY <1>4, <1>11 DEF SwapInv

\* It is booked: what the vault has for it is now owed.
LEMMA SwapBooks ==
  ASSUME Types, RefsOK, SwapInv, NEW s \in Slots, Book(s), NEW f, f = requests[s],
         NEW i, i = f.known
  PROVE  SwapInv'
  <1> USE DEF Types
  <1>1. /\ SwapTypes' /\ custody' = custody /\ pool' = pool /\ Only(s, Idle)
        /\ f \in SwapFrames /\ f.at = "mined" /\ f.leg = "withdraw" /\ i \in DOMAIN swaps
        /\ DOMAIN swaps' = DOMAIN swaps
        /\ \A k \in DOMAIN swaps : k # i => swaps'[k] = swaps[k]
        /\ swaps'[i].in = swaps[i].in /\ swaps'[i].out = swaps[i].out
        /\ swaps'[i].amount = swaps[i].amount /\ swaps'[i].done = swaps[i].done
        /\ swaps'[i].booked = TRUE
        /\ swaps[i].in # swaps[i].out =>
              /\ owed'[swaps[i].in] = owed[swaps[i].in] - f.amount
              /\ owed'[swaps[i].out] = owed[swaps[i].out] + f.amount
        /\ \A t \in SwapTokens :
              t # swaps[i].in /\ t # swaps[i].out => owed'[t] = owed[t]
    <2>1. SwapTypes' /\ Books(s, f, i)
      BY Booked
    <2> QED BY <2>1 DEF Books
  <1>2. IsInstant(s)
    BY <1>1 DEF SwapFrames, IsInstant
  <1>3. /\ swaps[i].in = f.who /\ swaps[i].amount = f.amount /\ swaps[i].booked = FALSE
        /\ "transfer" \in swaps[i].done
    BY <1>1, <1>2 DEF SwapInv, HandlersInv, SwapGoes
  <1>4. HistoryInv'
    BY <1>1, <1>3 DEF SwapInv, HistoryInv
  <1>5. \A z \in Slots : IsInstant(z)' => /\ z # s /\ IsInstant(z) /\ requests'[z] = requests[z]
                                          /\ requests[z].known \in DOMAIN swaps
                                          /\ requests[z].known # i
    BY <1>1, <1>2, IdleFrame DEF SwapInv, HandlersInv, IsInstant, Only, RefsOK
  <1>6. HandlersInv'
    <2>1. \A z \in Slots : IsInstant(z)' => SwapGoes(requests'[z], swaps'[requests'[z].known])
      BY <1>1, <1>5 DEF SwapInv, HandlersInv
    <2>2. \A x, z \in Slots : IsInstant(x)' /\ IsInstant(z)'
                                  /\ requests'[x].known = requests'[z].known => x = z
      BY <1>5 DEF SwapInv, HandlersInv
    <2>3. \A z \in Slots, tx \in pool' :
              IsInstant(z)' /\ requests'[z].at # "receipt" /\ IsSwap(tx)
                  => tx.ref # requests'[z].known
      BY <1>1, <1>5 DEF SwapInv, HandlersInv
    <2> QED BY <2>1, <2>2, <2>3 DEF HandlersInv, IsSwap
  <1>7. PoolSwaps'
    <2>1. \A tx \in pool : IsSwap(tx) => tx.ref # i /\ tx.ref \in DOMAIN swaps
      BY <1>1, <1>2 DEF SwapInv, HandlersInv, RefsOK, IsSwap
    <2> QED BY <1>1, <2>1 DEF SwapInv, PoolSwaps, IsSwap
  <1>8. ASSUME NEW t \in SwapTokens
        PROVE  owed'[t] + DueSum(swaps', t) <= custody'[t] + BackSum(swaps', t)
    <2> DEFINE o == swaps[i]
               p == swaps'[i]
    <2>1. swaps \in Seq(Swaps) /\ swaps' \in Seq(Swaps)
      BY <1>1 DEF SwapTypes
    <2>2. /\ DueSum(swaps', t) = DueSum(swaps, t) + (DueOf(p, t) - DueOf(o, t))
          /\ BackSum(swaps', t) = BackSum(swaps, t) + (BackOf(p, t) - BackOf(o, t))
      BY <1>1, <2>1, SumsChange
    <2>3. /\ DueSum(swaps, t) \in Nat /\ BackSum(swaps, t) \in Nat
          /\ owed[t] \in Int /\ custody[t] \in Int
      BY <2>1, SumsNat DEF SwapTypes
    <2>4. DueOf(p, t) = 0 /\ BackOf(p, t) = 0
      BY <1>1 DEF DueOf, BackOf
    <2>5. /\ o.out = Other(o.in) /\ o.in \in SwapTokens /\ o.amount \in Nat
      BY <1>1, <2>1, SwapParts DEF SwapInv, HistoryInv
    <2>6. o.in # o.out
      BY <2>5, OtherToken
    <2>7. owed[t] + DueSum(swaps, t) <= custody[t] + BackSum(swaps, t)
      BY DEF SwapInv, BooksInv
    <2>8. /\ o.amount = f.amount /\ o.booked = FALSE /\ "transfer" \in o.done
          /\ owed'[o.in] = owed[o.in] - f.amount
          /\ owed'[o.out] = owed[o.out] + f.amount
          /\ t # o.in /\ t # o.out => owed'[t] = owed[t]
      BY <1>1, <1>3, <2>6
    <2> HIDE DEF o, p
    <2>9. CASE t = o.in
      <3>1. DueOf(o, t) = 0 /\ (BackOf(o, t) = 0 \/ BackOf(o, t) = o.amount)
        BY <2>6, <2>9 DEF DueOf, BackOf
      <3> QED BY <1>1, <2>2, <2>3, <2>4, <2>5, <2>7, <2>8, <2>9, <3>1
    <2>10. CASE t = o.out
      <3>1. DueOf(o, t) = o.amount /\ BackOf(o, t) = 0
        BY <2>6, <2>8, <2>10 DEF DueOf, BackOf
      <3> QED BY <1>1, <2>2, <2>3, <2>4, <2>5, <2>7, <2>8, <2>10, <3>1
    <2>11. CASE t # o.in /\ t # o.out
      <3>1. DueOf(o, t) = 0 /\ BackOf(o, t) = 0
        BY <2>11 DEF DueOf, BackOf
      <3> QED BY <1>1, <2>2, <2>3, <2>4, <2>7, <2>8, <2>11, <3>1
    <2> QED BY <2>9, <2>10, <2>11
  <1> QED BY <1>4, <1>6, <1>7, <1>8 DEF SwapInv, BooksInv

\* A transaction of a swap is mined; a transfer works.
LEMMA SwapMines ==
  ASSUME Types, RefsOK, SwapInv, NEW tx \in SwapTxs, NEW works, Mine(tx, works),
         SwapEffect(tx, works), tx.leg = "transfer" => works, NEW i, i = tx.ref
  PROVE  SwapInv'
  <1> USE DEF Types
  <1>1. /\ pool = {tx} /\ pool' = {}
        /\ \A s \in Slots : requests[s].at # "receipt" => requests'[s] = requests[s]
        /\ \A s \in Slots : requests[s].at = "receipt" =>
              /\ requests[s] \in SendFrames /\ Sent(requests[s]) = tx
              /\ requests'[s].at = "mined"
              /\ requests'[s].op = requests[s].op
              /\ requests'[s].who = requests[s].who
              /\ requests'[s].amount = requests[s].amount
              /\ requests'[s].known = requests[s].known
              /\ requests'[s].leg = requests[s].leg
    BY Mined
  <1>2. tx.ref \in DOMAIN swaps /\ IsSwap(tx) /\ tx.leg \in {"transfer", "withdraw"}
    BY <1>1 DEF RefsOK, IsSwap, SwapTxs
  <1>3. /\ SwapTypes' /\ UNCHANGED owed
        /\ PaidTo(tx) \in SwapTokens /\ Paid(tx, works) \in Int
        /\ custody'[PaidTo(tx)] = custody[PaidTo(tx)] + Paid(tx, works)
        /\ \A t \in SwapTokens : t # PaidTo(tx) => custody'[t] = custody[t]
        /\ ~works => UNCHANGED swaps
        /\ DOMAIN swaps' = DOMAIN swaps
        /\ \A k \in DOMAIN swaps : k # i => swaps'[k] = swaps[k]
        /\ works =>
             /\ swaps'[i].in = swaps[i].in /\ swaps'[i].out = swaps[i].out
             /\ swaps'[i].amount = swaps[i].amount /\ swaps'[i].booked = swaps[i].booked
             /\ swaps'[i].done = swaps[i].done \cup {tx.leg}
    BY <1>2, SwapEffectParts
  <1>4. TxGoes(tx, swaps[i])
    BY <1>1, <1>2 DEF SwapInv, PoolSwaps
  <1>5. HistoryInv'
    <2>1. ASSUME NEW k \in DOMAIN swaps
          PROVE  /\ swaps'[k].out = Other(swaps'[k].in)
                 /\ "withdraw" \in swaps'[k].done \/ swaps'[k].booked = TRUE
                        => "transfer" \in swaps'[k].done
      <3>1. CASE k # i \/ ~works
        BY <1>3, <3>1 DEF SwapInv, HistoryInv
      <3>2. CASE k = i /\ works
        BY <1>2, <1>3, <1>4, <3>2 DEF SwapInv, HistoryInv, TxGoes
      <3> QED BY <3>1, <3>2
    <2> QED BY <1>3, <2>1 DEF HistoryInv
  <1>6. PoolSwaps'
    BY <1>1 DEF PoolSwaps
  <1>7. \A s \in Slots : IsInstant(s)' => IsInstant(s) /\ requests'[s].known = requests[s].known
    BY <1>1 DEF IsInstant
  <1>8. ASSUME NEW s \in Slots, IsInstant(s)'
        PROVE  SwapGoes(requests'[s], swaps'[requests'[s].known])
    <2>1. SwapGoes(requests[s], swaps[requests[s].known]) /\ requests[s].known \in DOMAIN swaps
      BY <1>7, <1>8 DEF SwapInv, HandlersInv, IsInstant, RefsOK
    <2>2. CASE requests[s].at # "receipt"
      <3>1. requests[s].known # i
        BY <1>1, <1>2, <1>7, <1>8, <2>2 DEF SwapInv, HandlersInv
      <3> QED BY <1>1, <1>3, <2>1, <2>2, <3>1
    <2>3. CASE requests[s].at = "receipt"
      <3> DEFINE r == requests'[s]
      <3>1. /\ r.at = "mined" /\ r.who = requests[s].who /\ r.amount = requests[s].amount
            /\ r.known = requests[s].known /\ r.leg = requests[s].leg
        BY <1>1, <2>3
      <3>2. requests[s].known = i /\ requests[s].leg = tx.leg
        BY <1>1, <2>3, SendFrameParts
      <3>3. SwapGoes(requests[s], swaps[i])
        BY <2>1, <3>2
      <3>4. SwapGoes(r, swaps'[i])
        <4>1. CASE works
          BY <1>2, <1>3, <1>4, <2>3, <3>1, <3>2, <3>3, <4>1 DEF SwapGoes, TxGoes
        <4>2. CASE ~works
          BY <1>2, <1>3, <1>4, <2>3, <3>1, <3>2, <3>3, <4>2 DEF SwapGoes, TxGoes
        <4> QED BY <4>1, <4>2
      <3> QED BY <3>1, <3>2, <3>4
    <2> QED BY <2>2, <2>3
  <1>9. HandlersInv'
    <2>1. \A x, z \in Slots : IsInstant(x)' /\ IsInstant(z)'
                                  /\ requests'[x].known = requests'[z].known => x = z
      BY <1>7 DEF SwapInv, HandlersInv
    <2> QED BY <1>1, <1>8, <2>1 DEF HandlersInv
  <1>10. ASSUME NEW t \in SwapTokens
         PROVE  owed'[t] + DueSum(swaps', t) <= custody'[t] + BackSum(swaps', t)
    <2> DEFINE o == swaps[i]
               p == swaps'[i]
    <2>1. swaps \in Seq(Swaps) /\ swaps' \in Seq(Swaps)
      BY <1>3 DEF SwapTypes
    <2>2. /\ DueSum(swaps', t) = DueSum(swaps, t) + (DueOf(p, t) - DueOf(o, t))
          /\ BackSum(swaps', t) = BackSum(swaps, t) + (BackOf(p, t) - BackOf(o, t))
      BY <1>2, <1>3, <2>1, SumsChange
    <2>3. /\ DueSum(swaps, t) \in Nat /\ BackSum(swaps, t) \in Nat
          /\ owed[t] \in Int /\ custody[t] \in Int
      BY <2>1, SumsNat DEF SwapTypes
    <2>4. owed[t] + DueSum(swaps, t) <= custody[t] + BackSum(swaps, t)
      BY DEF SwapInv, BooksInv
    <2>5. /\ o.out = Other(o.in) /\ o.in \in SwapTokens /\ o.amount \in Nat
          /\ o.in = tx.who /\ o.amount = tx.amount /\ o.booked = FALSE
      BY <1>2, <1>4, <2>1, SwapParts DEF SwapInv, HistoryInv, TxGoes
    <2>6. o.in # o.out
      BY <2>5, OtherToken
    <2>7. owed'[t] = owed[t]
      BY <1>3
    <2>8. CASE ~works
      <3>1. p = o
        BY <1>3, <2>8
      <3>2. Paid(tx, works) = 0
        BY <2>8 DEF Paid
      <3>3. custody'[t] = custody[t]
        BY <1>3, <2>3, <3>2
      <3>4. DueOf(o, t) \in Int /\ BackOf(o, t) \in Int
        BY <1>2, <2>1, PartsNat
      <3> HIDE DEF o, p
      <3> QED BY <2>2, <2>3, <2>4, <2>7, <3>1, <3>3, <3>4
    <2>9. CASE works /\ tx.leg = "transfer"
      <3>1. /\ p.in = o.in /\ p.out = o.out /\ p.amount = o.amount /\ p.booked = FALSE
            /\ p.done = {"transfer"} /\ o.done = {}
        BY <1>3, <1>4, <2>5, <2>9 DEF TxGoes
      <3>2. PaidTo(tx) = o.out /\ Paid(tx, works) = o.amount
        BY <2>5, <2>9 DEF PaidTo, Paid
      <3>3. /\ t = o.out => custody'[t] = custody[t] + o.amount
            /\ t # o.out => custody'[t] = custody[t]
        BY <1>3, <3>2
      <3> HIDE DEF o, p
      <3>4. /\ DueOf(o, t) = 0 /\ BackOf(o, t) = 0 /\ BackOf(p, t) = 0
            /\ t = o.out => DueOf(p, t) = o.amount
            /\ t # o.out => DueOf(p, t) = 0
        BY <3>1 DEF DueOf, BackOf
      <3> QED BY <2>2, <2>3, <2>4, <2>5, <2>7, <3>3, <3>4
    <2>10. CASE works /\ tx.leg = "withdraw"
      <3>1. /\ p.in = o.in /\ p.out = o.out /\ p.amount = o.amount /\ p.booked = FALSE
            /\ p.done = {"transfer", "withdraw"} /\ o.done = {"transfer"}
        BY <1>3, <1>4, <2>5, <2>10 DEF TxGoes
      <3>2. PaidTo(tx) = o.in /\ Paid(tx, works) = -o.amount
        BY <2>5, <2>10 DEF PaidTo, Paid
      <3>3. /\ t = o.in => custody'[t] = custody[t] + (-o.amount)
            /\ t # o.in => custody'[t] = custody[t]
        BY <1>3, <3>2
      <3> HIDE DEF o, p
      <3>4. /\ BackOf(o, t) = 0 /\ DueOf(p, t) = DueOf(o, t)
            /\ t = o.in => BackOf(p, t) = o.amount
            /\ t # o.in => BackOf(p, t) = 0
            /\ DueOf(o, t) = 0 \/ DueOf(o, t) = o.amount
        BY <2>5, <3>1 DEF DueOf, BackOf
      <3> QED BY <2>2, <2>3, <2>4, <2>5, <2>7, <3>3, <3>4
    <2> QED BY <1>2, <2>8, <2>9, <2>10
  <1> QED BY <1>5, <1>6, <1>9, <1>10 DEF SwapInv, BooksInv

\* A user's withdrawal leaves the vault and the ledger alike.
LEMMA SwapPaid ==
  ASSUME Types, SwapInv, NEW v \in SwapTokens, VaultPays(v)
  PROVE  SwapInv'
  <1> USE DEF Types
  <1>1. /\ swaps' = swaps /\ requests' = requests /\ pool' = pool
        /\ owed'[v] = owed[v] - 1 /\ custody'[v] = custody[v] - 1
        /\ \A t \in SwapTokens : t # v => owed'[t] = owed[t] /\ custody'[t] = custody[t]
    BY VaultPaysParts DEF signerVars
  <1>2. HistoryInv' /\ HandlersInv' /\ PoolSwaps'
    BY <1>1 DEF SwapInv, HistoryInv, HandlersInv, PoolSwaps, IsInstant
  <1>3. ASSUME NEW t \in SwapTokens
        PROVE  owed'[t] + DueSum(swaps, t) <= custody'[t] + BackSum(swaps, t)
    <2>1. /\ DueSum(swaps, t) \in Nat /\ BackSum(swaps, t) \in Nat
          /\ owed[t] \in Int /\ custody[t] \in Int
      BY SumsNat DEF SwapTypes
    <2>2. owed[t] + DueSum(swaps, t) <= custody[t] + BackSum(swaps, t)
      BY DEF SwapInv, BooksInv
    <2> QED BY <1>1, <2>1, <2>2
  <1>4. BooksInv'
    BY <1>1, <1>3 DEF BooksInv
  <1> QED BY <1>2, <1>4 DEF SwapInv

\* The ledger owes what the vault holds at the start.
LEMMA SwapStarts == Init => SwapInv
  <1> SUFFICES ASSUME Init PROVE SwapInv
    OBVIOUS
  <1>1. /\ swaps = << >> /\ owed = Custody /\ custody = Custody /\ pool = {}
        /\ \A s \in Slots : requests[s] = Idle
    BY DEF Init, SettleInit, SignerInit
  <1>2. DOMAIN swaps = {}
    BY <1>1
  <1>3. HistoryInv /\ HandlersInv /\ PoolSwaps
    BY <1>1, <1>2, IdleFrame DEF HistoryInv, HandlersInv, PoolSwaps, IsInstant
  <1>4. ASSUME NEW t \in SwapTokens
        PROVE  owed[t] + DueSum(swaps, t) <= custody[t] + BackSum(swaps, t)
    <2> DEFINE f == [i \in DOMAIN swaps |-> DueOf(swaps[i], t)]
               g == [i \in DOMAIN swaps |-> BackOf(swaps[i], t)]
    <2>1. /\ DueSum(swaps, t) = SumFunctionOnSet(f, {})
          /\ BackSum(swaps, t) = SumFunctionOnSet(g, {})
      BY <1>2 DEF DueSum, BackSum
    <2> HIDE DEF f, g
    <2>2. DueSum(swaps, t) = 0 /\ BackSum(swaps, t) = 0
      BY <2>1, SumEmpty
    <2>3. Custody[t] \in Int
      BY SwapInputs
    <2> QED BY <1>1, <2>2, <2>3
  <1> QED BY <1>3, <1>4 DEF SwapInv, BooksInv

\* Every step keeps the swaps and the books; a transfer that is mined works.
LEMMA SwapKeeps == BaseInv /\ TransferInv /\ SwapInv /\ [Next]_serverVars => SwapInv'
  <1> SUFFICES ASSUME BaseInv, TransferInv, SwapInv, [Next]_serverVars PROVE SwapInv'
    OBVIOUS
  <1> USE DEF BaseInv, Types
  <1>1. ASSUME NEW a \in Addresses, PostAuthNonce(a) PROVE SwapInv'
    BY <1>1, SwapQuiet DEF PostAuthNonce, CreateChallenge, signerVars
  <1>2. ASSUME NEW s \in Slots, NEW a \in Addresses, NEW signer \in Addresses,
               NEW n \in 1 .. issued, PostAuthVerify(s, a, n, signer)
        PROVE  SwapInv'
    <2>1. VerifyChallenge(s, a, n, signer) /\ pool' = pool /\ UNCHANGED settleVars
      BY <1>2 DEF PostAuthVerify, VerifyChallenge
    <2>2. \E r \in VerifyFrames : Only(s, r)
      BY <2>1, Verifying
    <2>3. \A r \in VerifyFrames : r.op # "instant"
      BY DEF VerifyFrames
    <2> QED BY <2>1, <2>2, <2>3, NoSwap, SwapQuiet
  <1>3. ASSUME NEW token \in sessions, PostAuthRefresh(token) PROVE SwapInv'
    BY <1>3, SwapQuiet DEF PostAuthRefresh, RefreshToken, signerVars
  <1>4. ASSUME NEW s \in Slots, NEW u \in Accounts, PostBridgeClaim(s, u) PROVE SwapInv'
    <2>1. Claim(s, u) /\ pool' = pool /\ UNCHANGED settleVars
      BY <1>4 DEF PostBridgeClaim, Claim, Ask
    <2>2. \E r \in ClaimFrames : Only(s, r)
      BY <2>1, Claimed
    <2>3. \A r \in ClaimFrames : r.op # "instant"
      BY DEF ClaimFrames
    <2> QED BY <2>1, <2>2, <2>3, NoSwap, SwapQuiet
  <1>5. ASSUME NEW s \in Slots, NEW u \in Accounts, NEW amount \in RedeemAmounts,
               PostBridgeRedeem(s, u, amount)
        PROVE  SwapInv'
    <2>1. Redeem(s, u, amount) /\ pool' = pool /\ UNCHANGED settleVars
      BY <1>5 DEF PostBridgeRedeem, Redeem, Ask
    <2>2. \E r \in BalanceFrames : Only(s, r)
      BY <2>1, Redeemed
    <2>3. \A r \in BalanceFrames : r.op # "instant"
      BY DEF BalanceFrames
    <2> QED BY <2>1, <2>2, <2>3, NoSwap, SwapQuiet
  <1>6. ASSUME NEW s \in Slots, NEW u \in Accounts, NEW in \in SwapTokens,
               NEW amount \in SwapAmounts, PostSwapExecute(s, u, in, amount)
        PROVE  SwapInv'
    <2>1. SettleInstantLocalSwap(s, in, amount)
      BY <1>6 DEF PostSwapExecute
    <2> QED BY <2>1, SwapBegins
  <1>7. ASSUME NEW s \in Slots, SignerStep(s) PROVE SwapInv'
    BY <1>7, SwapSends
  <1>8. ASSUME NEW s \in Slots, AuthStep(s) PROVE SwapInv'
    <2>1. RecoverSigner(s) /\ pool' = pool /\ UNCHANGED settleVars
      BY <1>8 DEF AuthStep, RecoverSigner
    <2>2. Only(s, Idle)
      BY <2>1, Recovered
    <2> QED BY <2>1, <2>2, IdleFrame, NoSwap, SwapQuiet
  <1>9. ASSUME NEW s \in Slots, ClaimStep(s) PROVE SwapInv'
    <2>1. /\ CheckRedeem(s) \/ RecordClaim(s) \/ RecordRedeem(s)
          /\ pool' = pool /\ UNCHANGED settleVars
      BY <1>9 DEF ClaimStep, CheckRedeem, RecordClaim, RecordRedeem
    <2>2. Only(s, Idle) \/ \E r \in RedeemFrames : Only(s, r)
      BY <2>1, RedeemChecked, ClaimRecorded, RedeemRecorded
    <2>3. \A r \in RedeemFrames : r.op # "instant"
      BY DEF RedeemFrames
    <2> QED BY <2>1, <2>2, <2>3, IdleFrame, NoSwap, SwapQuiet
  <1>10. ASSUME NEW s \in Slots, SettleStep(s) PROVE SwapInv'
    BY <1>10, SwapSigns, SwapBooks DEF SettleStep
  <1>11. ASSUME NEW late \in BOOLEAN, MineNext(late) PROVE SwapInv'
    <2>1. PICK tx \in pool :
            /\ Mine(tx, Works(tx, late))
            /\ \/ tx.leg \in {"mint", "burn"} /\ UNCHANGED settleVars
               \/ tx.leg \notin {"mint", "burn"} /\ SwapEffect(tx, Works(tx, late))
      BY <1>11 DEF MineNext
    <2>2. /\ pool' = {} /\ tx \in TokenTxs \cup SwapTxs
          /\ \A s \in Slots : requests[s].at # "receipt" => requests'[s] = requests[s]
          /\ \A s \in Slots : requests[s].at = "receipt" =>
                /\ requests[s] \in SendFrames /\ Sent(requests[s]) = tx
                /\ requests'[s].op = requests[s].op
      BY <2>1, Mined
    <2>3. CASE tx.leg \in {"mint", "burn"} /\ UNCHANGED settleVars
      <3>1. ASSUME NEW s \in Slots, requests'[s].op = "instant" PROVE requests'[s] = requests[s]
        <4>1. CASE requests[s].at = "receipt"
          <5>1. requests[s] \in SwapFrames /\ requests[s].leg = tx.leg
            BY <2>2, <3>1, <4>1, SendFrameParts
          <5> QED BY <2>3, <5>1 DEF SwapFrames
        <4> QED BY <2>2, <4>1
      <3> QED BY <2>2, <2>3, <3>1, SwapQuiet
    <2>4. CASE tx.leg \notin {"mint", "burn"} /\ SwapEffect(tx, Works(tx, late))
      <3> DEFINE works == Works(tx, late)
      <3>1. tx \in SwapTxs
        BY <2>2, <2>4, TxParts
      <3>2. tx.leg = "transfer" => works
        BY <2>1 DEF TransferInv, Works, SwapWorks
      <3>3. Mine(tx, works) /\ SwapEffect(tx, works)
        BY <2>1, <2>4
      <3> HIDE DEF works
      <3> QED BY <3>1, <3>2, <3>3, SwapMines
    <2> QED BY <2>1, <2>3, <2>4
  <1>12. CASE Elsewhere
    <2>1. ASSUME NEW u \in Accounts,
                 BridgeIn(u) \/ BridgeOut(u) \/ \E amount \in {-Up, Up} : Transfer(u, amount),
                 UNCHANGED settleVars
          PROVE  SwapInv'
      <3>1. UNCHANGED signerVars
        BY <2>1 DEF BridgeIn, BridgeOut, Transfer
      <3> QED BY <2>1, <3>1, SwapQuiet DEF signerVars
    <2>2. ASSUME NEW t \in SwapTokens, VaultPays(t) PROVE SwapInv'
      BY <2>2, SwapPaid
    <2> QED BY <1>12, <2>1, <2>2 DEF Elsewhere
  <1>13. CASE Tick /\ UNCHANGED <<claimVars, settleVars>>
    BY <1>13, SwapQuiet DEF Tick, signerVars
  <1>14. CASE Restart
    <2>1. StopSigner /\ UNCHANGED settleVars
      BY <1>14 DEF Restart
    <2>2. pool' = pool /\ \A s \in Slots : requests'[s] = Idle
      BY <2>1, Stopped
    <2> QED BY <2>1, <2>2, IdleFrame, SwapQuiet
  <1>15. CASE UNCHANGED serverVars
    BY <1>15, SwapQuiet DEF serverVars, signerVars
  <1> QED BY <1>1, <1>2, <1>3, <1>4, <1>5, <1>6, <1>7, <1>8, <1>9, <1>10, <1>11, <1>12,
             <1>13, <1>14, <1>15 DEF Next, Routes

\* What the vault holds covers what the ledger owes, but for inputs withdrawn for a
\* swap that is not booked, and for those the output came first (vault.ts:267).
THEOREM VaultCoversLedger == Spec => []VaultCovered
  <1>1. Init => BaseInv /\ TransferInv /\ SwapInv
    BY BaseStart, TransferStarts, SwapStarts
  <1>2. BaseInv /\ TransferInv /\ SwapInv /\ [Next]_serverVars
            => BaseInv' /\ TransferInv' /\ SwapInv'
    BY BaseStep, TransferKeeps, SwapKeeps
  <1>3. BaseInv /\ SwapInv => VaultCovered
    <2> SUFFICES ASSUME BaseInv, SwapInv PROVE VaultCovered
      OBVIOUS
    <2>1. SwapTypes /\ swaps \in Seq(Swaps)
      BY DEF BaseInv, Types, SwapTypes
    <2>2. \A i \in DOMAIN swaps :
              "withdraw" \in swaps[i].done \/ swaps[i].booked => "transfer" \in swaps[i].done
      BY <2>1, SwapParts DEF SwapInv, HistoryInv
    <2>3. ASSUME NEW t \in SwapTokens
          PROVE  owed[t] <= custody[t] + SumFunction([i \in Unbooked(t) |-> swaps[i].amount])
      <3>1. SumFunction([i \in Unbooked(t) |-> swaps[i].amount]) = BackSum(swaps, t)
        BY <2>1, UnbookedIsBack
      <3>2. /\ DueSum(swaps, t) \in Nat /\ BackSum(swaps, t) \in Nat
            /\ owed[t] \in Int /\ custody[t] \in Int
        BY <2>1, SumsNat DEF SwapTypes
      <3>3. owed[t] + DueSum(swaps, t) <= custody[t] + BackSum(swaps, t)
        BY DEF SwapInv, BooksInv
      <3> QED BY <3>1, <3>2, <3>3
    <2> QED BY <2>2, <2>3 DEF VaultCovered
  <1> QED BY <1>1, <1>2, <1>3, PTL DEF Spec
-----------------------------------------------------------------------------
(* Every token stands for a claim, or is accounted for. *)

\* With a token as fine as its source, or finer, scaling loses nothing.
LEMMA ScaleLinear ==
  ASSUME Down = 1, NEW x \in Int, NEW y \in Int
  PROVE  /\ ScaleAtomic(x + y) = ScaleAtomic(x) + ScaleAtomic(y)
         /\ ScaleAtomic(x - y) = ScaleAtomic(x) - ScaleAtomic(y)
         /\ ScaleAtomic(x) \in Int /\ ScaleAtomic(y) \in Int
  <1>1. Up \in Int
    BY Decimals
  <1>2. \A a, b \in Int : a * b \in Int
    OBVIOUS
  <1>3. x * Up \in Int /\ y * Up \in Int /\ (x + y) * Up \in Int /\ (x - y) * Up \in Int
    BY <1>1, <1>2
  <1>4. \A a \in Int : a \div 1 = a
    OBVIOUS
  <1>5. /\ ScaleAtomic(x) = x * Up /\ ScaleAtomic(y) = y * Up
        /\ ScaleAtomic(x + y) = (x + y) * Up /\ ScaleAtomic(x - y) = (x - y) * Up
    BY <1>3, <1>4 DEF ScaleAtomic
  <1>6. (x + y) * Up = x * Up + y * Up /\ (x - y) * Up = x * Up - y * Up
    BY <1>1
  <1> QED BY <1>3, <1>5, <1>6

\* Scaling a sum down loses no more than scaling its parts.
LEMMA ScaleParts ==
  ASSUME NEW x \in Int, NEW y \in Int
  PROVE  /\ ScaleAtomic(x) + ScaleAtomic(y) <= ScaleAtomic(x + y)
         /\ ScaleAtomic(x) \in Int /\ ScaleAtomic(y) \in Int /\ ScaleAtomic(x + y) \in Int
  <1> DEFINE a == x * Up
             b == y * Up
  <1>1. Up \in Int /\ Down \in Nat \ {0}
    BY Decimals
  <1>2. a \in Int /\ b \in Int /\ (x + y) * Up = a + b
    BY <1>1
  <1>3. /\ ScaleAtomic(x) = a \div Down /\ ScaleAtomic(y) = b \div Down
        /\ ScaleAtomic(x + y) = (a + b) \div Down
    BY <1>2 DEF ScaleAtomic
  <1> HIDE DEF a, b
  <1>4. ASSUME NEW n \in Int
        PROVE  /\ n \div Down \in Int /\ Down * (n \div Down) \in Int
               /\ Down * (n \div Down) <= n /\ n < Down * (n \div Down) + Down
    BY <1>1
  <1> DEFINE p == a \div Down
             q == b \div Down
             r == (a + b) \div Down
  <1>5. /\ p \in Int /\ q \in Int /\ r \in Int
        /\ Down * p \in Int /\ Down * q \in Int /\ Down * r \in Int
        /\ Down * p <= a /\ Down * q <= b /\ a + b < Down * r + Down
    BY <1>2, <1>4
  <1>6. ScaleAtomic(x) = p /\ ScaleAtomic(y) = q /\ ScaleAtomic(x + y) = r
    BY <1>3
  <1> HIDE DEF p, q, r
  <1>7. Down * p + Down * q < Down * r + Down
    BY <1>1, <1>2, <1>5
  <1>8. Down * (p + q) < Down * (r + 1)
    BY <1>1, <1>5, <1>7
  <1>9. ASSUME NEW m \in Int, NEW n \in Int, NEW d \in Nat \ {0}, d * m < d * n PROVE m < n
    <2>1. CASE m >= n
      <3>1. d * (m - n) >= 0
        BY <2>1
      <3> QED BY <1>9, <3>1
    <2> QED BY <2>1
  <1>10. p + q < r + 1
    BY <1>1, <1>5, <1>8, <1>9
  <1> QED BY <1>5, <1>6, <1>10

\* An amount of a redemption that is not refused scales down and up to itself.
LEMMA RefusedNot ==
  ASSUME NEW r, r.amount \in Nat, r.known \in Int, ~Refused(r)
  PROVE  /\ Down = 1 /\ ScaleAtomic(Unscale(r.amount)) = r.amount
         /\ Unscale(r.amount) <= r.known
  <1> DEFINE a == r.amount
  <1>1. /\ ~(Down > 1) /\ ~(a % Up # 0) /\ ~(Unscale(a) > r.known)
    BY DEF Refused
  <1>2. Down = 1 /\ Up \in Nat \ {0}
    BY <1>1, Decimals
  <1>3. a % Up = 0 /\ a \in Nat
    BY <1>1
  <1> HIDE DEF a
  <1>4. a = Up * (a \div Up) + (a % Up) /\ a \div Up \in Nat
    BY <1>2, <1>3
  <1>5. Unscale(a) = a \div Up
    BY <1>2, <1>3 DEF Unscale
  <1>6. ScaleAtomic(a \div Up) = a
    <2> DEFINE q == a \div Up
    <2>1. q * Up = a
      BY <1>2, <1>3, <1>4
    <2> HIDE DEF q
    <2> QED BY <1>2, <1>3, <2>1 DEF ScaleAtomic, q
  <1> QED BY <1>1, <1>2, <1>5, <1>6 DEF a

\* What a frame scales is what it moves.
Exact(r) ==
  /\ r.op = "claim" => r.amount = ScaleAtomic(r.known)
  /\ r.op = "redeem" /\ r.at # "balance" =>
         Down = 1 /\ ScaleAtomic(Unscale(r.amount)) = r.amount

ExactInv == \A s \in Slots : Exact(requests[s])

\* The tokens that are accounted for; claims of a coarser token lose the rest of a
\* division each.
Named(u) == ScaleAtomic(claims[u]) + Pending(u) + skew[u].lost + skew[u].reverted

Balanced(u) == supply[u] <= Named(u) /\ (Down = 1 => supply[u] = Named(u))

ClaimInv == ExactInv /\ \A u \in Accounts : Balanced(u)

\* A frame that has nothing mined has no share.
LEMMA NoShare ==
  ASSUME NEW r, NEW u,
         r.at # "mined" \/ (r.op # "claim" /\ r.op # "redeem") \/ r.who # u
  PROVE  Share(r, u) = 0
  BY DEF Share, PartOf

\* A step that leaves the books of the claims, and what is pending.
LEMMA ClaimQuiet ==
  ASSUME ClaimInv, UNCHANGED <<supply, claims, skew>>, ExactInv',
         \A u \in Accounts : Pending(u)' = Pending(u)
  PROVE  ClaimInv'
  BY DEF ClaimInv, Balanced, Named

\* A step of one frame that has nothing mined, before or after.
LEMMA ClaimMoves ==
  ASSUME FramesOK, FramesOK', ClaimInv, UNCHANGED <<supply, claims, skew>>,
         NEW s \in Slots, NEW r, Only(s, r), Exact(r),
         r.at # "mined" \/ (r.op # "claim" /\ r.op # "redeem"),
         \/ requests[s].at # "mined"
         \/ requests[s].op # "claim" /\ requests[s].op # "redeem"
  PROVE  ClaimInv'
  <1>1. ExactInv'
    BY DEF ClaimInv, ExactInv, Only
  <1>2. ASSUME NEW u \in Accounts PROVE Pending(u)' = Pending(u)
    <2>1. Share(r, u) = 0 /\ Share(requests[s], u) = 0
      BY NoShare
    <2>2. Pending(u)' = Pending(u) + Share(r, u) - Share(requests[s], u) /\ Pending(u) \in Int
      BY PendingMoves
    <2> QED BY <2>1, <2>2
  <1> QED BY <1>1, <1>2, ClaimQuiet

\* A step that leaves the frames and the books alone.
LEMMA ClaimAlone ==
  ASSUME ClaimInv, UNCHANGED <<requests, supply, claims, skew>>
  PROVE  ClaimInv'
  <1>1. \A u \in Accounts : Pending(u)' = Pending(u)
    BY DEF Pending, Unrecorded, At
  <1> QED BY <1>1, ClaimQuiet DEF ClaimInv, ExactInv

\* Frames that are exact by what they are.
LEMMA ExactFrames ==
  /\ Exact(Idle)
  /\ \A r \in VerifyFrames \cup BalanceFrames \cup SwapFrames : Exact(r)
  BY DEF Exact, Idle, VerifyFrames, BalanceFrames, SwapFrames

\* A transaction that is mined is pending if its request waits for it.
LEMMA PendingMined ==
  ASSUME SignerInv, NEW tx, NEW works, Mine(tx, works), NEW u, NEW d, d = Minted(tx)
  PROVE  /\ Pending(u) \in Int
         /\ Awaited(tx) /\ tx \in TokenTxs /\ u = tx.who => Pending(u)' = Pending(u) + d
         /\ ~(Awaited(tx) /\ tx \in TokenTxs /\ u = tx.who) => Pending(u)' = Pending(u)
  <1>1. /\ SignerInv' /\ tx \in TokenTxs \cup SwapTxs
        /\ \A s \in Slots : requests[s].at # "receipt" => requests'[s] = requests[s]
        /\ \A s \in Slots : requests[s].at = "receipt" =>
              /\ requests[s] \in SendFrames /\ Sent(requests[s]) = tx
              /\ requests'[s] \in SendFrames /\ requests'[s].at = "mined"
              /\ requests'[s].op = requests[s].op
              /\ requests'[s].who = requests[s].who
              /\ requests'[s].amount = requests[s].amount
              /\ requests'[s].leg = requests[s].leg
    BY Mined
  <1>2. FramesOK /\ FramesOK' /\ Pending(u) \in Int
    BY <1>1, PendingIsSums DEF SignerInv
  <1>3. CASE \A s \in Slots : requests[s].at # "receipt"
    <2>1. ~Awaited(tx)
      BY <1>3 DEF Awaited
    <2>2. requests' = requests
      BY <1>1, <1>2, <1>3 DEF FramesOK
    <2>3. Pending(u)' = Pending(u)
      BY <2>2 DEF Pending, Unrecorded, At
    <2> QED BY <1>2, <2>1, <2>3
  <1>4. ASSUME NEW s \in Slots, requests[s].at = "receipt"
        PROVE  /\ Awaited(tx) /\ tx \in TokenTxs /\ u = tx.who => Pending(u)' = Pending(u) + d
               /\ ~(Awaited(tx) /\ tx \in TokenTxs /\ u = tx.who) => Pending(u)' = Pending(u)
    <2> DEFINE f == requests[s]
               r == requests'[s]
    <2>1. /\ f \in SendFrames /\ Sent(f) = tx /\ r \in SendFrames /\ r.at = "mined"
          /\ r.op = f.op /\ r.who = f.who /\ r.amount = f.amount /\ r.leg = f.leg
          /\ f.at = "receipt"
      BY <1>1, <1>4
    <2>2. /\ f.nonce = tx.nonce /\ f.leg = tx.leg /\ f.who = tx.who /\ f.amount = tx.amount
          /\ f.amount \in Nat
      BY <2>1, SendFrameParts
    <2>3. Awaited(tx)
      BY <2>2, <1>4 DEF Awaited
    <2>4. Only(s, r)
      BY <1>1, <1>4 DEF Only, SignerInv, WaitOK
    <2>5. Share(f, u) = 0
      BY <2>1, NoShare
    <2>6. Pending(u)' = Pending(u) + Share(r, u) - Share(f, u)
      BY <1>2, <2>4, PendingMoves
    <2>7. CASE tx \in TokenTxs /\ u = tx.who
      <3>1. tx.leg = "mint" \/ tx.leg = "burn"
        BY <2>7 DEF TokenTxs
      <3>2. \/ r.op = "claim" /\ tx.leg = "mint"
            \/ r.op = "redeem" /\ tx.leg = "burn"
        BY <2>1, <2>2, <3>1 DEF SendFrames, ClaimFrames, RedeemFrames, SwapFrames
      <3>3. Share(r, u) = d
        BY <2>1, <2>2, <2>7, <3>2 DEF Share, PartOf, Minted
      <3>4. d \in Int
        BY <2>2, <3>1 DEF Minted
      <3> HIDE DEF r, f
      <3> QED BY <1>2, <2>3, <2>5, <2>6, <2>7, <3>3, <3>4
    <2>8. CASE ~(tx \in TokenTxs /\ u = tx.who)
      <3>1. r.who # u \/ r.op = "instant"
        <4>1. CASE tx \in TokenTxs
          BY <2>1, <2>2, <2>8, <4>1
        <4>2. CASE tx \notin TokenTxs
          <5>1. f.leg \in {"transfer", "withdraw"}
            BY <1>1, <2>2, <4>2, TxParts
          <5> QED BY <2>1, <5>1 DEF SendFrames, ClaimFrames, RedeemFrames, SwapFrames
        <4> QED BY <4>1, <4>2
      <3>2. Share(r, u) = 0
        BY <3>1, NoShare
      <3> HIDE DEF r, f
      <3> QED BY <1>2, <2>5, <2>6, <2>8, <3>2
    <2> QED BY <2>7, <2>8
  <1> QED BY <1>2, <1>3, <1>4

\* Mining keeps the frames exact.
LEMMA ExactMined ==
  ASSUME SignerInv, ExactInv, NEW tx, NEW works, Mine(tx, works)
  PROVE  ExactInv'
  <1>1. /\ \A s \in Slots : requests[s].at # "receipt" => requests'[s] = requests[s]
        /\ \A s \in Slots : requests[s].at = "receipt" =>
              /\ requests'[s].op = requests[s].op
              /\ requests'[s].amount = requests[s].amount
              /\ requests'[s].known = requests[s].known
    BY Mined
  <1>2. ASSUME NEW s \in Slots PROVE Exact(requests'[s])
    BY <1>1 DEF ExactInv, Exact
  <1> QED BY <1>2 DEF ExactInv

\* A mint or a burn is mined.
LEMMA TokenMined ==
  ASSUME SignerInv, ClaimTypes, ClaimInv, NEW tx \in TokenTxs, NEW works, Mine(tx, works),
         TokenEffect(tx)
  PROVE  ClaimInv'
  <1> DEFINE w == tx.who
             d == Minted(tx)
  <1>1. ExactInv'
    BY ExactMined DEF ClaimInv
  <1>2. /\ ClaimTypes' /\ w \in Accounts /\ d \in Int
        /\ UNCHANGED <<bridged, deposited, claims, overlapped>>
        /\ \A u \in Accounts : u # w => supply'[u] = supply[u] /\ skew'[u] = skew[u]
        /\ TokenWorks(tx) => supply'[w] = supply[w] + d
        /\ ~TokenWorks(tx) => supply'[w] = supply[w]
        /\ TokenWorks(tx) /\ ~Awaited(tx) => skew'[w].lost = skew[w].lost + d
        /\ ~(TokenWorks(tx) /\ ~Awaited(tx)) => skew'[w].lost = skew[w].lost
        /\ ~TokenWorks(tx) /\ Awaited(tx) =>
               skew'[w].reverted = skew[w].reverted + tx.amount
        /\ ~(~TokenWorks(tx) /\ Awaited(tx)) =>
               skew'[w].reverted = skew[w].reverted
    BY TokenParts
  <1>3. ASSUME NEW u \in Accounts PROVE Balanced(u)'
    <2>1. /\ Pending(u) \in Int
          /\ Awaited(tx) /\ u = w => Pending(u)' = Pending(u) + d
          /\ ~(Awaited(tx) /\ u = w) => Pending(u)' = Pending(u)
      BY PendingMined
    <2>2. claims'[u] = claims[u]
      BY <1>2, <1>3
    <2>3. /\ supply[u] \in Int /\ skew[u].lost \in Int /\ skew[u].reverted \in Int
          /\ ScaleAtomic(claims[u]) \in Int
      BY ScaleNat DEF ClaimTypes
    <2>4. tx.amount \in Int /\ (~TokenWorks(tx) => d = -tx.amount)
      BY DEF TokenWorks, Minted, TokenTxs
    <2> HIDE DEF w, d
    <2>5. /\ supply'[u] \in Int /\ Pending(u)' \in Int
          /\ supply'[u] - Pending(u)' - skew'[u].lost - skew'[u].reverted
                = supply[u] - Pending(u) - skew[u].lost - skew[u].reverted
          /\ skew'[u].lost \in Int /\ skew'[u].reverted \in Int
      <3>1. CASE u # w
        BY <1>2, <2>1, <2>3, <3>1
      <3>2. CASE u = w /\ TokenWorks(tx)
        BY <1>2, <2>1, <2>3, <3>2
      <3>3. CASE u = w /\ ~TokenWorks(tx)
        BY <1>2, <2>1, <2>3, <2>4, <3>3
      <3> QED BY <3>1, <3>2, <3>3
    <2>6. ScaleAtomic(claims[u])' = ScaleAtomic(claims[u])
      BY <2>2 DEF ScaleAtomic
    <2>7. /\ supply[u] <= ScaleAtomic(claims[u]) + Pending(u) + skew[u].lost + skew[u].reverted
          /\ Down = 1 => supply[u]
                = ScaleAtomic(claims[u]) + Pending(u) + skew[u].lost + skew[u].reverted
      BY <1>3 DEF ClaimInv, Balanced, Named
    <2> QED BY <2>1, <2>3, <2>5, <2>6, <2>7 DEF Balanced, Named
  <1> QED BY <1>1, <1>3 DEF ClaimInv

\* A mined claim is recorded: what was pending is claimed.
LEMMA ClaimRecords ==
  ASSUME SignerInv, ClaimTypes, ClaimInv, NEW s \in Slots, RecordClaim(s),
         NEW f, f = requests[s]
  PROVE  ClaimInv'
  <1>1. /\ SignerInv' /\ ClaimTypes' /\ Only(s, Idle)
        /\ f \in ClaimFrames /\ f.at = "mined"
        /\ UNCHANGED <<bridged, deposited, tokens, supply, skew, overlapped, account, pool>>
        /\ claims'[f.who] = claims[f.who] + f.known
        /\ \A u \in Accounts : u # f.who => claims'[u] = claims[u]
    BY ClaimRecorded
  <1>2. /\ f.op = "claim" /\ f.amount \in Nat /\ f.known \in Nat
        /\ f.amount \in Int /\ f.known \in Int
    BY <1>1 DEF ClaimFrames
  <1>3. f.amount = ScaleAtomic(f.known)
    BY <1>2 DEF ClaimInv, ExactInv, Exact
  <1>4. ExactInv'
    BY <1>1, ExactFrames DEF ClaimInv, ExactInv, Only
  <1>5. ASSUME NEW u \in Accounts PROVE Balanced(u)'
    <2>1. Pending(u)' = Pending(u) + Share(Idle, u) - Share(f, u) /\ Pending(u) \in Int
      BY <1>1, PendingMoves DEF SignerInv
    <2>2. Share(Idle, u) = 0
      BY IdleFrame, NoShare
    <2>3. /\ u = f.who => Share(f, u) = f.amount
          /\ u # f.who => Share(f, u) = 0
      BY <1>1, <1>2 DEF Share, PartOf
    <2>4. /\ supply[u] <= ScaleAtomic(claims[u]) + Pending(u) + skew[u].lost + skew[u].reverted
          /\ Down = 1 => supply[u]
                = ScaleAtomic(claims[u]) + Pending(u) + skew[u].lost + skew[u].reverted
      BY <1>5 DEF ClaimInv, Balanced, Named
    <2>5. /\ supply[u] \in Int /\ skew[u].lost \in Int /\ skew[u].reverted \in Int
          /\ claims[u] \in Int /\ supply'[u] = supply[u] /\ skew'[u] = skew[u]
      BY <1>1 DEF ClaimTypes
    <2>6. /\ ScaleAtomic(claims[u] + f.known) >= ScaleAtomic(claims[u]) + ScaleAtomic(f.known)
          /\ Down = 1 => ScaleAtomic(claims[u] + f.known)
                            = ScaleAtomic(claims[u]) + ScaleAtomic(f.known)
          /\ ScaleAtomic(claims[u]) \in Int /\ ScaleAtomic(f.known) \in Int
          /\ ScaleAtomic(claims[u] + f.known) \in Int
      BY <1>2, <2>5, ScaleLinear, ScaleParts
    <2>7. /\ supply'[u] <= ScaleAtomic(claims'[u]) + Pending(u)' + skew'[u].lost + skew'[u].reverted
          /\ Down = 1 => supply'[u]
                = ScaleAtomic(claims'[u]) + Pending(u)' + skew'[u].lost + skew'[u].reverted
      <3>1. CASE u = f.who
        <4>1. /\ ScaleAtomic(claims'[u]) \in Int
              /\ ScaleAtomic(claims'[u]) >= ScaleAtomic(claims[u]) + f.amount
              /\ Down = 1 => ScaleAtomic(claims'[u]) = ScaleAtomic(claims[u]) + f.amount
          BY <1>1, <1>3, <2>6, <3>1
        <4> QED BY <1>2, <2>1, <2>2, <2>3, <2>4, <2>5, <2>6, <3>1, <4>1
      <3>2. CASE u # f.who
        BY <1>1, <2>1, <2>2, <2>3, <2>4, <2>5, <2>6, <3>2
      <3> QED BY <3>1, <3>2
    <2> QED BY <2>7 DEF Balanced, Named, ScaleAtomic
  <1> QED BY <1>4, <1>5 DEF ClaimInv

\* A mined burn is recorded: what was pending is claimed no more.
LEMMA RedeemRecords ==
  ASSUME SignerInv, ClaimTypes, ClaimInv, NEW s \in Slots, RecordRedeem(s),
         NEW f, f = requests[s], NEW x, x = Unscale(f.amount)
  PROVE  ClaimInv'
  <1>1. /\ SignerInv' /\ ClaimTypes' /\ Only(s, Idle)
        /\ f \in RedeemFrames /\ f.at = "mined"
        /\ UNCHANGED <<bridged, deposited, tokens, supply, skew, overlapped, account, pool>>
        /\ claims'[f.who] = claims[f.who] - x
        /\ \A u \in Accounts : u # f.who => claims'[u] = claims[u]
    BY RedeemRecorded
  <1>2. f.op = "redeem" /\ f.amount \in Nat
    BY <1>1, InputsNat DEF RedeemFrames
  <1>3. f.amount = ScaleAtomic(x) /\ x \in Int /\ Down = 1
    BY <1>1, <1>2, ScaleNat DEF ClaimInv, ExactInv, Exact
  <1>4. ExactInv'
    BY <1>1, ExactFrames DEF ClaimInv, ExactInv, Only
  <1>5. ASSUME NEW u \in Accounts PROVE Balanced(u)'
    <2>1. Pending(u)' = Pending(u) + Share(Idle, u) - Share(f, u) /\ Pending(u) \in Int
      BY <1>1, PendingMoves DEF SignerInv
    <2>2. Share(Idle, u) = 0
      BY IdleFrame, NoShare
    <2>3. /\ u = f.who => Share(f, u) = -f.amount
          /\ u # f.who => Share(f, u) = 0
      BY <1>1, <1>2 DEF Share, PartOf
    <2>4. supply[u] = ScaleAtomic(claims[u]) + Pending(u) + skew[u].lost + skew[u].reverted
      BY <1>3, <1>5 DEF ClaimInv, Balanced, Named
    <2>5. /\ supply[u] \in Int /\ skew[u].lost \in Int /\ skew[u].reverted \in Int
          /\ claims[u] \in Int /\ supply'[u] = supply[u] /\ skew'[u] = skew[u]
      BY <1>1 DEF ClaimTypes
    <2>6. /\ ScaleAtomic(claims[u] - x) = ScaleAtomic(claims[u]) - ScaleAtomic(x)
          /\ ScaleAtomic(claims[u]) \in Int
      BY <1>3, <2>5, ScaleLinear
    <2>7. supply'[u] = ScaleAtomic(claims'[u]) + Pending(u)' + skew'[u].lost + skew'[u].reverted
      <3>1. CASE u = f.who
        <4>1. ScaleAtomic(claims'[u]) = ScaleAtomic(claims[u]) - f.amount
          BY <1>1, <1>3, <2>6, <3>1
        <4> QED BY <1>2, <2>1, <2>2, <2>3, <2>4, <2>5, <2>6, <3>1, <4>1
      <3>2. CASE u # f.who
        BY <1>1, <2>1, <2>2, <2>3, <2>4, <2>5, <2>6, <3>2
      <3> QED BY <3>1, <3>2
    <2>8. supply'[u] \in Int
      BY <2>5
    <2> QED BY <2>7, <2>8 DEF Balanced, Named, ScaleAtomic
  <1> QED BY <1>4, <1>5 DEF ClaimInv

\* Nothing is pending where nobody asks.
LEMMA NothingPending ==
  ASSUME \A s \in Slots : requests[s] = Idle, NEW u
  PROVE  Pending(u) = 0
  <1>1. Unrecorded("claim", u) = {} /\ Unrecorded("redeem", u) = {}
    BY IdleFrame DEF Unrecorded, At
  <1> DEFINE f == [s \in Unrecorded("claim", u) |-> requests[s].amount]
             g == [s \in Unrecorded("redeem", u) |-> requests[s].amount]
  <1>2. {} = DOMAIN f /\ {} = DOMAIN g
    BY <1>1
  <1>3. Pending(u) = SumFunction(f) - SumFunction(g)
    BY DEF Pending
  <1> HIDE DEF f, g
  <1>4. SumFunction(f) = 0 /\ SumFunction(g) = 0
    BY <1>2, SumOfFunction, SumEmpty
  <1> QED BY <1>3, <1>4

\* A stop loses what was pending.
LEMMA ClaimStops ==
  ASSUME SignerInv, ClaimTypes, ClaimInv, StopSigner, StopClaims
  PROVE  ClaimInv'
  <1>1. \A s \in Slots : requests'[s] = Idle
    BY Stopped
  <1>2. /\ UNCHANGED <<supply, claims>>
        /\ \A u \in Accounts : /\ skew'[u].lost = skew[u].lost + Pending(u)
                               /\ skew'[u].reverted = skew[u].reverted
    BY StopParts DEF SignerInv
  <1>3. ExactInv'
    BY <1>1, ExactFrames DEF ExactInv
  <1>4. ASSUME NEW u \in Accounts PROVE Balanced(u)'
    <2>1. Pending(u)' = 0
      <3>1. Unrecorded("claim", u)' = {} /\ Unrecorded("redeem", u)' = {}
        BY <1>1, IdleFrame DEF Unrecorded, At
      <3> DEFINE f == [s \in Unrecorded("claim", u) |-> requests[s].amount]'
                 g == [s \in Unrecorded("redeem", u) |-> requests[s].amount]'
      <3>2. {} = DOMAIN f /\ {} = DOMAIN g
        BY <3>1
      <3>3. Pending(u)' = SumFunction(f) - SumFunction(g)
        BY DEF Pending
      <3> HIDE DEF f, g
      <3>4. SumFunction(f) = 0 /\ SumFunction(g) = 0
        BY <3>2, SumOfFunction, SumEmpty
      <3> QED BY <3>3, <3>4
    <2>2. Pending(u) \in Int
      BY PendingIsSums DEF SignerInv
    <2>3. /\ supply[u] <= ScaleAtomic(claims[u]) + Pending(u) + skew[u].lost + skew[u].reverted
          /\ Down = 1 => supply[u]
                = ScaleAtomic(claims[u]) + Pending(u) + skew[u].lost + skew[u].reverted
      BY <1>4 DEF ClaimInv, Balanced, Named
    <2>4. /\ supply[u] \in Int /\ skew[u].lost \in Int /\ skew[u].reverted \in Int
          /\ ScaleAtomic(claims[u]) \in Int
      BY ScaleNat DEF ClaimTypes
    <2>5. /\ supply[u] <= ScaleAtomic(claims[u]) + 0 + skew'[u].lost + skew'[u].reverted
          /\ Down = 1 => supply[u]
                = ScaleAtomic(claims[u]) + 0 + skew'[u].lost + skew'[u].reverted
      BY <1>2, <2>2, <2>3, <2>4
    <2> QED BY <1>2, <2>1, <2>5 DEF Balanced, Named, ScaleAtomic
  <1> QED BY <1>3, <1>4 DEF ClaimInv

\* Nothing is minted, claimed or asked for at the start.
LEMMA ClaimStarts == Init => ClaimInv
  <1> SUFFICES ASSUME Init PROVE ClaimInv
    OBVIOUS
  <1>1. \A s \in Slots : requests[s] = Idle
    BY DEF Init, SignerInit
  <1>2. ExactInv
    BY <1>1, ExactFrames DEF ExactInv
  <1>3. ASSUME NEW u \in Accounts PROVE Balanced(u)
    <2>1. Pending(u) = 0
      BY <1>1, NothingPending
    <2>2. supply[u] = 0 /\ claims[u] = 0 /\ skew[u].lost = 0 /\ skew[u].reverted = 0
      BY DEF Init, ClaimsInit
    <2>3. ScaleAtomic(0) = 0
      <3>1. /\ 0 * Up = 0
            /\ \A d \in Nat \ {0} : 0 \div d = 0
        BY Decimals
      <3> QED BY <3>1, Decimals DEF ScaleAtomic
    <2> QED BY <2>1, <2>2, <2>3 DEF Balanced, Named
  <1> QED BY <1>2, <1>3 DEF ClaimInv

\* A handler's step on the account mines nothing.
LEMMA ClaimSends ==
  ASSUME BaseInv, ClaimInv, NEW s \in Slots, SignerStep(s)
  PROVE  ClaimInv'
  <1> DEFINE f == requests[s]
  <1>1. PICK r \in Frames : SignerMove(s, f, r)
    BY SignerMoves DEF BaseInv, Types
  <1>2. /\ SignerInv' /\ f \in SendFrames /\ f.at \in Sending
        /\ UNCHANGED <<supply, claims, skew>>
    BY SignerMoves DEF BaseInv, Types, claimVars
  <1>3. Only(s, r) /\ (r = Idle \/ Continues(f, r)) /\ r.at # "mined"
    BY <1>1 DEF SignerMove
  <1>4. f.at # "mined" /\ f.at # "balance" /\ Exact(f)
    BY <1>2 DEF Sending, ClaimInv, ExactInv
  <1> HIDE DEF f
  <1>5. Exact(r)
    <2>1. CASE r = Idle
      BY <2>1, ExactFrames
    <2>2. CASE Continues(f, r)
      <3>1. r.op = f.op /\ r.amount = f.amount /\ r.known = f.known
        BY <2>2 DEF Continues
      <3> QED BY <1>4, <3>1 DEF Exact
    <2> QED BY <1>3, <2>1, <2>2
  <1>6. FramesOK /\ FramesOK'
    BY <1>2 DEF BaseInv, Types, SignerInv
  <1>7. requests[s].at # "mined"
    BY <1>4 DEF f
  <1> QED BY <1>2, <1>3, <1>5, <1>6, <1>7, ClaimMoves

\* The look at the wallet begins an exact burn, or ends the request.
LEMMA ClaimChecks ==
  ASSUME BaseInv, ClaimInv, NEW s \in Slots, CheckRedeem(s)
  PROVE  ClaimInv'
  <1> DEFINE f == requests[s]
  <1>1. /\ SignerInv' /\ f \in BalanceFrames
        /\ \/ Only(s, Idle)
           \/ /\ ~Refused(f)
              /\ \E r \in RedeemFrames :
                    /\ Only(s, r) /\ r.at = "count" /\ r.who = f.who
                    /\ r.amount = f.amount /\ r.known = f.known
    BY RedeemChecked DEF BaseInv, Types
  <1>2. UNCHANGED <<supply, claims, skew>>
    BY DEF CheckRedeem, claimVars
  <1>3. f.at = "balance" /\ f.amount \in Nat /\ f.known \in Int
    BY <1>1, InputsNat DEF BalanceFrames
  <1> HIDE DEF f
  <1>4. FramesOK /\ FramesOK' /\ requests[s].at # "mined"
    BY <1>1, <1>3 DEF BaseInv, Types, SignerInv, f
  <1>5. CASE Only(s, Idle)
    <2>1. Exact(Idle) /\ Idle.at # "mined"
      BY ExactFrames, IdleFrame
    <2> QED BY <1>2, <1>4, <1>5, <2>1, ClaimMoves
  <1>6. ASSUME ~Refused(f), NEW r \in RedeemFrames, Only(s, r), r.at = "count",
               r.amount = f.amount
        PROVE  ClaimInv'
    <2>1. Down = 1 /\ ScaleAtomic(Unscale(f.amount)) = f.amount
      BY <1>3, <1>6, RefusedNot
    <2>2. r.op = "redeem"
      BY DEF RedeemFrames
    <2>3. Exact(r)
      BY <1>6, <2>1, <2>2 DEF Exact
    <2> QED BY <1>2, <1>4, <1>6, <2>3, ClaimMoves
  <1> QED BY <1>1, <1>5, <1>6

\* Every step keeps the claims' books.
LEMMA ClaimKeeps == BaseInv /\ ClaimInv /\ [Next]_serverVars => ClaimInv'
  <1> SUFFICES ASSUME BaseInv, ClaimInv, [Next]_serverVars PROVE ClaimInv'
    OBVIOUS
  <1>0. /\ SignerInv /\ ClaimTypes /\ SwapTypes /\ AuthTypes /\ FramesOK
        /\ RefsOK
    BY DEF BaseInv, Types, SignerInv
  <1>idle. \A s \in Slots : requests[s] = Idle => requests[s].at # "mined"
    BY IdleFrame
  <1>1. ASSUME NEW a \in Addresses, PostAuthNonce(a) PROVE ClaimInv'
    BY <1>1, ClaimAlone DEF PostAuthNonce, CreateChallenge, signerVars, claimVars
  <1>2. ASSUME NEW s \in Slots, NEW a \in Addresses, NEW signer \in Addresses,
               NEW n \in 1 .. issued, PostAuthVerify(s, a, n, signer)
        PROVE  ClaimInv'
    <2>1. VerifyChallenge(s, a, n, signer) /\ UNCHANGED <<supply, claims, skew>>
      BY <1>2 DEF PostAuthVerify, claimVars
    <2>2. SignerInv' /\ requests[s] = Idle /\ \E r \in VerifyFrames : Only(s, r)
      BY <1>0, <2>1, Verifying
    <2>3. \A r \in VerifyFrames : Exact(r) /\ r.at # "mined"
      BY ExactFrames DEF VerifyFrames
    <2> QED BY <1>0, <1>idle, <2>1, <2>2, <2>3, ClaimMoves DEF SignerInv
  <1>3. ASSUME NEW token \in sessions, PostAuthRefresh(token) PROVE ClaimInv'
    BY <1>3, ClaimAlone DEF PostAuthRefresh, RefreshToken, signerVars, claimVars
  <1>4. ASSUME NEW s \in Slots, NEW u \in Accounts, PostBridgeClaim(s, u) PROVE ClaimInv'
    <2>1. Claim(s, u) /\ UNCHANGED <<supply, claims, skew>>
      BY <1>4 DEF PostBridgeClaim, Claim, Ask
    <2>2. /\ SignerInv' /\ requests[s] = Idle
          /\ \E r \in ClaimFrames :
                /\ Only(s, r) /\ r.at = "count"
                /\ r.known = Claimable(u) /\ r.amount = ScaleAtomic(Claimable(u))
      BY <1>0, <2>1, Claimed
    <2>3. \A r \in ClaimFrames : r.amount = ScaleAtomic(r.known) => Exact(r)
      BY DEF Exact, ClaimFrames
    <2> QED BY <1>0, <1>idle, <2>1, <2>2, <2>3, ClaimMoves DEF SignerInv
  <1>5. ASSUME NEW s \in Slots, NEW u \in Accounts, NEW amount \in RedeemAmounts,
               PostBridgeRedeem(s, u, amount)
        PROVE  ClaimInv'
    <2>1. Redeem(s, u, amount) /\ UNCHANGED <<supply, claims, skew>>
      BY <1>5 DEF PostBridgeRedeem, Redeem, Ask
    <2>2. SignerInv' /\ requests[s] = Idle /\ \E r \in BalanceFrames : Only(s, r)
      BY <1>0, <2>1, Redeemed
    <2>3. \A r \in BalanceFrames : Exact(r) /\ r.at # "mined"
      BY ExactFrames DEF BalanceFrames
    <2> QED BY <1>0, <1>idle, <2>1, <2>2, <2>3, ClaimMoves DEF SignerInv
  <1>6. ASSUME NEW s \in Slots, NEW u \in Accounts, NEW in \in SwapTokens,
               NEW amount \in SwapAmounts, PostSwapExecute(s, u, in, amount)
        PROVE  ClaimInv'
    <2>1. SettleInstantLocalSwap(s, in, amount) /\ UNCHANGED <<supply, claims, skew>>
      BY <1>6 DEF PostSwapExecute, claimVars
    <2>2. /\ SignerInv' /\ requests[s] = Idle
          /\ \E r \in SwapFrames : Only(s, r) /\ r.at = "count"
      BY <1>0, <2>1, SwapStarted
    <2> QED BY <1>0, <1>idle, <2>1, <2>2, ExactFrames, ClaimMoves DEF SignerInv
  <1>7. ASSUME NEW s \in Slots, SignerStep(s) PROVE ClaimInv'
    BY <1>7, ClaimSends
  <1>8. ASSUME NEW s \in Slots, AuthStep(s) PROVE ClaimInv'
    <2>1. RecoverSigner(s) /\ UNCHANGED <<supply, claims, skew>>
      BY <1>8 DEF AuthStep, claimVars
    <2>2. SignerInv' /\ Only(s, Idle)
      BY <1>0, <2>1, Recovered
    <2>3. requests[s].at # "mined"
      BY <2>1 DEF RecoverSigner, At
    <2> QED BY <1>0, <2>1, <2>2, <2>3, IdleFrame, ExactFrames, ClaimMoves DEF SignerInv
  <1>9. ASSUME NEW s \in Slots, ClaimStep(s) PROVE ClaimInv'
    BY <1>0, <1>9, ClaimChecks, ClaimRecords, RedeemRecords DEF ClaimStep
  <1>10. ASSUME NEW s \in Slots, SettleStep(s) PROVE ClaimInv'
    <2>1. (SignWithdrawal(s) \/ Book(s)) /\ UNCHANGED <<supply, claims, skew>>
      BY <1>10 DEF SettleStep, claimVars
    <2>2. requests[s].op = "instant"
      BY <2>1 DEF SignWithdrawal, Book, At
    <2>3. CASE SignWithdrawal(s)
      <3>1. SignerInv' /\ \E r \in SwapFrames : Only(s, r) /\ r.at = "count"
        BY <1>0, <2>3, WithdrawalSigned
      <3> QED BY <1>0, <2>1, <2>2, <3>1, ExactFrames, ClaimMoves DEF SignerInv
    <2>4. CASE Book(s)
      <3>1. SignerInv' /\ Only(s, Idle)
        BY <1>0, <2>4, Booked
      <3> QED BY <1>0, <2>1, <2>2, <3>1, IdleFrame, ExactFrames, ClaimMoves DEF SignerInv
    <2> QED BY <2>1, <2>3, <2>4
  <1>11. ASSUME NEW late \in BOOLEAN, MineNext(late) PROVE ClaimInv'
    <2>1. PICK tx \in pool :
            /\ Mine(tx, Works(tx, late))
            /\ \/ tx.leg \in {"mint", "burn"} /\ TokenEffect(tx)
               \/ tx.leg \notin {"mint", "burn"} /\ UNCHANGED claimVars
      BY <1>11 DEF MineNext
    <2>2. tx \in TokenTxs \cup SwapTxs
      BY <1>0, <2>1, Mined
    <2>3. CASE tx.leg \in {"mint", "burn"} /\ TokenEffect(tx)
      BY <1>0, <2>1, <2>2, <2>3, TxParts, TokenMined
    <2>4. CASE tx.leg \notin {"mint", "burn"} /\ UNCHANGED claimVars
      <3>1. \A u \in Accounts : Pending(u)' = Pending(u)
        BY <1>0, <2>1, <2>2, <2>4, TxParts, PendingMined
      <3>2. ExactInv'
        BY <1>0, <2>1, ExactMined DEF ClaimInv
      <3> QED BY <2>4, <3>1, <3>2, ClaimQuiet DEF claimVars
    <2> QED BY <2>1, <2>3, <2>4
  <1>12. CASE Elsewhere
    <2>1. ASSUME NEW u \in Accounts,
                 BridgeIn(u) \/ BridgeOut(u) \/ \E amount \in {-Up, Up} : Transfer(u, amount)
          PROVE  ClaimInv'
      <3>1. UNCHANGED <<supply, claims, skew, overlapped, signerVars>>
        BY <1>0, <2>1, ElsewhereParts
      <3> QED BY <3>1, ClaimAlone DEF signerVars
    <2>2. ASSUME NEW t \in SwapTokens, VaultPays(t), UNCHANGED claimVars PROVE ClaimInv'
      BY <2>2, ClaimAlone DEF VaultPays, signerVars, claimVars
    <2> QED BY <1>12, <2>1, <2>2 DEF Elsewhere
  <1>13. CASE Tick /\ UNCHANGED <<claimVars, settleVars>>
    BY <1>13, ClaimAlone DEF Tick, signerVars, claimVars
  <1>14. CASE Restart
    BY <1>0, <1>14, ClaimStops DEF Restart
  <1>15. CASE UNCHANGED serverVars
    BY <1>15, ClaimAlone DEF serverVars, signerVars, claimVars
  <1> QED BY <1>1, <1>2, <1>3, <1>4, <1>5, <1>6, <1>7, <1>8, <1>9, <1>10, <1>11, <1>12,
             <1>13, <1>14, <1>15 DEF Next, Routes

\* Every token out for an account is one its claims stand for, one that is mined and
\* not recorded, or one the history names (bridgeClaims.ts:168, :261).
THEOREM TokensAreAccounted == Spec => []ClaimsAccounted
  <1>1. Init => BaseInv /\ ClaimInv
    BY BaseStart, ClaimStarts
  <1>2. BaseInv /\ ClaimInv /\ [Next]_serverVars => BaseInv' /\ ClaimInv'
    BY BaseStep, ClaimKeeps
  <1>3. ClaimInv => ClaimsAccounted
    BY DEF ClaimInv, Balanced, Named, ClaimsAccounted
  <1> QED BY <1>1, <1>2, <1>3, PTL DEF Spec
-----------------------------------------------------------------------------
(* Who asks one thing at a time is backed by what was bridged in. *)

Asks(r, u) == r.op \in {"claim", "redeem"} /\ r.who = u

\* What a request knows is true for as long as nobody else asks for its account.
Backed(r, c, d) ==
  /\ r.op = "claim" => c + r.known <= d
  /\ r.op = "redeem" => r.known = c /\ (r.at # "balance" => Unscale(r.amount) <= c)

QuietOf(u) ==
  /\ claims[u] >= 0 /\ claims[u] <= deposited[u]
  /\ \A s, z \in Slots : Asks(requests[s], u) /\ Asks(requests[z], u) => s = z
  /\ \A s \in Slots : Asks(requests[s], u) =>
                          Backed(requests[s], claims[u], deposited[u])

QuietInv ==
  /\ \A u \in Accounts : bridged[u] <= deposited[u]
  /\ \A u \in Accounts : u \notin overlapped => QuietOf(u)

\* A token coarser than its source is never burnt: each redemption is refused.
BurnInv ==
  Down > 1 => /\ \A tx \in pool : tx.leg # "burn"
              /\ \A u \in Accounts : supply[u] >= 0

\* A request's claim goes on as it was, if it goes on.
Follows(s) ==
  requests'[s].op \in {"claim", "redeem"} =>
    /\ requests'[s].op = requests[s].op /\ requests'[s].who = requests[s].who
    /\ requests'[s].known = requests[s].known /\ requests'[s].amount = requests[s].amount
    /\ requests[s].at = "balance" => requests'[s].at = "balance"

\* More may be bridged in meanwhile.
LEMMA BackedFollows ==
  ASSUME NEW s \in Slots, FramesOK, Follows(s), NEW u, Asks(requests'[s], u),
         NEW c \in Int, NEW d \in Int, NEW e \in Int, d <= e, Backed(requests[s], c, d)
  PROVE  Backed(requests'[s], c, e) /\ Asks(requests[s], u)
  <1> DEFINE f == requests[s]
             r == requests'[s]
  <1>1. /\ r.op \in {"claim", "redeem"} /\ r.op = f.op /\ r.who = f.who /\ r.known = f.known
        /\ r.amount = f.amount /\ (f.at = "balance" => r.at = "balance") /\ r.who = u
    BY DEF Follows, Asks
  <1>2. f.op = "claim" => f.known \in Int
    <2>1. f.op = "claim" => f \in ClaimFrames
      BY FrameAt DEF FramesOK
    <2> QED BY <2>1 DEF ClaimFrames
  <1>3. Backed(f, c, d)
    OBVIOUS
  <1> HIDE DEF f, r
  <1>4. Backed(r, c, e)
    BY <1>1, <1>2, <1>3 DEF Backed
  <1>5. Asks(f, u)
    BY <1>1 DEF Asks
  <1> QED BY <1>4, <1>5 DEF f, r

\* A step in which no request begins or is recorded.
LEMMA QuietSame ==
  ASSUME FramesOK, ClaimTypes, ClaimTypes', QuietInv, UNCHANGED <<claims, overlapped>>,
         \A u \in Accounts : bridged'[u] <= deposited'[u] /\ deposited[u] <= deposited'[u],
         \A s \in Slots : Follows(s)
  PROVE  QuietInv'
  <1>1. ASSUME NEW u \in Accounts, u \notin overlapped PROVE QuietOf(u)'
    <2>1. QuietOf(u)
      BY <1>1 DEF QuietInv
    <2>2. /\ claims[u] \in Int /\ deposited[u] \in Int /\ deposited'[u] \in Int
          /\ claims'[u] = claims[u] /\ deposited[u] <= deposited'[u]
      BY <1>1 DEF ClaimTypes
    <2>3. \A s \in Slots : Asks(requests[s], u) =>
                               Backed(requests[s], claims[u], deposited[u])
      BY <2>1 DEF QuietOf
    <2>4. ASSUME NEW s \in Slots, Asks(requests'[s], u) PROVE Asks(requests[s], u)
      BY <2>4 DEF Follows, Asks
    <2>5. ASSUME NEW s \in Slots, Asks(requests'[s], u)
          PROVE  Backed(requests'[s], claims[u], deposited'[u])
      BY <2>2, <2>3, <2>4, <2>5, BackedFollows
    <2>6. claims'[u] >= 0 /\ claims'[u] <= deposited'[u]
      BY <2>1, <2>2 DEF QuietOf
    <2>7. \A s, z \in Slots : Asks(requests[s], u) /\ Asks(requests[z], u) => s = z
      BY <2>1 DEF QuietOf
    <2>8. \A s, z \in Slots : Asks(requests'[s], u) /\ Asks(requests'[z], u) => s = z
      BY <2>4, <2>7
    <2>9. \A s \in Slots : Asks(requests'[s], u) =>
                               Backed(requests'[s], claims'[u], deposited'[u])
      BY <2>2, <2>5
    <2> QED BY <2>6, <2>8, <2>9 DEF QuietOf, Asks, Backed, Unscale
  <1> QED BY <1>1 DEF QuietInv

\* A request begins: it knows what is true, or its account has two.
LEMMA QuietBegins ==
  ASSUME QuietInv, NEW s \in Slots, NEW u \in Accounts, Ask(u), requests[s] = Idle,
         NEW r, Only(s, r), r.op \in {"claim", "redeem"}, r.who = u,
         u \notin overlapped => Backed(r, claims[u], deposited[u])
  PROVE  QuietInv'
  <1>1. /\ UNCHANGED <<bridged, deposited, claims>>
        /\ overlapped' = IF Busy(u) THEN overlapped \cup {u} ELSE overlapped
    BY DEF Ask
  <1>2. requests'[s] = r /\ \A z \in Slots : z # s => requests'[z] = requests[z]
    BY DEF Only
  <1>3. ASSUME NEW v \in Accounts, v \notin overlapped' PROVE QuietOf(v)'
    <2>1. v \notin overlapped /\ QuietOf(v)
      BY <1>1, <1>3 DEF QuietInv
    <2>2. claims[v] >= 0 /\ claims[v] <= deposited[v]
      BY <2>1 DEF QuietOf
    <2>3. CASE v = u
      <3>1. ~Busy(u)
        BY <1>1, <1>3, <2>3
      <3>2. \A z \in Slots : ~Asks(requests[z], u)
        BY <3>1 DEF Busy, Asks
      <3>3. \A z \in Slots : Asks(requests'[z], u) => z = s
        BY <1>2, <3>2
      <3>4. Backed(r, claims[u], deposited[u])
        BY <2>1, <2>3
      <3>5. \A z \in Slots : Asks(requests'[z], u) =>
                                 Backed(requests'[z], claims'[u], deposited'[u])
        BY <1>1, <1>2, <3>3, <3>4
      <3> QED BY <1>1, <2>2, <2>3, <3>3, <3>5 DEF QuietOf, Asks, Backed, Unscale
    <2>4. CASE v # u
      <3>1. \A z \in Slots : Asks(requests'[z], v) =>
                                 Asks(requests[z], v) /\ requests'[z] = requests[z]
        BY <1>2, <2>4 DEF Asks
      <3>2. \A z \in Slots : Asks(requests[z], v) =>
                                 Backed(requests[z], claims[v], deposited[v])
        BY <2>1 DEF QuietOf
      <3>3. \A y, z \in Slots : Asks(requests[y], v) /\ Asks(requests[z], v) => y = z
        BY <2>1 DEF QuietOf
      <3>4. \A z \in Slots : Asks(requests'[z], v) =>
                                 Backed(requests'[z], claims'[v], deposited'[v])
        BY <1>1, <3>1, <3>2
      <3>5. \A y, z \in Slots : Asks(requests'[y], v) /\ Asks(requests'[z], v) => y = z
        BY <3>1, <3>3
      <3> QED BY <1>1, <2>2, <3>4, <3>5 DEF QuietOf, Asks, Backed, Unscale
    <2> QED BY <2>3, <2>4
  <1> QED BY <1>1, <1>3 DEF QuietInv

\* A request ends with its record: the number stays within what was bridged in.
LEMMA QuietRecords ==
  ASSUME QuietInv, NEW s \in Slots, NEW f, f = requests[s], f.op \in {"claim", "redeem"},
         f.who \in Accounts, Only(s, Idle), UNCHANGED <<bridged, deposited, overlapped>>,
         \A u \in Accounts : u # f.who => claims'[u] = claims[u],
         f.who \notin overlapped =>
             claims'[f.who] >= 0 /\ claims'[f.who] <= deposited[f.who]
  PROVE  QuietInv'
  <1>1. requests'[s] = Idle /\ \A z \in Slots : z # s => requests'[z] = requests[z]
    BY DEF Only
  <1>2. ASSUME NEW v \in Accounts, v \notin overlapped' PROVE QuietOf(v)'
    <2>1. v \notin overlapped /\ QuietOf(v) /\ deposited'[v] = deposited[v]
      BY <1>2 DEF QuietInv
    <2>2. \A z \in Slots : Asks(requests'[z], v) =>
                               Asks(requests[z], v) /\ requests'[z] = requests[z]
      BY <1>1, IdleFrame DEF Asks
    <2>3. \A z \in Slots : Asks(requests[z], v) =>
                               Backed(requests[z], claims[v], deposited[v])
      BY <2>1 DEF QuietOf
    <2>4. \A y, z \in Slots : Asks(requests[y], v) /\ Asks(requests[z], v) => y = z
      BY <2>1 DEF QuietOf
    <2>5. \A y, z \in Slots : Asks(requests'[y], v) /\ Asks(requests'[z], v) => y = z
      BY <2>2, <2>4
    <2>6. \A z \in Slots : Asks(requests'[z], v) =>
                               Backed(requests'[z], claims'[v], deposited'[v])
      <3>1. CASE v = f.who
        <4>1. Asks(requests[s], v)
          BY <3>1 DEF Asks
        <4>2. \A z \in Slots : ~Asks(requests'[z], v)
          BY <1>1, <2>2, <2>4, <4>1, IdleFrame DEF Asks
        <4> QED BY <4>2
      <3>2. CASE v # f.who
        BY <2>1, <2>2, <2>3, <3>2
      <3> QED BY <3>1, <3>2
    <2>7. claims'[v] >= 0 /\ claims'[v] <= deposited'[v]
      BY <2>1 DEF QuietOf
    <2> QED BY <2>5, <2>6, <2>7 DEF QuietOf, Asks, Backed, Unscale
  <1> QED BY <1>2 DEF QuietInv

\* The look at the wallet: a burn that is not refused is no more than was claimed.
LEMMA QuietChecks ==
  ASSUME BaseInv, QuietInv, NEW s \in Slots, CheckRedeem(s)
  PROVE  QuietInv'
  <1> DEFINE f == requests[s]
  <1>1. /\ SignerInv' /\ f \in BalanceFrames
        /\ \/ Only(s, Idle)
           \/ /\ ~Refused(f)
              /\ \E r \in RedeemFrames :
                    /\ Only(s, r) /\ r.at = "count" /\ r.who = f.who
                    /\ r.amount = f.amount /\ r.known = f.known
    BY RedeemChecked DEF BaseInv, Types
  <1>2. UNCHANGED <<bridged, deposited, claims, overlapped>>
    BY DEF CheckRedeem, claimVars
  <1>3. /\ f.op = "redeem" /\ f.at = "balance" /\ f.amount \in Nat /\ f.known \in Int
        /\ f.who \in Accounts
    BY <1>1, InputsNat DEF BalanceFrames
  <1>4. FramesOK /\ ClaimTypes
    BY DEF BaseInv, Types, SignerInv
  <1>5. CASE Only(s, Idle)
    <2>1. \A z \in Slots : Follows(z)
      BY <1>5, IdleFrame DEF Only, Follows
    <2>2. ClaimTypes'
      BY <1>4, ClaimsKept DEF CheckRedeem
    <2>3. \A u \in Accounts : bridged'[u] <= deposited'[u] /\ deposited[u] <= deposited'[u]
      BY <1>2, <1>4 DEF QuietInv, ClaimTypes
    <2> QED BY <1>2, <1>4, <2>1, <2>2, <2>3, QuietSame
  <1>6. ASSUME ~Refused(f), NEW r \in RedeemFrames, Only(s, r), r.who = f.who,
               r.amount = f.amount, r.known = f.known
        PROVE  QuietInv'
    <2>1. Unscale(f.amount) <= f.known
      BY <1>3, <1>6, RefusedNot
    <2>2. requests'[s] = r /\ \A z \in Slots : z # s => requests'[z] = requests[z]
      BY <1>6 DEF Only
    <2>3. r.op = "redeem"
      BY DEF RedeemFrames
    <2>4. ASSUME NEW v \in Accounts, v \notin overlapped PROVE QuietOf(v)'
      <3>1. QuietOf(v)
        BY <2>4 DEF QuietInv
      <3>2. \A z \in Slots : Asks(requests'[z], v) => Asks(requests[z], v)
        BY <1>3, <1>6, <2>2, <2>3 DEF Asks
      <3>3. \A y, z \in Slots : Asks(requests[y], v) /\ Asks(requests[z], v) => y = z
        BY <3>1 DEF QuietOf
      <3>4. \A z \in Slots : Asks(requests[z], v) =>
                                 Backed(requests[z], claims[v], deposited[v])
        BY <3>1 DEF QuietOf
      <3>5. Asks(r, v) => Backed(r, claims[v], deposited[v])
        <4>1. SUFFICES ASSUME Asks(r, v) PROVE Backed(r, claims[v], deposited[v])
          OBVIOUS
        <4>2. Backed(f, claims[v], deposited[v])
          BY <1>3, <1>6, <3>4, <4>1 DEF Asks
        <4>3. f.known = claims[v]
          BY <1>3, <4>2 DEF Backed
        <4> QED BY <1>6, <2>1, <2>3, <4>3 DEF Backed
      <3>6. \A z \in Slots : Asks(requests'[z], v) =>
                                 Backed(requests'[z], claims'[v], deposited'[v])
        BY <1>2, <2>2, <3>2, <3>4, <3>5
      <3>7. \A y, z \in Slots : Asks(requests'[y], v) /\ Asks(requests'[z], v) => y = z
        BY <3>2, <3>3
      <3>8. claims'[v] >= 0 /\ claims'[v] <= deposited'[v]
        BY <1>2, <3>1 DEF QuietOf
      <3> QED BY <3>6, <3>7, <3>8 DEF QuietOf, Asks, Backed, Unscale
    <2> QED BY <1>2, <2>4 DEF QuietInv
  <1> QED BY <1>1, <1>5, <1>6

\* A claim is recorded within what was bridged in.
LEMMA QuietClaims ==
  ASSUME SignerInv, ClaimTypes, QuietInv, NEW s \in Slots, RecordClaim(s)
  PROVE  QuietInv'
  <1> DEFINE f == requests[s]
             w == f.who
  <1>1. /\ Only(s, Idle) /\ f \in ClaimFrames
        /\ UNCHANGED <<bridged, deposited, overlapped>>
        /\ claims'[w] = claims[w] + f.known
        /\ \A u \in Accounts : u # w => claims'[u] = claims[u]
    BY ClaimRecorded
  <1>2. f.op = "claim" /\ w \in Accounts /\ f.known \in Nat
    BY <1>1 DEF ClaimFrames
  <1>3. ASSUME w \notin overlapped PROVE claims'[w] >= 0 /\ claims'[w] <= deposited[w]
    <2>1. QuietOf(w)
      BY <1>2, <1>3 DEF QuietInv
    <2>2. Backed(f, claims[w], deposited[w]) /\ claims[w] >= 0
      BY <1>2, <2>1 DEF QuietOf, Asks
    <2>3. claims[w] \in Int
      BY <1>2 DEF ClaimTypes
    <2> HIDE DEF f, w
    <2> QED BY <1>1, <1>2, <2>2, <2>3 DEF Backed
  <1> HIDE DEF w
  <1>4. f.op \in {"claim", "redeem"} /\ w = f.who
    BY <1>2 DEF w
  <1> HIDE DEF f
  <1>5. f = requests[s]
    BY DEF f
  <1> QED BY <1>1, <1>2, <1>3, <1>4, <1>5, QuietRecords

\* A burn is recorded within what was claimed.
LEMMA QuietRedeems ==
  ASSUME SignerInv, ClaimTypes, QuietInv, NEW s \in Slots, RecordRedeem(s)
  PROVE  QuietInv'
  <1> DEFINE f == requests[s]
             w == f.who
             x == Unscale(f.amount)
  <1>1. /\ Only(s, Idle) /\ f \in RedeemFrames /\ f.at = "mined"
        /\ UNCHANGED <<bridged, deposited, overlapped>>
        /\ claims'[w] = claims[w] - x
        /\ \A u \in Accounts : u # w => claims'[u] = claims[u]
    BY RedeemRecorded
  <1>2. f.op = "redeem" /\ w \in Accounts /\ f.amount \in Nat
    BY <1>1, InputsNat DEF RedeemFrames
  <1>3. x \in Nat
    BY <1>2, ScaleNat
  <1>4. ASSUME w \notin overlapped PROVE claims'[w] >= 0 /\ claims'[w] <= deposited[w]
    <2>1. QuietOf(w)
      BY <1>2, <1>4 DEF QuietInv
    <2>2. Backed(f, claims[w], deposited[w]) /\ claims[w] <= deposited[w]
      BY <1>2, <2>1 DEF QuietOf, Asks
    <2>3. x <= claims[w]
      BY <1>1, <1>2, <2>2 DEF Backed
    <2>4. claims[w] \in Int /\ deposited[w] \in Int
      BY <1>2 DEF ClaimTypes
    <2> HIDE DEF f, w, x
    <2> QED BY <1>1, <1>3, <2>2, <2>3, <2>4
  <1> HIDE DEF w
  <1>5. f.op \in {"claim", "redeem"} /\ w = f.who
    BY <1>2 DEF w
  <1> HIDE DEF f
  <1>6. f = requests[s]
    BY DEF f
  <1> QED BY <1>1, <1>2, <1>4, <1>5, <1>6, QuietRecords

\* One frame of another kind replaces one.
LEMMA FollowsOne ==
  ASSUME NEW s \in Slots, NEW r, Only(s, r), r.op # "claim" /\ r.op # "redeem"
  PROVE  \A z \in Slots : Follows(z)
  BY DEF Only, Follows

\* A step that leaves the claims' variables alone.
LEMMA QuietAway ==
  ASSUME FramesOK, ClaimTypes, QuietInv, UNCHANGED claimVars, \A s \in Slots : Follows(s)
  PROVE  QuietInv'
  <1>1. ClaimTypes' /\ UNCHANGED <<claims, overlapped, bridged, deposited>>
    BY ClaimsKept DEF claimVars
  <1>2. \A u \in Accounts : bridged'[u] <= deposited'[u] /\ deposited[u] <= deposited'[u]
    BY <1>1 DEF QuietInv, ClaimTypes
  <1> QED BY <1>1, <1>2, QuietSame

\* Nobody has asked, and nothing was bridged in, at the start.
LEMMA QuietStarts == Init => QuietInv /\ BurnInv
  <1> SUFFICES ASSUME Init PROVE QuietInv /\ BurnInv
    OBVIOUS
  <1>1. /\ \A s \in Slots : requests[s] = Idle
        /\ pool = {}
        /\ \A u \in Accounts : bridged[u] = 0 /\ deposited[u] = 0 /\ claims[u] = 0
                               /\ supply[u] = 0
    BY DEF Init, SignerInit, ClaimsInit
  <1>2. \A u : \A s \in Slots : ~Asks(requests[s], u)
    BY <1>1, IdleFrame DEF Asks
  <1> QED BY <1>1, <1>2 DEF QuietInv, QuietOf, BurnInv

\* A route's first step keeps it.
LEMMA QuietRoutes == BaseInv /\ QuietInv /\ Routes => QuietInv'
  <1> SUFFICES ASSUME BaseInv, QuietInv, Routes PROVE QuietInv'
    OBVIOUS
  <1>0. SignerInv /\ ClaimTypes /\ SwapTypes /\ AuthTypes /\ FramesOK
    BY DEF BaseInv, Types, SignerInv
  <1>1. ASSUME NEW a \in Addresses, PostAuthNonce(a) PROVE QuietInv'
    BY <1>0, <1>1, QuietAway DEF PostAuthNonce, CreateChallenge, signerVars, Follows
  <1>2. ASSUME NEW s \in Slots, NEW a \in Addresses, NEW signer \in Addresses,
               NEW n \in 1 .. issued, PostAuthVerify(s, a, n, signer)
        PROVE  QuietInv'
    <2>1. VerifyChallenge(s, a, n, signer) /\ UNCHANGED claimVars
      BY <1>2 DEF PostAuthVerify
    <2>2. PICK r \in VerifyFrames : Only(s, r)
      BY <1>0, <2>1, Verifying
    <2>3. r.op # "claim" /\ r.op # "redeem"
      BY DEF VerifyFrames
    <2> QED BY <1>0, <2>1, <2>2, <2>3, FollowsOne, QuietAway
  <1>3. ASSUME NEW token \in sessions, PostAuthRefresh(token) PROVE QuietInv'
    BY <1>0, <1>3, QuietAway DEF PostAuthRefresh, RefreshToken, signerVars, Follows
  <1>4. ASSUME NEW s \in Slots, NEW u \in Accounts, PostBridgeClaim(s, u) PROVE QuietInv'
    <2>1. Claim(s, u) /\ Ask(u) /\ requests[s] = Idle /\ Claimable(u) > 0
      BY <1>4 DEF PostBridgeClaim, Claim
    <2>2. PICK r \in ClaimFrames : Only(s, r) /\ r.who = u /\ r.known = Claimable(u)
      BY <1>0, <2>1, Claimed
    <2>3. r.op = "claim"
      BY DEF ClaimFrames
    <2>4. claims[u] + r.known <= deposited[u]
      <3>1. Claimable(u) = bridged[u] - claims[u] /\ bridged[u] <= deposited[u]
        BY <1>0, <2>1, ClaimableNat DEF QuietInv
      <3>2. bridged[u] \in Int /\ claims[u] \in Int /\ deposited[u] \in Int
        BY <1>0 DEF ClaimTypes
      <3> QED BY <2>2, <3>1, <3>2
    <2>5. Backed(r, claims[u], deposited[u])
      BY <2>3, <2>4 DEF Backed
    <2> QED BY <2>1, <2>2, <2>3, <2>5, QuietBegins
  <1>5. ASSUME NEW s \in Slots, NEW u \in Accounts, NEW amount \in RedeemAmounts,
               PostBridgeRedeem(s, u, amount)
        PROVE  QuietInv'
    <2>1. Redeem(s, u, amount) /\ Ask(u) /\ requests[s] = Idle
      BY <1>5 DEF PostBridgeRedeem, Redeem
    <2>2. PICK r \in BalanceFrames : Only(s, r) /\ r.who = u /\ r.known = claims[u]
      BY <1>0, <2>1, Redeemed
    <2>3. r.op = "redeem" /\ r.at = "balance"
      BY DEF BalanceFrames
    <2>4. Backed(r, claims[u], deposited[u])
      BY <2>2, <2>3 DEF Backed
    <2> QED BY <2>1, <2>2, <2>3, <2>4, QuietBegins
  <1>6. ASSUME NEW s \in Slots, NEW u \in Accounts, NEW in \in SwapTokens,
               NEW amount \in SwapAmounts, PostSwapExecute(s, u, in, amount)
        PROVE  QuietInv'
    <2>1. SettleInstantLocalSwap(s, in, amount) /\ UNCHANGED claimVars
      BY <1>6 DEF PostSwapExecute
    <2>2. PICK r \in SwapFrames : Only(s, r)
      BY <1>0, <2>1, SwapStarted
    <2>3. r.op # "claim" /\ r.op # "redeem"
      BY DEF SwapFrames
    <2> QED BY <1>0, <2>1, <2>2, <2>3, FollowsOne, QuietAway
  <1> QED BY <1>1, <1>2, <1>3, <1>4, <1>5, <1>6 DEF Routes

\* A handler that resumes keeps it.
LEMMA QuietHandlers ==
  ASSUME BaseInv, QuietInv, NEW s \in Slots,
         SignerStep(s) \/ AuthStep(s) \/ ClaimStep(s) \/ SettleStep(s)
  PROVE  QuietInv'
  <1>0. SignerInv /\ ClaimTypes /\ SwapTypes /\ AuthTypes /\ FramesOK /\ RefsOK
    BY DEF BaseInv, Types, SignerInv
  <1>1. CASE SignerStep(s)
    <2> DEFINE f == requests[s]
    <2>1. PICK r \in Frames : SignerMove(s, f, r)
      BY <1>0, <1>1, SignerMoves
    <2>2. f.at \in Sending /\ UNCHANGED claimVars
      BY <1>0, <1>1, SignerMoves
    <2>3. Only(s, r) /\ (r = Idle \/ Continues(f, r))
      BY <2>1 DEF SignerMove
    <2>4. ASSUME NEW z \in Slots PROVE Follows(z)
      <3>1. CASE r = Idle
        BY <2>3, <3>1, IdleFrame, FollowsOne
      <3>2. CASE Continues(f, r)
        BY <2>2, <2>3, <3>2 DEF Continues, Only, Follows, Sending
      <3> QED BY <2>3, <3>1, <3>2
    <2> QED BY <1>0, <2>2, <2>4, QuietAway
  <1>2. CASE AuthStep(s)
    <2>1. RecoverSigner(s) /\ UNCHANGED claimVars
      BY <1>2 DEF AuthStep
    <2>2. Only(s, Idle)
      BY <1>0, <2>1, Recovered
    <2> QED BY <1>0, <2>1, <2>2, IdleFrame, FollowsOne, QuietAway
  <1>3. CASE ClaimStep(s)
    BY <1>0, <1>3, QuietChecks, QuietClaims, QuietRedeems DEF ClaimStep
  <1>4. CASE SettleStep(s)
    <2>1. (SignWithdrawal(s) \/ Book(s)) /\ UNCHANGED claimVars
      BY <1>4 DEF SettleStep
    <2>2. \E r : Only(s, r) /\ r.op # "claim" /\ r.op # "redeem"
      <3>1. CASE SignWithdrawal(s)
        <4>1. PICK r \in SwapFrames : Only(s, r)
          BY <1>0, <3>1, WithdrawalSigned
        <4> QED BY <4>1 DEF SwapFrames
      <3>2. CASE Book(s)
        <4>1. Only(s, Idle)
          BY <1>0, <3>2, Booked
        <4> QED BY <4>1, IdleFrame
      <3> QED BY <2>1, <3>1, <3>2
    <2> QED BY <1>0, <2>1, <2>2, FollowsOne, QuietAway
  <1> QED BY <1>1, <1>2, <1>3, <1>4

\* Every step keeps it.
LEMMA QuietKeeps == BaseInv /\ QuietInv /\ [Next]_serverVars => QuietInv'
  <1> SUFFICES ASSUME BaseInv, QuietInv, [Next]_serverVars PROVE QuietInv'
    OBVIOUS
  <1>0. SignerInv /\ ClaimTypes /\ FramesOK
    BY DEF BaseInv, Types, SignerInv
  <1>1. CASE Routes
    BY <1>1, QuietRoutes
  <1>2. ASSUME NEW s \in Slots, SignerStep(s) \/ AuthStep(s) \/ ClaimStep(s) \/ SettleStep(s)
        PROVE  QuietInv'
    BY <1>2, QuietHandlers
  <1>3. ASSUME NEW late \in BOOLEAN, MineNext(late) PROVE QuietInv'
    <2>1. PICK tx \in pool :
            /\ Mine(tx, Works(tx, late))
            /\ \/ tx.leg \in {"mint", "burn"} /\ TokenEffect(tx)
               \/ tx.leg \notin {"mint", "burn"} /\ UNCHANGED claimVars
      BY <1>3 DEF MineNext
    <2>2. /\ tx \in TokenTxs \cup SwapTxs
          /\ \A s \in Slots : requests[s].at # "receipt" => requests'[s] = requests[s]
          /\ \A s \in Slots : requests[s].at = "receipt" =>
                /\ requests'[s].at = "mined"
                /\ requests'[s].op = requests[s].op
                /\ requests'[s].who = requests[s].who
                /\ requests'[s].amount = requests[s].amount
                /\ requests'[s].known = requests[s].known
      BY <1>0, <2>1, Mined
    <2>3. \A s \in Slots : Follows(s)
      BY <2>2 DEF Follows
    <2>4. CASE tx.leg \in {"mint", "burn"} /\ TokenEffect(tx)
      <3>1. ClaimTypes' /\ UNCHANGED <<bridged, deposited, claims, overlapped>>
        BY <1>0, <2>2, <2>4, TxParts, TokenParts
      <3>2. \A u \in Accounts : bridged'[u] <= deposited'[u] /\ deposited[u] <= deposited'[u]
        BY <1>0, <3>1 DEF QuietInv, ClaimTypes
      <3> QED BY <1>0, <2>3, <3>1, <3>2, QuietSame
    <2>5. CASE tx.leg \notin {"mint", "burn"} /\ UNCHANGED claimVars
      BY <1>0, <2>3, <2>5, QuietAway
    <2> QED BY <2>1, <2>4, <2>5
  <1>4. CASE Elsewhere
    <2>1. ASSUME NEW u \in Accounts,
                 BridgeIn(u) \/ BridgeOut(u) \/ \E amount \in {-Up, Up} : Transfer(u, amount)
          PROVE  QuietInv'
      <3>1. ClaimTypes' /\ UNCHANGED <<claims, overlapped, signerVars>>
        BY <1>0, <2>1, ElsewhereParts
      <3>2. \A s \in Slots : Follows(s)
        BY <3>1 DEF Follows, signerVars
      <3>3. \A v \in Accounts : bridged'[v] <= deposited'[v] /\ deposited[v] <= deposited'[v]
        <4>1. \A v \in Accounts : bridged[v] <= deposited[v]
          BY DEF QuietInv
        <4>2. CASE BridgeIn(u)
          BY <1>0, <4>1, <4>2 DEF BridgeIn, ClaimTypes
        <4>3. CASE BridgeOut(u)
          BY <1>0, <4>1, <4>3 DEF BridgeOut, ClaimTypes
        <4>4. CASE \E amount \in {-Up, Up} : Transfer(u, amount)
          BY <1>0, <4>1, <4>4 DEF Transfer, ClaimTypes
        <4> QED BY <2>1, <4>2, <4>3, <4>4
      <3> QED BY <1>0, <3>1, <3>2, <3>3, QuietSame
    <2>2. ASSUME NEW t \in SwapTokens, VaultPays(t), UNCHANGED claimVars PROVE QuietInv'
      BY <1>0, <2>2, QuietAway DEF VaultPays, signerVars, Follows
    <2> QED BY <1>4, <2>1, <2>2 DEF Elsewhere
  <1>5. CASE Tick /\ UNCHANGED <<claimVars, settleVars>>
    BY <1>0, <1>5, QuietAway DEF Tick, signerVars, Follows
  <1>6. CASE Restart
    <2>1. StopSigner /\ StopClaims
      BY <1>6 DEF Restart
    <2>2. \A s \in Slots : Follows(s)
      BY <1>0, <2>1, Stopped, IdleFrame DEF Follows
    <2>3. ClaimTypes' /\ UNCHANGED <<bridged, deposited, claims, overlapped>>
      BY <1>0, <2>1, StopParts DEF StopClaims
    <2>4. \A u \in Accounts : bridged'[u] <= deposited'[u] /\ deposited[u] <= deposited'[u]
      BY <1>0, <2>3 DEF QuietInv, ClaimTypes
    <2> QED BY <1>0, <2>2, <2>3, <2>4, QuietSame
  <1>7. CASE UNCHANGED serverVars
    BY <1>0, <1>7, QuietAway DEF serverVars, signerVars, Follows
  <1> QED BY <1>1, <1>2, <1>3, <1>4, <1>5, <1>6, <1>7 DEF Next

\* No burn is sent of a token coarser than its source, and its mints only add.
LEMMA BurnKeeps == BaseInv /\ ClaimInv /\ BurnInv /\ [Next]_serverVars => BurnInv'
  <1> SUFFICES ASSUME BaseInv, ClaimInv, BurnInv, [Next]_serverVars PROVE BurnInv'
    OBVIOUS
  <1>0. SignerInv /\ ClaimTypes /\ FramesOK
    BY DEF BaseInv, Types, SignerInv
  <1>quiet. pool' \subseteq pool /\ supply' = supply => BurnInv'
    BY DEF BurnInv
  <1>1. CASE Routes
    <2>1. pool' = pool /\ supply' = supply
      BY <1>1 DEF Routes, PostAuthNonce, CreateChallenge, PostAuthVerify, VerifyChallenge,
         PostAuthRefresh, RefreshToken, PostBridgeClaim, Claim, PostBridgeRedeem, Redeem,
         Ask, PostSwapExecute, SettleInstantLocalSwap, FirstLeg, claimVars, signerVars
    <2> QED BY <1>quiet, <2>1
  <1>2. ASSUME NEW s \in Slots, SignerStep(s) PROVE BurnInv'
    <2> DEFINE f == requests[s]
    <2>1. PICK r \in Frames : SignerMove(s, f, r)
      BY <1>0, <1>2, SignerMoves
    <2>2. f \in SendFrames /\ f.at \in Sending /\ supply' = supply
      BY <1>0, <1>2, SignerMoves DEF claimVars
    <2>3. pool' = pool \/ pool' = {Sent(f)}
      BY <2>1 DEF SignerMove
    <2>4. Exact(f)
      BY DEF ClaimInv, ExactInv
    <2> HIDE DEF f
    <2>5. Down > 1 => Sent(f).leg # "burn"
      <3>1. SUFFICES ASSUME Down > 1, f.leg = "burn" PROVE FALSE
        BY <2>2, SendFrameParts
      <3>2. f.op = "redeem"
        BY <2>2, <3>1 DEF SendFrames, ClaimFrames, RedeemFrames, SwapFrames
      <3>3. Down = 1
        BY <2>2, <2>4, <3>2 DEF Exact, Sending
      <3> QED BY <3>1, <3>3
    <2> QED BY <2>2, <2>3, <2>5 DEF BurnInv
  <1>3. ASSUME NEW s \in Slots, AuthStep(s) \/ ClaimStep(s) \/ SettleStep(s) PROVE BurnInv'
    <2>1. pool' = pool /\ supply' = supply
      BY <1>3 DEF AuthStep, RecoverSigner, ClaimStep, CheckRedeem, RecordClaim, RecordRedeem,
         SettleStep, SignWithdrawal, Book, claimVars
    <2> QED BY <1>quiet, <2>1
  <1>4. ASSUME NEW late \in BOOLEAN, MineNext(late) PROVE BurnInv'
    <2>1. PICK tx \in pool :
            /\ Mine(tx, Works(tx, late))
            /\ \/ tx.leg \in {"mint", "burn"} /\ TokenEffect(tx)
               \/ tx.leg \notin {"mint", "burn"} /\ UNCHANGED claimVars
      BY <1>4 DEF MineNext
    <2>2. tx \in TokenTxs \cup SwapTxs /\ pool' = {}
      BY <1>0, <2>1, Mined
    <2>3. CASE tx.leg \in {"mint", "burn"} /\ TokenEffect(tx)
      <3>1. SUFFICES ASSUME Down > 1, NEW u \in Accounts PROVE supply'[u] >= 0
        BY <2>2 DEF BurnInv
      <3>2. tx \in TokenTxs /\ tx.amount \in Nat
        BY <2>2, <2>3, TxParts
      <3>3. Minted(tx) = tx.amount /\ supply[u] >= 0 /\ supply[u] \in Int
        BY <1>0, <2>1, <2>3, <3>1 DEF Minted, BurnInv, ClaimTypes
      <3>4. supply'[u] = supply[u] \/ supply'[u] = supply[u] + Minted(tx)
        BY <1>0, <2>3, <3>2, TokenParts
      <3> QED BY <3>2, <3>3, <3>4
    <2>4. CASE tx.leg \notin {"mint", "burn"} /\ UNCHANGED claimVars
      BY <1>quiet, <2>2, <2>4 DEF claimVars
    <2> QED BY <2>1, <2>3, <2>4
  <1>5. CASE Elsewhere
    BY <1>quiet, <1>5 DEF Elsewhere, BridgeIn, BridgeOut, Transfer, VaultPays, signerVars, claimVars
  <1>6. CASE Tick /\ UNCHANGED <<claimVars, settleVars>>
    BY <1>quiet, <1>6 DEF Tick, signerVars, claimVars
  <1>7. CASE Restart
    BY <1>quiet, <1>7 DEF Restart, StopSigner, StopClaims
  <1>8. CASE UNCHANGED serverVars
    BY <1>quiet, <1>8 DEF serverVars, signerVars, claimVars
  <1> QED BY <1>1, <1>2, <1>3, <1>4, <1>5, <1>6, <1>7, <1>8 DEF Next

\* A sum over the slots of which one counts.
LEMMA SumOfOne ==
  ASSUME FramesOK, NEW op, NEW u, NEW s \in Slots,
         \A z \in Slots : z # s => PartOf(requests[z], op, u) = 0
  PROVE  SumOf(requests, op, u) = PartOf(requests[s], op, u)
  <1> DEFINE f == [z \in Slots |-> PartOf(requests[z], op, u)]
             T == Slots \ {s}
  <1>1. \A z \in Slots : f[z] \in Int
    BY FrameAmount DEF FramesOK, PartOf
  <1>2. /\ f[s] = PartOf(requests[s], op, u) /\ \A z \in T : f[z] = 0
        /\ SumOf(requests, op, u) = SumFunctionOnSet(f, Slots)
        /\ IsFiniteSet(T)
    BY FiniteSlots, FS_Subset DEF SumOf
  <1> HIDE DEF f
  <1>3. SumFunctionOnSet(f, Slots) = f[s] + SumFunctionOnSet(f, T)
    BY <1>1, FiniteSlots, SumWithout
  <1>4. SumFunctionOnSet(f, T) = 0
    BY <1>2, SumZero
  <1> QED BY <1>1, <1>2, <1>3, <1>4

\* What is pending is what the one request has that is mined, or nothing.
LEMMA PendingOne ==
  ASSUME FramesOK, NEW u,
         \A s, z \in Slots : Asks(requests[s], u) /\ Asks(requests[z], u) => s = z
  PROVE  \/ Pending(u) = 0
         \/ \E s \in Slots : /\ Asks(requests[s], u) /\ requests[s].at = "mined"
                             /\ Pending(u) = Share(requests[s], u)
  <1>1. /\ Pending(u) = SumOf(requests, "claim", u) - SumOf(requests, "redeem", u)
        /\ SumOf(requests, "claim", u) \in Int /\ SumOf(requests, "redeem", u) \in Int
    BY PendingIsSums
  <1>2. ASSUME NEW s \in Slots, Asks(requests[s], u), requests[s].at = "mined"
        PROVE  Pending(u) = Share(requests[s], u)
    <2>1. \A z \in Slots : z # s => /\ PartOf(requests[z], "claim", u) = 0
                                    /\ PartOf(requests[z], "redeem", u) = 0
      BY <1>2 DEF PartOf, Asks
    <2>2. /\ SumOf(requests, "claim", u) = PartOf(requests[s], "claim", u)
          /\ SumOf(requests, "redeem", u) = PartOf(requests[s], "redeem", u)
      BY <2>1, SumOfOne
    <2> QED BY <1>1, <2>2 DEF Share
  <1>3. ASSUME \A s \in Slots : ~(Asks(requests[s], u) /\ requests[s].at = "mined")
        PROVE  Pending(u) = 0
    <2>1. ASSUME NEW op \in {"claim", "redeem"} PROVE SumOf(requests, op, u) = 0
      <3> DEFINE f == [z \in Slots |-> PartOf(requests[z], op, u)]
      <3>1. \A z \in Slots : f[z] = 0
        BY <1>3 DEF PartOf, Asks
      <3>2. SumOf(requests, op, u) = SumFunctionOnSet(f, Slots)
        BY DEF SumOf
      <3> HIDE DEF f
      <3> QED BY <3>1, <3>2, FiniteSlots, SumZero
    <2> QED BY <1>1, <2>1
  <1> QED BY <1>2, <1>3

\* What is within a number is within it scaled.
LEMMA ScaleGrows ==
  ASSUME NEW x \in Int, NEW y \in Int, x <= y
  PROVE  ScaleAtomic(x) <= ScaleAtomic(y) /\ ScaleAtomic(x) \in Int /\ ScaleAtomic(y) \in Int
  <1>1. y - x \in Nat /\ x + (y - x) = y
    OBVIOUS
  <1>2. ScaleAtomic(y - x) \in Nat
    BY <1>1, ScaleNat
  <1>3. /\ ScaleAtomic(x) + ScaleAtomic(y - x) <= ScaleAtomic(x + (y - x))
        /\ ScaleAtomic(x) \in Int /\ ScaleAtomic(y) \in Int
    BY <1>1, ScaleParts
  <1> QED BY <1>1, <1>2, <1>3

\* The tokens out for a quiet account stand for a part of what was bridged in.
LEMMA QuietSupply ==
  ASSUME BaseInv, ClaimInv, NEW u \in Accounts, QuietOf(u),
         skew[u].lost = 0, skew[u].reverted = 0
  PROVE  \E n \in Nat : /\ n <= deposited[u] /\ supply[u] <= ScaleAtomic(n)
                        /\ Down = 1 => supply[u] = ScaleAtomic(n)
  <1>0. FramesOK /\ ClaimTypes
    BY DEF BaseInv, Types, SignerInv
  <1> DEFINE c == claims[u]
             d == deposited[u]
             p == Pending(u)
  <1>1. c \in Nat /\ c \in Int /\ d \in Int /\ c <= d /\ supply[u] \in Int
    BY <1>0 DEF QuietOf, ClaimTypes
  <1>2. p \in Int /\ ScaleAtomic(c) \in Int
    BY <1>0, <1>1, PendingIsSums, ScaleNat
  <1>3. /\ supply[u] <= ScaleAtomic(c) + p
        /\ Down = 1 => supply[u] = ScaleAtomic(c) + p
    <2>1. /\ supply[u] <= ScaleAtomic(c) + p + 0 + 0
          /\ Down = 1 => supply[u] = ScaleAtomic(c) + p + 0 + 0
      BY DEF ClaimInv, Balanced, Named
    <2> HIDE DEF c, p
    <2> QED BY <1>2, <2>1
  <1>4. \A s, z \in Slots : Asks(requests[s], u) /\ Asks(requests[z], u) => s = z
    BY DEF QuietOf
  <1>5. CASE p = 0
    BY <1>1, <1>2, <1>3, <1>5
  <1>6. ASSUME NEW s \in Slots, Asks(requests[s], u), requests[s].at = "mined",
               p = Share(requests[s], u)
        PROVE  \E n \in Nat : /\ n <= d /\ supply[u] <= ScaleAtomic(n)
                              /\ Down = 1 => supply[u] = ScaleAtomic(n)
    <2> DEFINE f == requests[s]
    <2>1. f \in Frames /\ Exact(f) /\ Backed(f, c, d)
      BY <1>0, <1>6 DEF FramesOK, ClaimInv, ExactInv, QuietOf
    <2>2. f.op \in {"claim", "redeem"} /\ f.who = u /\ f.at = "mined" /\ p = Share(f, u)
      BY <1>6 DEF Asks
    <2> HIDE DEF f, c, d, p
    <2>3. CASE f.op = "claim"
      <3>1. f \in ClaimFrames
        BY <2>1, <2>3, FrameAt
      <3>2. f.known \in Nat /\ f.known \in Int /\ f.amount \in Int
        BY <3>1 DEF ClaimFrames
      <3>3. c + f.known <= d /\ f.amount = ScaleAtomic(f.known)
        BY <2>1, <2>3 DEF Backed, Exact
      <3>4. p = f.amount
        BY <2>2, <2>3, <3>2 DEF Share, PartOf
      <3>5. /\ ScaleAtomic(c) + ScaleAtomic(f.known) <= ScaleAtomic(c + f.known)
            /\ Down = 1 => ScaleAtomic(c + f.known) = ScaleAtomic(c) + ScaleAtomic(f.known)
            /\ ScaleAtomic(f.known) \in Int /\ ScaleAtomic(c + f.known) \in Int
        BY <1>1, <3>2, ScaleParts, ScaleLinear
      <3>6. /\ supply[u] <= ScaleAtomic(c + f.known)
            /\ Down = 1 => supply[u] = ScaleAtomic(c + f.known)
        BY <1>1, <1>2, <1>3, <3>3, <3>4, <3>5
      <3>7. c + f.known \in Nat
        BY <1>1, <3>2
      <3> QED BY <3>3, <3>6, <3>7
    <2>4. CASE f.op = "redeem"
      <3> DEFINE x == Unscale(f.amount)
      <3>1. f \in RedeemFrames
        BY <2>1, <2>2, <2>4, FrameAt
      <3>2. f.amount \in Nat /\ f.amount \in Int
        BY <3>1, InputsNat DEF RedeemFrames
      <3>3. x \in Nat /\ x \in Int
        BY <3>2, ScaleNat
      <3>4. Down = 1 /\ ScaleAtomic(x) = f.amount /\ x <= c
        BY <2>1, <2>2, <2>4 DEF Backed, Exact
      <3>5. p = -f.amount
        BY <2>2, <2>4, <3>2 DEF Share, PartOf
      <3> HIDE DEF x
      <3>6. ScaleAtomic(c - x) = ScaleAtomic(c) - ScaleAtomic(x) /\ ScaleAtomic(x) \in Int
        BY <1>1, <3>3, <3>4, ScaleLinear
      <3>7. supply[u] = ScaleAtomic(c - x)
        BY <1>1, <1>2, <1>3, <3>2, <3>4, <3>5, <3>6
      <3>8. c - x \in Nat /\ c - x <= d
        BY <1>1, <3>3, <3>4
      <3>9. supply[u] <= ScaleAtomic(c - x)
        BY <1>1, <3>7
      <3> QED BY <3>7, <3>8, <3>9
    <2> QED BY <2>2, <2>3, <2>4
  <1>7. \/ p = 0
        \/ \E s \in Slots : /\ Asks(requests[s], u) /\ requests[s].at = "mined"
                            /\ p = Share(requests[s], u)
    BY <1>0, <1>4, PendingOne
  <1> QED BY <1>5, <1>6, <1>7

\* Who sends one request at a time, and loses none, never holds more than was bridged
\* in, in a token as fine as its source, finer or coarser (bridgeClaims.ts:113-175).
THEOREM QuietNeverMintsTwice == Spec => []QuietClaimsAreBacked
  <1>1. Init => BaseInv /\ ClaimInv /\ QuietInv /\ BurnInv
    BY BaseStart, ClaimStarts, QuietStarts
  <1>2. BaseInv /\ ClaimInv /\ QuietInv /\ BurnInv /\ [Next]_serverVars
            => BaseInv' /\ ClaimInv' /\ QuietInv' /\ BurnInv'
    BY BaseStep, ClaimKeeps, QuietKeeps, BurnKeeps
  <1>3. BaseInv /\ ClaimInv /\ QuietInv /\ BurnInv => QuietClaimsAreBacked
    <2> SUFFICES ASSUME BaseInv, ClaimInv, QuietInv, BurnInv,
                        NEW u \in Accounts, u \notin overlapped,
                        skew[u] = [lost |-> 0, reverted |-> 0]
                 PROVE  supply[u] \in 0 .. ScaleAtomic(deposited[u])
      BY DEF QuietClaimsAreBacked
    <2>1. QuietOf(u) /\ skew[u].lost = 0 /\ skew[u].reverted = 0
      BY DEF QuietInv
    <2>2. PICK n \in Nat : /\ n <= deposited[u] /\ supply[u] <= ScaleAtomic(n)
                           /\ Down = 1 => supply[u] = ScaleAtomic(n)
      BY <2>1, QuietSupply
    <2>3. deposited[u] \in Int /\ supply[u] \in Int
      BY DEF BaseInv, Types, ClaimTypes
    <2>4. /\ ScaleAtomic(n) <= ScaleAtomic(deposited[u]) /\ ScaleAtomic(n) \in Nat
          /\ ScaleAtomic(deposited[u]) \in Int
      <3>1. n \in Int
        OBVIOUS
      <3> QED BY <2>2, <2>3, <3>1, ScaleGrows, ScaleNat
    <2>5. supply[u] >= 0
      <3>1. CASE Down = 1
        BY <2>2, <2>4, <3>1
      <3>2. CASE Down > 1
        BY <3>2 DEF BurnInv
      <3> QED BY <3>1, <3>2, Decimals
    <2> QED BY <2>2, <2>3, <2>4, <2>5
  <1> QED BY <1>1, <1>2, <1>3, PTL DEF Spec
===============================================================================
