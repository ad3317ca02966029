----------------------------- MODULE RouterProofs -----------------------------
(***************************************************************************)
(* For any number of users, swaps, concurrent calls and crashes: the two   *)
(* records of a swap agree, jobs are served in order, an asynchronous swap *)
(* is atomic for its user, what is locked is what open swaps hold, a job   *)
(* is swapped once on the L1 but for crashes, and overlapping calls        *)
(* overdraw a balance by a bounded amount.                                 *)
(***************************************************************************)
EXTENDS LiquidityRouter, SumFacts

-----------------------------------------------------------------------------
(* Sequences, ledgers and amounts. *)

\* An append keeps what is there and adds one element at the end.
LEMMA AppendOne ==
  ASSUME NEW S, NEW q \in Seq(S), NEW x \in S
  PROVE  /\ Append(q, x) \in Seq(S)
         /\ Len(Append(q, x)) = Len(q) + 1
         /\ \A i \in 1 .. Len(q) : Append(q, x)[i] = q[i]
         /\ Append(q, x)[Len(q) + 1] = x
  OBVIOUS

\* Whatever is appended, what is there stays where it is.
LEMMA AppendKeeps ==
  ASSUME NEW S, NEW q \in Seq(S), NEW x, NEW r, r = Append(q, x)
  PROVE  /\ DOMAIN q \subseteq DOMAIN r
         /\ \A i \in DOMAIN q : r[i] = q[i]
  OBVIOUS

\* Replacing one element leaves the others alone.
LEMMA ReplaceOne ==
  ASSUME NEW S, NEW q \in Seq(S), NEW i \in 1 .. Len(q), NEW x \in S,
         NEW r, r = [q EXCEPT ![i] = x]
  PROVE  /\ r \in Seq(S)
         /\ Len(r) = Len(q)
         /\ r[i] = x
         /\ \A k \in 1 .. Len(q) : k # i => r[k] = q[k]
  OBVIOUS

\* The elements of a sequence are where its length says.
LEMMA SeqDomain ==
  ASSUME NEW S, NEW q \in Seq(S)
  PROVE  /\ Len(q) \in Nat
         /\ DOMAIN q = 1 .. Len(q)
         /\ \A i \in 1 .. Len(q) : q[i] \in S
  OBVIOUS

\* A ledger stays a ledger.
LEMMA AddInt ==
  ASSUME NEW L \in [Users -> [Tokens -> Int]],
         NEW u \in Users, NEW t \in Tokens, NEW d \in Int
  PROVE  Add(L, u, t, d) \in [Users -> [Tokens -> Int]]
  BY DEF Add

\* Truncated quotients of amounts are amounts.
LEMMA DivNat ==
  ASSUME NEW n \in Nat, NEW d \in Nat \ {0}
  PROVE  n \div d \in Nat
  OBVIOUS

\* Products of amounts are amounts.
LEMMA MulNat == \A x, y \in Nat : x * y \in Nat
  OBVIOUS

\* Quotes and payouts are amounts.
LEMMA PayoutsNat == Payouts \subseteq Nat /\ Amounts \subseteq Nat
  <1>1. ASSUME NEW q \in Quotes PROVE MinOut(q) \in Nat
    <2>1. q \in Nat /\ 10000 - SpreadBps \in Nat
      BY RouterInputs
    <2>2. q * (10000 - SpreadBps) \in Nat
      BY <2>1, MulNat
    <2> QED BY <2>2, DivNat DEF MinOut
  <1> DEFINE spreads == {MinOut(q) : q \in Quotes}
  <1>2. spreads \subseteq Nat
    BY <1>1
  <1>3. Payouts = {0} \cup Quotes \cup spreads
    BY DEF Payouts
  <1>4. Quotes \subseteq Nat /\ Amounts \subseteq Nat
    BY RouterInputs
  <1> HIDE DEF spreads
  <1> QED BY <1>2, <1>3, <1>4

-----------------------------------------------------------------------------
(* The inductive invariant.  What the worker is about to do matches the job *)
(* it is serving: it has not closed it yet, or it closed it in this very    *)
(* section and the swap is still open.                                      *)

WorkerInv ==
  LET j == worker.job
  IN  worker.pc # "idle" =>
        /\ \A i \in 1 .. (j - 1) : rebalances[i].state \in Finished
        /\ worker.pc \in {"health", "step", "link"} => Active(rebalances[j].state)
        /\ worker.pc \in {"swapping", "polling"} => rebalances[j].state = "l1_swap"
        /\ worker.pc \in {"link", "payout", "refund"} =>
               rebalances[j].linked # NoSwap
        /\ worker.pc = "payout" => /\ rebalances[j].state = "completed"
                                   /\ Live(rebalances[j].linked)
        /\ worker.pc = "refund" => /\ rebalances[j].state = "failed"
                                   /\ Live(rebalances[j].linked)

Tables == /\ swaps \in Seq(SwapJob)
          /\ rebalances \in Seq(RebalanceJob)
          /\ SwapFollowsJob
          /\ OneJobPerSwap
          /\ JobsInOrder

IndInv == TypeOK /\ Tables /\ WorkerInv

\* A swap is open as long as its job is.
LEMMA OpenWithJob ==
  ASSUME Tables, NEW j \in 1 .. Len(rebalances), Active(rebalances[j].state),
         rebalances[j].linked # NoSwap
  PROVE  /\ Live(rebalances[j].linked)
         /\ rebalances[j].linked \in 1 .. Len(swaps)
  <1>1. /\ DOMAIN rebalances = 1 .. Len(rebalances)
        /\ DOMAIN swaps = 1 .. Len(swaps)
    BY SeqDomain DEF Tables
  <1>2. /\ rebalances[j].linked \in DOMAIN swaps
        /\ Follows(swaps[rebalances[j].linked], rebalances[j])
    BY <1>1 DEF Tables, SwapFollowsJob
  <1> QED BY <1>1, <1>2 DEF Follows, Active, Live, Finished

\* An open job has only queued jobs behind it.
LEMMA BehindActive ==
  ASSUME Tables, NEW j \in 1 .. Len(rebalances), Active(rebalances[j].state),
         NEW k \in 1 .. Len(rebalances), j < k
  PROVE  rebalances[k].state = "queued"
  <1>1. DOMAIN rebalances = 1 .. Len(rebalances) /\ Len(rebalances) \in Nat
    BY SeqDomain DEF Tables
  <1>2. j \in 1 .. (k - 1)
    BY <1>1
  <1>3. rebalances[j].state \notin Finished
    BY DEF Active, Finished
  <1> QED BY <1>1, <1>2, <1>3 DEF Tables, JobsInOrder

\* Rewriting the record of an open job that is next in line.
LEMMA ReplaceJob ==
  ASSUME Tables, NEW j \in 1 .. Len(rebalances), NEW r \in RebalanceJob,
         Active(rebalances[j].state), r.linked = rebalances[j].linked,
         \A i \in 1 .. (j - 1) : rebalances[i].state \in Finished,
         r.linked # NoSwap => Follows(swaps[r.linked], r),
         rebalances' = [rebalances EXCEPT ![j] = r], swaps' = swaps
  PROVE  /\ Tables'
         /\ DOMAIN rebalances' = 1 .. Len(rebalances)
         /\ rebalances'[j] = r
         /\ \A k \in 1 .. Len(rebalances) : k # j => rebalances'[k] = rebalances[k]
  <1>1. /\ rebalances \in Seq(RebalanceJob) /\ Len(rebalances) \in Nat
        /\ DOMAIN rebalances = 1 .. Len(rebalances)
    BY SeqDomain DEF Tables
  <1>2. /\ rebalances' \in Seq(RebalanceJob)
        /\ Len(rebalances') = Len(rebalances)
        /\ rebalances'[j] = r
        /\ \A k \in 1 .. Len(rebalances) : k # j => rebalances'[k] = rebalances[k]
    BY <1>1, ReplaceOne
  <1>3. DOMAIN rebalances' = 1 .. Len(rebalances)
    BY <1>2, SeqDomain
  <1>4. SwapFollowsJob'
    BY <1>1, <1>2, <1>3 DEF Tables, SwapFollowsJob
  <1>5. \A k \in DOMAIN rebalances : rebalances'[k].linked = rebalances[k].linked
    BY <1>1, <1>2
  <1>6. OneJobPerSwap'
    BY <1>1, <1>3, <1>5 DEF Tables, OneJobPerSwap
  <1>7. JobsInOrder'
    <2>1. SUFFICES ASSUME NEW k \in 1 .. Len(rebalances),
                          rebalances'[k].state # "queued",
                          NEW i \in 1 .. (k - 1)
                   PROVE  rebalances'[i].state \in Finished
      BY <1>3 DEF JobsInOrder
    <2>2. i \in 1 .. Len(rebalances) /\ i < k
      BY <1>1
    <2>3. CASE k = j
      BY <2>2, <2>3, <1>2
    <2>4. CASE k # j
      <3>1. rebalances[k].state # "queued" /\ rebalances[i].state \in Finished
        BY <2>1, <2>4, <1>1, <1>2 DEF Tables, JobsInOrder
      <3>2. i # j
        BY <3>1 DEF Active, Finished
      <3> QED BY <3>1, <3>2, <2>2, <1>2
    <2> QED BY <2>3, <2>4
  <1> QED BY <1>2, <1>3, <1>4, <1>6, <1>7 DEF Tables

\* Rewriting the record of a swap consistently with its job.
LEMMA ReplaceSwap ==
  ASSUME Tables, NEW j \in 1 .. Len(rebalances), NEW s \in SwapJob,
         rebalances[j].linked # NoSwap, Follows(s, rebalances[j]),
         swaps' = [swaps EXCEPT ![rebalances[j].linked] = s],
         rebalances' = rebalances
  PROVE  /\ Tables'
         /\ rebalances[j].linked \in 1 .. Len(swaps)
         /\ Len(swaps') = Len(swaps)
         /\ swaps'[rebalances[j].linked] = s
         /\ \A i \in 1 .. Len(swaps) :
                i # rebalances[j].linked => swaps'[i] = swaps[i]
  <1> DEFINE n == rebalances[j].linked
  <1>1. /\ DOMAIN rebalances = 1 .. Len(rebalances)
        /\ swaps \in Seq(SwapJob) /\ DOMAIN swaps = 1 .. Len(swaps)
    BY SeqDomain DEF Tables
  <1>2. n \in 1 .. Len(swaps)
    BY <1>1 DEF Tables, SwapFollowsJob
  <1>3. /\ swaps' \in Seq(SwapJob) /\ Len(swaps') = Len(swaps)
        /\ swaps'[n] = s
        /\ \A i \in 1 .. Len(swaps) : i # n => swaps'[i] = swaps[i]
    BY <1>1, <1>2, ReplaceOne
  <1>4. DOMAIN swaps' = 1 .. Len(swaps)
    BY <1>3, SeqDomain
  <1>5. SwapFollowsJob'
    <2>1. SUFFICES ASSUME NEW k \in 1 .. Len(rebalances),
                          rebalances[k].linked # NoSwap
                   PROVE  /\ rebalances[k].linked \in 1 .. Len(swaps)
                          /\ Follows(swaps'[rebalances[k].linked], rebalances[k])
      BY <1>1, <1>4 DEF SwapFollowsJob
    <2>2. /\ rebalances[k].linked \in 1 .. Len(swaps)
          /\ Follows(swaps[rebalances[k].linked], rebalances[k])
      BY <2>1, <1>1 DEF Tables, SwapFollowsJob
    <2>3. CASE k = j
      BY <2>2, <2>3, <1>3
    <2>4. CASE k # j
      <3>1. rebalances[k].linked # n
        BY <2>1, <2>4, <1>1 DEF Tables, OneJobPerSwap
      <3> QED BY <3>1, <2>2, <1>3
    <2> QED BY <2>3, <2>4
  <1>6. OneJobPerSwap' /\ JobsInOrder'
    BY <1>1, <1>4 DEF Tables, OneJobPerSwap, JobsInOrder
  <1> QED BY <1>2, <1>3, <1>5, <1>6 DEF Tables

-----------------------------------------------------------------------------
(* The steps of the worker. *)

JobPcs == {"health", "step", "swapping", "polling"}

WorkerType ==
    worker \in [pc : {"idle"}, job : {NoJob}]
               \cup [pc : {"health", "swapping"} \cup SyncPcs,
                     job : DOMAIN rebalances]
               \cup [pc : {"polling"}, job : DOMAIN rebalances,
                     tx : DOMAIN l1]

\* The job the worker serves.
LEMMA WorkerJob ==
  ASSUME IndInv, worker.pc # "idle"
  PROVE  /\ worker.job \in 1 .. Len(rebalances)
         /\ worker.job \in DOMAIN rebalances
         /\ rebalances[worker.job] \in RebalanceJob
  <1>1. worker.job \in DOMAIN rebalances
    BY DEF IndInv, TypeOK
  <1> QED BY <1>1, SeqDomain DEF IndInv, Tables

\* A job in another state is a job.
LEMMA SetStateOf ==
  ASSUME NEW o \in RebalanceJob, NEW st \in JobStates,
         NEW r, r = [o EXCEPT !.state = st]
  PROVE  /\ r \in RebalanceJob
         /\ r.state = st /\ r.actualOut = o.actualOut /\ r.linked = o.linked
         /\ r.input = o.input /\ r.output = o.output
         /\ r.amountIn = o.amountIn /\ r.minOut = o.minOut
  BY DEF RebalanceJob

\* A job with a result is a job.
LEMMA SetOutOf ==
  ASSUME NEW o \in RebalanceJob, NEW out \in Payouts,
         NEW r, r = [o EXCEPT !.actualOut = out]
  PROVE  /\ r \in RebalanceJob
         /\ r.state = o.state /\ r.actualOut = out /\ r.linked = o.linked
         /\ r.input = o.input /\ r.output = o.output
         /\ r.amountIn = o.amountIn /\ r.minOut = o.minOut
  BY DEF RebalanceJob

\* Moving a job on, or closing it, and scheduling the second mutate.
LEMMA JobStep ==
  ASSUME IndInv, worker.pc \in JobPcs, NEW r \in RebalanceJob,
         NEW pc \in {"link", "payout", "refund"},
         LET o == rebalances[worker.job]
         IN  /\ Active(o.state)
             /\ Progress(o.state) <= Progress(r.state)
             /\ r.linked = o.linked /\ r.input = o.input
             /\ r.output = o.output /\ r.amountIn = o.amountIn,
         \/ pc = "link" /\ Active(r.state)
         \/ pc = "payout" /\ r.state = "completed"
         \/ pc = "refund" /\ r.state = "failed",
         rebalances' = [rebalances EXCEPT ![worker.job] = r],
         swaps' = swaps, worker' = Then(worker.job, pc)
  PROVE  Tables' /\ WorkerInv' /\ WorkerType' /\ DOMAIN rebalances' = DOMAIN rebalances
  <1> DEFINE j == worker.job
             o == rebalances[j]
  <1>1. /\ j \in 1 .. Len(rebalances) /\ o \in RebalanceJob
        /\ Tables /\ WorkerInv /\ DOMAIN rebalances = 1 .. Len(rebalances)
    BY WorkerJob, SeqDomain DEF IndInv, Tables, JobPcs
  <1>2. \A i \in 1 .. (j - 1) : rebalances[i].state \in Finished
    BY <1>1 DEF WorkerInv, JobPcs
  <1>3. ASSUME o.linked # NoSwap
        PROVE  /\ Live(o.linked)
               /\ Follows(swaps[o.linked], r)
    <2>1. Live(o.linked) /\ o.linked \in 1 .. Len(swaps)
      BY <1>1, <1>3, OpenWithJob
    <2>2. Follows(swaps[o.linked], o)
      BY <1>1, <1>3 DEF Tables, SwapFollowsJob
    <2>3. Progress(swaps[o.linked].state) <= Progress(o.state)
      BY <2>2 DEF Follows
    <2>4. Progress(swaps[o.linked].state) <= Progress(r.state)
      <3>1. /\ Progress(swaps[o.linked].state) \in Int /\ Progress(o.state) \in Int
            /\ Progress(r.state) \in Int
        BY DEF Progress
      <3> QED BY <2>3, <3>1
    <2> QED BY <2>1, <2>2, <2>4 DEF Follows, Live, Finished
  <1>4. /\ Tables'
        /\ DOMAIN rebalances' = 1 .. Len(rebalances)
        /\ rebalances'[j] = r
        /\ \A k \in 1 .. Len(rebalances) : k # j => rebalances'[k] = rebalances[k]
    <2>1. Active(rebalances[j].state) /\ r.linked = rebalances[j].linked
      OBVIOUS
    <2>2. r.linked # NoSwap => Follows(swaps[r.linked], r)
      BY <1>3, <2>1
    <2> HIDE DEF j, o
    <2>3. rebalances' = [rebalances EXCEPT ![j] = r]
      BY DEF j
    <2> QED BY <1>1, <1>2, <2>1, <2>2, <2>3, ReplaceJob
  <1>5. WorkerInv' /\ WorkerType'
    <2>1. CASE o.linked = NoSwap
      <3>1. worker' = Idle
        BY <2>1 DEF Then
      <3> QED BY <3>1 DEF Idle, WorkerInv, WorkerType
    <2>2. CASE o.linked # NoSwap
      <3>1. worker' = [pc |-> pc, job |-> j]
        BY <2>2 DEF Then
      <3>2. worker'.pc = pc /\ worker'.job = j
        BY <3>1
      <3>3. \A i \in 1 .. (j - 1) : rebalances'[i].state \in Finished
        <4> TAKE i \in 1 .. (j - 1)
        <4>1. i \in 1 .. Len(rebalances) /\ i # j
          BY <1>1
        <4> QED BY <4>1, <1>2, <1>4
      <3>4. swaps'[o.linked].state \notin Finished
        BY <1>3, <2>2 DEF Live
      <3>5. rebalances'[j].linked = o.linked
        BY <1>4
      <3>6. WorkerInv'
        BY <3>2, <3>3, <3>4, <3>5, <1>4, <2>2 DEF WorkerInv, Live
      <3>7. WorkerType'
        BY <3>1, <1>1, <1>4 DEF WorkerType, SyncPcs
      <3> QED BY <3>6, <3>7
    <2> QED BY <2>1, <2>2
  <1> QED BY <1>1, <1>4, <1>5

\* Repeating the state of an open job on its swap.
LEMMA MarkStep ==
  ASSUME IndInv, NEW j \in 1 .. Len(rebalances), Active(rebalances[j].state),
         Mark(rebalances[j].linked, rebalances[j].state),
         rebalances' = rebalances
  PROVE  /\ Tables'
         /\ Deals' = Deals
  <1> DEFINE o == rebalances[j]
             s == [swaps[o.linked] EXCEPT !.state = o.state]
  <1>1. CASE o.linked = NoSwap
    BY <1>1 DEF Mark, IndInv, Tables, SwapFollowsJob, OneJobPerSwap,
                JobsInOrder, Deals
  <1>2. CASE o.linked # NoSwap
    <2>1. /\ Live(o.linked) /\ o.linked \in 1 .. Len(swaps)
          /\ swaps \in Seq(SwapJob) /\ rebalances \in Seq(RebalanceJob)
          /\ DOMAIN swaps = 1 .. Len(swaps)
          /\ DOMAIN rebalances = 1 .. Len(rebalances)
      BY <1>2, OpenWithJob, SeqDomain DEF IndInv, Tables
    <2>2. swaps[o.linked] \in SwapJob /\ o \in RebalanceJob
      BY <2>1
    <2>3. o.state \in JobStates /\ o.state \notin Finished
      BY DEF Active, Finished, JobStates
    <2>4. /\ s \in SwapJob /\ s.state = o.state
          /\ s.from = swaps[o.linked].from /\ s.to = swaps[o.linked].to
          /\ s.amountIn = swaps[o.linked].amountIn
          /\ s.user = swaps[o.linked].user
      BY <2>2, <2>3 DEF SwapJob
    <2>5. Follows(swaps[o.linked], o)
      BY <1>2, <2>1 DEF IndInv, Tables, SwapFollowsJob
    <2>6. Follows(s, o)
      <3>1. Progress(o.state) \in Int
        BY DEF Progress
      <3> QED BY <2>3, <2>4, <2>5, <3>1 DEF Follows, Finished
    <2>7. swaps' = [swaps EXCEPT ![o.linked] = s]
      BY <1>2 DEF Mark
    <2> HIDE DEF s
    <2>8. /\ Tables' /\ Len(swaps') = Len(swaps)
          /\ swaps'[o.linked] = s
          /\ \A i \in 1 .. Len(swaps) : i # o.linked => swaps'[i] = swaps[i]
      BY <1>2, <2>4, <2>6, <2>7, ReplaceSwap DEF IndInv
    <2>9. DOMAIN swaps' = 1 .. Len(swaps)
      BY <2>8, SeqDomain DEF Tables
    <2>10. \A i \in 1 .. Len(swaps) :
              /\ swaps'[i].user = swaps[i].user /\ swaps'[i].from = swaps[i].from
              /\ swaps'[i].to = swaps[i].to
              /\ swaps'[i].amountIn = swaps[i].amountIn
              /\ Outcome(swaps'[i].state) = Outcome(swaps[i].state)
              /\ swaps'[i].state = "completed" <=> swaps[i].state = "completed"
              /\ swaps[i].state = "completed" => swaps'[i].quotedOut = swaps[i].quotedOut
      BY <2>1, <2>3, <2>4, <2>8 DEF Live, Finished, Outcome
    <2>11. Deals' = Deals
      BY <2>1, <2>9, <2>10 DEF Deals
    <2> QED BY <2>8, <2>11
  <1> QED BY <1>1, <1>2

-----------------------------------------------------------------------------
(* Queueing a job, and steps that leave the tables alone. *)

LedgerType == /\ balances \in [Users -> [Tokens -> Int]]
              /\ locked \in [Users -> [Tokens -> Int]]
              /\ inventory \in [Tokens -> Int]

OpenCall == [pc : CallPcs, user : Users, from : Tokens, to : Tokens,
             amountIn : Amounts, out : Payouts, local : Int]

CallsType == calls \in [Slots -> {NoCall} \cup OpenCall] /\ requests \in Nat

L1Type == l1 \in Seq(L1Swap) /\ crashes \in Nat

\* The type invariant, by the part of the state an action touches.
LEMMA TypeParts ==
  TypeOK <=> /\ LedgerType /\ CallsType /\ L1Type /\ WorkerType
             /\ swaps \in Seq(SwapJob) /\ rebalances \in Seq(RebalanceJob)
  BY DEF TypeOK, LedgerType, CallsType, L1Type, WorkerType, OpenCall

\* A new queued job, with a new swap or alone, keeps the tables consistent.
LEMMA AppendJob ==
  ASSUME IndInv, NEW r \in RebalanceJob, r.state = "queued",
         rebalances' = Append(rebalances, r),
         \/ r.linked = NoSwap /\ swaps' = swaps
         \/ \E s \in SwapJob : /\ r.linked = Len(swaps) + 1
                               /\ swaps' = Append(swaps, s)
                               /\ Follows(s, r),
         worker' = worker, l1' = l1
  PROVE  Tables' /\ WorkerInv' /\ WorkerType'
  <1> DEFINE n == Len(rebalances)
             m == Len(swaps)
  <1>1. /\ rebalances \in Seq(RebalanceJob) /\ n \in Nat
        /\ DOMAIN rebalances = 1 .. n
        /\ swaps \in Seq(SwapJob) /\ m \in Nat /\ DOMAIN swaps = 1 .. m
    BY SeqDomain DEF IndInv, Tables
  <1>2. /\ rebalances' \in Seq(RebalanceJob) /\ Len(rebalances') = n + 1
        /\ \A k \in 1 .. n : rebalances'[k] = rebalances[k]
        /\ rebalances'[n + 1] = r
    BY <1>1, AppendOne
  <1>3. DOMAIN rebalances' = 1 .. (n + 1)
    BY <1>2, SeqDomain
  <1>4. /\ swaps' \in Seq(SwapJob)
        /\ \A k \in 1 .. m : swaps'[k] = swaps[k]
        /\ \/ r.linked = NoSwap /\ Len(swaps') = m
           \/ /\ r.linked = m + 1 /\ Len(swaps') = m + 1
              /\ Follows(swaps'[m + 1], r)
    <2>1. CASE r.linked = NoSwap /\ swaps' = swaps
      BY <2>1, <1>1
    <2>2. ASSUME NEW x \in SwapJob, r.linked = m + 1,
                 swaps' = Append(swaps, x), Follows(x, r)
          PROVE  <1>4
      <3>1. Append(swaps, x) \in Seq(SwapJob) /\ Len(Append(swaps, x)) = m + 1
        BY <1>1, AppendOne
      <3>2. \A k \in 1 .. m : Append(swaps, x)[k] = swaps[k]
        BY <1>1, AppendOne
      <3>3. Append(swaps, x)[m + 1] = x
        BY <1>1, AppendOne
      <3>4. /\ swaps' \in Seq(SwapJob) /\ Len(swaps') = m + 1
            /\ \A k \in 1 .. m : swaps'[k] = swaps[k]
            /\ swaps'[m + 1] = x
        BY <2>2, <3>1, <3>2, <3>3
      <3> QED BY <3>4, <2>2
    <2> QED BY <2>1, <2>2
  <1>5. DOMAIN swaps' = 1 .. Len(swaps')
    BY <1>4, SeqDomain
  <1>6. \A k \in 1 .. n : rebalances[k].linked # NoSwap =>
            /\ rebalances[k].linked \in 1 .. m
            /\ Follows(swaps[rebalances[k].linked], rebalances[k])
    BY <1>1 DEF IndInv, Tables, SwapFollowsJob
  <1>7. SwapFollowsJob'
    <2>1. SUFFICES ASSUME NEW k \in 1 .. (n + 1), rebalances'[k].linked # NoSwap
                   PROVE  /\ rebalances'[k].linked \in 1 .. Len(swaps')
                          /\ Follows(swaps'[rebalances'[k].linked], rebalances'[k])
      BY <1>3, <1>5 DEF SwapFollowsJob
    <2>2. CASE k \in 1 .. n
      BY <2>1, <2>2, <1>1, <1>2, <1>4, <1>6
    <2>3. CASE k = n + 1
      BY <2>1, <2>3, <1>1, <1>2, <1>4
    <2> QED BY <2>2, <2>3, <1>1
  <1>8. OneJobPerSwap'
    <2>1. \A i \in 1 .. Len(swaps') : \E k \in 1 .. (n + 1) : rebalances'[k].linked = i
      <3> TAKE i \in 1 .. Len(swaps')
      <3>1. CASE i \in 1 .. m
        <4>1. \E k \in 1 .. n : rebalances[k].linked = i
          BY <3>1, <1>1 DEF IndInv, Tables, OneJobPerSwap
        <4> QED BY <4>1, <1>1, <1>2
      <3>2. CASE i = m + 1
        <4>1. r.linked = i /\ n + 1 \in 1 .. (n + 1)
          BY <3>2, <1>1, <1>4
        <4> QED BY <4>1, <1>2
      <3> QED BY <3>1, <3>2, <1>1, <1>4
    <2>2. ASSUME NEW k \in 1 .. (n + 1), NEW h \in 1 .. (n + 1), k # h,
                 rebalances'[k].linked = rebalances'[h].linked,
                 rebalances'[k].linked # NoSwap
          PROVE  FALSE
      <3>1. CASE k \in 1 .. n /\ h \in 1 .. n
        BY <3>1, <2>2, <1>1, <1>2 DEF IndInv, Tables, OneJobPerSwap
      <3>2. CASE k = n + 1 /\ h \in 1 .. n
        BY <3>2, <2>2, <1>1, <1>2, <1>4, <1>6
      <3>3. CASE h = n + 1 /\ k \in 1 .. n
        BY <3>3, <2>2, <1>1, <1>2, <1>4, <1>6
      <3> QED BY <3>1, <3>2, <3>3, <2>2, <1>1
    <2> QED BY <2>1, <2>2, <1>3, <1>5 DEF OneJobPerSwap
  <1>9. JobsInOrder'
    <2>1. SUFFICES ASSUME NEW k \in 1 .. (n + 1), rebalances'[k].state # "queued",
                          NEW i \in 1 .. (k - 1)
                   PROVE  rebalances'[i].state \in Finished
      BY <1>3 DEF JobsInOrder
    <2>2. k \in 1 .. n /\ i \in 1 .. n
      BY <2>1, <1>1, <1>2
    <2> QED BY <2>1, <2>2, <1>1, <1>2 DEF IndInv, Tables, JobsInOrder
  <1>10. WorkerType'
    <2>1. DOMAIN rebalances \subseteq DOMAIN rebalances'
      BY <1>1, <1>3
    <2>2. WorkerType
      BY TypeParts DEF IndInv
    <2> QED BY <2>1, <2>2 DEF WorkerType
  <1>11. WorkerInv'
    <2>1. SUFFICES ASSUME worker.pc # "idle" PROVE WorkerInv'
      BY DEF WorkerInv
    <2>2. worker.job \in 1 .. n
      BY <2>1, WorkerJob
    <2>3. rebalances'[worker.job] = rebalances[worker.job]
      BY <2>2, <1>2
    <2>4. \A i \in 1 .. (worker.job - 1) : rebalances'[i] = rebalances[i]
      BY <2>2, <1>1, <1>2
    <2>5. rebalances[worker.job].linked # NoSwap =>
              swaps'[rebalances[worker.job].linked]
                  = swaps[rebalances[worker.job].linked]
      BY <2>2, <1>4, <1>6
    <2> QED BY <2>1, <2>3, <2>4, <2>5 DEF IndInv, WorkerInv, Live
  <1> QED BY <1>2, <1>4, <1>7, <1>8, <1>9, <1>10, <1>11 DEF Tables

\* A step that leaves both tables alone keeps them consistent,
LEMMA TablesKept ==
  ASSUME Tables, swaps' = swaps, rebalances' = rebalances
  PROVE  Tables'
  BY DEF Tables, SwapFollowsJob, OneJobPerSwap, JobsInOrder

\* and one that leaves the worker alone, too, keeps what it knows.
LEMMA WorkerKept ==
  ASSUME IndInv, worker' = worker, rebalances' = rebalances, swaps' = swaps,
         DOMAIN l1 \subseteq DOMAIN l1'
  PROVE  WorkerInv' /\ WorkerType'
  <1>1. WorkerType
    BY TypeParts DEF IndInv
  <1> QED BY <1>1 DEF IndInv, WorkerInv, WorkerType, Live

-----------------------------------------------------------------------------
(* One lemma per action. *)

\* The empty tables are consistent.
LEMMA InitInv == Init => IndInv
  <1> SUFFICES ASSUME Init PROVE IndInv
    OBVIOUS
  <1>1. LedgerType
    BY RouterInputs DEF Init, LedgerType
  <1>2. CallsType /\ L1Type /\ WorkerType
    BY DEF Init, CallsType, L1Type, WorkerType, Idle
  <1>3. /\ swaps \in Seq(SwapJob) /\ rebalances \in Seq(RebalanceJob)
        /\ DOMAIN swaps = {} /\ DOMAIN rebalances = {}
    BY DEF Init
  <1>4. Tables /\ WorkerInv
    BY <1>3 DEF Init, Idle, Tables, SwapFollowsJob, OneJobPerSwap, JobsInOrder,
                WorkerInv
  <1> QED BY <1>1, <1>2, <1>3, <1>4, TypeParts DEF IndInv

\* What is left to show once an action's effect on the tables is known.
LEMMA Assemble ==
  ASSUME LedgerType', CallsType', L1Type', WorkerType', Tables', WorkerInv'
  PROVE  IndInv'
  BY DEF IndInv, TypeOK, Tables, LedgerType, CallsType, L1Type, WorkerType,
         OpenCall

\* The parts of the invariant.
LEMMA Parts ==
  ASSUME IndInv
  PROVE  /\ LedgerType /\ CallsType /\ L1Type /\ WorkerType
         /\ Tables /\ WorkerInv
  BY TypeParts DEF IndInv

\* A new job is a queued job.
LEMMA NewJobType ==
  ASSUME NEW a \in Tokens, NEW b \in Tokens, NEW n \in Nat, NEW p \in Payouts,
         NEW l \in Nat
  PROVE  /\ NewJob(a, b, n, p, l) \in RebalanceJob
         /\ NewJob(a, b, n, p, l).state = "queued"
         /\ NewJob(a, b, n, p, l).linked = l
  BY DEF NewJob, RebalanceJob, JobStates

\* An asynchronous swap writes its two records.
LEMMA ExecuteAsyncInv ==
  ASSUME IndInv, NEW u \in Users, NEW from \in Tokens, NEW to \in Tokens,
         NEW amount \in Amounts, NEW quoted \in Quotes,
         ExecuteAsync(u, from, to, amount, quoted)
  PROVE  IndInv'
  <1> DEFINE s == [user |-> u, from |-> from, to |-> to, amountIn |-> amount,
                   quotedOut |-> quoted, state |-> "queued"]
             r == NewJob(from, to, amount, MinOut(quoted), Len(swaps) + 1)
  <1>1. /\ LedgerType /\ CallsType /\ L1Type /\ Len(swaps) \in Nat
        /\ amount \in Nat
    BY Parts, SeqDomain, PayoutsNat DEF Tables
  <1>2. MinOut(quoted) \in Payouts /\ quoted \in Payouts
    BY DEF Payouts
  <1>3. /\ r \in RebalanceJob /\ r.state = "queued"
        /\ r.linked = Len(swaps) + 1
    BY <1>1, <1>2, NewJobType
  <1>4. s \in SwapJob
    BY <1>2 DEF SwapJob, JobStates
  <1>5. Follows(s, r)
    BY DEF Follows, NewJob, Progress
  <1>6. /\ swaps' = Append(swaps, s) /\ rebalances' = Append(rebalances, r)
        /\ UNCHANGED <<inventory, worker, router, l1, crashes>>
    BY DEF ExecuteAsync
  <1>7. LedgerType'
    <2>1. balances' = Add(balances, u, from, -amount) /\ -amount \in Int
      BY <1>1 DEF ExecuteAsync
    <2>2. locked' = Add(locked, u, from, amount) /\ amount \in Int
      BY <1>1 DEF ExecuteAsync
    <2>3. balances' \in [Users -> [Tokens -> Int]]
      BY <1>1, <2>1, AddInt DEF LedgerType
    <2>4. locked' \in [Users -> [Tokens -> Int]]
      BY <1>1, <2>2, AddInt DEF LedgerType
    <2> QED BY <1>1, <1>6, <2>3, <2>4 DEF LedgerType
  <1> HIDE DEF s, r
  <1>8. Tables' /\ WorkerInv' /\ WorkerType'
    BY <1>3, <1>4, <1>5, <1>6, AppendJob
  <1>9. CallsType' /\ L1Type'
    BY <1>1, <1>6 DEF CallsType, L1Type, router
  <1> QED BY <1>7, <1>8, <1>9, Assemble

\* The steps of a call that only change the call.
LEMMA CallOnlyInv ==
  ASSUME IndInv, CallsType',
         UNCHANGED <<ledger, inventory, swaps, rebalances, worker, l1, crashes>>
  PROVE  IndInv'
  <1>1. LedgerType' /\ L1Type'
    BY Parts DEF LedgerType, L1Type, ledger
  <1>2. Tables' /\ WorkerInv' /\ WorkerType'
    BY Parts, TablesKept, WorkerKept
  <1> QED BY <1>1, <1>2, Assemble

\* A call past its request has the fields of one.
LEMMA OpenCallOf ==
  ASSUME CallsType, NEW c \in Slots, calls[c].pc \in CallPcs
  PROVE  calls[c] \in OpenCall
  BY DEF CallsType, NoCall, CallPcs

\* A call moves on.
LEMMA CallPc ==
  ASSUME NEW k \in OpenCall, NEW pc \in CallPcs
  PROVE  [k EXCEPT !.pc = pc] \in OpenCall
  BY DEF OpenCall

\* The fields of a call.
LEMMA CallAmounts ==
  ASSUME NEW k \in OpenCall
  PROVE  /\ k.user \in Users /\ k.from \in Tokens /\ k.to \in Tokens
         /\ k.amountIn \in Nat /\ k.amountIn \in Int /\ -k.amountIn \in Int
         /\ k.out \in Int
  <1>1. /\ k.user \in Users /\ k.from \in Tokens /\ k.to \in Tokens
        /\ k.amountIn \in Amounts /\ k.out \in Payouts
    BY DEF OpenCall
  <1>2. k.amountIn \in Nat /\ k.out \in Nat
    BY <1>1, PayoutsNat
  <1> QED BY <1>1, <1>2

\* An instant swap is requested.
LEMMA RequestInv ==
  ASSUME IndInv, NEW c \in Slots, NEW u \in Users, NEW from \in Tokens,
         NEW to \in Tokens, NEW amount \in Amounts,
         Request(c, u, from, to, amount)
  PROVE  IndInv'
  <1> DEFINE k == [pc |-> "quoting", user |-> u, from |-> from, to |-> to,
                   amountIn |-> amount, out |-> 0, local |-> 0]
  <1>1. k \in OpenCall
    BY DEF OpenCall, CallPcs, Payouts
  <1>2. calls' = [calls EXCEPT ![c] = k] /\ requests' = requests + 1
    BY DEF Request
  <1> HIDE DEF k
  <1>3. CallsType'
    BY <1>1, <1>2, Parts DEF CallsType
  <1> QED BY <1>3, CallOnlyInv DEF Request

\* The steps of a call that only move it.
LEMMA QuietAnswerInv ==
  ASSUME IndInv, NEW c \in Slots,
         \/ \E q \in Quotes : ReadCapacity(c, q)
         \/ ChooseLocal(c)
         \/ Abandon(c)
  PROVE  IndInv'
  <1>1. CallsType /\ LedgerType
    BY Parts
  <1>2. ASSUME NEW q \in Quotes, ReadCapacity(c, q) PROVE IndInv'
    <2>1. calls[c] \in OpenCall
      BY <1>1, <1>2, OpenCallOf DEF ReadCapacity, CallPcs
    <2>2. inventory[calls[c].to] \in Int /\ MinOut(q) \in Payouts
      BY <1>1, <2>1 DEF LedgerType, OpenCall, Payouts
    <2> DEFINE k == [calls[c] EXCEPT !.pc = "balance", !.out = MinOut(q),
                                     !.local = inventory[calls[c].to]]
    <2>3. k \in OpenCall
      <3> DEFINE x == [calls[c] EXCEPT !.pc = "balance"]
                 y == [x EXCEPT !.out = MinOut(q)]
                 z == [y EXCEPT !.local = inventory[calls[c].to]]
      <3>1. x \in OpenCall
        BY <2>1, CallPc DEF CallPcs
      <3> HIDE DEF x
      <3>2. y \in OpenCall
        BY <2>2, <3>1 DEF OpenCall
      <3> HIDE DEF y
      <3>3. z \in OpenCall
        BY <2>2, <3>2 DEF OpenCall
      <3>4. k = z
        BY DEF x, y
      <3> QED BY <3>3, <3>4
    <2>4. calls' = [calls EXCEPT ![c] = k]
      BY <1>2 DEF ReadCapacity
    <2> HIDE DEF k
    <2>5. CallsType'
      BY <1>1, <1>2, <2>3, <2>4 DEF CallsType, ReadCapacity
    <2> QED BY <1>2, <2>5, CallOnlyInv DEF ReadCapacity
  <1>3. CASE ChooseLocal(c)
    <2>1. calls[c] \in OpenCall
      BY <1>1, <1>3, OpenCallOf DEF ChooseLocal, CallPcs
    <2>2. [calls[c] EXCEPT !.pc = "paying"] \in OpenCall
      BY <2>1, CallPc DEF CallPcs
    <2>3. calls' = [calls EXCEPT ![c] = [calls[c] EXCEPT !.pc = "paying"]]
      BY <1>3 DEF ChooseLocal
    <2>4. CallsType'
      BY <1>1, <1>3, <2>2, <2>3 DEF CallsType, ChooseLocal
    <2> QED BY <1>3, <2>4, CallOnlyInv DEF ChooseLocal
  <1>4. CASE Abandon(c)
    <2>1. CallsType'
      BY <1>1, <1>4 DEF CallsType, Abandon
    <2> QED BY <1>4, <2>1, CallOnlyInv DEF Abandon
  <1> QED BY <1>2, <1>3, <1>4

\* A call moves the balances.
LEMMA BookInv ==
  ASSUME IndInv, NEW c \in Slots, Book(c)
  PROVE  IndInv'
  <1> DEFINE k == calls[c]
  <1>1. CallsType /\ LedgerType /\ L1Type
    BY Parts
  <1>2. k \in OpenCall
    BY <1>1, OpenCallOf DEF Book, CallPcs
  <1>3. /\ k.user \in Users /\ k.from \in Tokens /\ k.to \in Tokens
        /\ -k.amountIn \in Int /\ k.out \in Int
    BY <1>2, CallAmounts
  <1>4. balances' = Add(Add(balances, k.user, k.from, -k.amountIn),
                        k.user, k.to, k.out)
    BY DEF Book
  <1>5. calls' = [calls EXCEPT ![c] = [k EXCEPT !.pc = "stock"]]
    BY DEF Book
  <1>6. [k EXCEPT !.pc = "stock"] \in OpenCall
    BY <1>2, CallPc DEF CallPcs
  <1> HIDE DEF k
  <1>7. balances' \in [Users -> [Tokens -> Int]]
    <2>1. Add(balances, k.user, k.from, -k.amountIn) \in [Users -> [Tokens -> Int]]
      BY <1>1, <1>3, AddInt DEF LedgerType
    <2> QED BY <1>3, <1>4, <2>1, AddInt
  <1>8. LedgerType' /\ L1Type'
    BY <1>1, <1>7 DEF Book, LedgerType, L1Type
  <1>9. CallsType'
    BY <1>1, <1>5, <1>6 DEF CallsType, Book
  <1>10. Tables' /\ WorkerInv' /\ WorkerType'
    BY Parts, TablesKept, WorkerKept DEF Book
  <1> QED BY <1>8, <1>9, <1>10, Assemble

\* A call moves the inventory.
LEMMA ApplyInstantSwapInv ==
  ASSUME IndInv, NEW c \in Slots, ApplyInstantSwap(c)
  PROVE  IndInv'
  <1> DEFINE k == calls[c]
  <1>1. CallsType /\ LedgerType /\ L1Type
    BY Parts
  <1>2. k \in OpenCall
    BY <1>1, OpenCallOf DEF ApplyInstantSwap, CallPcs
  <1>3. /\ k.from \in Tokens /\ k.to \in Tokens
        /\ k.amountIn \in Int /\ k.out \in Int
    BY <1>2, CallAmounts
  <1>4. inventory' = [inventory EXCEPT ![k.from] = @ + k.amountIn,
                                       ![k.to] = @ - k.out]
    BY DEF ApplyInstantSwap
  <1>5. calls' = [calls EXCEPT ![c] = [k EXCEPT !.pc = "drift"]]
    BY DEF ApplyInstantSwap
  <1>6. [k EXCEPT !.pc = "drift"] \in OpenCall
    BY <1>2, CallPc DEF CallPcs
  <1> HIDE DEF k
  <1>7. LedgerType' /\ L1Type'
    <2>1. inventory \in [Tokens -> Int]
      BY <1>1 DEF LedgerType
    <2>2. inventory' \in [Tokens -> Int]
      BY <1>3, <1>4, <2>1
    <2> QED BY <1>1, <2>2 DEF ApplyInstantSwap, LedgerType, L1Type, ledger
  <1>8. CallsType'
    BY <1>1, <1>5, <1>6 DEF CallsType, ApplyInstantSwap
  <1>9. Tables' /\ WorkerInv' /\ WorkerType'
    BY Parts, TablesKept, WorkerKept DEF ApplyInstantSwap
  <1> QED BY <1>7, <1>8, <1>9, Assemble

\* A call queues a job without a swap, or none.
LEMMA EnsureRebalanceForDriftInv ==
  ASSUME IndInv, NEW c \in Slots, EnsureRebalanceForDrift(c)
  PROVE  IndInv'
  <1> DEFINE k == calls[c]
             n == DriftAmount(k.from, k.to, k.amountIn)
             r == NewJob(k.from, k.to, n, k.out, NoSwap)
  <1>1. CallsType /\ LedgerType /\ L1Type
    BY Parts
  <1>2. k \in OpenCall
    BY <1>1, OpenCallOf DEF EnsureRebalanceForDrift, CallPcs
  <1>3. /\ k.from \in Tokens /\ k.to \in Tokens
        /\ k.amountIn \in Nat /\ k.out \in Payouts
    BY <1>2, PayoutsNat DEF OpenCall
  <1>4. n \in Nat
    <2>1. /\ inventory[k.to] \in Int /\ inventory[k.from] \in Int
          /\ Policy[k.to].target \in Nat /\ Policy[k.from].target \in Nat
          /\ Policy[k.from].max \in Nat
      BY <1>1, <1>3, RouterInputs DEF LedgerType
    <2> HIDE DEF k
    <2> QED BY <1>3, <2>1 DEF DriftAmount
  <1>5. r \in RebalanceJob /\ r.state = "queued" /\ r.linked = NoSwap
    <2> HIDE DEF n, k
    <2> QED BY <1>3, <1>4, NewJobType DEF NoSwap
  <1>6. rebalances' = Append(rebalances, r) \/ rebalances' = rebalances
    BY DEF EnsureRebalanceForDrift
  <1>7. UNCHANGED <<ledger, inventory, swaps, worker, requests, l1, crashes>>
    BY DEF EnsureRebalanceForDrift
  <1>8. CallsType'
    BY <1>1 DEF CallsType, EnsureRebalanceForDrift
  <1>9. LedgerType' /\ L1Type'
    BY <1>1, <1>7 DEF LedgerType, L1Type, ledger
  <1> HIDE DEF r
  <1>10. Tables' /\ WorkerInv' /\ WorkerType'
    <2>1. CASE rebalances' = Append(rebalances, r)
      BY <2>1, <1>5, <1>7, AppendJob
    <2>2. CASE rebalances' = rebalances
      BY <2>2, <1>7, Parts, TablesKept, WorkerKept
    <2> QED BY <2>1, <2>2, <1>6
  <1> QED BY <1>8, <1>9, <1>10, Assemble

-----------------------------------------------------------------------------
(* The worker, the L1 and the restart. *)

\* The worker picks the oldest open job.
LEMMA PickInv ==
  ASSUME IndInv, NEW j \in DOMAIN rebalances, Pick(j)
  PROVE  IndInv'
  <1>1. /\ rebalances \in Seq(RebalanceJob) /\ DOMAIN rebalances = 1 .. Len(rebalances)
        /\ j \in 1 .. Len(rebalances) /\ Len(rebalances) \in Nat
    BY SeqDomain DEF IndInv, Tables
  <1>2. Tables' /\ LedgerType' /\ CallsType' /\ L1Type'
    BY Parts, TablesKept DEF Pick, LedgerType, CallsType, L1Type, ledger, router
  <1>3. \A i \in 1 .. (j - 1) : rebalances[i].state \in Finished
    <2> TAKE i \in 1 .. (j - 1)
    <2>1. i \in DOMAIN rebalances /\ ~(j <= i)
      BY <1>1
    <2>2. ~Active(rebalances[i].state)
      BY <2>1 DEF Pick, IsNext
    <2>3. rebalances[i] \in RebalanceJob
      BY <1>1, <2>1
    <2>4. rebalances[i].state \in JobStates
      BY <2>3 DEF RebalanceJob
    <2> QED BY <2>2, <2>4 DEF Active, JobStates, Finished
  <1>4. worker' = [pc |-> "health", job |-> j] /\ rebalances' = rebalances
    BY DEF Pick
  <1>5. Active(rebalances[j].state)
    BY DEF Pick, IsNext
  <1>6. WorkerType'
    BY <1>4 DEF WorkerType
  <1>7. WorkerInv'
    BY <1>3, <1>4, <1>5 DEF WorkerInv
  <1> QED BY <1>2, <1>6, <1>7, Assemble

\* Closing the job as failed, from either await.
LEMMA FailStep ==
  ASSUME IndInv, worker.pc \in {"health", "swapping"}, Fail(worker.job),
         swaps' = swaps
  PROVE  Tables' /\ WorkerInv' /\ WorkerType'
  <1> DEFINE o == rebalances[worker.job]
             r == [o EXCEPT !.state = "failed"]
  <1>1. o \in RebalanceJob /\ Active(o.state)
    BY WorkerJob DEF IndInv, WorkerInv, Active
  <1>2. /\ r \in RebalanceJob /\ r.state = "failed"
        /\ r.linked = o.linked /\ r.input = o.input
        /\ r.output = o.output /\ r.amountIn = o.amountIn
    BY <1>1, SetStateOf DEF JobStates
  <1>3. Progress(o.state) <= Progress(r.state)
    BY <1>1, <1>2 DEF Progress, Active
  <1>4. rebalances' = [rebalances EXCEPT ![worker.job] = r]
    BY DEF Fail, SetState
  <1>5. worker' = Then(worker.job, "refund") /\ worker.pc \in JobPcs
    BY DEF Fail, JobPcs
  <1> HIDE DEF r
  <1> QED BY <1>1, <1>2, <1>3, <1>4, <1>5, JobStep

\* A job fails before its step,
LEMMA UnhealthyInv ==
  ASSUME IndInv, Unhealthy
  PROVE  IndInv'
  <1>1. Tables' /\ WorkerInv' /\ WorkerType'
    BY FailStep DEF Unhealthy
  <1>2. LedgerType' /\ CallsType' /\ L1Type'
    BY Parts DEF Unhealthy, LedgerType, CallsType, L1Type, ledger, router
  <1> QED BY <1>1, <1>2, Assemble

\* A transaction is added to those of the L1.
LEMMA L1Append ==
  ASSUME IndInv, worker.pc # "idle",
         l1' = Append(l1, [job |-> worker.job, status |-> "pending", out |-> 0]),
         crashes' = crashes
  PROVE  /\ L1Type'
         /\ DOMAIN l1' = 1 .. Len(l1) + 1
         /\ Len(l1) \in Nat
         /\ DOMAIN l1 = 1 .. Len(l1)
  <1> DEFINE x == [job |-> worker.job, status |-> "pending", out |-> 0]
  <1>1. x \in L1Swap
    <2>1. worker.job \in Nat
      BY WorkerJob, SeqDomain DEF IndInv, Tables
    <2> QED BY <2>1 DEF L1Swap, Payouts
  <1>2. l1 \in Seq(L1Swap) /\ Len(l1) \in Nat /\ DOMAIN l1 = 1 .. Len(l1)
    BY Parts, SeqDomain DEF L1Type
  <1>3. l1' = Append(l1, x)
    OBVIOUS
  <1> HIDE DEF x
  <1>4. l1' \in Seq(L1Swap) /\ Len(l1') = Len(l1) + 1
    BY <1>1, <1>2, <1>3, AppendOne
  <1>5. DOMAIN l1' = 1 .. Len(l1')
    BY <1>4, SeqDomain
  <1> QED BY <1>2, <1>4, <1>5, Parts DEF L1Type

\* or for an error of the exchange.
LEMMA L1ErrorInv ==
  ASSUME IndInv, L1Error
  PROVE  IndInv'
  <1>1. Tables' /\ WorkerInv' /\ WorkerType'
    BY FailStep DEF L1Error
  <1>2. LedgerType' /\ CallsType'
    BY Parts DEF L1Error, LedgerType, CallsType, ledger, router
  <1>3. L1Type'
    <2>1. CASE UNCHANGED l1
      BY <2>1, Parts DEF L1Error, L1Type
    <2>2. CASE ~UNCHANGED l1
      BY <2>2, L1Append DEF L1Error
    <2> QED BY <2>1, <2>2
  <1> QED BY <1>1, <1>2, <1>3, Assemble

\* The swap is marked with the state of its job.
LEMMA HealthyInv ==
  ASSUME IndInv, Healthy
  PROVE  IndInv'
  <1> DEFINE j == worker.job
  <1>1. /\ j \in 1 .. Len(rebalances) /\ j \in DOMAIN rebalances
        /\ Active(rebalances[j].state)
        /\ \A i \in 1 .. (j - 1) : rebalances[i].state \in Finished
    BY WorkerJob DEF Healthy, IndInv, WorkerInv
  <1>2. Tables'
    BY <1>1, MarkStep DEF Healthy
  <1>3. LedgerType' /\ CallsType' /\ L1Type'
    BY Parts DEF Healthy, LedgerType, CallsType, L1Type, ledger, router
  <1>4. worker' = [pc |-> "step", job |-> j] /\ rebalances' = rebalances
    <2>1. worker \in [pc : {"health", "swapping"} \cup SyncPcs, job : DOMAIN rebalances]
      BY Parts DEF WorkerType, Healthy, SyncPcs
    <2> QED BY <2>1 DEF Healthy
  <1> HIDE DEF j
  <1>5. WorkerType'
    BY <1>1, <1>4 DEF WorkerType, SyncPcs
  <1>6. WorkerInv'
    BY <1>1, <1>4 DEF WorkerInv
  <1> QED BY <1>2, <1>3, <1>5, <1>6, Assemble

\* A job moves to its next state,
LEMMA AdvanceInv ==
  ASSUME IndInv, Advance
  PROVE  IndInv'
  <1> DEFINE o == rebalances[worker.job]
  <1>1. o \in RebalanceJob
    BY WorkerJob DEF Advance
  <1>2. ASSUME NEW st \in {"bridging_out", "l1_swap"},
               SetState(worker.job, st), Active(o.state),
               Progress(o.state) <= Progress(st)
        PROVE  Tables' /\ WorkerInv' /\ WorkerType'
    <2> DEFINE r == [o EXCEPT !.state = st]
    <2>1. /\ r \in RebalanceJob /\ r.state = st
          /\ r.linked = o.linked /\ r.input = o.input
          /\ r.output = o.output /\ r.amountIn = o.amountIn
      BY <1>1, SetStateOf DEF JobStates
    <2>2. rebalances' = [rebalances EXCEPT ![worker.job] = r]
      BY <1>2 DEF SetState
    <2>3. /\ worker' = Then(worker.job, "link") /\ worker.pc \in JobPcs
          /\ swaps' = swaps /\ Active(st)
      BY DEF Advance, JobPcs, Active
    <2> HIDE DEF r
    <2> QED BY <1>1, <1>2, <2>1, <2>2, <2>3, JobStep
  <1>3. Tables' /\ WorkerInv' /\ WorkerType'
    BY <1>2 DEF Advance, Active, Progress
  <1>4. LedgerType' /\ CallsType' /\ L1Type'
    BY Parts DEF Advance, LedgerType, CallsType, L1Type, ledger, router
  <1> QED BY <1>3, <1>4, Assemble

\* and its swap follows.
LEMMA LinkInv ==
  ASSUME IndInv, Link
  PROVE  IndInv'
  <1>1. Tables'
    BY WorkerJob, MarkStep DEF Link, IndInv, WorkerInv
  <1>2. LedgerType' /\ CallsType' /\ L1Type'
    BY Parts DEF Link, LedgerType, CallsType, L1Type, ledger, router
  <1>3. WorkerType' /\ WorkerInv'
    BY DEF Link, Idle, WorkerType, WorkerInv
  <1> QED BY <1>1, <1>2, <1>3, Assemble

\* The worker calls the exchange.
LEMMA StartL1SwapInv ==
  ASSUME IndInv, StartL1Swap
  PROVE  IndInv'
  <1>1. worker \in [pc : {"health", "swapping"} \cup SyncPcs, job : DOMAIN rebalances]
    BY Parts DEF WorkerType, StartL1Swap, SyncPcs
  <1>2. worker' = [pc |-> "swapping", job |-> worker.job]
    BY <1>1 DEF StartL1Swap
  <1>3. WorkerType' /\ WorkerInv'
    BY <1>1, <1>2 DEF StartL1Swap, WorkerType, IndInv, WorkerInv
  <1>4. Tables' /\ LedgerType' /\ CallsType' /\ L1Type'
    BY Parts, TablesKept
       DEF StartL1Swap, LedgerType, CallsType, L1Type, ledger, router
  <1> QED BY <1>3, <1>4, Assemble

\* A transaction is sent.
LEMMA BroadcastInv ==
  ASSUME IndInv, Broadcast
  PROVE  IndInv'
  <1>1. /\ L1Type' /\ DOMAIN l1' = 1 .. Len(l1) + 1 /\ Len(l1) \in Nat
    BY L1Append DEF Broadcast
  <1>2. worker' = [pc |-> "polling", job |-> worker.job, tx |-> Len(l1) + 1]
    BY DEF Broadcast
  <1>3. worker.job \in DOMAIN rebalances
    BY WorkerJob DEF Broadcast
  <1>4. WorkerType'
    BY <1>1, <1>2, <1>3 DEF WorkerType, Broadcast
  <1>5. WorkerInv'
    BY <1>2 DEF Broadcast, IndInv, WorkerInv
  <1>6. Tables' /\ LedgerType' /\ CallsType'
    BY Parts, TablesKept DEF Broadcast, LedgerType, CallsType, ledger, router
  <1> QED BY <1>1, <1>4, <1>5, <1>6, Assemble

\* The result of the L1 swap is stored.
LEMMA SwappedStep ==
  ASSUME IndInv, worker.pc = "polling", NEW out \in Payouts,
         Swapped(worker.job, out), worker' = Then(worker.job, "link"),
         swaps' = swaps
  PROVE  Tables' /\ WorkerInv' /\ WorkerType'
  <1> DEFINE o == rebalances[worker.job]
             x == [o EXCEPT !.state = "settling_back"]
             r == [x EXCEPT !.actualOut = out]
  <1>1. o \in RebalanceJob /\ o.state = "l1_swap"
    BY WorkerJob DEF IndInv, WorkerInv
  <1>2. /\ x \in RebalanceJob /\ x.state = "settling_back"
        /\ x.linked = o.linked /\ x.input = o.input
        /\ x.output = o.output /\ x.amountIn = o.amountIn
    BY <1>1, SetStateOf DEF JobStates
  <1>3. rebalances' = [rebalances EXCEPT ![worker.job] = r]
    BY DEF Swapped
  <1> HIDE DEF x
  <1>4. /\ r \in RebalanceJob /\ r.state = "settling_back"
        /\ r.linked = o.linked /\ r.input = o.input
        /\ r.output = o.output /\ r.amountIn = o.amountIn
    BY <1>2, SetOutOf
  <1>5. /\ Active(o.state) /\ Active(r.state) /\ worker.pc \in JobPcs
        /\ Progress(o.state) <= Progress(r.state)
    BY <1>1, <1>4 DEF Active, Progress, JobPcs
  <1> HIDE DEF r
  <1> QED BY <1>1, <1>3, <1>4, <1>5, JobStep

\* The result is read, or given up: the job can be settled.
LEMMA ObserveInv ==
  ASSUME IndInv, Observe \/ GiveUp
  PROVE  IndInv'
  <1>1. worker.pc = "polling"
    BY DEF Observe, GiveUp
  <1>2. rebalances[worker.job].minOut \in Payouts
    BY <1>1, WorkerJob DEF RebalanceJob
  <1>3. l1[worker.tx].out \in Payouts
    <2>1. worker.tx \in DOMAIN l1
      BY <1>1, Parts DEF WorkerType, SyncPcs
    <2>2. l1[worker.tx] \in L1Swap
      BY <2>1, Parts, SeqDomain DEF L1Type
    <2> QED BY <2>2 DEF L1Swap
  <1>4. \E out \in Payouts : Swapped(worker.job, out)
    BY <1>2, <1>3 DEF Observe, GiveUp
  <1>5. worker' = Then(worker.job, "link") /\ swaps' = swaps
    BY DEF Observe, GiveUp
  <1>6. Tables' /\ WorkerInv' /\ WorkerType'
    BY <1>1, <1>4, <1>5, SwappedStep
  <1>7. LedgerType' /\ CallsType' /\ L1Type'
    BY Parts DEF Observe, GiveUp, LedgerType, CallsType, L1Type, ledger, router
  <1> QED BY <1>6, <1>7, Assemble

\* What a job earned is an amount.
LEMMA EarnedType ==
  ASSUME NEW r \in RebalanceJob
  PROVE  Earned(r) \in Payouts /\ Earned(r) \in Int
  <1>1. Earned(r) \in Payouts
    BY DEF Earned, RebalanceJob
  <1>2. Earned(r) \in Nat
    BY <1>1, PayoutsNat
  <1> QED BY <1>1, <1>2

\* The job is closed and its proceeds enter the inventory.
LEMMA SettleJobInv ==
  ASSUME IndInv, SettleJob
  PROVE  IndInv'
  <1> DEFINE o == rebalances[worker.job]
             r == [o EXCEPT !.state = "completed"]
  <1>1. o \in RebalanceJob /\ o.state = "settling_back"
    BY WorkerJob DEF SettleJob
  <1>2. /\ r \in RebalanceJob /\ r.state = "completed"
        /\ r.linked = o.linked /\ r.input = o.input
        /\ r.output = o.output /\ r.amountIn = o.amountIn
    BY <1>1, SetStateOf DEF JobStates
  <1>3. rebalances' = [rebalances EXCEPT ![worker.job] = r]
    BY DEF SettleJob, SetState
  <1>4. /\ Active(o.state) /\ worker.pc \in JobPcs
        /\ Progress(o.state) <= Progress(r.state)
        /\ worker' = Then(worker.job, "payout") /\ swaps' = swaps
    BY <1>1, <1>2 DEF Active, Progress, JobPcs, SettleJob
  <1>5. Tables' /\ WorkerInv' /\ WorkerType'
    <2> HIDE DEF r
    <2> QED BY <1>1, <1>2, <1>3, <1>4, JobStep
  <1>6. inventory' \in [Tokens -> Int]
    <2>1. /\ o.amountIn \in Int /\ Earned(o) \in Int
          /\ o.input \in Tokens /\ o.output \in Tokens
      BY <1>1, EarnedType DEF RebalanceJob
    <2>2. inventory \in [Tokens -> Int]
      BY Parts DEF LedgerType
    <2>3. inventory' = [inventory EXCEPT ![o.input] = @ - o.amountIn,
                                         ![o.output] = @ + Earned(o)]
      BY DEF SettleJob, SettleInventory
    <2> HIDE DEF o
    <2> QED BY <2>1, <2>2, <2>3
  <1>7. LedgerType' /\ CallsType' /\ L1Type'
    BY <1>6, Parts DEF SettleJob, LedgerType, CallsType, L1Type, ledger, router
  <1> QED BY <1>5, <1>7, Assemble

\* The second mutate of a section: the swap behind the closed job is open, is
\* closed the same way, and nothing else of the tables changes.
LEMMA CloseSwap ==
  ASSUME IndInv, worker.pc \in {"payout", "refund"}, NEW s \in SwapJob,
         LET o == rebalances[worker.job]
         IN  /\ swaps' = [swaps EXCEPT ![o.linked] = s]
             /\ s.from = swaps[o.linked].from /\ s.to = swaps[o.linked].to
             /\ s.amountIn = swaps[o.linked].amountIn
             /\ s.state = o.state
             /\ s.state = "completed" => s.quotedOut = Earned(o),
         rebalances' = rebalances, worker' = Idle
  PROVE  Tables' /\ WorkerInv' /\ WorkerType'
  <1> DEFINE o == rebalances[worker.job]
  <1>1. /\ worker.job \in 1 .. Len(rebalances) /\ o \in RebalanceJob
        /\ o.linked # NoSwap /\ Tables
        /\ DOMAIN rebalances = 1 .. Len(rebalances)
        /\ o.state \in {"completed", "failed"}
    BY WorkerJob, SeqDomain DEF IndInv, WorkerInv, Tables
  <1>2. Follows(swaps[o.linked], o)
    BY <1>1 DEF Tables, SwapFollowsJob
  <1>3. Follows(s, o)
    BY <1>1, <1>2 DEF Follows, Progress
  <1>4. Tables'
    BY <1>1, <1>3, ReplaceSwap
  <1>5. WorkerInv' /\ WorkerType'
    BY DEF WorkerInv, WorkerType, Idle
  <1> QED BY <1>4, <1>5

\* The swap that is about to be closed.
LEMMA ClosingSwap ==
  ASSUME IndInv, worker.pc \in {"payout", "refund"},
         NEW n, n = rebalances[worker.job].linked
  PROVE  /\ n \in 1 .. Len(swaps) /\ n \in DOMAIN swaps
         /\ swaps \in Seq(SwapJob)
         /\ swaps[n] \in SwapJob /\ Live(n)
         /\ swaps[n].user \in Users /\ swaps[n].from \in Tokens
         /\ swaps[n].to \in Tokens /\ swaps[n].amountIn \in Amounts
         /\ swaps[n].amountIn \in Int /\ -swaps[n].amountIn \in Int
  <1>1. /\ worker.job \in DOMAIN rebalances /\ n # NoSwap /\ Live(n)
        /\ swaps \in Seq(SwapJob)
    BY WorkerJob DEF IndInv, WorkerInv, Tables
  <1>2. n \in DOMAIN swaps
    BY <1>1 DEF IndInv, Tables, SwapFollowsJob
  <1>3. swaps[n] \in SwapJob /\ n \in 1 .. Len(swaps)
    BY <1>1, <1>2, SeqDomain
  <1>4. /\ swaps[n].user \in Users /\ swaps[n].from \in Tokens
        /\ swaps[n].to \in Tokens /\ swaps[n].amountIn \in Amounts
    BY <1>3 DEF SwapJob
  <1>5. swaps[n].amountIn \in Nat
    BY <1>4, PayoutsNat
  <1> QED BY <1>1, <1>2, <1>3, <1>4, <1>5

\* The swap of a completed job is paid.
LEMMA PayOutInv ==
  ASSUME IndInv, PayOut
  PROVE  IndInv'
  <1> DEFINE o == rebalances[worker.job]
             n == o.linked
             out == Earned(o)
             x == [swaps[n] EXCEPT !.state = "completed"]
             s == [x EXCEPT !.quotedOut = out]
  <1>1. /\ swaps[n] \in SwapJob /\ swaps[n].user \in Users
        /\ swaps[n].from \in Tokens /\ swaps[n].to \in Tokens
        /\ -swaps[n].amountIn \in Int
    BY ClosingSwap DEF PayOut
  <1>2. out \in Payouts /\ out \in Int
    BY WorkerJob, EarnedType DEF PayOut
  <1>3. /\ x \in SwapJob /\ x.state = "completed" /\ x.from = swaps[n].from
        /\ x.to = swaps[n].to /\ x.amountIn = swaps[n].amountIn
    BY <1>1 DEF SwapJob, JobStates
  <1>4. swaps' = [swaps EXCEPT ![n] = s]
    BY DEF PayOut, SettleAsyncSwap
  <1>5. worker' = Idle /\ rebalances' = rebalances /\ worker.pc = "payout"
    BY DEF PayOut
  <1>6. o.state = "completed"
    BY <1>5 DEF IndInv, WorkerInv
  <1>7. LedgerType'
    <2>1. /\ locked' = Add(locked, swaps[n].user, swaps[n].from, -swaps[n].amountIn)
          /\ balances' = Add(balances, swaps[n].user, swaps[n].to, out)
          /\ inventory' = inventory
      BY DEF PayOut, SettleAsyncSwap
    <2> HIDE DEF out, n
    <2> QED BY <1>1, <1>2, <2>1, Parts, AddInt DEF LedgerType
  <1>8. CallsType' /\ L1Type'
    BY Parts DEF PayOut, CallsType, L1Type, router
  <1> HIDE DEF x, out
  <1>9. /\ s \in SwapJob /\ s.state = "completed" /\ s.quotedOut = out
        /\ s.from = swaps[n].from
        /\ s.to = swaps[n].to /\ s.amountIn = swaps[n].amountIn
    BY <1>2, <1>3 DEF SwapJob
  <1> HIDE DEF s
  <1>10. Tables' /\ WorkerInv' /\ WorkerType'
    BY <1>4, <1>5, <1>6, <1>9, CloseSwap DEF out
  <1> QED BY <1>7, <1>8, <1>10, Assemble

\* The swap of a failed job is refunded.
LEMMA RefundSwapInv ==
  ASSUME IndInv, RefundSwap
  PROVE  IndInv'
  <1> DEFINE o == rebalances[worker.job]
             n == o.linked
             s == [swaps[n] EXCEPT !.state = "failed"]
  <1>1. /\ swaps[n] \in SwapJob /\ swaps[n].user \in Users
        /\ swaps[n].from \in Tokens
        /\ swaps[n].amountIn \in Int /\ -swaps[n].amountIn \in Int
    BY ClosingSwap DEF RefundSwap
  <1>2. /\ s \in SwapJob /\ s.state = "failed" /\ s.from = swaps[n].from
        /\ s.to = swaps[n].to /\ s.amountIn = swaps[n].amountIn
    BY <1>1 DEF SwapJob, JobStates
  <1>3. swaps' = [swaps EXCEPT ![n] = s]
    BY DEF RefundSwap, FailSwap
  <1>4. worker' = Idle /\ rebalances' = rebalances /\ worker.pc = "refund"
    BY DEF RefundSwap
  <1>5. o.state = "failed"
    BY <1>4 DEF IndInv, WorkerInv
  <1>6. LedgerType'
    <2>1. /\ locked' = Add(locked, swaps[n].user, swaps[n].from, -swaps[n].amountIn)
          /\ balances' = Add(balances, swaps[n].user, swaps[n].from, swaps[n].amountIn)
          /\ inventory' = inventory
      BY DEF RefundSwap, FailSwap
    <2> HIDE DEF n
    <2> QED BY <1>1, <2>1, Parts, AddInt DEF LedgerType
  <1>7. CallsType' /\ L1Type'
    BY Parts DEF RefundSwap, CallsType, L1Type, router
  <1> HIDE DEF s
  <1>8. Tables' /\ WorkerInv' /\ WorkerType'
    BY <1>2, <1>3, <1>4, <1>5, CloseSwap
  <1> QED BY <1>6, <1>7, <1>8, Assemble

\* The L1 decides on a transaction.
LEMMA ExchangeInv ==
  ASSUME IndInv, Exchange
  PROVE  IndInv'
  <1>1. l1 \in Seq(L1Swap) /\ DOMAIN l1 = 1 .. Len(l1)
    BY Parts, SeqDomain DEF L1Type
  <1>2. PICK k \in DOMAIN l1 : \/ \E out \in Quotes : L1Executes(k, out)
                               \/ L1Rejects(k)
    BY DEF Exchange
  <1>3. l1[k] \in L1Swap
    BY <1>1
  <1>4. \E x \in L1Swap : l1' = [l1 EXCEPT ![k] = x]
    <2>1. ASSUME NEW out \in Quotes, L1Executes(k, out)
          PROVE  \E x \in L1Swap : l1' = [l1 EXCEPT ![k] = x]
      <3> DEFINE y == [l1[k] EXCEPT !.status = "executed"]
                 x == [y EXCEPT !.out = out]
      <3>1. y \in L1Swap
        BY <1>3 DEF L1Swap
      <3>2. l1' = [l1 EXCEPT ![k] = x]
        BY <2>1 DEF L1Executes
      <3> HIDE DEF y
      <3>3. x \in L1Swap
        BY <3>1 DEF L1Swap, Payouts
      <3> QED BY <3>2, <3>3
    <2>2. CASE L1Rejects(k)
      <3>1. [l1[k] EXCEPT !.status = "rejected"] \in L1Swap
        BY <1>3 DEF L1Swap
      <3> QED BY <3>1, <2>2 DEF L1Rejects
    <2> QED BY <1>2, <2>1, <2>2
  <1>5. l1' \in Seq(L1Swap) /\ DOMAIN l1' = DOMAIN l1
    BY <1>1, <1>4
  <1>6. /\ UNCHANGED <<ledger, inventory, swaps, rebalances, worker, router, crashes>>
    BY <1>2 DEF L1Executes, L1Rejects
  <1>7. L1Type' /\ LedgerType' /\ CallsType'
    BY <1>5, <1>6, Parts DEF L1Type, LedgerType, CallsType, ledger, router
  <1>8. Tables' /\ WorkerInv' /\ WorkerType'
    BY <1>5, <1>6, Parts, TablesKept, WorkerKept
  <1> QED BY <1>7, <1>8, Assemble

\* A restart forgets the worker and the calls, not the tables.
LEMMA RestartInv ==
  ASSUME IndInv, Restart
  PROVE  IndInv'
  <1>1. LedgerType' /\ CallsType' /\ L1Type'
    BY Parts DEF Restart, LedgerType, CallsType, L1Type, ledger
  <1>2. Tables'
    BY Parts, TablesKept DEF Restart
  <1>3. WorkerInv' /\ WorkerType'
    BY DEF Restart, WorkerInv, WorkerType, Idle
  <1> QED BY <1>1, <1>2, <1>3, Assemble

\* Nothing happens.
LEMMA StutterInv ==
  ASSUME IndInv, UNCHANGED vars
  PROVE  IndInv'
  <1>1. LedgerType' /\ CallsType' /\ L1Type'
    BY Parts DEF vars, LedgerType, CallsType, L1Type, ledger, router
  <1>2. Tables' /\ WorkerInv' /\ WorkerType'
    BY Parts, TablesKept, WorkerKept DEF vars
  <1> QED BY <1>1, <1>2, Assemble

\* Every step keeps the invariant.
LEMMA NextInv == IndInv /\ [Next]_vars => IndInv'
  <1> SUFFICES ASSUME IndInv, [Next]_vars PROVE IndInv'
    OBVIOUS
  <1>1. CASE Execute
    BY <1>1, ExecuteAsyncInv, RequestInv DEF Execute
  <1>2. CASE \E c \in Slots : Answer(c)
    BY <1>2, QuietAnswerInv, BookInv, ApplyInstantSwapInv,
       EnsureRebalanceForDriftInv DEF Answer
  <1>3. CASE Tick
    BY <1>3, PickInv, UnhealthyInv, HealthyInv, AdvanceInv, LinkInv,
       StartL1SwapInv, BroadcastInv, L1ErrorInv, ObserveInv, SettleJobInv,
       PayOutInv, RefundSwapInv DEF Tick
  <1>4. CASE Exchange
    BY <1>4, ExchangeInv
  <1>5. CASE Restart
    BY <1>5, RestartInv
  <1>6. CASE UNCHANGED vars
    BY <1>6, StutterInv
  <1> QED BY <1>1, <1>2, <1>3, <1>4, <1>5, <1>6 DEF Next

\* The inductive invariant holds in every reachable state.
THEOREM Invariance == Spec => []IndInv
  BY InitInv, NextInv, PTL DEF Spec

\* The job tables, the ledgers and the L1 transactions keep their types.
THEOREM TypeCorrect == Spec => []TypeOK
  <1>1. IndInv => TypeOK
    BY DEF IndInv
  <1> QED BY <1>1, Invariance, PTL

\* A swap and its rebalance job agree in every state, between the two flushes
\* of a section and after any number of crashes too.
THEOREM SwapAndJobAgree == Spec => []SwapFollowsJob
  <1>1. IndInv => SwapFollowsJob
    BY DEF IndInv, Tables
  <1> QED BY <1>1, Invariance, PTL

\* No swap is ever driven by two jobs, or by none.
THEOREM OneJobEach == Spec => []OneJobPerSwap
  <1>1. IndInv => OneJobPerSwap
    BY DEF IndInv, Tables
  <1> QED BY <1>1, Invariance, PTL

\* Jobs are worked on strictly in the order they were queued.
THEOREM InOrder == Spec => []JobsInOrder
  <1>1. IndInv => JobsInOrder
    BY DEF IndInv, Tables
  <1> QED BY <1>1, Invariance, PTL

-----------------------------------------------------------------------------
(* Refinement: an asynchronous swap is atomic for its user. *)

DealRec == [user : Users, from : Tokens, to : Tokens, amount : Amounts,
            outcome : {"pending", "paid", "refunded"},
            out : Payouts \cup {None}]

\* The deal a swap job stands for.
DealOf(s) == [user |-> s.user, from |-> s.from, to |-> s.to,
              amount |-> s.amountIn, outcome |-> Outcome(s.state),
              out |-> IF s.state = "completed" THEN s.quotedOut ELSE None]

\* The deal of a swap.
LEMMA DealType ==
  ASSUME NEW s \in SwapJob
  PROVE  DealOf(s) \in DealRec
  BY DEF SwapJob, DealOf, DealRec, Outcome

\* Sequences with the same elements are the same.
LEMMA SameSequence ==
  ASSUME NEW S, NEW q \in Seq(S), NEW r \in Seq(S), Len(q) = Len(r),
         \A i \in 1 .. Len(q) : q[i] = r[i]
  PROVE  q = r
  OBVIOUS

\* A function on an initial segment is a sequence.
LEMMA FunctionIsSequence ==
  ASSUME NEW S, NEW n \in Nat, NEW f \in [1 .. n -> S]
  PROVE  f \in Seq(S) /\ Len(f) = n
  OBVIOUS

\* The deals are a sequence as long as the swaps.
LEMMA DealsSeq ==
  ASSUME swaps \in Seq(SwapJob)
  PROVE  /\ Deals \in Seq(DealRec) /\ Len(Deals) = Len(swaps)
         /\ DOMAIN Deals = 1 .. Len(swaps)
         /\ \A i \in 1 .. Len(swaps) : Deals[i] = DealOf(swaps[i])
  <1>1. /\ Len(swaps) \in Nat /\ DOMAIN swaps = 1 .. Len(swaps)
        /\ \A i \in 1 .. Len(swaps) : swaps[i] \in SwapJob
    BY SeqDomain
  <1>2. Deals = [i \in 1 .. Len(swaps) |-> DealOf(swaps[i])]
    BY <1>1 DEF Deals, DealOf
  <1>3. \A i \in 1 .. Len(swaps) : DealOf(swaps[i]) \in DealRec
    BY <1>1, DealType
  <1>4. Deals \in [1 .. Len(swaps) -> DealRec]
    BY <1>2, <1>3
  <1> QED BY <1>1, <1>2, <1>4, FunctionIsSequence

\* The same fact after a step.
LEMMA DealsSeqNext ==
  ASSUME swaps' \in Seq(SwapJob)
  PROVE  /\ Deals' \in Seq(DealRec) /\ Len(Deals') = Len(swaps')
         /\ \A i \in 1 .. Len(swaps') : Deals'[i] = DealOf(swaps'[i])
  <1>1. /\ Len(swaps') \in Nat /\ DOMAIN swaps' = 1 .. Len(swaps')
        /\ \A i \in 1 .. Len(swaps') : swaps'[i] \in SwapJob
    BY SeqDomain
  <1>2. Deals' = [i \in 1 .. Len(swaps') |-> DealOf(swaps'[i])]
    BY <1>1 DEF Deals, DealOf
  <1>3. \A i \in 1 .. Len(swaps') : DealOf(swaps'[i]) \in DealRec
    BY <1>1, DealType
  <1>4. Deals' \in [1 .. Len(swaps') -> DealRec]
    BY <1>2, <1>3
  <1> QED BY <1>1, <1>2, <1>4, FunctionIsSequence

\* Both modules move amounts the same way.
LEMMA AddIsChange ==
  \A L, u, t, d : Promise!Change(L, u, t, d) = Add(L, u, t, d)
  BY DEF Promise!Change, Add

\* The initial state maps to the initial state.
LEMMA InitMaps == Init => Promise!Init
  <1> SUFFICES ASSUME Init PROVE Promise!Init
    OBVIOUS
  <1>1. swaps = << >> /\ balances = Funds
        /\ locked = [u \in Users |-> [t \in Tokens |-> 0]]
    BY DEF Init
  <1>2. Deals \in Seq(DealRec) /\ Len(Deals) = 0
    BY <1>1, DealsSeq
  <1>3. Deals = << >>
    BY <1>2
  <1> QED BY <1>1, <1>3 DEF Promise!Init

\* Opening a swap.
LEMMA OpenMaps ==
  ASSUME IndInv, NEW u \in Users, NEW from \in Tokens, NEW to \in Tokens,
         NEW amount \in Amounts, NEW quoted \in Quotes,
         ExecuteAsync(u, from, to, amount, quoted)
  PROVE  Promise!Open(u, from, to, amount)
  <1> DEFINE s == [user |-> u, from |-> from, to |-> to, amountIn |-> amount,
                   quotedOut |-> quoted, state |-> "queued"]
             d == Promise!Deal(u, from, to, amount)
  <1>1. swaps \in Seq(SwapJob) /\ Len(swaps) \in Nat
    BY Parts, SeqDomain DEF Tables
  <1>2. s \in SwapJob
    BY DEF SwapJob, JobStates, Payouts
  <1>3. d = DealOf(s)
    BY DEF DealOf, Promise!Deal, Outcome
  <1>4. d \in DealRec
    BY <1>2, <1>3, DealType
  <1>5. swaps' = Append(swaps, s)
    BY DEF ExecuteAsync
  <1> HIDE DEF s, d
  <1>6. /\ Append(swaps, s) \in Seq(SwapJob)
        /\ Len(Append(swaps, s)) = Len(swaps) + 1
        /\ \A i \in 1 .. Len(swaps) : Append(swaps, s)[i] = swaps[i]
        /\ Append(swaps, s)[Len(swaps) + 1] = s
    BY <1>1, <1>2, AppendOne
  <1>7. /\ Deals' \in Seq(DealRec) /\ Len(Deals') = Len(swaps) + 1
        /\ \A i \in 1 .. Len(swaps) : Deals'[i] = DealOf(swaps[i])
        /\ Deals'[Len(swaps) + 1] = d
    BY <1>1, <1>3, <1>5, <1>6, DealsSeqNext
  <1>8. /\ Deals \in Seq(DealRec) /\ Len(Deals) = Len(swaps)
        /\ \A i \in 1 .. Len(swaps) : Deals[i] = DealOf(swaps[i])
    BY <1>1, DealsSeq
  <1>9. /\ Append(Deals, d) \in Seq(DealRec)
        /\ Len(Append(Deals, d)) = Len(swaps) + 1
        /\ \A i \in 1 .. Len(swaps) : Append(Deals, d)[i] = DealOf(swaps[i])
        /\ Append(Deals, d)[Len(swaps) + 1] = d
    BY <1>1, <1>4, <1>8, AppendOne
  <1>10. \A i \in 1 .. Len(Deals') : Deals'[i] = Append(Deals, d)[i]
    BY <1>1, <1>7, <1>9
  <1>11. Deals' = Append(Deals, d)
    BY <1>7, <1>9, <1>10, SameSequence
  <1> QED BY <1>11, AddIsChange DEF Promise!Open, ExecuteAsync, d

\* Closing a swap changes one deal.
LEMMA CloseMaps ==
  ASSUME IndInv, NEW n \in 1 .. Len(swaps), NEW s \in SwapJob,
         swaps' = [swaps EXCEPT ![n] = s]
  PROVE  Deals' = [Deals EXCEPT ![n] = DealOf(s)]
  <1>1. swaps \in Seq(SwapJob) /\ Len(swaps) \in Nat
    BY Parts, SeqDomain DEF Tables
  <1>2. /\ swaps' \in Seq(SwapJob) /\ Len(swaps') = Len(swaps)
        /\ swaps'[n] = s
        /\ \A k \in 1 .. Len(swaps) : k # n => swaps'[k] = swaps[k]
    BY <1>1, ReplaceOne
  <1>3. /\ Deals' \in Seq(DealRec) /\ Len(Deals') = Len(swaps)
        /\ \A k \in 1 .. Len(swaps) : Deals'[k] = DealOf(swaps'[k])
    BY <1>2, DealsSeqNext
  <1>4. /\ Deals \in Seq(DealRec) /\ Len(Deals) = Len(swaps)
        /\ \A k \in 1 .. Len(swaps) : Deals[k] = DealOf(swaps[k])
    BY <1>1, DealsSeq
  <1> DEFINE r == [Deals EXCEPT ![n] = DealOf(s)]
  <1>5. DealOf(s) \in DealRec
    BY DealType
  <1>6. /\ r \in Seq(DealRec) /\ Len(r) = Len(swaps) /\ r[n] = DealOf(s)
        /\ \A k \in 1 .. Len(swaps) : k # n => r[k] = Deals[k]
    BY <1>4, <1>5, ReplaceOne
  <1> HIDE DEF r
  <1>7. \A k \in 1 .. Len(Deals') : Deals'[k] = r[k]
    BY <1>2, <1>3, <1>4, <1>6
  <1>8. Deals' = r
    BY <1>3, <1>6, <1>7, SameSequence
  <1> QED BY <1>8 DEF r

\* PayOut maps to Pay.
LEMMA PayOutMaps ==
  ASSUME IndInv, PayOut
  PROVE  \E i \in DOMAIN Deals, out \in Payouts : Promise!Pay(i, out)
  <1> DEFINE o == rebalances[worker.job]
             n == o.linked
             out == Earned(o)
             s == [swaps[n] EXCEPT !.state = "completed", !.quotedOut = out]
             d == Deals[n]
  <1>1. /\ n \in 1 .. Len(swaps) /\ swaps \in Seq(SwapJob)
        /\ swaps[n] \in SwapJob /\ Live(n)
    BY ClosingSwap DEF PayOut
  <1>2. out \in Payouts
    BY WorkerJob, EarnedType DEF PayOut
  <1>3. /\ s \in SwapJob /\ s.state = "completed" /\ s.quotedOut = out
        /\ s.user = swaps[n].user /\ s.from = swaps[n].from
        /\ s.to = swaps[n].to /\ s.amountIn = swaps[n].amountIn
    <2> DEFINE x == [swaps[n] EXCEPT !.state = "completed"]
    <2>1. /\ x \in SwapJob /\ x.state = "completed" /\ x.user = swaps[n].user
          /\ x.from = swaps[n].from /\ x.to = swaps[n].to
          /\ x.amountIn = swaps[n].amountIn
      BY <1>1 DEF SwapJob, JobStates
    <2>2. s = [x EXCEPT !.quotedOut = out]
      OBVIOUS
    <2> HIDE DEF x, s, out
    <2> QED BY <1>2, <2>1, <2>2 DEF SwapJob
  <1>4. d = DealOf(swaps[n]) /\ n \in DOMAIN Deals
    BY <1>1, DealsSeq
  <1>5. /\ d.outcome = "pending" /\ d.user = swaps[n].user
        /\ d.from = swaps[n].from /\ d.to = swaps[n].to
        /\ d.amount = swaps[n].amountIn
    BY <1>1, <1>4 DEF DealOf, Outcome, Live, Finished
  <1>6. DealOf(s) = [d EXCEPT !.outcome = "paid", !.out = out]
    <2>1. DealOf(s) = [user |-> swaps[n].user, from |-> swaps[n].from,
                       to |-> swaps[n].to, amount |-> swaps[n].amountIn,
                       outcome |-> "paid", out |-> out]
      <3> HIDE DEF s, out, n
      <3> QED BY <1>3 DEF DealOf, Outcome
    <2>2. d = [user |-> swaps[n].user, from |-> swaps[n].from,
               to |-> swaps[n].to, amount |-> swaps[n].amountIn,
               outcome |-> "pending", out |-> None]
      BY <1>1, <1>4 DEF DealOf, Outcome, Live, Finished
    <2> DEFINE paid == [d EXCEPT !.outcome = "paid"]
    <2>3. paid = [user |-> swaps[n].user, from |-> swaps[n].from,
                  to |-> swaps[n].to, amount |-> swaps[n].amountIn,
                  outcome |-> "paid", out |-> None]
      <3> HIDE DEF s, d, out, n
      <3> QED BY <2>2
    <2>4. DealOf(s) = [paid EXCEPT !.out = out]
      <3> HIDE DEF s, d, out, n, paid
      <3> QED BY <2>1, <2>3
    <2>5. [paid EXCEPT !.out = out] = [d EXCEPT !.outcome = "paid", !.out = out]
      <3> HIDE DEF s, d, out, n
      <3> QED OBVIOUS
    <2> QED BY <2>4, <2>5
  <1>7. Deals' = [Deals EXCEPT ![n] = DealOf(s)]
    <2>1. swaps' = [swaps EXCEPT ![n] = s]
      BY DEF PayOut, SettleAsyncSwap
    <2> HIDE DEF s, n
    <2> QED BY <1>1, <1>3, <2>1, CloseMaps
  <1>8. Deals' = [Deals EXCEPT ![n].outcome = "paid", ![n].out = out]
    BY <1>4, <1>6, <1>7
  <1>9. Promise!Pay(n, out)
    BY <1>5, <1>8, AddIsChange DEF Promise!Pay, PayOut, SettleAsyncSwap
  <1> QED BY <1>2, <1>4, <1>9

\* RefundSwap maps to Refund.
LEMMA RefundSwapMaps ==
  ASSUME IndInv, RefundSwap
  PROVE  \E i \in DOMAIN Deals : Promise!Refund(i)
  <1> DEFINE n == rebalances[worker.job].linked
             s == [swaps[n] EXCEPT !.state = "failed"]
             d == Deals[n]
  <1>1. /\ n \in 1 .. Len(swaps) /\ swaps \in Seq(SwapJob)
        /\ swaps[n] \in SwapJob /\ Live(n)
    BY ClosingSwap DEF RefundSwap
  <1>2. s \in SwapJob
    BY <1>1 DEF SwapJob, JobStates
  <1>3. d = DealOf(swaps[n]) /\ n \in DOMAIN Deals
    BY <1>1, DealsSeq
  <1>4. /\ d.outcome = "pending" /\ d.user = swaps[n].user
        /\ d.from = swaps[n].from /\ d.amount = swaps[n].amountIn
    BY <1>1, <1>3 DEF DealOf, Outcome, Live, Finished
  <1>5. DealOf(s) = [d EXCEPT !.outcome = "refunded"]
    <2>1. /\ swaps[n].state # "completed"
          /\ s.state = "failed"
          /\ s.user = swaps[n].user /\ s.from = swaps[n].from
          /\ s.to = swaps[n].to /\ s.amountIn = swaps[n].amountIn
      BY <1>1 DEF SwapJob, Live, Finished
    <2>2. Outcome(s.state) = "refunded"
      BY <2>1 DEF Outcome
    <2> HIDE DEF s
    <2> QED BY <1>3, <2>1, <2>2 DEF DealOf
  <1>6. Deals' = [Deals EXCEPT ![n] = DealOf(s)]
    <2>1. swaps' = [swaps EXCEPT ![n] = s]
      BY DEF RefundSwap, FailSwap
    <2> HIDE DEF s, n
    <2> QED BY <1>1, <1>2, <2>1, CloseMaps
  <1>7. Deals' = [Deals EXCEPT ![n].outcome = "refunded"]
    BY <1>3, <1>5, <1>6
  <1>8. Promise!Refund(n)
    BY <1>4, <1>7, AddIsChange DEF Promise!Refund, RefundSwap, FailSwap
  <1> QED BY <1>3, <1>8

\* An instant swap is a trade on the spot.
LEMMA BookMaps ==
  ASSUME IndInv, NEW c \in Slots, Book(c)
  PROVE  \E u \in Users, from, to \in Tokens, a \in Amounts, out \in Payouts :
             Promise!Trade(u, from, to, a, out)
  <1> DEFINE k == calls[c]
  <1>1. k \in OpenCall
    BY Parts, OpenCallOf DEF Book, CallPcs
  <1>2. /\ k.user \in Users /\ k.from \in Tokens /\ k.to \in Tokens
        /\ k.amountIn \in Amounts /\ k.out \in Payouts
    BY <1>1 DEF OpenCall
  <1>3. Deals' = Deals
    BY DEF Book, Deals
  <1>4. Promise!Trade(k.user, k.from, k.to, k.amountIn, k.out)
    BY <1>3, AddIsChange DEF Promise!Trade, Book
  <1> QED BY <1>2, <1>4

\* Every other step is invisible.
LEMMA QuietMaps ==
  ASSUME IndInv, [Next]_vars,
         ~(\E u \in Users, from, to \in Tokens, a \in Amounts, q \in Quotes :
               ExecuteAsync(u, from, to, a, q)),
         ~(\E c \in Slots : Book(c)), ~PayOut, ~RefundSwap
  PROVE  UNCHANGED Promise!abstractVars
  <1>1. ASSUME UNCHANGED <<ledger, swaps>>
        PROVE  UNCHANGED Promise!abstractVars
    BY <1>1 DEF Promise!abstractVars, Deals, ledger
  <1>2. CASE Healthy \/ Link
    <2>1. Deals' = Deals
      BY <1>2, WorkerJob, MarkStep DEF Healthy, Link, IndInv, WorkerInv
    <2> QED BY <1>2, <2>1 DEF Healthy, Link, ledger, Promise!abstractVars
  <1>3. CASE Execute
    BY <1>1, <1>3 DEF Execute, Request
  <1>4. ASSUME NEW c \in Slots, Answer(c)
        PROVE  UNCHANGED Promise!abstractVars
    BY <1>1, <1>4 DEF Answer, ReadCapacity, ChooseLocal, Abandon,
       ApplyInstantSwap, EnsureRebalanceForDrift
  <1>5. CASE Tick /\ ~Healthy /\ ~Link
    BY <1>1, <1>5 DEF Tick, Pick, Unhealthy, Advance, StartL1Swap, Broadcast,
       L1Error, Observe, GiveUp, SettleJob
  <1>6. CASE Exchange \/ Restart
    BY <1>1, <1>6 DEF Exchange, L1Executes, L1Rejects, Restart
  <1>7. CASE UNCHANGED vars
    <2>1. UNCHANGED <<ledger, swaps>>
      BY <1>7 DEF vars, ledger
    <2> QED BY <2>1, <1>1
  <1> QED BY <1>2, <1>3, <1>4, <1>5, <1>6, <1>7 DEF Next

\* Every step maps to a step of AtomicSwap or to none.
LEMMA StepMaps ==
  IndInv /\ [Next]_vars => [Promise!Next]_(Promise!abstractVars)
  <1> SUFFICES ASSUME IndInv, [Next]_vars
               PROVE  [Promise!Next]_(Promise!abstractVars)
    OBVIOUS
  <1>1. CASE \E u \in Users, from, to \in Tokens, a \in Amounts, q \in Quotes :
                 ExecuteAsync(u, from, to, a, q)
    BY <1>1, OpenMaps DEF Promise!Next
  <1>2. CASE \E c \in Slots : Book(c)
    BY <1>2, BookMaps DEF Promise!Next
  <1>3. CASE PayOut
    BY <1>3, PayOutMaps DEF Promise!Next
  <1>4. CASE RefundSwap
    BY <1>4, RefundSwapMaps DEF Promise!Next
  <1> QED BY <1>1, <1>2, <1>3, <1>4, QuietMaps

\* The router with its worker, bridge, L1 and crashes implements AtomicSwap:
\* a lock is released once, against the payout or against the refund.
THEOREM Atomicity == Spec => ImplementsAtomicSwap
  <1>1. Spec => Promise!Init /\ [][Promise!Next]_(Promise!abstractVars)
    BY InitMaps, StepMaps, Invariance, PTL DEF Spec
  <1> QED BY <1>1 DEF ImplementsAtomicSwap, Promise!Spec

-----------------------------------------------------------------------------
(* Locks: what is locked for a user is the sum of the open deals.  The      *)
(* argument is made over the deals, which the worker's bookkeeping does not *)
(* touch: a deal that opens adds its share to one lock, one that closes     *)
(* takes it back.                                                           *)

Share(d, u, t) ==
    IF d.outcome = "pending" /\ d.user = u /\ d.from = t THEN d.amount ELSE 0
Shares(q, u, t) == [i \in DOMAIN q |-> Share(q[i], u, t)]
Held(q, u, t) == SumFunctionOnSet(Shares(q, u, t), DOMAIN q)

LockInv == \A u \in Users, t \in Tokens : locked[u][t] = Held(Deals, u, t)

\* The share of a deal is an amount.
LEMMA ShareInt ==
  ASSUME NEW d \in DealRec, NEW u, NEW t
  PROVE  Share(d, u, t) \in Nat
  <1>1. d.amount \in Amounts
    BY DEF DealRec
  <1>2. d.amount \in Nat
    BY <1>1, PayoutsNat
  <1> QED BY <1>2 DEF Share

\* What is held is a sum of whole shares.
LEMMA HeldInt ==
  ASSUME NEW q \in Seq(DealRec), NEW u, NEW t
  PROVE  /\ IsFiniteSet(DOMAIN q) /\ DOMAIN q = 1 .. Len(q)
         /\ \A i \in DOMAIN q : Shares(q, u, t)[i] = Share(q[i], u, t)
         /\ \A i \in DOMAIN q : Shares(q, u, t)[i] \in Int
         /\ Held(q, u, t) \in Int
  <1> DEFINE f == Shares(q, u, t)
             S == DOMAIN q
  <1>1. S = 1 .. Len(q) /\ Len(q) \in Nat /\ \A i \in S : q[i] \in DealRec
    BY SeqDomain
  <1>2. IsFiniteSet(S)
    BY <1>1, FS_Interval
  <1>3. \A i \in S : f[i] = Share(q[i], u, t)
    BY DEF Shares
  <1>4. \A i \in S : f[i] \in Int
    <2> TAKE i \in S
    <2>1. Share(q[i], u, t) \in Nat
      BY <1>1, ShareInt
    <2> QED BY <2>1, <1>3
  <1> HIDE DEF f, S
  <1>5. SumFunctionOnSet(f, S) \in Int
    BY <1>2, <1>4, SumInt
  <1> QED BY <1>1, <1>2, <1>3, <1>4, <1>5 DEF Held, f, S

\* A new deal adds its share.
LEMMA HeldOpened ==
  ASSUME NEW q \in Seq(DealRec), NEW d \in DealRec, NEW u, NEW t
  PROVE  Held(Append(q, d), u, t) = Held(q, u, t) + Share(d, u, t)
  <1> DEFINE r == Append(q, d)
             n == Len(q) + 1
             S == DOMAIN q
             f == Shares(q, u, t)
             g == Shares(r, u, t)
  <1>1. /\ r \in Seq(DealRec) /\ n \notin S /\ DOMAIN r = S \cup {n} /\ r[n] = d
        /\ \A i \in S : r[i] = q[i]
    OBVIOUS
  <1> HIDE DEF r, n
  <1>2. /\ IsFiniteSet(S) /\ Held(q, u, t) = SumFunctionOnSet(f, S)
        /\ \A i \in S : f[i] = Share(q[i], u, t)
    BY HeldInt DEF Held
  <1>3. /\ Held(r, u, t) = SumFunctionOnSet(g, S \cup {n})
        /\ \A i \in S \cup {n} : g[i] = Share(r[i], u, t)
        /\ \A i \in S \cup {n} : g[i] \in Int
    BY <1>1, HeldInt DEF Held
  <1>4. \A i \in S : f[i] = g[i]
    BY <1>1, <1>2, <1>3
  <1>5. g[n] = Share(d, u, t) /\ g[n] \in Int /\ \A i \in S : g[i] \in Int
    BY <1>1, <1>3
  <1> HIDE DEF S, f, g
  <1>6. SumFunctionOnSet(g, S \cup {n}) = SumFunctionOnSet(g, S) + g[n]
    BY <1>1, <1>2, <1>5, SumWith
  <1>7. SumFunctionOnSet(f, S) = SumFunctionOnSet(g, S)
    BY <1>2, <1>4, SumAgree
  <1> QED BY <1>2, <1>3, <1>5, <1>6, <1>7 DEF r

\* Two lists of deals that differ in one place.
OnlyAt(q, r, i) == \A k \in DOMAIN q : k # i => r[k] = q[k]

\* A deal that closes takes its share away.
LEMMA HeldClosed ==
  ASSUME NEW q \in Seq(DealRec), NEW r \in Seq(DealRec), Len(r) = Len(q),
         NEW i \in 1 .. Len(q), OnlyAt(q, r, i), r[i].outcome # "pending",
         NEW u, NEW t
  PROVE  Held(r, u, t) = Held(q, u, t) - Share(q[i], u, t)
  <1> DEFINE S == DOMAIN q
             f == Shares(q, u, t)
             g == Shares(r, u, t)
  <1>1. S = 1 .. Len(q) /\ DOMAIN r = S /\ i \in S
    BY SeqDomain
  <1>2. /\ IsFiniteSet(S) /\ Held(q, u, t) = SumFunctionOnSet(f, S)
        /\ \A k \in S : f[k] = Share(q[k], u, t)
        /\ \A k \in S : f[k] \in Int
        /\ Held(q, u, t) \in Int
    BY HeldInt DEF Held
  <1>3. /\ Held(r, u, t) = SumFunctionOnSet(g, S)
        /\ \A k \in S : g[k] = Share(r[k], u, t)
    BY <1>1, HeldInt DEF Held
  <1>4. \A k \in S : k # i => g[k] = f[k]
    BY <1>2, <1>3 DEF OnlyAt
  <1>5. f[i] = Share(q[i], u, t) /\ f[i] \in Int
    BY <1>1, <1>2
  <1>6. g[i] = 0 /\ g[i] \in Int
    <2>1. Share(r[i], u, t) = 0
      BY DEF Share
    <2> QED BY <2>1, <1>1, <1>3
  <1>7. \A k \in S : f[k] \in Int
    BY <1>2
  <1>10. IsFiniteSet(S)
    BY <1>2
  <1> HIDE DEF S, f, g
  <1>8. SumFunctionOnSet(g, S) = SumFunctionOnSet(f, S) + (g[i] - f[i])
    BY <1>1, <1>4, <1>6, <1>7, <1>10, SumChange
  <1>9. Held(r, u, t) = Held(q, u, t) + (g[i] - f[i]) /\ Held(q, u, t) \in Int
    BY <1>2, <1>3, <1>8
  <1> QED BY <1>5, <1>6, <1>9

\* The swaps that neither paid nor refunded are the pending deals.
LEMMA LockedIsHeld ==
  ASSUME swaps \in Seq(SwapJob), NEW u, NEW t
  PROVE  LockedBy(u, t) = Held(Deals, u, t)
  <1> DEFINE live == {i \in DOMAIN swaps : /\ Live(i)
                                            /\ swaps[i].user = u
                                            /\ swaps[i].from = t}
             f == [i \in live |-> swaps[i].amountIn]
             g == Shares(Deals, u, t)
             S == DOMAIN Deals
  <1>1. /\ Deals \in Seq(DealRec) /\ S = 1 .. Len(swaps) /\ DOMAIN swaps = 1 .. Len(swaps)
        /\ \A i \in S : Deals[i] = DealOf(swaps[i])
    BY DealsSeq, SeqDomain
  <1>2. /\ IsFiniteSet(S) /\ \A i \in S : g[i] = Share(Deals[i], u, t)
        /\ \A i \in S : g[i] \in Int
    BY <1>1, HeldInt
  <1>3. live \in SUBSET S
    BY <1>1
  <1>4. \A i \in S : g[i] = IF i \in live THEN swaps[i].amountIn ELSE 0
    <2> TAKE i \in S
    <2>1. g[i] = Share(DealOf(swaps[i]), u, t)
      BY <1>1, <1>2
    <2>2. DealOf(swaps[i]).outcome = "pending" <=> Live(i)
      BY DEF DealOf, Outcome, Live, Finished
    <2>3. /\ DealOf(swaps[i]).user = swaps[i].user
          /\ DealOf(swaps[i]).from = swaps[i].from
          /\ DealOf(swaps[i]).amount = swaps[i].amountIn
      BY DEF DealOf
    <2> QED BY <2>1, <2>2, <2>3, <1>1 DEF Share
  <1>5. \A i \in live : f[i] = g[i]
    BY <1>3, <1>4
  <1>6. \A i \in live : f[i] \in Int
    BY <1>2, <1>3, <1>5
  <1>7. \A i \in S : g[i] = IF i \in live THEN f[i] ELSE 0
    BY <1>4
  <1>8. live = DOMAIN f /\ LockedBy(u, t) = SumFunction(f)
    BY DEF LockedBy
  <1>9. Held(Deals, u, t) = SumFunctionOnSet(g, S)
    BY DEF Held
  <1> HIDE DEF live, f, g, S
  <1>10. SumFunctionOnSet(f, live) = SumFunctionOnSet(g, S)
    BY <1>2, <1>3, <1>6, <1>7, SumFilter
  <1> QED BY <1>8, <1>9, <1>10, SumOfFunction

\* What an addition does to each entry of a ledger.
LEMMA AddTo ==
  ASSUME NEW L \in [Users -> [Tokens -> Int]],
         NEW u \in Users, NEW t \in Tokens, NEW d \in Int,
         NEW v \in Users, NEW x \in Tokens
  PROVE  /\ v = u /\ x = t => Add(L, u, t, d)[v][x] = L[v][x] + d
         /\ ~(v = u /\ x = t) => Add(L, u, t, d)[v][x] = L[v][x]
         /\ L[v][x] \in Int
  BY DEF Add

\* The lock of a new swap is its share.
LEMMA OpenLocks ==
  ASSUME IndInv, LockInv, NEW u \in Users, NEW from \in Tokens, NEW to \in Tokens,
         NEW amount \in Amounts, Promise!Open(u, from, to, amount)
  PROVE  LockInv'
  <1> DEFINE d == Promise!Deal(u, from, to, amount)
  <1>1. /\ locked' = Add(locked, u, from, amount) /\ Deals' = Append(Deals, d)
    BY AddIsChange DEF Promise!Open
  <1>2. /\ d \in DealRec /\ d.outcome = "pending" /\ d.user = u /\ d.from = from
        /\ d.amount = amount
    BY DEF Promise!Deal, DealRec
  <1>3. /\ locked \in [Users -> [Tokens -> Int]] /\ amount \in Int
        /\ Deals \in Seq(DealRec)
    BY DealsSeq, PayoutsNat DEF IndInv, TypeOK
  <1> HIDE DEF d
  <1>4. ASSUME NEW v \in Users, NEW x \in Tokens
        PROVE  locked'[v][x] = Held(Deals', v, x)
    <2>1. /\ v = u /\ x = from => locked'[v][x] = locked[v][x] + amount
          /\ ~(v = u /\ x = from) => locked'[v][x] = locked[v][x]
          /\ locked[v][x] \in Int
      BY <1>1, <1>3, AddTo
    <2>2. Share(d, v, x) = IF v = u /\ x = from THEN amount ELSE 0
      BY <1>2 DEF Share
    <2>3. Held(Deals', v, x) = Held(Deals, v, x) + Share(d, v, x)
      BY <1>1, <1>2, <1>3, HeldOpened
    <2> QED BY <2>1, <2>2, <2>3 DEF LockInv
  <1>5. ASSUME NEW v \in Users, NEW x \in Tokens
        PROVE  locked'[v][x] = Held(Deals, v, x)'
    BY <1>4 DEF Held, Shares
  <1> QED BY <1>5 DEF LockInv

\* The lock of a swap that closes is given up, whichever way it closes.
LEMMA CloseLocks ==
  ASSUME IndInv, LockInv, swaps' \in Seq(SwapJob), NEW i \in DOMAIN Deals,
         \/ \E out \in Payouts : Promise!Pay(i, out)
         \/ Promise!Refund(i)
  PROVE  LockInv'
  <1> DEFINE d == Deals[i]
  <1>1. /\ d.outcome = "pending"
        /\ locked' = Add(locked, d.user, d.from, -d.amount)
    BY AddIsChange DEF Promise!Pay, Promise!Refund
  <1>2. /\ Deals \in Seq(DealRec) /\ i \in 1 .. Len(Deals) /\ Len(Deals) = Len(swaps)
        /\ Deals' \in Seq(DealRec)
    BY DealsSeq, DealsSeqNext DEF IndInv, TypeOK
  <1>3. Deals[i] \in DealRec /\ DOMAIN Deals = 1 .. Len(Deals)
    BY <1>2, SeqDomain
  <1>4. Len(Deals') = Len(Deals) /\ OnlyAt(Deals, Deals', i) /\ Deals'[i].outcome # "pending"
    <2>1. CASE \E out \in Payouts : Promise!Pay(i, out)
      <3> PICK out \in Payouts : Promise!Pay(i, out)
        BY <2>1
      <3>1. Deals' = [Deals EXCEPT ![i] = [d EXCEPT !.outcome = "paid", !.out = out]]
        BY <1>2 DEF Promise!Pay
      <3> DEFINE p == [d EXCEPT !.outcome = "paid"]
                 x == [p EXCEPT !.out = out]
      <3>2. p \in DealRec /\ p.outcome = "paid"
        BY <1>3 DEF DealRec
      <3>3. [d EXCEPT !.outcome = "paid", !.out = out] = x
        OBVIOUS
      <3> HIDE DEF p
      <3>4. x.outcome = "paid" /\ x \in DealRec
        BY <3>2 DEF DealRec
      <3> HIDE DEF x
      <3>5. Deals' = [Deals EXCEPT ![i] = x]
        BY <3>1, <3>3
      <3>6. /\ Len(Deals') = Len(Deals) /\ Deals'[i] = x
            /\ \A k \in 1 .. Len(Deals) : k # i => Deals'[k] = Deals[k]
        BY <1>2, <3>4, <3>5, ReplaceOne
      <3> QED BY <1>3, <3>4, <3>6 DEF OnlyAt
    <2>2. CASE Promise!Refund(i)
      <3> DEFINE x == [d EXCEPT !.outcome = "refunded"]
      <3>1. Deals' = [Deals EXCEPT ![i] = x]
        BY <2>2 DEF Promise!Refund
      <3>2. x.outcome = "refunded" /\ x \in DealRec
        BY <1>3 DEF DealRec
      <3> HIDE DEF x
      <3>3. /\ Len(Deals') = Len(Deals) /\ Deals'[i] = x
            /\ \A k \in 1 .. Len(Deals) : k # i => Deals'[k] = Deals[k]
        BY <1>2, <3>1, <3>2, ReplaceOne
      <3> QED BY <1>3, <3>2, <3>3 DEF OnlyAt
    <2> QED BY <2>1, <2>2
  <1>5. /\ d.user \in Users /\ d.from \in Tokens /\ d.amount \in Int
        /\ locked \in [Users -> [Tokens -> Int]]
    <2>1. d.user \in Users /\ d.from \in Tokens /\ d.amount \in Amounts
      BY <1>3 DEF DealRec
    <2>2. d.amount \in Int
      <3>1. \A a \in Amounts : a \in Int
        BY PayoutsNat
      <3> QED BY <2>1, <3>1
    <2>3. locked \in [Users -> [Tokens -> Int]]
      BY DEF IndInv, TypeOK
    <2> QED BY <2>1, <2>2, <2>3
  <1> DEFINE e == -d.amount
  <1>6. e \in Int
    BY <1>5
  <1>7. ASSUME NEW v \in Users, NEW x \in Tokens
        PROVE  locked'[v][x] = Held(Deals', v, x)
    <2>1. Held(Deals', v, x) = Held(Deals, v, x) - Share(d, v, x)
      BY <1>2, <1>4, HeldClosed
    <2>2. Share(d, v, x) = IF v = d.user /\ x = d.from THEN d.amount ELSE 0
      BY <1>1 DEF Share
    <2>3. Held(Deals, v, x) \in Int /\ locked[v][x] = Held(Deals, v, x)
      BY <1>2, HeldInt DEF LockInv
    <2> HIDE DEF d
    <2>4. locked' = Add(locked, d.user, d.from, e)
      BY <1>1
    <2> HIDE DEF e
    <2>5. /\ v = d.user /\ x = d.from => locked'[v][x] = locked[v][x] + e
          /\ ~(v = d.user /\ x = d.from) => locked'[v][x] = locked[v][x]
      <3> DEFINE w == d.user
                 y == d.from
      <3>1. /\ w \in Users /\ y \in Tokens /\ locked' = Add(locked, w, y, e)
            /\ locked \in [Users -> [Tokens -> Int]]
        BY <2>4, <1>5
      <3> HIDE DEF w, y
      <3>2. /\ v = w /\ x = y => locked'[v][x] = locked[v][x] + e
            /\ ~(v = w /\ x = y) => locked'[v][x] = locked[v][x]
        BY <3>1, <1>6, AddTo
      <3> QED BY <3>2 DEF w, y
    <2>6. CASE v = d.user /\ x = d.from
      BY <2>1, <2>2, <2>3, <2>5, <2>6, <1>5 DEF e
    <2>7. CASE ~(v = d.user /\ x = d.from)
      BY <2>1, <2>2, <2>3, <2>5, <2>7
    <2> QED BY <2>6, <2>7
  <1>8. ASSUME NEW v \in Users, NEW x \in Tokens
        PROVE  locked'[v][x] = Held(Deals, v, x)'
    BY <1>7 DEF Held, Shares
  <1> QED BY <1>8 DEF LockInv

\* Initially nothing is locked and nothing is open.
LEMMA LocksStart == Init => LockInv
  <1> SUFFICES ASSUME Init PROVE LockInv
    OBVIOUS
  <1>1. Deals = << >>
    BY InitMaps DEF Promise!Init
  <1>2. DOMAIN Deals = {}
    BY <1>1
  <1>3. \A f : SumFunctionOnSet(f, {}) = 0
    BY SumEmpty
  <1>4. \A u \in Users, t \in Tokens : locked[u][t] = 0
    BY DEF Init
  <1> QED BY <1>2, <1>3, <1>4 DEF LockInv, Held

\* Every step keeps the locks at what the open deals sum to.
LEMMA LockStep == IndInv /\ LockInv /\ [Next]_vars => LockInv'
  <1> SUFFICES ASSUME IndInv, LockInv, [Next]_vars PROVE LockInv'
    OBVIOUS
  <1>1. swaps' \in Seq(SwapJob)
    BY NextInv DEF IndInv, Tables
  <1>2. CASE \E u \in Users, from, to \in Tokens, a \in Amounts :
                 Promise!Open(u, from, to, a)
    BY <1>2, OpenLocks
  <1>3. CASE \E i \in DOMAIN Deals :
                 (\E out \in Payouts : Promise!Pay(i, out)) \/ Promise!Refund(i)
    BY <1>1, <1>3, CloseLocks
  <1>4. ASSUME Deals' = Deals, locked' = locked
        PROVE  LockInv'
    <2>1. ASSUME NEW v \in Users, NEW x \in Tokens
          PROVE  locked'[v][x] = Held(Deals, v, x)'
      BY <1>4 DEF LockInv, Held, Shares
    <2> QED BY <2>1 DEF LockInv
  <1>5. CASE \E u \in Users, from, to \in Tokens, a \in Amounts, out \in Payouts :
                 Promise!Trade(u, from, to, a, out)
    BY <1>4, <1>5 DEF Promise!Trade
  <1>6. CASE UNCHANGED Promise!abstractVars
    BY <1>4, <1>6 DEF Promise!abstractVars
  <1>7. [Promise!Next]_(Promise!abstractVars)
    BY StepMaps
  <1> QED BY <1>2, <1>3, <1>5, <1>6, <1>7 DEF Promise!Next

\* What a user has locked is the input of the swaps that neither paid nor
\* refunded, through failures, payouts and restarts.
THEOREM LocksAreSwaps == Spec => []LockedCoversSwaps
  <1>1. Spec => []LockInv
    BY LocksStart, LockStep, Invariance, PTL DEF Spec
  <1>2. IndInv /\ LockInv => LockedCoversSwaps
    <2> SUFFICES ASSUME IndInv, LockInv PROVE LockedCoversSwaps
      OBVIOUS
    <2>1. \A u, t : LockedBy(u, t) = Held(Deals, u, t)
      BY LockedIsHeld DEF IndInv, Tables
    <2> QED BY <2>1 DEF LockInv, LockedCoversSwaps
  <1> QED BY <1>1, <1>2, Invariance, PTL

-----------------------------------------------------------------------------
(* Transactions on the L1: a job that has not reached its swap has sent     *)
(* none; one that is at it has sent at most one for each crash, and one     *)
(* more once the worker waits for its result.                               *)

Sends(j) == {k \in DOMAIN l1 : l1[k].job = j}
Polled(j) == worker.pc = "polling" /\ worker.job = j
MaySend(j) ==
    IF rebalances[j].state \in {"queued", "bridging_out"} THEN 0
    ELSE IF rebalances[j].state = "l1_swap" /\ ~Polled(j) THEN crashes
    ELSE 1 + crashes

SendInv ==
    /\ \A k \in DOMAIN l1 : l1[k].job \in DOMAIN rebalances
    /\ \A j \in DOMAIN rebalances : Cardinality(Sends(j)) <= MaySend(j)

\* The transactions of a job are finitely many.
LEMMA SendsCount ==
  ASSUME IndInv, NEW j
  PROVE  /\ IsFiniteSet(Sends(j)) /\ Cardinality(Sends(j)) \in Nat
         /\ crashes \in Nat /\ MaySend(j) \in Nat
         /\ MaySend(j) <= 1 + crashes
  <1>1. DOMAIN l1 = 1 .. Len(l1) /\ Len(l1) \in Nat /\ crashes \in Nat
    BY SeqDomain DEF IndInv, TypeOK
  <1>2. IsFiniteSet(DOMAIN l1) /\ Sends(j) \subseteq DOMAIN l1
    BY <1>1, FS_Interval DEF Sends
  <1>3. IsFiniteSet(Sends(j)) /\ Cardinality(Sends(j)) \in Nat
    BY <1>2, FS_Subset, FS_CardinalityType
  <1> QED BY <1>1, <1>3 DEF MaySend

\* Steps that send nothing, queue nothing new and give no job a smaller bound.
LEMMA SendsKept ==
  ASSUME IndInv, SendInv, UNCHANGED l1, DOMAIN rebalances \subseteq DOMAIN rebalances',
         IndInv',
         \A j \in DOMAIN rebalances : MaySend(j) <= MaySend(j)'
  PROVE  SendInv'
  <1>1. \A j : Sends(j)' = Sends(j)
    BY DEF Sends
  <1>2. \A k \in DOMAIN l1' : l1'[k].job \in DOMAIN rebalances'
    BY DEF SendInv
  <1>3. ASSUME NEW j \in DOMAIN rebalances'
        PROVE  Cardinality(Sends(j)') <= MaySend(j)'
    <2>1. /\ Cardinality(Sends(j)) \in Nat /\ MaySend(j) \in Nat
      BY SendsCount
    <2>2. MaySend(j)' \in Nat
      <3>1. crashes' \in Nat
        BY DEF IndInv, TypeOK
      <3>2. MaySend(j)' = 0 \/ MaySend(j)' = crashes' \/ MaySend(j)' = 1 + crashes'
        BY DEF MaySend
      <3> QED BY <3>1, <3>2
    <2>3. CASE j \in DOMAIN rebalances
      <3>1. Cardinality(Sends(j)) <= MaySend(j) /\ MaySend(j) <= MaySend(j)'
        BY <2>3 DEF SendInv
      <3> QED BY <3>1, <1>1, <2>1, <2>2
    <2>4. CASE j \notin DOMAIN rebalances
      <3>1. Sends(j) = {}
        BY <2>4 DEF SendInv, Sends
      <3>2. Cardinality(Sends(j)') = 0
        BY <3>1, <1>1, FS_EmptySet
      <3> QED BY <3>2, <2>2
    <2> QED BY <2>3, <2>4
  <1> QED BY <1>2, <1>3 DEF SendInv

\* The steps that leave the L1, the jobs and the worker's wait alone, or that
\* queue a job behind the others.
LEMMA QueueSends ==
  ASSUME IndInv, SendInv, IndInv', UNCHANGED <<l1, crashes>>,
         \/ UNCHANGED rebalances
         \/ \E r : rebalances' = Append(rebalances, r),
         \/ UNCHANGED worker
         \/ worker.pc # "polling" /\ worker'.pc # "polling"
  PROVE  SendInv'
  <1>1. /\ DOMAIN rebalances \subseteq DOMAIN rebalances'
        /\ \A j \in DOMAIN rebalances : rebalances'[j] = rebalances[j]
    <2>1. rebalances \in Seq(RebalanceJob) /\ DOMAIN rebalances = 1 .. Len(rebalances)
      BY SeqDomain DEF IndInv, Tables
    <2>2. CASE UNCHANGED rebalances
      BY <2>2
    <2>3. CASE \E r : rebalances' = Append(rebalances, r)
      BY <2>1, <2>3, AppendKeeps
    <2> QED BY <2>2, <2>3
  <1>2. crashes \in Nat
    BY DEF IndInv, TypeOK
  <1>3. ASSUME NEW j \in DOMAIN rebalances PROVE MaySend(j)' = MaySend(j)
    BY <1>1 DEF MaySend, Polled
  <1>4. ASSUME NEW j \in DOMAIN rebalances PROVE MaySend(j) <= MaySend(j)'
    BY <1>3, SendsCount
  <1> QED BY <1>1, <1>4, SendsKept

\* The worker moves its job on: out of the queue to the L1 swap, from there to
\* the settlement, or to an end.
LEMMA JobSends ==
  ASSUME IndInv, SendInv, IndInv', UNCHANGED <<l1, crashes>>,
         worker.pc # "idle", worker'.pc # "polling",
         NEW n, n = worker.job, NEW r, rebalances' = [rebalances EXCEPT ![n] = r],
         r.state \in {"queued", "bridging_out"} => rebalances[n].state = "queued",
         r.state = "l1_swap" => rebalances[n].state = "bridging_out"
  PROVE  SendInv'
  <1>1. /\ DOMAIN rebalances' = DOMAIN rebalances /\ rebalances'[n] = r
        /\ \A j \in DOMAIN rebalances : j # n => rebalances'[j] = rebalances[j]
        /\ n \in DOMAIN rebalances
    BY WorkerJob, SeqDomain DEF IndInv, Tables
  <1>2. crashes \in Nat
    BY DEF IndInv, TypeOK
  <1>3. ASSUME NEW j \in DOMAIN rebalances, j # n
        PROVE  MaySend(j) <= MaySend(j)'
    <2>1. ~Polled(j) /\ ~Polled(j)'
      BY <1>3 DEF Polled
    <2>2. MaySend(j)' = MaySend(j)
      BY <1>1, <1>3, <2>1 DEF MaySend
    <2> QED BY <2>2, SendsCount
  <1>4. MaySend(n) <= MaySend(n)'
    <2>1. MaySend(n)' = 0 \/ MaySend(n)' = crashes \/ MaySend(n)' = 1 + crashes
      BY DEF MaySend
    <2>2. CASE rebalances[n].state \in {"queued", "bridging_out"}
      <3>1. MaySend(n) = 0
        BY <2>2 DEF MaySend
      <3> QED BY <2>1, <3>1, <1>2
    <2>3. CASE rebalances[n].state \notin {"queued", "bridging_out"}
      <3>1. r.state \notin {"queued", "bridging_out", "l1_swap"}
        BY <2>3
      <3>2. MaySend(n)' = 1 + crashes
        BY <3>1, <1>1 DEF MaySend
      <3> QED BY <3>2, SendsCount
    <2> QED BY <2>2, <2>3
  <1>5. ASSUME NEW j \in DOMAIN rebalances PROVE MaySend(j) <= MaySend(j)'
    <2>1. CASE j = n
      BY <2>1, <1>4
    <2>2. CASE j # n
      BY <2>2, <1>3
    <2> QED BY <2>1, <2>2
  <1>6. \A j \in DOMAIN rebalances : MaySend(j) <= MaySend(j)'
    BY <1>5
  <1> QED BY <1>1, <1>6, SendsKept

\* A transaction of the worker's job is added, and the worker waits for it or
\* gives the job up.
LEMMA BroadcastSends ==
  ASSUME IndInv, SendInv, IndInv', crashes' = crashes, worker.pc = "swapping",
         NEW n, n = worker.job, rebalances[n].state = "l1_swap",
         NEW x, x.job = n, l1' = Append(l1, x),
         MaySend(n)' = 1 + crashes,
         DOMAIN rebalances' = DOMAIN rebalances,
         \A j \in DOMAIN rebalances : j # n => MaySend(j)' = MaySend(j)
  PROVE  SendInv'
  <1>1. /\ DOMAIN l1 = 1 .. Len(l1) /\ Len(l1) \in Nat /\ l1 \in Seq(L1Swap)
        /\ DOMAIN l1' = 1 .. Len(l1')
    BY SeqDomain DEF IndInv, TypeOK
  <1>2. /\ DOMAIN l1' = DOMAIN l1 \cup {Len(l1) + 1} /\ Len(l1) + 1 \notin DOMAIN l1
        /\ \A k \in DOMAIN l1 : l1'[k] = l1[k]
        /\ l1'[Len(l1) + 1] = x
    BY <1>1
  <1>3. n \in DOMAIN rebalances
    BY WorkerJob
  <1>4. \A k \in DOMAIN l1' : l1'[k].job \in DOMAIN rebalances'
    BY <1>2, <1>3 DEF SendInv
  <1>5. ASSUME NEW j \in DOMAIN rebalances', j # n
        PROVE  Cardinality(Sends(j)') <= MaySend(j)'
    <2>1. Sends(j)' = Sends(j)
      BY <1>2, <1>5 DEF Sends
    <2> QED BY <2>1, <1>5 DEF SendInv
  <1>6. Cardinality(Sends(n)') <= MaySend(n)'
    <2>1. Sends(n)' = Sends(n) \cup {Len(l1) + 1} /\ Len(l1) + 1 \notin Sends(n)
      BY <1>2 DEF Sends
    <2>2. /\ Cardinality(Sends(n)) \in Nat /\ IsFiniteSet(Sends(n)) /\ crashes \in Nat
      BY SendsCount
    <2>3. Cardinality(Sends(n)') = Cardinality(Sends(n)) + 1
      BY <2>1, <2>2, FS_AddElement
    <2>4. Cardinality(Sends(n)) <= crashes
      <3>1. MaySend(n) = crashes
        BY DEF MaySend, Polled
      <3> QED BY <3>1, <1>3 DEF SendInv
    <2> QED BY <2>2, <2>3, <2>4
  <1>7. \A j \in DOMAIN rebalances' : Cardinality(Sends(j)') <= MaySend(j)'
    BY <1>5, <1>6
  <1> QED BY <1>4, <1>7 DEF SendInv

\* The first transaction of the job, or one for each crash before: sent and
\* awaited,
LEMMA BroadcastSent ==
  ASSUME IndInv, SendInv, IndInv', Broadcast
  PROVE  SendInv'
  <1> DEFINE x == [job |-> worker.job, status |-> "pending", out |-> 0]
  <1>1. /\ worker.pc = "swapping" /\ crashes' = crashes /\ rebalances' = rebalances
        /\ l1' = Append(l1, x)
        /\ worker' = [pc |-> "polling", job |-> worker.job, tx |-> Len(l1) + 1]
    BY DEF Broadcast
  <1>2. x.job = worker.job /\ rebalances[worker.job].state = "l1_swap"
    BY <1>1 DEF IndInv, WorkerInv
  <1> HIDE DEF x
  <1> DEFINE n == worker.job
  <1>3. worker'.pc = "polling" /\ worker'.job = n
    BY <1>1
  <1> HIDE DEF n
  <1>4. ASSUME NEW j, j = n PROVE MaySend(j)' = 1 + crashes
    BY <1>1, <1>2, <1>3, <1>4 DEF MaySend, Polled, n
  <1>5. ASSUME NEW j \in DOMAIN rebalances, j # n PROVE MaySend(j)' = MaySend(j)
    <2>1. ~Polled(j) /\ ~Polled(j)'
      BY <1>1, <1>3, <1>5 DEF Polled
    <2> QED BY <1>1, <2>1 DEF MaySend
  <1> SUFFICES ASSUME NEW m, m = worker.job PROVE SendInv'
    OBVIOUS
  <1>6. MaySend(m)' = 1 + crashes /\ \A j \in DOMAIN rebalances : j # m => MaySend(j)' = MaySend(j)
    BY <1>4, <1>5 DEF n
  <1>7. x.job = m /\ rebalances[m].state = "l1_swap"
    BY <1>2
  <1> QED BY <1>1, <1>6, <1>7, BroadcastSends

\* or sent with its answer lost, and then the job fails.
LEMMA L1ErrorSent ==
  ASSUME IndInv, SendInv, IndInv', L1Error
  PROVE  SendInv'
  <1> SUFFICES ASSUME NEW n, n = worker.job PROVE SendInv'
    OBVIOUS
  <1> DEFINE x == [job |-> n, status |-> "pending", out |-> 0]
             r == [rebalances[n] EXCEPT !.state = "failed"]
  <1>1. /\ worker.pc = "swapping" /\ crashes' = crashes
        /\ rebalances' = [rebalances EXCEPT ![n] = r]
        /\ worker' = Then(n, "refund")
        /\ l1' = l1 \/ l1' = Append(l1, x)
    BY DEF L1Error, Fail, SetState
  <1>2. x.job = n /\ rebalances[n].state = "l1_swap" /\ n \in DOMAIN rebalances
        /\ rebalances \in Seq(RebalanceJob)
    BY <1>1, WorkerJob DEF IndInv, WorkerInv, Tables
  <1>3. r.state = "failed"
    <2>1. rebalances[n] \in RebalanceJob
      BY <1>1, WorkerJob
    <2> QED BY <2>1 DEF RebalanceJob
  <1>4. worker'.pc \in {"idle", "refund"}
    BY <1>1 DEF Then, Idle
  <1> HIDE DEF x, r
  <1>5. CASE l1' = l1
    BY <1>1, <1>3, <1>4, <1>5, JobSends
  <1>6. CASE l1' = Append(l1, x)
    <2>1. /\ rebalances'[n] = r /\ DOMAIN rebalances' = DOMAIN rebalances
          /\ \A j \in DOMAIN rebalances : j # n => rebalances'[j] = rebalances[j]
      BY <1>1, <1>2
    <2>2. MaySend(n)' = 1 + crashes
      BY <1>1, <1>3, <2>1 DEF MaySend
    <2>3. ASSUME NEW j \in DOMAIN rebalances, j # n PROVE MaySend(j)' = MaySend(j)
      <3>1. ~Polled(j) /\ ~Polled(j)'
        BY <1>1, <1>4 DEF Polled
      <3> QED BY <1>1, <2>1, <2>3, <3>1 DEF MaySend
    <2>4. \A j \in DOMAIN rebalances : j # n => MaySend(j)' = MaySend(j)
      BY <2>3
    <2> QED BY <1>1, <1>2, <1>6, <2>1, <2>2, <2>4, BroadcastSends
  <1> QED BY <1>1, <1>5, <1>6

\* The other steps of the worker.
LEMMA TickSends ==
  ASSUME IndInv, SendInv, IndInv', Tick
  PROVE  SendInv'
  <1>2. ASSUME NEW pc, NEW job PROVE Then(job, pc).pc \in {"idle", pc}
    BY DEF Then, Idle
  <1>3. CASE \/ \E j \in DOMAIN rebalances : Pick(j)
             \/ Healthy \/ Link \/ StartL1Swap \/ PayOut \/ RefundSwap
    <2>1. UNCHANGED <<l1, crashes, rebalances>>
      BY <1>3 DEF Pick, Healthy, Link, StartL1Swap, PayOut, RefundSwap
    <2>2. worker.pc # "polling"
      BY <1>3 DEF Pick, Healthy, Link, StartL1Swap, PayOut, RefundSwap
    <2>3. worker'.pc # "polling"
      <3>1. CASE \/ \E j \in DOMAIN rebalances : Pick(j)
                 \/ Link \/ PayOut \/ RefundSwap
        BY <3>1 DEF Pick, Link, PayOut, RefundSwap, Idle
      <3>2. CASE Healthy \/ StartL1Swap
        <4>1. worker \in [pc : {"health", "swapping"} \cup SyncPcs, job : DOMAIN rebalances]
          BY <3>2, Parts DEF WorkerType, Healthy, StartL1Swap, SyncPcs
        <4> QED BY <3>2, <4>1 DEF Healthy, StartL1Swap
      <3> QED BY <1>3, <3>1, <3>2
    <2> QED BY <2>1, <2>2, <2>3, QueueSends
  <1> SUFFICES ASSUME NEW n, n = worker.job,
                      Unhealthy \/ Advance \/ Observe \/ GiveUp \/ SettleJob
               PROVE  SendInv'
    BY <1>3, BroadcastSent, L1ErrorSent DEF Tick
  <1> DEFINE o == rebalances[n]
  <1>4. worker.pc # "idle" /\ UNCHANGED <<l1, crashes>>
    BY DEF Unhealthy, Advance, Observe, GiveUp, SettleJob
  <1>5. o \in RebalanceJob
    BY <1>4, WorkerJob
  <1>6. worker'.pc # "polling"
    <2>1. \E pc \in {"refund", "link", "payout"} : worker' = Then(n, pc)
      BY DEF Unhealthy, Advance, Observe, GiveUp, SettleJob, Fail
    <2> QED BY <2>1, <1>2
  <1>7. ASSUME NEW st, rebalances' = [rebalances EXCEPT ![n].state = st],
               st \in JobStates,
               st \in {"queued", "bridging_out"} => o.state = "queued",
               st = "l1_swap" => o.state = "bridging_out"
        PROVE  SendInv'
    <2> DEFINE r == [o EXCEPT !.state = st]
    <2>1. r.state = st
      BY <1>5 DEF RebalanceJob
    <2>2. rebalances' = [rebalances EXCEPT ![n] = r]
      BY <1>7
    <2> HIDE DEF r
    <2> QED BY <1>4, <1>6, <1>7, <2>1, <2>2, JobSends
  <1>8. CASE Unhealthy
    BY <1>7, <1>8 DEF Unhealthy, Fail, SetState, JobStates
  <1>9. CASE Advance
    BY <1>7, <1>9 DEF Advance, SetState, JobStates
  <1>10. CASE SettleJob
    BY <1>7, <1>10 DEF SettleJob, SetState, JobStates
  <1>11. CASE Observe \/ GiveUp
    <2>1. \E out : Swapped(n, out)
      BY <1>11 DEF Observe, GiveUp
    <2> PICK out : Swapped(n, out)
      BY <2>1
    <2> DEFINE y == [o EXCEPT !.state = "settling_back"]
               r == [y EXCEPT !.actualOut = out]
    <2>2. y.state = "settling_back" /\ y \in RebalanceJob
      BY <1>5 DEF RebalanceJob, JobStates
    <2>3. rebalances' = [rebalances EXCEPT ![n] = r]
      BY DEF Swapped
    <2> HIDE DEF y
    <2>4. r.state = "settling_back"
      BY <2>2 DEF RebalanceJob
    <2> HIDE DEF r
    <2> QED BY <1>4, <1>6, <2>3, <2>4, JobSends
  <1> QED BY <1>8, <1>9, <1>10, <1>11

\* The L1 answers: no transaction is added.
LEMMA ExchangeSends ==
  ASSUME IndInv, SendInv, IndInv', Exchange
  PROVE  SendInv'
  <1>1. /\ UNCHANGED <<rebalances, worker, crashes>>
        /\ DOMAIN l1' = DOMAIN l1
        /\ \A k \in DOMAIN l1 : l1'[k].job = l1[k].job
    <2>1. PICK k \in DOMAIN l1 : \/ \E out \in Quotes : L1Executes(k, out)
                                 \/ L1Rejects(k)
      BY DEF Exchange
    <2>2. l1 \in Seq(L1Swap) /\ l1[k] \in L1Swap
      BY <2>1, SeqDomain DEF IndInv, TypeOK
    <2>3. CASE L1Rejects(k)
      BY <2>2, <2>3 DEF L1Rejects, L1Swap
    <2>4. ASSUME NEW out \in Quotes, L1Executes(k, out)
          PROVE  /\ UNCHANGED <<rebalances, worker, crashes>>
                 /\ DOMAIN l1' = DOMAIN l1
                 /\ \A i \in DOMAIN l1 : l1'[i].job = l1[i].job
      <3> DEFINE y == [l1[k] EXCEPT !.status = "executed"]
                 x == [y EXCEPT !.out = out]
      <3>1. l1' = [l1 EXCEPT ![k] = x] /\ UNCHANGED <<rebalances, worker, crashes>>
        BY <2>4 DEF L1Executes
      <3>2. y \in L1Swap /\ y.job = l1[k].job
        BY <2>2 DEF L1Swap
      <3> HIDE DEF y
      <3>3. x.job = l1[k].job
        BY <3>2 DEF L1Swap
      <3> HIDE DEF x
      <3> QED BY <2>2, <3>1, <3>3
    <2> QED BY <2>1, <2>3, <2>4
  <1>2. \A j : Sends(j)' = Sends(j)
    BY <1>1 DEF Sends
  <1>3. \A j : MaySend(j)' = MaySend(j)
    BY <1>1 DEF MaySend, Polled
  <1> QED BY <1>1, <1>2, <1>3 DEF SendInv

\* A restart lets every job that is at its swap be sent once more.
LEMMA RestartSends ==
  ASSUME IndInv, SendInv, IndInv', Restart
  PROVE  SendInv'
  <1>1. /\ UNCHANGED <<l1, rebalances>> /\ crashes' = crashes + 1
        /\ worker'.pc # "polling" /\ crashes \in Nat
    BY DEF Restart, Idle, IndInv, TypeOK
  <1>2. ASSUME NEW j \in DOMAIN rebalances PROVE MaySend(j) <= MaySend(j)'
    <2>1. ~Polled(j)'
      BY <1>1 DEF Polled
    <2>2. CASE rebalances[j].state \in {"queued", "bridging_out"}
      <3>1. MaySend(j) = 0 /\ MaySend(j)' = 0
        BY <1>1, <2>2 DEF MaySend
      <3> QED BY <3>1
    <2>3. CASE rebalances[j].state = "l1_swap"
      <3>1. MaySend(j)' = crashes'
        BY <1>1, <2>1, <2>3 DEF MaySend
      <3>2. MaySend(j) <= 1 + crashes /\ MaySend(j) \in Nat
        BY SendsCount
      <3> QED BY <3>1, <3>2, <1>1
    <2>4. CASE rebalances[j].state \notin {"queued", "bridging_out", "l1_swap"}
      <3>1. MaySend(j)' = 1 + crashes'
        BY <1>1, <2>4 DEF MaySend
      <3>2. MaySend(j) <= 1 + crashes /\ MaySend(j) \in Nat
        BY SendsCount
      <3> QED BY <3>1, <3>2, <1>1
    <2> QED BY <2>2, <2>3, <2>4
  <1>3. \A j \in DOMAIN rebalances : MaySend(j) <= MaySend(j)'
    BY <1>2
  <1> QED BY <1>1, <1>3, SendsKept

\* Every step keeps the count of transactions.
LEMMA SendStep == IndInv /\ SendInv /\ [Next]_vars => SendInv'
  <1> SUFFICES ASSUME IndInv, SendInv, [Next]_vars PROVE SendInv'
    OBVIOUS
  <1>1. IndInv'
    BY NextInv
  <1>2. CASE Execute
    <2>1. ASSUME NEW u \in Users, NEW from \in Tokens, NEW to \in Tokens,
                 NEW a \in Amounts, NEW q \in Quotes,
                 ExecuteAsync(u, from, to, a, q)
          PROVE  SendInv'
      <3>1. /\ UNCHANGED <<l1, crashes, worker>>
            /\ \E r : rebalances' = Append(rebalances, r)
        BY <2>1 DEF ExecuteAsync
      <3> QED BY <1>1, <3>1, QueueSends
    <2>2. ASSUME NEW c \in Slots, NEW u \in Users, NEW from \in Tokens,
                 NEW to \in Tokens, NEW a \in Amounts,
                 Request(c, u, from, to, a)
          PROVE  SendInv'
      <3>1. UNCHANGED <<l1, crashes, worker, rebalances>>
        BY <2>2 DEF Request
      <3> QED BY <1>1, <3>1, QueueSends
    <2> QED BY <1>2, <2>1, <2>2 DEF Execute
  <1>3. ASSUME NEW c \in Slots, Answer(c) PROVE SendInv'
    <2>1. UNCHANGED <<l1, crashes, worker>>
      BY <1>3 DEF Answer, ReadCapacity, ChooseLocal, Abandon, Book,
                  ApplyInstantSwap, EnsureRebalanceForDrift
    <2>2. UNCHANGED rebalances \/ \E r : rebalances' = Append(rebalances, r)
      <3>1. CASE EnsureRebalanceForDrift(c)
        BY <3>1 DEF EnsureRebalanceForDrift
      <3>2. CASE ~EnsureRebalanceForDrift(c)
        BY <1>3, <3>2 DEF Answer, ReadCapacity, ChooseLocal, Abandon, Book,
                          ApplyInstantSwap
      <3> QED BY <3>1, <3>2
    <2> QED BY <1>1, <2>1, <2>2, QueueSends
  <1>4. CASE Tick
    BY <1>1, <1>4, TickSends
  <1>5. CASE Exchange
    BY <1>1, <1>5, ExchangeSends
  <1>6. CASE Restart
    BY <1>1, <1>6, RestartSends
  <1>7. CASE UNCHANGED vars
    BY <1>1, <1>7, QueueSends DEF vars
  <1> QED BY <1>2, <1>3, <1>4, <1>5, <1>6, <1>7 DEF Next

\* Nothing is sent at the start.
LEMMA SendStart == Init => SendInv
  BY DEF Init, SendInv

\* A job is swapped on the L1 once, and once more for a crash at most, whatever
\* is lost between the worker and the L1.
THEOREM OneSwapPerCrash == Spec => []L1SwapsNeedCrashes
  <1>1. Spec => []SendInv
    BY SendStart, SendStep, Invariance, PTL DEF Spec
  <1>2. IndInv /\ SendInv => L1SwapsNeedCrashes
    <2> SUFFICES ASSUME IndInv, SendInv, NEW j \in DOMAIN rebalances
                 PROVE  Cardinality({k \in DOMAIN l1 : l1[k].job = j}) <= 1 + crashes
      BY DEF L1SwapsNeedCrashes
    <2>1. /\ Cardinality(Sends(j)) <= MaySend(j) /\ MaySend(j) <= 1 + crashes
          /\ Cardinality(Sends(j)) \in Nat /\ MaySend(j) \in Nat /\ crashes \in Nat
      BY SendsCount DEF SendInv
    <2>2. Cardinality(Sends(j)) <= 1 + crashes
      BY <2>1
    <2> QED BY <2>2 DEF Sends
  <1> QED BY <1>1, <1>2, Invariance, PTL
-----------------------------------------------------------------------------
(* Overdrafts.  A call that has passed its balance check and not booked yet  *)
(* may take one amount; a user below zero has no room for a new call.        *)

Limit == Max(Amounts)
Width == Cardinality(Slots)

Covered(b, p) == b >= 0 \/ b + (Width - p) * Limit >= 0

\* The largest amount is an amount, and none is larger.
LEMMA LimitBounds ==
  /\ Limit \in Nat
  /\ \A a \in Amounts : a \in Nat /\ a <= Limit
  <1>1. \A a \in Amounts : a \in Nat
    BY RouterInputs
  <1>2. \E m \in Amounts : \A a \in Amounts : m >= a
    BY <1>1, BoundedInputs
  <1>3. Limit \in Amounts /\ \A a \in Amounts : Limit >= a
    BY <1>2 DEF Limit, Max
  <1> QED BY <1>1, <1>3

\* The calls in flight for one balance are no more than there are requests.
LEMMA PayingFinite ==
  ASSUME NEW P \in SUBSET Slots
  PROVE  /\ IsFiniteSet(P) /\ Cardinality(P) \in Nat /\ Width \in Nat
         /\ Cardinality(P) <= Width
         /\ \A c \in P : Cardinality(P \ {c}) = Cardinality(P) - 1
  <1>1. IsFiniteSet(Slots)
    BY BoundedInputs
  <1>2. IsFiniteSet(P) /\ Cardinality(P) <= Width
    BY <1>1, FS_Subset DEF Width
  <1>3. Cardinality(P) \in Nat /\ Width \in Nat
    BY <1>1, <1>2, FS_CardinalityType DEF Width
  <1>4. \A c \in P : Cardinality(P \ {c}) = Cardinality(P) - 1
    BY <1>2, FS_RemoveElement
  <1> QED BY <1>2, <1>3, <1>4

\* More room allows a deeper overdraft,
LEMMA RoomGrows ==
  ASSUME NEW x \in Nat, NEW y \in Nat, NEW m \in Nat, x <= y
  PROVE  /\ x * m \in Nat /\ y * m \in Nat
         /\ x * m <= y * m
  <1>1. x * m \in Nat /\ y * m \in Nat /\ (y - x) * m \in Nat
    BY MulNat
  <1>2. y * m = x * m + (y - x) * m
    OBVIOUS
  <1> QED BY <1>1, <1>2

\* and one call by one amount.
LEMMA RoomOfOne ==
  ASSUME NEW x \in Nat, NEW m \in Nat
  PROVE  (x + 1) * m = x * m + m /\ x * m \in Nat
  BY MulNat

\* A balance that grows while no call is added is still covered.
LEMMA CoveredGrows ==
  ASSUME NEW b \in Int, NEW d \in Int, NEW p \in Nat, NEW q \in Nat,
         Covered(b, p), d >= b, q <= p, p <= Width, Width \in Nat
  PROVE  Covered(d, q)
  <1>1. Width - p \in Nat /\ Width - q \in Nat /\ Width - p <= Width - q
    OBVIOUS
  <1>2. /\ (Width - p) * Limit \in Nat /\ (Width - q) * Limit \in Nat
        /\ (Width - p) * Limit <= (Width - q) * Limit
    BY <1>1, RoomGrows, LimitBounds
  <1> DEFINE v == (Width - p) * Limit
             w == (Width - q) * Limit
  <1>3. b >= 0 \/ b + v >= 0
    BY DEF Covered
  <1>4. v \in Nat /\ w \in Nat /\ v <= w
    BY <1>2
  <1> HIDE DEF v, w
  <1>5. d >= 0 \/ d + w >= 0
    BY <1>3, <1>4
  <1> QED BY <1>5 DEF Covered, w

\* So is one that a call takes its amount from.
LEMMA CoveredPays ==
  ASSUME NEW b \in Int, NEW d \in Int, NEW p \in Nat \ {0},
         Covered(b, p), d >= b - Limit, p <= Width, Width \in Nat
  PROVE  Covered(d, p - 1)
  <1>1. Width - p \in Nat /\ Width - (p - 1) = (Width - p) + 1
    OBVIOUS
  <1> DEFINE v == (Width - p) * Limit
             w == (Width - (p - 1)) * Limit
  <1>2. w = v + Limit /\ v \in Nat /\ Limit \in Nat
    BY <1>1, RoomOfOne, LimitBounds
  <1>3. b >= 0 \/ b + v >= 0
    BY DEF Covered
  <1> HIDE DEF v, w
  <1>4. d + w >= 0
    BY <1>2, <1>3
  <1> QED BY <1>4 DEF Covered, w

Room(u, t) == Covered(balances[u][t], Cardinality(Paying(u, t)))

\* What a step does to a balance and to the calls that are going to take from
\* it: the balance is not negative, or it grows and no call is added, or one
\* call takes its amount.
Fits(u, t) ==
  \/ balances'[u][t] >= 0
  \/ balances'[u][t] >= balances[u][t] /\ Paying(u, t)' \subseteq Paying(u, t)
  \/ /\ balances'[u][t] >= balances[u][t] - Limit
     /\ \E c \in Paying(u, t) : Paying(u, t)' = Paying(u, t) \ {c}

\* Each of the three keeps the overdraft bounded.
LEMMA FitsKeeps ==
  ASSUME NEW u \in Users, NEW t \in Tokens, LedgerType, LedgerType',
         Room(u, t), Fits(u, t)
  PROVE  Room(u, t)'
  <1> DEFINE b == balances[u][t]
             d == balances'[u][t]
             P == Paying(u, t)
             Q == Paying(u, t)'
  <1>1. b \in Int /\ d \in Int
    BY DEF LedgerType
  <1>2. P \in SUBSET Slots /\ Q \in SUBSET Slots
    BY DEF Paying
  <1>3. /\ Covered(b, Cardinality(P))
        /\ Room(u, t)' <=> Covered(d, Cardinality(Q))
        /\ \/ d >= 0
           \/ d >= b /\ Q \subseteq P
           \/ d >= b - Limit /\ \E c \in P : Q = P \ {c}
    BY DEF Room, Fits, Covered, Width, Limit
  <1> HIDE DEF b, d, P, Q
  <1>4. /\ IsFiniteSet(P) /\ Cardinality(P) \in Nat /\ Cardinality(Q) \in Nat
        /\ Cardinality(P) <= Width /\ Width \in Nat
        /\ \A c \in P : Cardinality(P \ {c}) = Cardinality(P) - 1
    BY <1>2, PayingFinite
  <1>5. CASE d >= 0
    BY <1>3, <1>5 DEF Covered
  <1>6. CASE d >= b /\ Q \subseteq P
    <2>1. Cardinality(Q) <= Cardinality(P)
      BY <1>4, <1>6, FS_Subset
    <2> QED BY <1>1, <1>3, <1>4, <1>6, <2>1, CoveredGrows
  <1>7. ASSUME d >= b - Limit, NEW c \in P, Q = P \ {c} PROVE Room(u, t)'
    <2>1. Cardinality(Q) = Cardinality(P) - 1
      BY <1>4, <1>7
    <2>2. Cardinality(P) \in Nat \ {0}
      BY <1>4, <2>1
    <2> QED BY <1>1, <1>3, <1>4, <1>7, <2>1, <2>2, CoveredPays
  <1> QED BY <1>3, <1>5, <1>6, <1>7

\* A call that does not pay is not one that is going to take.
LEMMA CallLeaves ==
  ASSUME CallsType, NEW c \in Slots, NEW k, k.pc # "paying",
         calls' = [calls EXCEPT ![c] = k], NEW u, NEW t
  PROVE  Paying(u, t)' = Paying(u, t) \ {c}
  <1>1. calls'[c] = k /\ \A s \in Slots : s # c => calls'[s] = calls[s]
    BY DEF CallsType
  <1> QED BY <1>1 DEF Paying

\* Calls that do not change leave the room to the balance.
LEMMA BalanceGrows ==
  ASSUME NEW u \in Users, NEW t \in Tokens, calls' = calls,
         balances'[u][t] >= balances[u][t]
  PROVE  Fits(u, t)
  <1>1. Paying(u, t)' = Paying(u, t)
    BY DEF Paying
  <1> QED BY <1>1 DEF Fits

\* An asynchronous swap looks at the balance it takes from.
LEMMA ExecuteAsyncFits ==
  ASSUME IndInv, NEW v \in Users, NEW from \in Tokens, NEW to \in Tokens,
         NEW amount \in Amounts, NEW quoted \in Quotes,
         ExecuteAsync(v, from, to, amount, quoted),
         NEW u \in Users, NEW t \in Tokens
  PROVE  Fits(u, t)
  <1>1. /\ balances \in [Users -> [Tokens -> Int]]
        /\ amount \in Int /\ -amount \in Int
    BY Parts, PayoutsNat DEF LedgerType
  <1>2. /\ balances' = Add(balances, v, from, -amount) /\ calls' = calls
        /\ balances[v][from] >= amount
    BY DEF ExecuteAsync, router
  <1>3. CASE u = v /\ t = from
    <2>1. balances'[u][t] = balances[u][t] + -amount /\ balances[u][t] \in Int
      BY <1>1, <1>2, <1>3, AddTo
    <2> QED BY <1>1, <1>2, <1>3, <2>1 DEF Fits
  <1>4. CASE ~(u = v /\ t = from)
    <2>1. balances'[u][t] = balances[u][t] /\ balances[u][t] \in Int
      BY <1>1, <1>2, <1>4, AddTo
    <2>2. balances'[u][t] >= balances[u][t]
      BY <2>1
    <2> QED BY <1>2, <2>2, BalanceGrows
  <1> QED BY <1>3, <1>4

\* The call that takes its amount is one that was going to.
LEMMA BookFits ==
  ASSUME IndInv, NEW c \in Slots, Book(c), NEW u \in Users, NEW t \in Tokens
  PROVE  Fits(u, t)
  <1> DEFINE k == calls[c]
             mid == Add(balances, k.user, k.from, -k.amountIn)
             r == [k EXCEPT !.pc = "stock"]
  <1>1. /\ balances \in [Users -> [Tokens -> Int]] /\ k \in OpenCall /\ CallsType
        /\ k.pc = "paying"
    BY Parts, OpenCallOf DEF LedgerType, Book, CallPcs
  <1>2. /\ k.user \in Users /\ k.from \in Tokens /\ k.to \in Tokens
        /\ k.amountIn \in Int /\ -k.amountIn \in Int /\ k.out \in Nat
        /\ k.amountIn \in Amounts /\ k.out \in Int
    BY <1>1, CallAmounts, PayoutsNat DEF OpenCall
  <1>3. k.amountIn <= Limit /\ Limit \in Nat
    BY <1>2, LimitBounds
  <1>4. /\ balances' = Add(mid, k.user, k.to, k.out)
        /\ calls' = [calls EXCEPT ![c] = r]
    BY DEF Book
  <1>5. r.pc # "paying"
    BY <1>1 DEF OpenCall
  <1>6. Paying(u, t)' = Paying(u, t) \ {c}
    <2> HIDE DEF r
    <2> QED BY <1>1, <1>4, <1>5, CallLeaves
  <1>7. c \in Paying(u, t) <=> u = k.user /\ t = k.from
    BY <1>1 DEF Paying
  <1>8. mid \in [Users -> [Tokens -> Int]]
    BY <1>1, <1>2, AddInt
  <1>9. /\ u = k.user /\ t = k.from => mid[u][t] = balances[u][t] + -k.amountIn
        /\ ~(u = k.user /\ t = k.from) => mid[u][t] = balances[u][t]
        /\ balances[u][t] \in Int /\ mid[u][t] \in Int
    <2> HIDE DEF k
    <2> QED BY <1>1, <1>2, <1>8, AddTo
  <1> HIDE DEF k, mid, r
  <1>10. balances'[u][t] >= mid[u][t]
    <2>1. \/ balances'[u][t] = mid[u][t] + k.out
          \/ balances'[u][t] = mid[u][t]
      BY <1>2, <1>4, <1>8, AddTo
    <2> QED BY <1>2, <1>9, <2>1
  <1>11. balances'[u][t] \in Int
    <2>1. balances' \in [Users -> [Tokens -> Int]]
      BY <1>2, <1>4, <1>8, AddInt
    <2> QED BY <2>1
  <1>12. CASE u = k.user /\ t = k.from
    <2>1. mid[u][t] = balances[u][t] - k.amountIn
      BY <1>2, <1>9, <1>12
    <2>2. balances'[u][t] >= balances[u][t] - Limit
      BY <1>2, <1>3, <1>9, <1>10, <1>11, <2>1
    <2> QED BY <1>6, <1>7, <1>12, <2>2 DEF Fits
  <1>13. CASE ~(u = k.user /\ t = k.from)
    BY <1>6, <1>9, <1>10, <1>13 DEF Fits
  <1> QED BY <1>12, <1>13

\* The other answers of a call: one that is allowed to pay has the balance,
\* the others take nothing.
LEMMA AnswerFits ==
  ASSUME IndInv, NEW c \in Slots, Answer(c), NEW u \in Users, NEW t \in Tokens
  PROVE  Fits(u, t)
  <1> DEFINE k == calls[c]
  <1>1. /\ balances[u][t] \in Int /\ CallsType
    BY Parts DEF LedgerType
  <1>2. CASE ChooseLocal(c)
    <2>1. k.pc = "balance" /\ balances' = balances /\ balances[k.user][k.from] >= k.amountIn
      BY <1>2 DEF ChooseLocal, ledger
    <2>2. k \in OpenCall /\ k.amountIn \in Nat /\ k.user \in Users /\ k.from \in Tokens
      BY <1>1, <2>1, OpenCallOf, CallAmounts DEF CallPcs
    <2>3. calls' = [calls EXCEPT ![c] = [k EXCEPT !.pc = "paying"]]
      BY <1>2 DEF ChooseLocal
    <2>4. CASE u = k.user /\ t = k.from
      BY <1>1, <2>1, <2>2, <2>4 DEF Fits
    <2>5. CASE ~(u = k.user /\ t = k.from)
      <3> DEFINE r == [k EXCEPT !.pc = "paying"]
      <3>1. r.user = k.user /\ r.from = k.from
        BY <2>2 DEF OpenCall
      <3> HIDE DEF r
      <3>2. calls'[c] = r /\ \A s \in Slots : s # c => calls'[s] = calls[s]
        BY <1>1, <2>3 DEF CallsType, r
      <3>3. Paying(u, t)' \subseteq Paying(u, t)
        BY <2>5, <3>1, <3>2 DEF Paying
      <3> QED BY <1>1, <2>1, <3>3 DEF Fits
    <2> QED BY <2>4, <2>5
  <1>3. ASSUME NEW r, r.pc # "paying", calls' = [calls EXCEPT ![c] = r],
               balances' = balances
        PROVE  Fits(u, t)
    <2>1. Paying(u, t)' = Paying(u, t) \ {c}
      BY <1>1, <1>3, CallLeaves
    <2>2. balances'[u][t] >= balances[u][t]
      BY <1>1, <1>3
    <2> QED BY <2>1, <2>2 DEF Fits
  <1>4. CASE Abandon(c) \/ EnsureRebalanceForDrift(c)
    BY <1>3, <1>4 DEF Abandon, EnsureRebalanceForDrift, NoCall, ledger
  <1>5. CASE \E q \in Quotes : ReadCapacity(c, q)
    <2> PICK q \in Quotes : ReadCapacity(c, q)
      BY <1>5
    <2> DEFINE x == [k EXCEPT !.pc = "balance"]
               y == [x EXCEPT !.out = MinOut(q)]
               r == [y EXCEPT !.local = inventory[k.to]]
    <2>1. k \in OpenCall
      BY <1>1, OpenCallOf DEF ReadCapacity, CallPcs
    <2>2. r.pc = "balance"
      BY <2>1 DEF OpenCall
    <2>3. calls' = [calls EXCEPT ![c] = r] /\ balances' = balances
      BY DEF ReadCapacity, ledger
    <2> HIDE DEF r
    <2> QED BY <1>3, <2>2, <2>3
  <1>6. CASE ApplyInstantSwap(c)
    <2> DEFINE r == [k EXCEPT !.pc = "drift"]
    <2>1. k \in OpenCall
      BY <1>1, <1>6, OpenCallOf DEF ApplyInstantSwap, CallPcs
    <2>2. r.pc = "drift"
      BY <2>1 DEF OpenCall
    <2>3. calls' = [calls EXCEPT ![c] = r] /\ balances' = balances
      BY <1>6 DEF ApplyInstantSwap, ledger
    <2> HIDE DEF r
    <2> QED BY <1>3, <2>2, <2>3
  <1> QED BY <1>2, <1>4, <1>5, <1>6, BookFits DEF Answer
\* A closed swap gives back what it took or pays what its job earned.
LEMMA PayFits ==
  ASSUME IndInv, PayOut \/ RefundSwap, NEW u \in Users, NEW t \in Tokens
  PROVE  Fits(u, t)
  <1> SUFFICES ASSUME NEW n, n = rebalances[worker.job].linked PROVE Fits(u, t)
    OBVIOUS
  <1>1. balances \in [Users -> [Tokens -> Int]] /\ calls' = calls
    BY Parts DEF LedgerType, PayOut, RefundSwap, router
  <1>2. \E v \in Users, x \in Tokens, d \in Nat : balances' = Add(balances, v, x, d)
    <2>1. CASE PayOut
      <3>1. balances' = Add(balances, swaps[n].user, swaps[n].to, Earned(rebalances[worker.job]))
        BY <2>1 DEF PayOut, SettleAsyncSwap
      <3>2. swaps[n].user \in Users /\ swaps[n].to \in Tokens
        BY <2>1, ClosingSwap DEF PayOut
      <3>3. Earned(rebalances[worker.job]) \in Nat
        <4>1. Earned(rebalances[worker.job]) \in Payouts
          BY <2>1, WorkerJob, EarnedType DEF PayOut
        <4> QED BY <4>1, PayoutsNat
      <3> QED BY <3>1, <3>2, <3>3
    <2>2. CASE RefundSwap
      <3>1. balances' = Add(balances, swaps[n].user, swaps[n].from, swaps[n].amountIn)
        BY <2>2 DEF RefundSwap, FailSwap
      <3>2. swaps[n].user \in Users /\ swaps[n].from \in Tokens /\ swaps[n].amountIn \in Amounts
        BY <2>2, ClosingSwap DEF RefundSwap
      <3>3. swaps[n].amountIn \in Nat
        BY <3>2, PayoutsNat
      <3> QED BY <3>1, <3>2, <3>3
    <2> QED BY <2>1, <2>2
  <1> PICK v \in Users, x \in Tokens, d \in Nat : balances' = Add(balances, v, x, d)
    BY <1>2
  <1>3. \/ balances'[u][t] = balances[u][t] + d
        \/ balances'[u][t] = balances[u][t]
    <2>1. d \in Int
      OBVIOUS
    <2>2. /\ u = v /\ t = x => Add(balances, v, x, d)[u][t] = balances[u][t] + d
          /\ ~(u = v /\ t = x) => Add(balances, v, x, d)[u][t] = balances[u][t]
      BY <1>1, <2>1, AddTo
    <2> QED BY <2>2
  <1>4. balances[u][t] \in Int
    BY <1>1
  <1>5. balances'[u][t] >= balances[u][t]
    BY <1>3, <1>4
  <1> QED BY <1>1, <1>5, BalanceGrows

\* Every step does one of the three to every balance.
LEMMA StepFits ==
  ASSUME IndInv, [Next]_vars, NEW u \in Users, NEW t \in Tokens
  PROVE  Fits(u, t)
  <1>1. balances[u][t] \in Int
    BY Parts DEF LedgerType
  <1>2. balances[u][t] >= balances[u][t]
    BY <1>1
  <1>3. ASSUME UNCHANGED <<balances, calls>> PROVE Fits(u, t)
    BY <1>2, <1>3, BalanceGrows
  <1>4. CASE Execute
    <2>1. ASSUME NEW c \in Slots, NEW v \in Users, NEW from \in Tokens, NEW to \in Tokens,
                 NEW a \in Amounts, Request(c, v, from, to, a)
          PROVE  Fits(u, t)
      <3> DEFINE r == [pc |-> "quoting", user |-> v, from |-> from, to |-> to,
                       amountIn |-> a, out |-> 0, local |-> 0]
      <3>1. calls' = [calls EXCEPT ![c] = r] /\ balances' = balances
        BY <2>1 DEF Request, ledger
      <3>2. r.pc # "paying"
        OBVIOUS
      <3> HIDE DEF r
      <3>3. Paying(u, t)' = Paying(u, t) \ {c}
        BY <3>1, <3>2, Parts, CallLeaves
      <3> QED BY <1>2, <3>1, <3>3 DEF Fits
    <2> QED BY <1>4, <2>1, ExecuteAsyncFits DEF Execute
  <1>5. ASSUME NEW c \in Slots, Answer(c) PROVE Fits(u, t)
    BY <1>5, AnswerFits
  <1>6. CASE Tick
    <2>1. CASE PayOut \/ RefundSwap
      BY <2>1, PayFits
    <2>2. CASE ~(PayOut \/ RefundSwap)
      BY <1>3, <1>6, <2>2 DEF Tick, Pick, Unhealthy, Healthy, Advance, Link, StartL1Swap,
           Broadcast, L1Error, Observe, GiveUp, SettleJob, ledger, router
    <2> QED BY <2>1, <2>2
  <1>7. CASE Exchange
    BY <1>3, <1>7 DEF Exchange, L1Executes, L1Rejects, ledger, router
  <1>8. CASE Restart
    <2>1. balances' = balances /\ Paying(u, t)' \subseteq Paying(u, t)
      BY <1>8 DEF Restart, ledger, Paying, NoCall
    <2> QED BY <1>2, <2>1 DEF Fits
  <1>9. CASE UNCHANGED vars
    BY <1>3, <1>9 DEF vars
  <1> QED BY <1>4, <1>5, <1>6, <1>7, <1>8, <1>9 DEF Next

\* Whatever calls overlap, a balance falls below zero by no more than one
\* amount for each other call that can be in flight.
THEOREM OverdraftStaysBounded == Spec => []OverdraftBounded
  <1>1. OverdraftBounded <=> \A u \in Users, t \in Tokens : Room(u, t)
    BY DEF OverdraftBounded, Room, Covered, Width, Limit
  <1>2. Init => OverdraftBounded
    BY <1>1, RouterInputs DEF Init, Room, Covered
  <1>3. IndInv /\ OverdraftBounded /\ [Next]_vars => OverdraftBounded'
    <2> SUFFICES ASSUME IndInv, [Next]_vars, NEW u \in Users, NEW t \in Tokens,
                        OverdraftBounded
                 PROVE  Room(u, t)'
      BY DEF OverdraftBounded, Room, Covered, Width, Limit
    <2>1. LedgerType /\ Room(u, t)
      BY <1>1, Parts
    <2>2. LedgerType'
      BY NextInv DEF IndInv, TypeOK, LedgerType
    <2> QED BY <2>1, <2>2, StepFits, FitsKeeps
  <1> QED BY <1>2, <1>3, Invariance, PTL DEF Spec
===============================================================================
