---------------------------- MODULE LiquidityRouter ----------------------------
(***************************************************************************)
(* Swaps against the router: LiquidityRouter.execute, the job tables of    *)
(* InventoryService, the RebalanceWorker loop that drives them over the    *)
(* bridge and the L1 exchange, and the restart of the matcher.             *)
(*                                                                         *)
(* Everything runs on one event loop.  An action is what runs between two  *)
(* awaits, cut once more where StateStore.mutate flushes in the middle: a  *)
(* crash can fall between two flushes of one synchronous section, but no   *)
(* other handler can (Synchronous).  Every mutate flushes before it        *)
(* returns and none of these throws half way, so the store in memory and   *)
(* the file agree whenever a crash can happen and one copy stands for      *)
(* both.                                                                   *)
(*                                                                         *)
(* Amounts are atomic units of the local token; what the L1 reports is     *)
(* taken after scaleAtomic.                                                *)
(***************************************************************************)
EXTENDS Integers, Sequences, FiniteSetsExt, Functions

CONSTANTS
    Users,
    Tokens,       \* the two tokens of the routed market
    Amounts,      \* what users swap
    Quotes,       \* what the L1 exchange quotes and pays, 0 included
    SpreadBps,    \* ROUTER_QUOTE_SPREAD_BPS
    Funds,        \* deposits already credited, per user and token
    Bootstrap,    \* router inventory at the first start, per token
    Policy,       \* min, target and max inventory, per token
    Slots,        \* HTTP requests on the instant path at one time
    None,         \* actualAmountOutAtomic before the L1 answered
    MaxSwaps,     \* bound on asynchronous swaps
    MaxRequests,  \* bound on instant swaps
    MaxCrashes    \* bound on restarts

NoSwap == 0       \* a rebalance without linkedSwapJobId
NoJob == 0

ASSUME RouterInputs ==
    /\ Amounts \subseteq Nat
    /\ Quotes \subseteq Nat
    /\ None \notin Nat
    /\ SpreadBps \in 0..10000
    /\ Funds \in [Users -> [Tokens -> Nat]]
    /\ Bootstrap \in [Tokens -> Nat]
    /\ Policy \in [Tokens -> [min : Nat, target : Nat, max : Nat]]

\* One process holds the requests, and amounts are those of tokens of bounded
\* width.
ASSUME BoundedInputs ==
    /\ IsFiniteSet(Slots)
    /\ \E m \in Amounts : \A a \in Amounts : a <= m

VARIABLES
    balances,    \* AppState.balances
    locked,      \* AppState.locked
    inventory,   \* AppState.routerInventory
    swaps,       \* AppState.swapJobs
    rebalances,  \* AppState.rebalanceJobs
    worker,      \* where RebalanceWorker.tick stands, and its job and L1 swap
    calls,       \* execute calls on the instant path
    requests,    \* how many there were
    l1,          \* external: every swap transaction sent to the L1
    crashes      \* restarts so far

ledger == <<balances, locked>>
router == <<calls, requests>>
vars == <<balances, locked, inventory, swaps, rebalances, worker, calls,
          requests, l1, crashes>>

JobStates == {"queued", "bridging_out", "l1_swap", "settling_back",
              "completed", "failed"}
Finished == {"completed", "failed"}

\* Local liquidity is offered at the L1 quote less the spread.
MinOut(quoted) == (quoted * (10000 - SpreadBps)) \div 10000

\* What a swap can be quoted or credited.
Payouts == {0} \cup Quotes \cup {MinOut(q) : q \in Quotes}

SwapJob == [user : Users, from : Tokens, to : Tokens, amountIn : Amounts,
            quotedOut : Payouts, state : JobStates]
RebalanceJob == [input : Tokens, output : Tokens, amountIn : Nat,
                 minOut : Payouts, linked : Nat, state : JobStates,
                 actualOut : Payouts \cup {None}]
L1Swap == [job : Nat, status : {"pending", "executed", "rejected"}, out : Payouts]

Idle == [pc |-> "idle", job |-> NoJob]

SyncPcs == {"step", "link", "payout", "refund"}

NoCall == [pc |-> "free"]
CallPcs == {"quoting", "balance", "paying", "stock", "drift"}

\* A handler is between two flushes of one synchronous section.
Synchronous == \/ worker.pc \in SyncPcs
               \/ \E c \in Slots : calls[c].pc \in {"stock", "drift"}

-----------------------------------------------------------------------------
(* InventoryService. *)

Add(table, u, t, delta) == [table EXCEPT ![u][t] = @ + delta]

NewJob(input, output, amountIn, minOut, linked) ==
    [input |-> input, output |-> output, amountIn |-> amountIn,
     minOut |-> minOut, linked |-> linked, state |-> "queued",
     actualOut |-> None]

\* actualAmountOutAtomic ?? minAmountOutAtomic
Earned(job) == IF job.actualOut = None THEN job.minOut ELSE job.actualOut

Mark(i, state) ==
    swaps' = IF i = NoSwap THEN swaps
                           ELSE [swaps EXCEPT ![i].state = state]

\* Mutants: the swap keeps the amount it was quoted; the lock is kept.
MutKeepsQuote(i, out) ==
    LET s == swaps[i]
    IN  /\ locked' = Add(locked, s.user, s.from, -s.amountIn)
        /\ balances' = Add(balances, s.user, s.to, out)
        /\ swaps' = [swaps EXCEPT ![i].state = "completed"]
MutSettleAsyncSwap(i, out) ==
    LET s == swaps[i]
    IN  /\ balances' = Add(balances, s.user, s.to, out)
        /\ swaps' = [swaps EXCEPT ![i].state = "completed",
                                  ![i].quotedOut = out]
        /\ UNCHANGED locked
SettleAsyncSwap(i, out) ==
    LET s == swaps[i]
    IN  /\ locked' = Add(locked, s.user, s.from, -s.amountIn)
        /\ balances' = Add(balances, s.user, s.to, out)
        /\ swaps' = [swaps EXCEPT ![i].state = "completed",
                                  ![i].quotedOut = out]

\* Mutant: the refund is credited and the lock kept.
MutFailSwap(i) ==
    LET s == swaps[i]
    IN  /\ balances' = Add(balances, s.user, s.from, s.amountIn)
        /\ swaps' = [swaps EXCEPT ![i].state = "failed"]
        /\ UNCHANGED locked
FailSwap(i) ==
    LET s == swaps[i]
    IN  /\ locked' = Add(locked, s.user, s.from, -s.amountIn)
        /\ balances' = Add(balances, s.user, s.from, s.amountIn)
        /\ swaps' = [swaps EXCEPT ![i].state = "failed"]

SettleInventory(job) ==
    inventory' = [inventory EXCEPT ![job.input] = @ - job.amountIn,
                                   ![job.output] = @ + Earned(job)]

\* The drift that makes ensureRebalanceForDrift queue a job, and its size:
\* output atoms when the output is short, although the job sells the input.
Drifted(input, output) == \/ inventory[output] < Policy[output].min
                          \/ inventory[input] > Policy[input].max
DriftAmount(input, output, amountIn) ==
    LET excess == inventory[input] - Policy[input].target
    IN  IF inventory[output] < Policy[output].target
        THEN Policy[output].target - inventory[output]
        ELSE IF inventory[input] > Policy[input].max /\ excess > 0
             THEN excess
             ELSE amountIn

-----------------------------------------------------------------------------
Init ==
    /\ balances = Funds
    /\ locked = [u \in Users |-> [t \in Tokens |-> 0]]
    /\ inventory = Bootstrap
    /\ swaps = << >>
    /\ rebalances = << >>
    /\ worker = Idle
    /\ calls = [c \in Slots |-> NoCall]
    /\ requests = 0
    /\ l1 = << >>
    /\ crashes = 0

(* LiquidityRouter.execute. *)

\* Mutant: the balance is not checked again after the quote's awaits.
MutExecuteAsync(u, from, to, amount, quoted) ==
    /\ ~Synchronous
    /\ Len(swaps) < MaxSwaps
    /\ from # to
    /\ balances' = Add(balances, u, from, -amount)
    /\ locked' = Add(locked, u, from, amount)
    /\ swaps' = Append(swaps,
           [user |-> u, from |-> from, to |-> to, amountIn |-> amount,
            quotedOut |-> quoted, state |-> "queued"])
    /\ rebalances' = Append(rebalances,
           NewJob(from, to, amount, MinOut(quoted), Len(swaps) + 1))
    /\ UNCHANGED <<inventory, worker, router, l1, crashes>>

\* The quote chose the L1 route.  Between the end of the last await of quote
\* and createAsyncSwapJob nothing else runs, and none of its awaits leaves
\* anything behind, so the call is one step.
ExecuteAsync(u, from, to, amount, quoted) ==
    /\ ~Synchronous
    /\ Len(swaps) < MaxSwaps
    /\ from # to
    /\ balances[u][from] >= amount
    /\ balances' = Add(balances, u, from, -amount)
    /\ locked' = Add(locked, u, from, amount)
    /\ swaps' = Append(swaps,
           [user |-> u, from |-> from, to |-> to, amountIn |-> amount,
            quotedOut |-> quoted, state |-> "queued"])
    /\ rebalances' = Append(rebalances,
           NewJob(from, to, amount, MinOut(quoted), Len(swaps) + 1))
    /\ UNCHANGED <<inventory, worker, router, l1, crashes>>

\* An instant swap is requested; quote awaits the bridge and the L1 quote.
Request(c, u, from, to, amount) ==
    /\ ~Synchronous
    /\ calls[c] = NoCall
    /\ requests < MaxRequests
    /\ from # to
    /\ requests' = requests + 1
    /\ calls' = [calls EXCEPT ![c] =
           [pc |-> "quoting", user |-> u, from |-> from, to |-> to,
            amountIn |-> amount, out |-> 0, local |-> 0]]
    /\ UNCHANGED <<ledger, inventory, swaps, rebalances, worker, l1, crashes>>

\* The L1 quote is in: quote reads the router inventory, then awaits the
\* wallet balance.
ReadCapacity(c, quoted) ==
    /\ ~Synchronous
    /\ calls[c].pc = "quoting"
    /\ calls' = [calls EXCEPT ![c].pc = "balance",
                              ![c].out = MinOut(quoted),
                              ![c].local = inventory[calls[c].to]]
    /\ UNCHANGED <<ledger, inventory, swaps, rebalances, worker, requests, l1,
                   crashes>>

\* The wallet holds enough, the bridge is ready and the notional is small:
\* execute checks the balance and starts settleInstantLocalSwap.
ChooseLocal(c) ==
    LET k == calls[c]
    IN  /\ ~Synchronous
        /\ k.pc = "balance"
        /\ k.local >= k.out
        /\ balances[k.user][k.from] >= k.amountIn
        /\ calls' = [calls EXCEPT ![c].pc = "paying"]
        /\ UNCHANGED <<ledger, inventory, swaps, rebalances, worker, requests,
                       l1, crashes>>

\* Any exception of the call before the ledger is touched: too little balance
\* or liquidity, the L1 or the bridge not answering, a settlement error.
Abandon(c) ==
    /\ ~Synchronous
    /\ calls[c].pc \in {"quoting", "balance", "paying"}
    /\ calls' = [calls EXCEPT ![c] = NoCall]
    /\ UNCHANGED <<ledger, inventory, swaps, rebalances, worker, requests, l1,
                   crashes>>

\* Both settlement transactions are in: the user's balances are moved with no
\* second look at them.
Book(c) ==
    LET k == calls[c]
    IN  /\ ~Synchronous
        /\ k.pc = "paying"
        /\ balances' = Add(Add(balances, k.user, k.from, -k.amountIn),
                            k.user, k.to, k.out)
        /\ calls' = [calls EXCEPT ![c].pc = "stock"]
        /\ UNCHANGED <<locked, inventory, swaps, rebalances, worker, requests,
                       l1, crashes>>

ApplyInstantSwap(c) ==
    LET k == calls[c]
    IN  /\ k.pc = "stock"
        /\ inventory' = [inventory EXCEPT ![k.from] = @ + k.amountIn,
                                          ![k.to] = @ - k.out]
        /\ calls' = [calls EXCEPT ![c].pc = "drift"]
        /\ UNCHANGED <<ledger, swaps, rebalances, worker, requests, l1, crashes>>

EnsureRebalanceForDrift(c) ==
    LET k == calls[c]
    IN  /\ k.pc = "drift"
        /\ calls' = [calls EXCEPT ![c] = NoCall]
        /\ rebalances' =
               IF Drifted(k.from, k.to)
               THEN Append(rebalances,
                        NewJob(k.from, k.to, DriftAmount(k.from, k.to, k.amountIn),
                               k.out, NoSwap))
               ELSE rebalances
        /\ UNCHANGED <<ledger, inventory, swaps, worker, requests, l1, crashes>>

-----------------------------------------------------------------------------
(* RebalanceWorker.tick. *)

\* Mutant: a job whose L1 swap is done is not picked up again.
MutActive(state) == state \in {"queued", "bridging_out", "l1_swap"}
Active(state) ==
    state \in {"queued", "bridging_out", "l1_swap", "settling_back"}

\* rebalances.find: the oldest job that is not finished.
IsNext(j) == /\ Active(rebalances[j].state)
             /\ \A i \in DOMAIN rebalances :
                    Active(rebalances[i].state) => j <= i

\* The second mutate of a section, which only a linked swap has.
Then(job, pc) == IF rebalances[job].linked = NoSwap
                 THEN Idle
                 ELSE [pc |-> pc, job |-> job]

SetState(job, state) == rebalances' = [rebalances EXCEPT ![job].state = state]

Pick(j) ==
    /\ ~Synchronous
    /\ worker.pc = "idle"
    /\ IsNext(j)
    /\ worker' = [pc |-> "health", job |-> j]
    /\ UNCHANGED <<ledger, inventory, swaps, rebalances, router, l1, crashes>>

\* fail: the job is closed first, its swap is refunded by the next mutate.
Fail(job) ==
    /\ SetState(job, "failed")
    /\ worker' = Then(job, "refund")

Unhealthy ==
    /\ ~Synchronous
    /\ worker.pc = "health"
    /\ Fail(worker.job)
    /\ UNCHANGED <<ledger, inventory, swaps, router, l1, crashes>>

Healthy ==
    /\ ~Synchronous
    /\ worker.pc = "health"
    /\ Mark(rebalances[worker.job].linked, rebalances[worker.job].state)
    /\ worker' = [worker EXCEPT !.pc = "step"]
    /\ UNCHANGED <<ledger, inventory, rebalances, router, l1, crashes>>

Advance ==
    LET j == worker.job
    IN  /\ worker.pc = "step"
        /\ \/ rebalances[j].state = "queued" /\ SetState(j, "bridging_out")
           \/ rebalances[j].state = "bridging_out" /\ SetState(j, "l1_swap")
        /\ worker' = Then(j, "link")
        /\ UNCHANGED <<ledger, inventory, swaps, router, l1, crashes>>

\* The trailing markSwapState of advance and of the L1 swap.
Link ==
    LET j == worker.job
    IN  /\ worker.pc = "link"
        /\ Mark(rebalances[j].linked, rebalances[j].state)
        /\ worker' = Idle
        /\ UNCHANGED <<ledger, inventory, rebalances, router, l1, crashes>>

\* executeSwap is called; it resolves metadata, reads balances and signs.
StartL1Swap ==
    /\ worker.pc = "step"
    /\ rebalances[worker.job].state = "l1_swap"
    /\ worker' = [worker EXCEPT !.pc = "swapping"]
    /\ UNCHANGED <<ledger, inventory, swaps, rebalances, router, l1, crashes>>

Broadcast ==
    /\ ~Synchronous
    /\ worker.pc = "swapping"
    /\ l1' = Append(l1, [job |-> worker.job, status |-> "pending", out |-> 0])
    /\ worker' = [pc |-> "polling", job |-> worker.job, tx |-> Len(l1) + 1]
    /\ UNCHANGED <<ledger, inventory, swaps, rebalances, router, crashes>>

\* The swap was not sent, or it was and the answer to the broadcast is lost.
L1Error ==
    /\ ~Synchronous
    /\ worker.pc = "swapping"
    /\ \/ UNCHANGED l1
       \/ l1' = Append(l1, [job |-> worker.job, status |-> "pending", out |-> 0])
    /\ Fail(worker.job)
    /\ UNCHANGED <<ledger, inventory, swaps, router, crashes>>

\* Mutant: the state is not advanced, only the result is stored.
MutSwapped(j, out) ==
    rebalances' = [rebalances EXCEPT ![j].actualOut = out]
Swapped(j, out) ==
    rebalances' = [rebalances EXCEPT ![j].state = "settling_back",
                                     ![j].actualOut = out]

\* waitForSwapReturnAmount found the executed swap; an amount of 0 is falsy.
Observe ==
    LET j == worker.job
        tx == l1[worker.tx]
    IN  /\ ~Synchronous
        /\ worker.pc = "polling"
        /\ tx.status = "executed"
        /\ Swapped(j, IF tx.out # 0 THEN tx.out ELSE rebalances[j].minOut)
        /\ worker' = Then(j, "link")
        /\ UNCHANGED <<ledger, inventory, swaps, router, l1, crashes>>

\* After twenty attempts it returns undefined: the swap is not indexed yet, no
\* event was found, or the L1 rejected it and the error of every attempt was
\* swallowed by the catch around it.
GiveUp ==
    LET j == worker.job
    IN  /\ ~Synchronous
        /\ worker.pc = "polling"
        /\ Swapped(j, rebalances[j].minOut)
        /\ worker' = Then(j, "link")
        /\ UNCHANGED <<ledger, inventory, swaps, router, l1, crashes>>

SettleJob ==
    LET j == worker.job
    IN  /\ worker.pc = "step"
        /\ rebalances[j].state = "settling_back"
        /\ SettleInventory(rebalances[j])
        /\ SetState(j, "completed")
        /\ worker' = Then(j, "payout")
        /\ UNCHANGED <<ledger, swaps, router, l1, crashes>>

PayOut ==
    /\ worker.pc = "payout"
    /\ SettleAsyncSwap(rebalances[worker.job].linked,
                       Earned(rebalances[worker.job]))
    /\ worker' = Idle
    /\ UNCHANGED <<inventory, rebalances, router, l1, crashes>>

RefundSwap ==
    /\ worker.pc = "refund"
    /\ FailSwap(rebalances[worker.job].linked)
    /\ worker' = Idle
    /\ UNCHANGED <<inventory, rebalances, router, l1, crashes>>

-----------------------------------------------------------------------------
(* The L1 and the process. *)

L1Executes(k, out) ==
    /\ l1[k].status = "pending"
    /\ l1' = [l1 EXCEPT ![k].status = "executed", ![k].out = out]
    /\ UNCHANGED <<ledger, inventory, swaps, rebalances, worker, router, crashes>>

L1Rejects(k) ==
    /\ l1[k].status = "pending"
    /\ l1' = [l1 EXCEPT ![k].status = "rejected"]
    /\ UNCHANGED <<ledger, inventory, swaps, rebalances, worker, router, crashes>>

\* The matcher dies and is started again on its state file.
Restart ==
    /\ crashes < MaxCrashes
    /\ crashes' = crashes + 1
    /\ worker' = Idle
    /\ calls' = [c \in Slots |-> NoCall]
    /\ UNCHANGED <<ledger, inventory, swaps, rebalances, requests, l1>>

Execute ==
    \/ \E u \in Users, from, to \in Tokens, a \in Amounts, q \in Quotes :
           ExecuteAsync(u, from, to, a, q)
    \/ \E c \in Slots, u \in Users, from, to \in Tokens, a \in Amounts :
           Request(c, u, from, to, a)

Answer(c) ==
    \/ \E q \in Quotes : ReadCapacity(c, q)
    \/ ChooseLocal(c)
    \/ Abandon(c)
    \/ Book(c)
    \/ ApplyInstantSwap(c)
    \/ EnsureRebalanceForDrift(c)

Tick ==
    \/ \E j \in DOMAIN rebalances : Pick(j)
    \/ Unhealthy \/ Healthy \/ Advance \/ Link
    \/ StartL1Swap \/ Broadcast \/ L1Error \/ Observe \/ GiveUp
    \/ SettleJob \/ PayOut \/ RefundSwap

Exchange ==
    \E k \in DOMAIN l1 : \/ \E out \in Quotes : L1Executes(k, out)
                         \/ L1Rejects(k)

Next == Execute \/ (\E c \in Slots : Answer(c)) \/ Tick \/ Exchange \/ Restart

Spec == Init /\ [][Next]_vars

\* The loop runs while the process lives, polls a bounded number of times, and
\* every request it waits for is answered or times out.
FairSpec == /\ Spec
            /\ WF_vars(Tick)
            /\ \A c \in Slots : WF_vars(Answer(c))

-----------------------------------------------------------------------------
(* Properties. *)

\* Every variable has its type; in particular the job tables only hold states
\* of the worker's alphabet and amounts that are not negative.
TypeOK ==
    /\ balances \in [Users -> [Tokens -> Int]]
    /\ locked \in [Users -> [Tokens -> Int]]
    /\ inventory \in [Tokens -> Int]
    /\ swaps \in Seq(SwapJob)
    /\ rebalances \in Seq(RebalanceJob)
    /\ worker \in [pc : {"idle"}, job : {NoJob}]
                  \cup [pc : {"health", "swapping"} \cup SyncPcs,
                        job : DOMAIN rebalances]
                  \cup [pc : {"polling"}, job : DOMAIN rebalances,
                        tx : DOMAIN l1]
    /\ calls \in [Slots -> {NoCall} \cup
                           [pc : CallPcs, user : Users, from : Tokens,
                            to : Tokens, amountIn : Amounts, out : Payouts,
                            local : Int]]
    /\ requests \in Nat
    /\ l1 \in Seq(L1Swap)
    /\ crashes \in Nat

Live(i) == swaps[i].state \notin Finished

LockedBy(u, t) ==
    LET live == {i \in DOMAIN swaps : /\ Live(i)
                                       /\ swaps[i].user = u
                                       /\ swaps[i].from = t}
    IN  SumFunction([i \in live |-> swaps[i].amountIn])

\* What a user has locked is the input of the swaps that neither paid nor
\* refunded: no lock leaks through a restart, a failure or a payout, and none
\* is released twice (createAsyncSwapJob, settleAsyncSwap, failSwap).
LockedCoversSwaps ==
    \A u \in Users, t \in Tokens : locked[u][t] = LockedBy(u, t)

Progress(state) == CASE state = "queued"        -> 1
                     [] state = "bridging_out"  -> 2
                     [] state = "l1_swap"       -> 3
                     [] state = "settling_back" -> 4
                     [] OTHER                   -> 5

Follows(s, r) ==
    /\ r.input = s.from /\ r.output = s.to /\ r.amountIn = s.amountIn
    /\ s.state = "completed" => r.state = "completed" /\ s.quotedOut = Earned(r)
    /\ s.state = "failed" => r.state = "failed"
    /\ Progress(s.state) <= Progress(r.state)

\* The two records of a swap tell one story although they are written by
\* separate flushes: a swap is never ahead of its job, it ends the way the job
\* ended, and a completed swap was credited exactly what the job earned.
SwapFollowsJob ==
    \A j \in DOMAIN rebalances :
        rebalances[j].linked # NoSwap =>
            /\ rebalances[j].linked \in DOMAIN swaps
            /\ Follows(swaps[rebalances[j].linked], rebalances[j])

\* Every swap is driven by one job: two jobs on one swap would pay it twice.
OneJobPerSwap ==
    /\ \A i \in DOMAIN swaps : \E j \in DOMAIN rebalances : rebalances[j].linked = i
    /\ \A j, k \in DOMAIN rebalances :
           rebalances[j].linked = rebalances[k].linked /\ j # k
               => rebalances[j].linked = NoSwap

\* A swap whose job is finished and which nobody will finish any more.
Orphan(i) ==
    \E j \in DOMAIN rebalances :
        /\ rebalances[j].linked = i
        /\ rebalances[j].state \in Finished
        /\ Live(i)
        /\ ~(worker.pc \in {"payout", "refund"} /\ worker.job = j)

\* A job is swapped on the L1 once; only a crash while its transaction is out
\* makes the worker send it again (l1_swap is left by the same flush that
\* stores the result).
L1SwapsNeedCrashes ==
    \A j \in DOMAIN rebalances :
        Cardinality({k \in DOMAIN l1 : l1[k].job = j}) <= 1 + crashes

\* The worker serves the jobs in the order they were queued, one at a time: a
\* job that has been started is preceded by finished jobs only.
JobsInOrder ==
    \A j \in DOMAIN rebalances :
        \/ rebalances[j].state = "queued"
        \/ \A i \in 1..(j - 1) : rebalances[i].state \in Finished

Paying(u, t) == {c \in Slots : /\ calls[c].pc = "paying"
                               /\ calls[c].user = u
                               /\ calls[c].from = t}

\* execute does not look at the balance again after its settlement, so calls
\* that overlap may overdraw it; by no more than one amount for each of the
\* other calls that can be in flight, because an overdrawn user cannot start
\* another one.
OverdraftBounded ==
    \A u \in Users, t \in Tokens :
        \/ balances[u][t] >= 0
        \/ balances[u][t] + (Cardinality(Slots) - Cardinality(Paying(u, t)))
                                * Max(Amounts) >= 0

\* Mapping to AtomicSwap: the job tables, the worker, the bridge and the L1
\* disappear, a swap is open until its own record is closed.
Outcome(state) == CASE state = "completed" -> "paid"
                    [] state = "failed"    -> "refunded"
                    [] OTHER               -> "pending"

Deals == [i \in DOMAIN swaps |->
             [user |-> swaps[i].user, from |-> swaps[i].from,
              to |-> swaps[i].to, amount |-> swaps[i].amountIn,
              outcome |-> Outcome(swaps[i].state),
              out |-> IF swaps[i].state = "completed"
                      THEN swaps[i].quotedOut ELSE None]]

Promise == INSTANCE AtomicSwap WITH deals <- Deals

\* Whatever the worker, the bridge, the L1 and the restarts do, an asynchronous
\* swap is atomic for its user: locked funds are paid out or given back, once.
ImplementsAtomicSwap == Promise!Spec

\* Unless a crash orphaned it, every swap ends: the worker reaches it past all
\* earlier jobs, and each job is settled or failed.  Without a crash none is left
\* behind a finished job.
SwapsFinish ==
    \A i \in 1..MaxSwaps :
        i \in DOMAIN swaps ~>
            i \in DOMAIN swaps /\ (~Live(i) \/ (Orphan(i) /\ crashes > 0))
=============================================================================
