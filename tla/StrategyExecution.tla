-------------------------- MODULE StrategyExecution --------------------------
(***************************************************************************)
(* StrategyExecutionService and AutoStrategyWorker over StrategyService:   *)
(* signals, manual and automatic executions, the on-chain executor that    *)
(* consumes approvals, and the router, of which only AtomicSwap is used.   *)
(*                                                                         *)
(* Amounts are in units of one entry: an entry swaps one quote for one     *)
(* base, an exit swaps the managed base for as much quote.  Synchronous    *)
(* sections of the worker are several steps that nobody else's step can    *)
(* separate (Yielded).                                                     *)
(***************************************************************************)
EXTENDS StrategyStore, SequencesExt

CONSTANTS
    Runs,         \* manual executions that may be under way at once
    Owner,
    Base, Quote,
    Funds,        \* the owner's balances at first
    Payouts,      \* what swaps pay
    Deployments,  \* whether the executor contract may exist; testnet.json has none
    Conditions,   \* what the rules may say of a candle
    MaxCandles,   \* bound on candles
    MaxSwaps,     \* bound on swaps
    MaxRuns,      \* bound on approvals consumed
    MaxStops      \* bound on stops of the process

ASSUME ExecutionInputs == /\ Deployments \subseteq BOOLEAN
                          /\ Conditions \subseteq Signals
                          /\ "worker" \notin Runs

VARIABLES
    deployed,    \* whether the executor contract exists
    used,        \* nonces the executor contract has consumed
    candle,
    condition,   \* what the rules of every strategy say of the last candle
    balances, locked, deals,   \* AtomicSwap's
    executions,  \* strategy_execution_history: swap -> row, without no_action rows
    frames,      \* the manual executions and the one of the worker
    queue,       \* what is left of the tick's list of strategies
    up,          \* the process runs
    stops,
    swaps,       \* history: every swap a strategy began
    ran          \* history: the approvals that let a manual execution through

Router == INSTANCE AtomicSwap WITH
    Users <- {Owner}, Tokens <- {Base, Quote}, Amounts <- Payouts

routerVars == <<balances, locked, deals>>
executionVars == <<deployed, used, candle, condition, balances, locked, deals,
                   executions, frames, queue, up, stops, swaps, ran>>
vars == <<storeVars, executionVars>>

Worker == "worker"
Runners == Runs \cup {Worker}
Idle == [at |-> "idle"]

Init ==
    /\ StoreInit
    /\ Router!Init
    /\ deployed \in Deployments
    /\ used = {}
    /\ candle = 0
    /\ condition \in Conditions
    /\ executions = << >>
    /\ frames = [r \in Runners |-> Idle]
    /\ queue = {}
    /\ up = TRUE
    /\ stops = 0
    /\ swaps = << >>
    /\ ran = << >>

\* Between two awaits the worker shares the thread with nobody.
Yielded == up /\ frames[Worker].at # "next"

-----------------------------------------------------------------------------
(* Inspection: everything up to the first await is synchronous. *)

\* Mutant: the row keeps the state it was recorded with.
MutCompleted(row) == row.deal = None
\* enrichExecutionRecord: an asynchronous swap's row takes its job's state.
Completed(row) == row.deal = None \/ deals[row.deal].outcome = "paid"

Out(row) == IF row.deal = None THEN row.out ELSE deals[row.deal].out

\* getManagedPositionFromRecords, one row.
Apply(position, row) ==
    IF ~Completed(row) THEN position
    ELSE IF row.side = "entry" THEN position + Out(row)
    ELSE Max({0, position - row.amount})

\* One row after another, in the order of the swaps that they record.
Managed(s) ==
    LET held[n \in 0 .. Len(swaps)] ==
            IF n = 0 THEN 0
            ELSE IF n \in DOMAIN executions /\ executions[n].strategy = s
            THEN Apply(held[n - 1], executions[n])
            ELSE held[n - 1]
    IN  held[Len(swaps)]

\* resolveSignal.  A short exit is reported with or without a position.
Signal(s) ==
    IF condition = "exit" /\ Managed(s) = 0 THEN "none" ELSE condition

\* buildExecutionPlan: what the signal would swap, None for no action.
Plan(s) ==
    CASE Signal(s) = "entry" /\ Managed(s) = 0 /\ balances[Owner][Quote] > 0 ->
             [side |-> "entry", amount |-> 1]
      [] Signal(s) = "exit" /\ balances[Owner][Base] >= Managed(s) ->
             [side |-> "exit", amount |-> Managed(s)]
      [] OTHER -> None

\* History: at its inspection a run does not see a swap that is pending, nor one
\* that is not recorded because it is under way or was lost.
Recorded(i) == i \in DOMAIN executions
Unseen(s) ==
    \/ \E i \in DOMAIN swaps :
           /\ swaps[i].strategy = s
           /\ \/ ~Recorded(i)
              \/ swaps[i].deal # None /\ deals[swaps[i].deal].outcome = "pending"
    \/ \E r \in Runners :
           frames[r].at \in {"consume", "route"} /\ frames[r].strategy = s

Frame(s) ==
    [at |-> "consume", strategy |-> s, approval |-> ExecutionApproval(s),
     plan |-> Plan(s), blind |-> Unseen(s)]

\* The worker does not consume the approval; it marks what it evaluated.
WorkerFrame(s) ==
    [at |-> "route", strategy |-> s, plan |-> Plan(s),
     blind |-> Unseen(s), signal |-> Signal(s), candle |-> candle]

At(r, frame) == frames' = [frames EXCEPT ![r] = frame]

\* getAutoExecutionState writes what it finds.
Refreshed(s) == [autos EXCEPT ![s] = AutoState(s)]

\* executeApprovedStrategy for POST run-now and POST execution/execute.
RunNow(r, s) ==
    /\ Yielded
    /\ frames[r] = Idle
    /\ Len(ran) < MaxRuns
    /\ Exists(s)
    /\ ExecutionApproval(s) # None
    /\ autos' = Refreshed(s)
    /\ At(r, IF Plan(s) = None THEN Idle ELSE Frame(s))
    /\ UNCHANGED <<strategies, versions, approvals, signed, saving, clock,
                   deployed, used, candle, condition, routerVars, executions,
                   queue, up, stops, swaps, ran>>

\* Mutant: the contract takes a nonce again.
MutAccepts(a) == a.deadline >= clock
\* StrategyExecutor.consumeStrategyApproval does not revert.
Accepts(a) == a.deadline >= clock /\ a.nonce \notin used

Consumed(a) == {row \in Active(a.strategy) : row.nonce = a.nonce}

\* The transaction is mined (or there is no contract), then the row is updated;
\* when there is no such active row any more, the run ends with an error.
Consume(r) ==
    LET f == frames[r]
    IN  /\ Yielded
        /\ f.at = "consume"
        /\ deployed => Accepts(f.approval)
        /\ used' = IF deployed THEN used \cup {f.approval.nonce} ELSE used
        /\ approvals' = Restatus(Consumed(f.approval), "consumed")
        /\ IF Consumed(f.approval) = {}
           THEN At(r, Idle) /\ UNCHANGED ran
           ELSE /\ At(r, [f EXCEPT !.at = "route", !.approval = None])
                /\ ran' = Append(ran, f.approval)
        /\ UNCHANGED <<strategies, versions, autos, signed, saving, clock, deployed,
                       candle, condition, routerVars, executions, queue, up,
                       stops, swaps>>

\* The contract or the node refuses.
ConsumeFails(r) ==
    /\ Yielded
    /\ frames[r].at = "consume"
    /\ deployed
    /\ At(r, Idle)
    /\ UNCHANGED <<storeVars, deployed, used, candle, condition, routerVars,
                   executions, queue, up, stops, swaps, ran>>

\* The transaction is mined but its receipt does not come in time: the run ends
\* with an error and the row stays active.
ConsumeTimeout(r) ==
    LET f == frames[r]
    IN  /\ Yielded
        /\ f.at = "consume"
        /\ deployed
        /\ Accepts(f.approval)
        /\ used' = used \cup {f.approval.nonce}
        /\ At(r, Idle)
        /\ UNCHANGED <<storeVars, deployed, candle, condition, routerVars,
                       executions, queue, up, stops, swaps, ran>>

-----------------------------------------------------------------------------
(* The swap: the router's quotes and settlement are awaited, its booking is *)
(* not separated from the record of the execution.                          *)

From(plan) == IF plan.side = "entry" THEN Quote ELSE Base
To(plan) == IF plan.side = "entry" THEN Base ELSE Quote

Swap(f, deal) ==
    [strategy |-> f.strategy, side |-> f.plan.side, deal |-> deal,
     blind |-> f.blind]

\* LiquidityRouter.execute settles at once (deal is None) or opens a job.
Execute(f) ==
    /\ Len(swaps) < MaxSwaps
    /\ balances[Owner][From(f.plan)] >= f.plan.amount
    /\ \/ /\ Router!Trade(Owner, From(f.plan), To(f.plan), f.plan.amount, f.plan.amount)
          /\ swaps' = Append(swaps, Swap(f, None))
       \/ /\ Router!Open(Owner, From(f.plan), To(f.plan), f.plan.amount)
          /\ swaps' = Append(swaps, Swap(f, Len(deals) + 1))

\* recordExecution.
Row(f) == [strategy |-> f.strategy, side |-> f.plan.side, amount |-> f.plan.amount,
           out |-> f.plan.amount, deal |-> swaps'[Len(swaps')].deal]
Record(f) ==
    executions' = [n \in DOMAIN executions \cup {Len(swaps')} |->
                      IF n = Len(swaps') THEN Row(f) ELSE executions[n]]

Route(r) ==
    LET f == frames[r]
    IN  /\ Yielded
        /\ r # Worker
        /\ f.at = "route"
        /\ Execute(f)
        /\ Record(f)
        /\ At(r, Idle)
        /\ UNCHANGED <<storeVars, deployed, used, candle, condition, queue, up, stops,
                       ran>>

\* No quote, no liquidity or no funds.
RouteFails(r) ==
    /\ Yielded
    /\ r # Worker
    /\ frames[r].at = "route"
    /\ At(r, Idle)
    /\ UNCHANGED <<storeVars, deployed, used, candle, condition, routerVars,
                   executions, queue, up, stops, swaps, ran>>

-----------------------------------------------------------------------------
(* AutoStrategyWorker. *)

\* Mutant: the list is of the rows that are active after a refresh.
MutListed == {s \in Strategies : autos[s] # None /\ AutoState(s).status = "active"}
\* listActiveAutoExecutions.
Listed == {s \in Strategies : autos[s] # None /\ autos[s].status = "active"}

WorkerTick ==
    /\ Yielded
    /\ frames[Worker] = Idle
    /\ Listed # {}
    /\ queue' = Listed
    /\ At(Worker, [at |-> "next"])
    /\ UNCHANGED <<storeVars, deployed, used, candle, condition, routerVars,
                   executions, up, stops, swaps, ran>>

\* The item's strategy is gone: getAutoExecutionState throws outside the try (or
\* again in the catch), tick rejects, nobody handles it and the process ends.
Die == /\ up' = FALSE
       /\ frames' = [r \in Runners |-> Idle]
       /\ queue' = {}
       /\ saving' = None

\* Mutant: the status written is the one the worker read before it executed.
MutMarkedStatus(s, before) == before
\* markAutoExecutionEvaluation without a status keeps the one it reads.
MarkedStatus(s, before) == AutoState(s).status

Evaluated(s) == [AutoState(s) EXCEPT !.checked = candle, !.signal = Signal(s)]

\* The worker had nothing to await for s.
Evaluation(s) ==
    IF AutoState(s).status # "active" THEN AutoState(s)
    ELSE IF ExecutionApproval(s) = None
    THEN [AutoState(s) EXCEPT !.status = "needs_reactivation"]
    ELSE IF \/ Signal(s) = "short"
            \/ AutoState(s).checked = candle /\ AutoState(s).signal = Signal(s)
    THEN AutoState(s)
    ELSE Evaluated(s)

\* processStrategy up to its await: it has something to swap.
Executes(s) ==
    /\ AutoState(s).status = "active"
    /\ ExecutionApproval(s) # None
    /\ Plan(s) # None
    /\ ~(AutoState(s).checked = candle /\ AutoState(s).signal = Signal(s))

WorkerNext ==
    /\ up
    /\ frames[Worker].at = "next"
    /\ \/ /\ queue = {}
          /\ At(Worker, Idle)
          /\ UNCHANGED <<storeVars, queue, up>>
       \/ \E s \in queue :
              /\ ~Exists(s)
              /\ Die
              /\ UNCHANGED <<strategies, versions, approvals, autos, signed, clock>>
       \/ \E s \in queue :
              /\ Exists(s)
              /\ queue' = queue \ {s}
              /\ autos' = [autos EXCEPT ![s] =
                     IF Executes(s) THEN AutoState(s) ELSE Evaluation(s)]
              /\ At(Worker, IF Executes(s) THEN WorkerFrame(s)
                            ELSE [at |-> "next"])
              /\ UNCHANGED <<strategies, versions, approvals, signed, saving, clock, up>>
    /\ UNCHANGED <<deployed, used, candle, condition, routerVars, executions,
                   stops, swaps, ran>>

\* What follows the worker's await: the evaluation is marked, or the process ends.
Mark(f, marked) ==
    IF Exists(f.strategy)
    THEN /\ autos' = [autos EXCEPT ![f.strategy] = marked]
         /\ At(Worker, [at |-> "next"])
         /\ UNCHANGED <<saving, queue, up>>
    ELSE Die /\ UNCHANGED autos

WorkerRoute ==
    LET f == frames[Worker]
        s == f.strategy
    IN  /\ up
        /\ f.at = "route"
        /\ Execute(f)
        /\ Record(f)
        /\ Mark(f, [AutoState(s) EXCEPT !.status = MarkedStatus(s, "active"),
                                        !.checked = f.candle, !.signal = f.signal])
        /\ UNCHANGED <<strategies, versions, approvals, signed, clock, deployed, used,
                       candle, condition, stops, ran>>

\* Only the error is noted: the next tick tries again, on the same candle too.
WorkerRouteFails ==
    LET f == frames[Worker]
    IN  /\ up
        /\ f.at = "route"
        /\ Mark(f, AutoState(f.strategy))
        /\ UNCHANGED <<strategies, versions, approvals, signed, clock, deployed, used,
                       candle, condition, routerVars, executions, stops, swaps, ran>>

-----------------------------------------------------------------------------
(* The rest of the system. *)

Deletion(s) ==
    /\ Yielded
    /\ DeleteStrategy(s)
    /\ executions' = Restrict(executions,
           {n \in DOMAIN executions : executions[n].strategy # s})
    /\ UNCHANGED <<deployed, used, candle, condition, routerVars, frames, queue, up,
                   stops, swaps, ran>>

Store == Yielded /\ StoreNext /\ UNCHANGED executionVars

\* A candle closes, or the prices of the open one change.
Prices ==
    /\ Yielded
    /\ candle' \in {candle, candle + 1}
    /\ candle' <= MaxCandles
    /\ condition' \in Conditions
    /\ UNCHANGED <<storeVars, deployed, used, routerVars, executions, frames, queue,
                   up, stops, swaps, ran>>

\* The rebalance worker settles or refunds a job.
Settle ==
    /\ Yielded
    /\ \E d \in DOMAIN deals :
           Router!Pay(d, deals[d].amount) \/ Router!Refund(d)
    /\ UNCHANGED <<storeVars, deployed, used, candle, condition, executions, frames,
                   queue, up, stops, swaps, ran>>

\* The process stops between two awaits, in the middle of a write of a strategy, or
\* with a swap booked and not yet recorded.
Stop ==
    /\ up
    /\ stops < MaxStops
    /\ stops' = stops + 1
    /\ up' = FALSE
    /\ frames' = [r \in Runners |-> Idle]
    /\ queue' = {}
    /\ \/ StopStore /\ UNCHANGED <<routerVars, swaps>>
       \/ \E s \in Strategies : StopInWrite(s) /\ UNCHANGED <<routerVars, swaps>>
       \/ \E r \in Runners : /\ frames[r].at = "route"
                             /\ Execute(frames[r])
                             /\ StopStore
    /\ UNCHANGED <<deployed, used, candle, condition, executions, ran>>

Start ==
    /\ ~up
    /\ up' = TRUE
    /\ UNCHANGED <<storeVars, deployed, used, candle, condition, routerVars,
                   executions, frames, queue, stops, swaps, ran>>

Next ==
    \/ Store \/ Prices \/ Settle \/ Stop \/ Start
    \/ \E s \in Strategies : Deletion(s)
    \/ \E r \in Runs, s \in Strategies : RunNow(r, s)
    \/ \E r \in Runs : \/ Consume(r) \/ ConsumeFails(r) \/ ConsumeTimeout(r)
                       \/ Route(r) \/ RouteFails(r)
    \/ WorkerTick \/ WorkerNext \/ WorkerRoute \/ WorkerRouteFails

\* The process is started again, the worker's timer fires, its code runs, and the
\* router answers it one way or the other.
Fairness ==
    /\ WF_vars(Start)
    /\ WF_vars(WorkerTick)
    /\ WF_vars(WorkerNext)
    /\ WF_vars(WorkerRoute \/ WorkerRouteFails)

Spec == Init /\ [][Next]_vars /\ Fairness

-----------------------------------------------------------------------------
\* A strategy swaps twice on the same side (with nothing refunded in between) only
\* when one of the two runs could not see the other's swap: it was pending, under
\* way in another run, or booked and lost by a stop (strategyExecution.ts:501 counts
\* completed rows only).  It leaves twice also when an earlier run was blind, for two
\* runs may then have entered while a third was about to leave.
Repeats(i, j) ==
    /\ i < j
    /\ swaps[i].strategy = swaps[j].strategy
    /\ swaps[i].side = swaps[j].side
    /\ swaps[i].deal # None => deals[swaps[i].deal].outcome # "refunded"
    /\ \A k \in (i + 1) .. (j - 1) : swaps[k].strategy # swaps[j].strategy
RepeatsAreBlind ==
    \A i, j \in DOMAIN swaps : Repeats(i, j) =>
        \/ swaps[i].blind \/ swaps[j].blind
        \/ /\ swaps[j].side = "exit"
           /\ \E k \in 1 .. i : swaps[k].strategy = swaps[i].strategy /\ swaps[k].blind

\* Where the executor contract is deployed, a signed approval lets at most one
\* manual execution through to the router, whatever is signed, sent again, timed
\* out or deleted meanwhile (StrategyExecutor.sol:55; the store forgets a used
\* nonce with a deleted strategy and takes a consumed message again).
SignatureRunsOnce == deployed => IsInjective(ran)

\* Only the owner's activation, against a usable approval, makes an automatic
\* execution active: no evaluation that was under way when it was deactivated or
\* outdated brings it back (autoStrategyWorker.ts:115).
Reactivated(s) ==
    /\ autos'[s] # None /\ autos'[s].status = "active"
    /\ autos[s] = None \/ autos[s].status # "active"
OnlyActivationActivates ==
    [][\A s \in Strategies : Reactivated(s) =>
           \E expires \in Expiries : ActivateAutoExecution(s, expires)]_vars

\* An activation that has run out, or whose strategy was rewritten under it, does not
\* stay active unless its owner activates it again: the worker takes it out of the
\* list it works from, whatever fails or stops in between (autoStrategyWorker.ts:42).
Stale(s) == /\ Exists(s) /\ autos[s] # None
            /\ autos[s].status = "active"
            /\ AutoState(s).status # "active"
StaleActivationsEnd == \A s \in Strategies : Stale(s) ~> ~Stale(s)
=============================================================================
