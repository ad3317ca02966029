# Sinergy: formal models of the matcher and its strategy agent

TLA+ modules, TLC configurations and TLAPS proofs for the parts of this
repository that move users' funds, trade on their behalf, or decide what they are
shown.  Paths below are relative to the repository root; `M/` stands for
`services/matcher/src/services/` and `A/` for `services/strategy-agent/src/services/`.

## 1. Inventory of the system

Sinergy is a private trading service on an Initia rollup.  One Node.js process,
the *matcher* (`services/matcher`), keeps an internal ledger of what users
deposited into on-chain vaults, matches their orders in private, routes swaps to
an L1 exchange over a bridge, and signs or proves withdrawals.  Its ledger is one
JSON file (`M/state.ts`): every `mutate` changes the object in memory and then
writes the whole file.  Strategies and prices live in SQLite next to it.  A second
process, the *strategy agent* (`services/strategy-agent`), answers users' goals by
calling the matcher's strategy tools, led by a language model.

| Component | State | Operations | Hard behaviour |
| --- | --- | --- | --- |
| State store `M/state.ts` | the whole `AppState`, in memory and on disk | `mutate`, `mutateAsync`, load | an exception inside `mutate` skips the flush; a crash falls between flushes |
| Matching engine `M/matcher.ts` | `orders`, `balances`, `locked` | place, match, cancel | truncating divisions, partial fills, price band, exceptions in the loop |
| Liquidity router `M/router.ts` | `balances`, `locked` | `quote`, `execute` | state read before an await and used after it |
| Router inventory `M/inventory.ts` | `routerInventory`, `swapJobs`, `rebalanceJobs` | create, settle, fail, drift | two records of one swap in separate flushes |
| Rebalance worker `M/rebalanceWorker.ts` | job states | one `tick` at a time | bridge and L1 failures, restarts, lost answers |
| L1 client `M/initiaDex.ts` | none | `simulateSwap`, `executeSwap` | broadcast and poll, errors swallowed by the poll |
| Vault service `M/vault.ts` | `balances`, `locked`, `pendingWithdrawals`, `withdrawalNonces`, `processed*`, `zkNotes` | sync deposit, quote, cancel, expire, sync withdrawal, settlement | signed tickets outlive their record; on-chain and off-chain steps interleave; one account's nonces |
| ZK notes `M/zkState.ts`, `M/zkProofs.ts` | `zkNotes` | select, lock, prove, release, spend | note locks that expire, roots anchored from a snapshot |
| Contracts `contracts/src` | nonces, nullifiers, known roots | deposit, withdraw, anchor, consume | replay protection |
| Bridge claims `M/bridgeClaims.ts` | `bridgeClaims` | claim, redeem | mint or burn first, record afterwards |
| Authentication `M/auth.ts` | one challenge per address | challenge, verify, refresh | a challenge is deleted after an await |
| Strategies `M/strategyService.ts` | SQLite tables | save, approve, consume, activate, delete | approval nonces, read-modify-write, rows that outlive each other |
| Live execution `M/strategyExecution.ts`, `M/autoStrategyWorker.ts` | execution history, automatic state | run, tick | a swap done and not recorded is done again; pending swaps are not seen |
| Strategy engine (validation, runtime, backtest, indicators, compiler) | none | pure functions | rules that never trigger, both sides at once |
| Strategy agent, sessions `A/sessionStore.ts` | sessions, turns and messages in SQLite | plan, run, read, prune | copies held across minutes of awaits |
| Strategy agent, runs `A/strategyAgent.ts`, `A/validationRepairLoop.ts` | the tool trace of a run | fast paths, tool loop, JSON loop, repair, enforcement | what the trace says against what is stored; fallbacks |
| Prices `M/priceService.ts`, `services/matcher/src/patchRecentPrices.ts` | one-minute bars in SQLite, latest prices | polling, backfill, gap patching, aggregation | overlapping polls, two processes on one table, page limits |

How they interact: every service of the matcher reads and writes the same
`AppState` object on one event loop, so two of them interleave only at awaits; the
vault service, the router and the workers also wait for chains, and all of the
matcher's transactions leave one account.  `index.ts` exposes the operations as
HTTP routes; the front end calls them in sequence around wallet transactions.  The
agent calls the strategy tools over HTTP, so between two of its calls anything may
happen to a draft.  The automatic worker turns what the rules say of a candle into
swaps; the price service gives both it and the matching engine their prices.

What makes each correct: the ledger neither creates nor loses tokens; what is
locked is exactly what open orders, swaps and withdrawals hold; orders trade in
price-time priority inside their limits; a swap pays out or refunds once; a
ticket, a nullifier, a challenge or an approval is used once; the worker reaches
every job; a restart loses nothing that was acknowledged; a signal is executed
once; an agent reports what it leaves behind; history shown is history stored.

## 2. Plan

Modelled and checked: everything in the table above but the parts section 6 names.
Proved: every safety invariant and action property that the runs check, but for
`RepairsEnd`.

## 3. Modules and code

Modules that one proof module covers together have prefixed names (`SessionsSpec`,
`EngineSpec`, `PricesSpec`); the others have `Spec`.  Every module of the matcher takes
it as one event loop.  An action is what runs between
two awaits; where a synchronous section flushes more than once it is cut there,
because a crash can fall between two flushes.  `StateStore` itself appears as the
`Flush` of `Matching` (memory and file are separate variables, since an exception
inside `mutate` skips the flush) and, in the other modules, as one copy that
stands for both: there every section flushes before it ends and none throws half
way.  `Restart` loads the file and forgets everything else.

### Matching

`orders`, `balances`, `locked` are the arrays of `AppState`; `disk` is the state
file; `matching` and `refPrice` are the stack frame of `tryMatch`; `executed` is
history, for the properties.  Time priority is the position in `orders`
(`createdAt` never decreases, the sort is stable).

| Action | Code in `M/matcher.ts` |
| --- | --- |
| `PlaceOrder` | `placeOrder` up to its first flush |
| `TryMatch`, `Fill` | one iteration of the loop that trades, with `reduceOrder` and the releases and refunds |
| `MatchReturn` | the loop returns and `mutate` flushes |
| `MatchThrow` | division by a reference price of zero: no flush |
| `CancelOrder` | `cancelOrder` |
| `Restart` | `StateStore.load` |

All divisions truncate as in the code.  `cancelOrder` divides by a literal 10^18;
the assumption `CancelUnitIsBaseUnit` states what makes that right, and
`deployments/*.json` lists only base tokens with 18 decimals.

### AtomicSwap and LiquidityRouter

`AtomicSwap` is what an asynchronous swap promises: `Open` locks the input, then
one `Pay` or one `Refund`.  `LiquidityRouter` is how the code keeps it:
`LiquidityRouter.execute`, the tables of `InventoryService`, the worker and the
L1.  `Deals` maps one to the other: job table, worker and exchange disappear.

| Actions | Code |
| --- | --- |
| `ExecuteAsync` | `execute` on the route through the L1, `createAsyncSwapJob` |
| `Request`, `ReadCapacity`, `ChooseLocal`, `Abandon`, `Book` | `quote` and `execute` on the instant path, cut at its awaits |
| `ApplyInstantSwap`, `EnsureRebalanceForDrift` | the two further mutates of that path |
| `Pick`, `Healthy`, `Unhealthy`, `Advance`, `Link` | `tick`: choice of the job, bridge health, `markSwapState`, state changes |
| `StartL1Swap`, `Broadcast`, `L1Error`, `Observe`, `GiveUp` | `executeSwap` and `waitForSwapReturnAmount` |
| `SettleJob`, `PayOut`, `RefundSwap` | `settleRebalance`, `settleAsyncSwap`, `failSwap` |
| `L1Executes`, `L1Rejects` | external: the exchange |

`worker.pc` says where the tick stands; the values in `SyncPcs` lie inside a
synchronous section, and `Synchronous` keeps other handlers out of it.  Amounts
are in units of the local token, after `scaleAtomic`.  `DriftAmount` is translated
as written: when the output token is short it takes the deficit, which is counted
in the output token, as the amount of the input token to sell.

### VaultWithdrawals

The legacy vault: deposits and signed tickets.  A ticket keeps its signature when
its record is dropped, so `signed` is separate from `pending`.  `deposits`, `paid`
and `custody` are the contract's.

| Actions | Code |
| --- | --- |
| `BuildWithdrawalQuote`, `CancelPendingWithdrawal`, `ReleaseExpiredWithdrawals` | the methods of `M/vault.ts` |
| `RequestSync`, `SyncDeposit`, `SyncWithdrawal`, `SyncFails` | the sync handlers, before and after the receipt is awaited |
| `Deposit`, `Withdraw` | `contracts/src/DarkPoolVault.sol` |
| `Trade` | what orders and swaps do to balances |

### ZkVault

The vault with proofs.  A deposit's index stands for its commitment, its nullifier
and its transaction; a root is the list of its leaves; a valid proof is a pair of
a note and a root that lists it.

| Actions | Code |
| --- | --- |
| `RequestDeposit`, `DraftDeposit`, `AnchorBatch`, `CommitDeposit` | `syncDeposit`: look, receipt, copy of the state and root, anchor, second look and commit |
| `PrepareWithdrawalPackage`, `SetNullifier`, `EnsureKnownRoot`, `GenerateProof`, `PackageFails` | `M/zkProofs.ts` and the note locks of `M/zkState.ts` |
| `CancelPendingWithdrawal`, `ReleaseExpiredLocks` | the cancel route, the release of old locks |
| `RequestWithdrawal`, `CommitWithdrawal`, `SyncFails` | `syncWithdrawal` |
| `Deposit`, `Withdraw` | `contracts/src/DarkVaultV2.sol` |

### MatcherSigner, BridgeClaims, MatcherAuth, Settlement, MatcherServer

`MatcherSigner` is one transaction of the matcher: read the account's nonce,
estimate, send, wait for a receipt, each an await that another request may use.
The node takes a second transaction of one nonce from nobody; a receipt may come
late or never, while the transaction is mined or lost.  `EstimateGas` and `Mine`
both run the call on the latest state, and only mining may revert unseen.  The
other three modules are handlers on it, and `MatcherServer` composes them: one
account, the slots that serve requests, and the routes with the sessions they ask
for.

| Actions | Code |
| --- | --- |
| `GetTransactionCount`, `EstimateGas`, `SendRawTransaction`, `ReceiptTimeout` | `sendMatcherTransaction` of `M/vault.ts`, `M/bridgeClaims.ts` |
| `Claim`, `RecordClaim`, `Redeem`, `CheckRedeem`, `RecordRedeem` | `M/bridgeClaims.ts` |
| `CreateChallenge`, `VerifyChallenge`, `RecoverSigner`, `RefreshToken` | `M/auth.ts` |
| `SettleInstantLocalSwap`, `SignWithdrawal`, `Book` | `settleInstantLocalSwap` and the ledger step of `execute` |
| `Mine`, `BridgeIn`, `BridgeOut`, `Transfer`, `VaultPays` | external: the chain and its other users |

### StrategyStore and StrategyExecution

`StrategyStore` is the tables of `M/strategyService.ts` for one owner; every
operation is synchronous but the saving of an approval, which recovers a signature
in the middle.  `StrategyExecution` extends it with the executions: it takes the
router as an instance of `AtomicSwap`, the abstract specification that
`LiquidityRouter` is shown to implement, so the two compose.

| Actions | Code |
| --- | --- |
| `CreateDraft` ... `DeleteStrategy`, `CreateExecutionIntent`, `BeginSaveApproval`, `EndSaveApproval`, `ActivateAutoExecution`, `DeactivateAutoExecution`, `ReadDashboard`, `StopInWrite` | `M/strategyService.ts`; a stop may fall inside `writeStrategy`, whose statements share no transaction |
| `RunNow`, `Consume`, `ConsumeFails`, `ConsumeTimeout`, `Route`, `RouteFails` | `executeApprovedStrategy`, cut at its awaits |
| `WorkerTick`, `WorkerNext`, `WorkerRoute`, `WorkerRouteFails` | `M/autoStrategyWorker.ts`; a write for a strategy deleted under it throws out of the loop (`Die`) |
| `Settle`, `Prices`, `Stop`, `Start` | outcome of an asynchronous swap, a new candle, restarts |

### AgentSessions and AgentRun

`AgentSessions` is the store of sessions and the requests that hold copies of its
rows; the order of `updated_at` is kept as the set of sessions updated after each.  `AgentRun` is one run: `run.stage` and `run.at` say where it stands, `trace`
is what the code later reads from the tool trace, and of a draft it matters whether
it validates, what a backtest earned, and how the code classifies it.  Verdicts on
drafts nobody has looked at are chosen when they are first seen.  The language
model is a free choice among the tools.  Stages are `fast` (creation, modification,
optimization), `native` (the tool loop), `fallback` (the loop of JSON decisions),
`emergency`, and the enforcement that ends the loops.

### StrategyRules, StrategyRepair, StrategyVariants, StrategyEngine

Pure functions: the catalog, templates and validation of `M/strategyCatalog.ts` and
`M/strategyValidation.ts`, with what normalization makes of any input (`IsDefinition`);
the repairs of `A/validationRepairLoop.ts`, each fix with the operand it picks; the candidates that an optimization writes over a draft
(`A/strategyAgent.ts:646-1016`).  `StrategyEngine` lets a stored draft go through
candidates, repairs and a backtest (`M/strategyRuntime.ts`, `M/strategyBacktest.ts`):
`TryCandidate`, `RepairOnce`, `EnforceCompletion`, `Candle`, `Finish`.  Indicators are
how the operands of each rule compare at a candle, chosen freely, "none" while one
has no value; so every course a backtest can take is among those checked.

### PriceCandles and PriceHistory

`PriceCandles` turns minutes into candles, pages and ranges; a candle is the set of
minutes it sums up.  `PriceHistory` is the service and the patching script on one
table.  Of a bar the source is kept: a feed, the script's interpolation (`patched`),
or the seed of an empty database (`fallback`).

| Actions | Code |
| --- | --- |
| `Poll`, `OracleAnswers`, `RangeAnswers`, `FeedFails`, `Restart` | `start`, `syncAll`, `syncConnectSymbol`, `syncTwelveDataRange`, the constructor of `M/priceService.ts` |
| `StartScript`, `Backfill`, `FindGaps`, `PatchGap`, `StopScript` | `backfill` of the service and `patchRecentPrices.ts` |

## 4. Runs

Each passing run checks its properties in every reachable state of its bounds.
The `MC` module of a component defines the values that a cfg cannot write and the
symmetry; request slots, users and sessions are interchangeable.  Runs with a
liveness property use no symmetry.

| Run | Question | Bounds, and why they are enough |
| --- | --- | --- |
| `matching` | is the book right, through rounding, exceptions and restarts, and does its loop end | two users, two markets, three orders; a base unit of 2 atoms makes half of the products truncate; quantities 1 and 3 give partial fills on both sides; prices fall inside and outside the band of a reference price, reference 0 throws.  Three orders are the fewest in which one order is filled by two others and priority is decided. |
| `router` | do both records of a swap and the user's funds agree, whatever fails, and does every swap end | two swaps, so that one job waits behind the other, an instant swap with the drift job it queues, one crash; inventories start near their policy limits |
| `vault` | do tickets, locks and custody agree | two users, two deposits, two tickets, amounts 1 and 2, a lifetime of one second and three moments: a ticket can be used before, at and after its deadline; two syncs at a time |
| `zk_vault` | do notes, packages, roots and custody agree | two users, two deposits of one amount (so that notes are confused by owner and amount), two requests at a time, a lock that expires after one unit |
| `zk_unspent` | a statement of `docs/darkvault-privacy.md` that the code does not keep | the smallest instance with the case |
| `server` | what overlapping claims, swaps and logins leave behind | two slots, four requests, one restart; a bridged balance of two and redemptions of one or two, a source denomination coarser than the token; one challenge, so that two verifications share it |
| `strategy_approvals` | is an approval used once | one strategy written twice, two nonces, an approval that lives two units and an activation that lives one, two executions that get as far as the contract |
| `strategy_execution` | is a signal executed once | entries and exits, one manual execution next to the worker, two swaps, an asynchronous one that may stay pending or be refunded, a stop anywhere |
| `agent_sessions` | what do old copies write back | three requests on two sessions of two owners, a store that holds one, one reading, one night: the third request meets what two overlapping ones left |
| `agent_run` | does a run report what it leaves, and end | each kind of goal, with and without a strategy; two candidates, two tools per loop, two corrections, one failing call anywhere, one edit of the owner |
| `strategy_engine` | do repairs end and break nothing; what can open a position | about a thousand drafts: templates, pairs of faulty and sound rules on the two sides, combinations of faulty settings; candidates with a legal and an illegal period; limits of two groups and two rules; three candles, the fewest with an entry, a reversal and an exit |
| `price_history` | are candles whole, do real bars survive, does the cache catch up | two feeds of the two kinds, two polls at a time, five minutes, so that a page of one two-minute candle is followed by another and a gap has room for both kinds of bars |

What the properties say is written above each of them.  The ones worth reading
first: `Conservation` and `DustBoundedByFills` (what truncation costs, and who
keeps it), `PriceTimePriority`; `ImplementsAtomicSwap`, `SwapsFinish`,
`OverdraftBounded`; the two `LedgerBacked` and `ClaimsAccounted` (every difference
between a ledger and a chain has a name); `OnlyOthersRevert`; `RepeatsAreBlind`
and `SignatureRunsOnce`; `ForgetsNeedOverlap`; `ReportedValidIsStored`; `RepairsEnd`;
`CandlesAreComplete`.

Deadlock is checked where no bound ends a behaviour.  It is off for the router, the
server, the strategies, the sessions, the agent's run, the engine and the prices:
they stop when their bounds on requests, swaps, candles or minutes are used up, and a
run of the agent, or a backtest, really ends.

### Fairness

`Matching!FairSpec`: weak fairness on the steps of the matching loop.  The loop is
synchronous, so nothing else runs until it returns or throws.  New orders and
restarts are not required to happen.

`LiquidityRouter!FairSpec`: weak fairness on `Tick` and on each slot's `Answer`.
`RebalanceWorker.start` runs `tick` for as long as the process lives; every await
in it is a bounded poll, a request that is answered, or one that fails, and the
model always offers the failing branch, so no fairness of the exchange is assumed.
Crashes are bounded: a process that is killed for ever finishes nothing.

`StrategyExecution!Fairness`: the process is started again, the worker's timer
fires, its synchronous code runs, and the router answers or fails.  Nothing is asked
of the owner or of the executor contract.

`AgentRun!FairSpec`: weak fairness on the run as a whole.  Each call of a tool or of
the model has a timeout, and failing is among the outcomes offered.

`PriceHistory!FairPricesSpec`: the timer fires again, and every request to a feed is
answered or fails; failures are bounded, since a feed that fails for ever does keep
the cache stale for ever (see below).  Nothing is asked of the script.

### What the violation run shows

`zk_unspent` (`M/vault.ts:623`): a withdrawal is synced after its note's lock was
released; the note is not found and stays unspent, although
`docs/darkvault-privacy.md:149` says the matcher marks it.

### Behaviour that the passing runs contain

The properties are exact about these; each is a term, a premise or an exception in
one of them, and a reader who changes the code should know them.

- *Ledger.*  Two overlapping instant swaps overdraw a balance, checked before the
  awaits and debited after them (`OverdraftBounded`; `M/router.ts:149`).  An L1 swap
  that was rejected is settled with its minimum output, because the error is thrown
  inside the `try` whose `catch` ignores everything (`M/initiaDex.ts:223`).  A cancel
  does not ask the chain, so a ticket that was paid gets its lock back; and the
  matcher treats the second of the deadline as expired, the contract does not (both
  terms of `LedgerBacked`).  Two overlapping syncs of one private withdrawal debit it
  twice (`DebitsBounded`).  Two deposits synced together anchor roots without each
  other, and no package can be made until a third is synced (`M/vault.ts:414`).
- *Server.*  Overlapping claims of one account mint twice; a burn that reverts is
  recorded as done, since no receipt's status is read; one challenge can give as many
  tokens as verifications overlap.
- *Strategies.*  The managed position counts completed swaps only, so a pending one
  is entered or left again; deleting a strategy forgets its nonces, which the
  contract still has; a consumed message can be saved again, and then fails on
  chain; deleting a strategy under a tick ends the worker's loop.
- *Agent.*  A reader or a plan sets a session's strategy back to the one it found; a
  run whose session was pruned brings it back with the answer alone, also when
  another owner has opened the id again.  With an engine an optimization leaves the
  last candidate, not the best.  The enforcement trusts the last validation in the
  trace.  A tool error in a fast path fails the request and leaves its draft.  The
  repairs of the JSON loop that `docs/trading-agent-tooling.md:250` describes need a
  strategy in the answer of `validate_strategy_draft`, which does not have one, and so
  never run.
- *Engine.*  The fix for a missing parameter sets the first operand that has such a
  parameter and says it succeeded, whether or not that was the faulty one; the
  fix for a price field knows five of the eight fields, and may overwrite a sound
  operand.  Groups without rules make two equal sides look different: the draft
  validates and never trades.  Where both entries trigger, an open position is
  reversed at every candle.
- *Prices.*  One failing feed keeps the reference prices of all assets as they were;
  the page after the oldest bar is one made-up bar at the present; bars that the
  script made up count as real ones from then on.

## 5. Proofs

TLAPS checks all eight proof modules with no gap.  They hold for every value of the
constants under the named assumptions, which TLC evaluates on each run.

| Module | Theorems | Assumptions |
| --- | --- | --- |
| `MatchingProofs` | `TypeCorrect`, `BookWellFormed`, `LimitsRespected`, `Durability`, `Priority`, `Conserved`, `RefundsCovered`, `DustBounded` | `MarketNames`, `InputAmounts`, `Units`, `CancelUnitIsBaseUnit`, `FundsAreAmounts`, `FiniteUsers` |
| `RouterProofs` | `TypeCorrect`, `SwapAndJobAgree`, `OneJobEach`, `InOrder`, `Atomicity`, `LocksAreSwaps`, `OneSwapPerCrash`, `OverdraftStaysBounded` | `RouterInputs`, `BoundedInputs` |
| `VaultProofs` | `NoncesNameTickets`, `TicketsHaveOneFate`, `VaultBacksLedger` | `VaultInputs`, `FiniteUsers` |
| `ZkVaultProofs` | `TypeCorrect`, `OneNoteEach`, `PackagesStayValid`, `Permanence`, `DebitsStayBounded`, `LedgerStaysBacked` | `ZkInputs`, `FiniteActors` |
| `ServerProofs` | `OneTransactionOut`, `ChallengesAreSpent`, `TransfersDoNotRevert`, `VaultCoversLedger`, `TokensAreAccounted`, `QuietNeverMintsTwice` | `FiniteSlots`, `ChallengeBound`, `Decimals`, `RedeemInputs`, `SwapInputs` |
| `StrategyProofs` | `StrategiesAreSound`, `OneUsableApproval`, `ANonceRunsOnce`, `OnlyTheOwnerActivates`, `NoRunRepeatsWhatItSees`, `SameRulesNeverTrade`, `RepairsBreakNothing`, `FeedsAreKept`, `ChartsAreComplete` | `StoreInputs`, `Sentinels`, `ExecutionInputs`, `RuleLimits`, `EngineInputs`, `PriceInputs` |
| `AgentProofs` | `AgentIsSound`, `ReportsAreTrue`, `PositivesStay`, `OwnDraftsAreAnswered`, `SessionsAreSound`, `TableStaysSmall`, `HistoriesAreWhole`, `NobodyForgetsAlone` | `RunInputs`, `SessionInputs` |
| `SumFacts` | lemmas on sums over finite sets, induction over numbers | none |

*Sums.*  The ledgers are compared by sums over users, orders, notes or transactions.
`SumFunctionOnSet` is a recursive function over the subsets of a finite set, so what it
does takes an induction.  The library's induction theorems have an operator for a
parameter, which the provers cannot instantiate; `SubsetInduction` takes a set of good
subsets in its place.  From it come `SumWithout` (one element can be taken out) and all
that the invariants need: one entry changes, an element comes or goes, two entries
trade, sums are monotone.

*Matching.*  The invariant joins types, well-formed orders, limits and durability.
None of the four is inductive alone: `MatchThrow` leaves the file behind memory
and `Restart` goes back to it, so whatever is claimed of memory must be claimed of
the file as well, and a cancel must be known to be in both.  The arithmetic is in
the lemmas on truncated quotients (`DivFacts`, `QuoteForFacts`,
`ReduceWithinLimit`): a fill loses less than an atom, so a limit is kept up to one
atom per fill.  `Conservation` needs both ledgers
typed; `LockedCoversOrders` and `DustBoundedByFills` follow from one stronger sentence,
that `locked` is what the open orders are owed plus the dust of the fills, said of the
file too (`CoverInv`).

*Router.*  `SwapFollowsJob`, `OneJobPerSwap` and `JobsInOrder` do not say what the
worker is about to do.  `WorkerInv` adds it: everything before its job is finished,
the job is still open until the section that closes it, and at `payout` or
`refund` the job is closed and its swap is not.  With it each step maps to `Open`,
`Pay`, `Refund`, `Trade` or a stutter of `AtomicSwap` (`StepMaps`).  `L1SwapsNeedCrashes` needs where each transaction is between
its broadcast and the link to its job (`SendInv`), and `OverdraftBounded` what each call in
flight checked and may still debit.

*Vault.*  The invariant adds that the contract pays only signed tickets and that a
withdrawal being synced has been paid.  With it each of the five sums of `LedgerBacked`
moves by the amount of the ticket or deposit that a step handles.

*ZkVault.*  The invariant adds what a request remembers across an await: the
deposit exists, the index of a note stays in range, a root lists that note at that
index, a checked root is known.  Two lemmas carry it: a step either relabels notes
without moving them or appends one.  The debits of a note are bounded by counting the
requests that may still make one.

*Server.*  One fact of the account carries all (`SignerInv`): at most one transaction
waits to be mined, it has the account's present nonce, and the one request that waits for
a receipt waits for it.  So what one request estimated is what its transaction meets,
unless someone else's came between.

*Strategies.*  What is written back after an await is still there, or its strategy is
deleted (`WorkerInv`); executions let through have nonces that the contract has used
(`RunInv`).

`RepeatsAreBlind` follows from what the managed position counts.  While no run of a
strategy was blind, the strategy holds one entry or nothing, as its last swap says, and
only that last swap can be unsettled (`PositionsInv`).  A run under way that is not blind
is the only one of its strategy, does not repeat the last swap, and what it saw settled
stays settled (`RunsInv`).  The managed position is a recursion over the swaps, so that one
swap more, or one more that is paid, is one step of it (`NumberInduction`).  The proof
refuted an earlier statement, which let nobody repeat an exit unless one of the two exits
was blind: with two manual runs next to the worker, both may enter while the worker is
about to leave, and then two runs leave, each seeing all there is.  The third disjunct
says so.

*Engine.*  A position exists only once the backtest has begun (`EngineInv`), so no
candidate and no repair changes the draft under it; equal groups trigger both sides or
neither (`SameGroupsNoSide`), whatever the rules compute.

That repairs add no faults is proved from the parts up.  The issues of a draft are joined
from those of its settings, triggers, groups, rules, operands and parameters, and so are
their codes (`JoinedCodes`, by induction over the parts; `CodesAre`).  A draft is what
normalization makes of any input (`IsDefinition`; `EngineInputs` asks it of the drafts),
and stays that through candidates and repairs (`DefinitionStored`).  Each fix then keeps
the codes but for the one it is told of, also where it picks another operand than the one
at fault (`FixKeeps`).  That is a matter of the catalog: a default is in its indicator's
range; a clamped parameter that is still too high was too high before, since the agent's
highest value is nowhere below the catalog's; and the rules that fixes add are sound.  A
code that a fix is told of was one of the draft's when the repair began, so the repair
keeps them, fix after fix (`RepairKeeps`).

*Prices.*  Each write of bars is a row of one asset in place of another
(`OneAssetChanges`), which keeps what a feed reported.  That charts are complete is an
argument about any set of minutes: the last rows a read takes are enough for one candle
more than the page shows, by counting (`PageIsEnd`); a candle that the read cuts is older
than those shown (`CutCandleNotShown`); a page that says there is more is never empty,
and the next one begins before its oldest candle, so the pages, by induction over their
number, leave none out (`PagesShowAll`).  It needs only that rows are at minutes up to the
present (`MinutesInv`).

*Agent.*  A run's place says what has been established: where it may have no draft,
where it has written one and not validated it, where a report may be old
(`OwnInv`, `FreshInv`, `BestInv`).  The enforcement needs that it works on a strategy, and
repairs only one whose report is not good or not fresh.  A larger instance refuted the
property as it stood: a validation lost in the loop, then the enforcement's own, then the
one after its repair leave the answer with a good report of a draft that was changed since
(`A/strategyAgent.ts:1551`: the report is replaced only by a good one).  It needs three
failing calls; the run allows one.  `Revalidates` and `loose` say so now.

*Sessions.*  A prune leaves at most the limit because updates are totally ordered: the
oldest survivor has all the others after it (`Oldest`, `FewSurvive`).  The table grows past
the limit only by requests whose session was deleted under them, so the invariant counts
those as well (`SizeInv`).  A request at work has its question stored or was pruned
(`AskedInv`).  A session that no two callers held has one holder at most, or only readers,
and each holds the strategy the session was last told of (`AloneInv`).

Proved, and not among the properties of a run any more: the types, `OrdersWellFormed`,
`ExecutionWithinLimits`, `OneTicketPerNonce`, `NotesMatchDeposits`, `PackagesVerify`,
`OneJobPerSwap`, `JobsInOrder`.

Only model-checked:

- the liveness properties, which are out of the provers' reach;
- `RepairsEnd`: it holds of enough rounds only.  How many are enough for every draft
  depends on which issues each fix brings up, round after round, and no invariant of one
  round says it.

## 6. Not modelled

- In the vaults: proofs made outside the matcher, the fallback package file,
  `confirmWithdrawal` (no caller), several tokens (records of different tokens
  never meet in a handler).  `ZkVault` and `LiquidityRouter` take a call to the chain
  as done or failed; `MatcherSigner` and `Settlement` cut it.
- The circuit, the verifier contract and the hash functions: a proof is valid
  exactly when its note is in its root.
- In the strategies: what indicators compute (`M/indicatorEngine.ts`), what the source
  compiler makes of a script (`M/strategySourceCompiler.ts`), the market analysis:
  floating point and text.  `StrategyEngine` takes any comparison and any signal
  instead.  Rows of stored backtests, the money of a backtest beyond whether any is
  left, the rate limiter and the request schemas of the tool API.
- In the agent: prompts, streams, the probing and choice of a model, the wording of
  answers.
- In the prices: the values of bars, the ranges and pauses into which a provider's
  history is cut, and a database that is locked by the other process.
- Front ends and deployment: they call the routes in an order the models leave free.
  Of the chart, the paging of candles is in `PriceCandles`.
