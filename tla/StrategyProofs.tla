---------------------------- MODULE StrategyProofs ----------------------------
(***************************************************************************)
(* The strategies, for any number of them, of runs, candles, stops and     *)
(* writes: what their store and their executions promise, what repairs do  *)
(* to a draft, when a backtest opens a position, which prices stay, and    *)
(* what charts show of them.                                               *)
(*                                                                         *)
(* The rows have their types (StoreTypes), and what the worker has listed  *)
(* still has a row, or its strategy is deleted (WorkerInv): that is what   *)
(* makes writing a row back after an await safe.  One approval at most is  *)
(* active (OneInv), and every run let through has a nonce of its own among *)
(* those the contract has consumed (RunInv), so none comes twice.          *)
(*                                                                         *)
(* As long as no run of a strategy was blind, it holds one entry or        *)
(* nothing, and only its last swap may be pending (PositionsInv: the       *)
(* managed position is a fold over the rows).  A run under way that is not *)
(* blind is alone, does not repeat the last swap, and what it saw settled  *)
(* is settled still (RunsInv).                                             *)
(*                                                                         *)
(* A backtest has begun wherever there is a position (EngineInv), so no    *)
(* draft changes under it.  Each write of prices keeps those of a feed     *)
(* (BarsInv).  What the charts show is a matter of counting: the rows that *)
(* are read for a page are enough for one candle more than it shows.       *)
(*                                                                         *)
(* A draft is always a definition (DefinitionStored), whose issues are the *)
(* codes of its parts; every fix, wherever it is applied, keeps them but   *)
(* for the one it was told of, and so does a repair, fix after fix.        *)
(***************************************************************************)
EXTENDS StrategyExecution, StrategyEngine, PriceHistory, SumFacts, FiniteSetTheorems, TLAPS

-----------------------------------------------------------------------------
(* Types. *)

StrategyRows == [status : {"draft", "saved"}, version : Nat]

\* An approval is a row with nothing but its columns.
IsApproval(a) == a = Approval(a, a.status)

\* What is signed for a strategy.
Message(m) == m.strategy \in Strategies /\ m.version \in Nat /\ m.deadline \in Nat

StoreTypes ==
  /\ strategies \in [Strategies -> {None, Deleted} \cup StrategyRows]
  /\ versions \in Nat /\ clock \in Nat
  /\ \A a \in approvals : IsApproval(a) /\ Message(a)
  /\ autos \in [Strategies -> {None} \cup AutoRows]
  /\ signed = None \/ Message(signed)
  /\ saving = None \/ Message(saving)

ExecutionTypes ==
  /\ candle \in Nat /\ condition \in Signals
  /\ queue \subseteq Strategies
  /\ frames = [r \in Runners |-> frames[r]]

TypeInv == StoreTypes /\ ExecutionTypes

\* The strategy has an activation's row, or is gone for good.
HasRow(s) == autos[s] \in AutoRows \/ strategies[s] = Deleted

\* What the worker holds across an await is still there.
WorkerInv ==
  /\ frames[Worker].at \in {"idle", "next", "route"}
  /\ \A s \in queue : HasRow(s)
  /\ frames[Worker].at = "route" =>
        /\ frames[Worker].strategy \in Strategies /\ HasRow(frames[Worker].strategy)
        /\ frames[Worker].candle \in Nat /\ frames[Worker].signal \in Signals

\* The worker's frame is its own.
LEMMA WorkerFrames ==
  /\ Worker \in Runners /\ Worker \notin Runs
  /\ Idle.at = "idle"
  BY ExecutionInputs DEF Worker, Runners, Idle
-----------------------------------------------------------------------------
(* Rows of activations. *)

\* A row is not the absence of one.
LEMMA RowIsNone == \A row \in AutoRows : row # None
  BY Sentinels

\* A row with another status.
LEMMA RowStatus ==
  ASSUME NEW row \in AutoRows, NEW st \in Statuses
  PROVE  /\ [row EXCEPT !.status = st] \in AutoRows
         /\ [row EXCEPT !.status = st].status = st
         /\ row.status \in Statuses
  BY DEF AutoRows

\* Reading a row back never makes it active.
LEMMA AutoStateRow ==
  ASSUME NEW s
  PROVE  /\ autos[s] = None => AutoState(s) = None
         /\ autos[s] \in AutoRows =>
               /\ AutoState(s) \in AutoRows
               /\ AutoState(s).status = "active" => autos[s].status = "active"
  <1>1. ASSUME autos[s] \in AutoRows
        PROVE  /\ AutoState(s) \in AutoRows
               /\ AutoState(s).status = "active" => autos[s].status = "active"
    <2> DEFINE row == autos[s]
    <2>1. /\ [row EXCEPT !.status = "needs_reactivation"] \in AutoRows
          /\ [row EXCEPT !.status = "needs_reactivation"].status = "needs_reactivation"
          /\ [row EXCEPT !.status = "expired"] \in AutoRows
          /\ [row EXCEPT !.status = "expired"].status = "expired"
      BY <1>1, RowStatus DEF Statuses
    <2>2. row # None /\ row \in AutoRows
      BY <1>1, RowIsNone
    <2>3. \/ AutoState(s) = row
          \/ AutoState(s) = [row EXCEPT !.status = "needs_reactivation"]
          \/ AutoState(s) = [row EXCEPT !.status = "expired"]
      BY <2>2 DEF AutoState
    <2> HIDE DEF row
    <2>4. AutoState(s) \in AutoRows /\ (AutoState(s).status = "active" => row.status = "active")
      BY <2>1, <2>2, <2>3
    <2> QED BY <2>4 DEF row
  <1>2. autos[s] = None => AutoState(s) = None
    BY DEF AutoState
  <1> QED BY <1>1, <1>2

\* A write of the strategy never makes its row active.
LEMMA OutdatedRow ==
  ASSUME NEW row
  PROVE  /\ row = None => Outdated(row) = None
         /\ row \in AutoRows => /\ Outdated(row) \in AutoRows
                                /\ Outdated(row).status = "active" => row.status = "active"
  <1>1. ASSUME row \in AutoRows
        PROVE  /\ Outdated(row) \in AutoRows
               /\ Outdated(row).status = "active" => row.status = "active"
    <2>1. /\ [row EXCEPT !.status = "needs_reactivation"] \in AutoRows
          /\ [row EXCEPT !.status = "needs_reactivation"].status = "needs_reactivation"
      BY <1>1, RowStatus DEF Statuses
    <2>2. Outdated(row) = row \/ Outdated(row) = [row EXCEPT !.status = "needs_reactivation"]
      BY DEF Outdated
    <2> QED BY <1>1, <2>1, <2>2
  <1> QED BY <1>1 DEF Outdated

\* What a step may do to the row of a strategy: only an activation makes it active,
\* and only with its strategy it goes.
Sound(s) ==
  /\ autos'[s] \in {None} \cup AutoRows
  /\ Reactivated(s) => \E expires \in Expiries : ActivateAutoExecution(s, expires)
  /\ HasRow(s) => autos'[s] \in AutoRows \/ strategies'[s] = Deleted

\* A row that is read, or written without becoming active.
Quieter(row, new) ==
  \/ new = row
  \/ /\ row \in AutoRows /\ new \in AutoRows
     /\ new.status = "active" => row.status = "active"

\* Rows that stay, or are only read, are sound.
LEMMA SoundRows ==
  ASSUME StoreTypes, NEW s \in Strategies, Quieter(autos[s], autos'[s]),
         strategies[s] = Deleted => strategies'[s] = Deleted
  PROVE  Sound(s)
  BY RowIsNone DEF StoreTypes, Sound, Quieter, Reactivated, HasRow

\* One row is written, the others stay.
LEMMA SoundOne ==
  ASSUME StoreTypes, NEW s \in Strategies, NEW row, autos' = [autos EXCEPT ![s] = row],
         Quieter(autos[s], row),
         \A z \in Strategies : strategies[z] = Deleted => strategies'[z] = Deleted
  PROVE  autos' \in [Strategies -> {None} \cup AutoRows] /\ \A z \in Strategies : Sound(z)
  <1>1. ASSUME NEW z \in Strategies PROVE Quieter(autos[z], autos'[z])
    BY DEF StoreTypes, Quieter
  <1>2. \A z \in Strategies : Sound(z)
    BY <1>1, SoundRows
  <1>3. autos' \in [Strategies -> {None} \cup AutoRows]
    BY <1>2 DEF StoreTypes, Sound
  <1> QED BY <1>2, <1>3

\* Nothing happens to rows or strategies.
LEMMA SoundSame ==
  ASSUME StoreTypes, UNCHANGED <<strategies, autos>>
  PROVE  \A s \in Strategies : Sound(s)
  BY SoundRows DEF Quieter
-----------------------------------------------------------------------------
(* Approvals. *)

\* Two active approvals of one strategy are one.
OneInv ==
  \A a, b \in approvals :
      (a.strategy = b.strategy /\ a.status = "active") /\ b.status = "active" => a = b

\* Rows that get a status that is not "active": those that still are, were.
LEMMA RestatusRows ==
  ASSUME StoreTypes, NEW rows \in SUBSET approvals, NEW st, st # "active"
  PROVE  \A a \in Restatus(rows, st) :
             /\ IsApproval(a) /\ Message(a)
             /\ a.status = "active" => a \in approvals /\ a \notin rows
  <1>1. ASSUME NEW a \in rows, NEW b, b = [a EXCEPT !.status = st]
        PROVE  IsApproval(b) /\ Message(b) /\ b.status = st
    <2>1. IsApproval(a) /\ Message(a)
      BY <1>1 DEF StoreTypes
    <2>2. b = Approval(a, st)
      BY <1>1, <2>1 DEF IsApproval, Approval
    <2> QED BY <2>1, <2>2 DEF IsApproval, Message, Approval
  <1>2. ASSUME NEW a \in Restatus(rows, st)
        PROVE  /\ IsApproval(a) /\ Message(a)
               /\ a.status = "active" => a \in approvals /\ a \notin rows
    <2>1. CASE a \in approvals \ rows
      BY <2>1 DEF StoreTypes
    <2>2. CASE \E b \in rows : a = [b EXCEPT !.status = st]
      BY <1>1, <2>2
    <2> QED BY <1>2, <2>1, <2>2 DEF Restatus
  <1> QED BY <1>2

\* Approvals that lose their activity, and get none, stay one at most.
LEMMA FewerActive ==
  ASSUME OneInv, \A a \in approvals' : a.status = "active" => a \in approvals
  PROVE  OneInv'
  BY DEF OneInv

\* The approval in use is a row of the strategy's.
LEMMA ApprovalInUse ==
  ASSUME NEW s, ExecutionApproval(s) # None
  PROVE  /\ ExecutionApproval(s) \in approvals /\ ExecutionApproval(s).strategy = s
         /\ ExecutionApproval(s).status = "active"
  <1>1. PICK a \in Active(s) : Usable(a)
    BY DEF ExecutionApproval
  <1>2. ExecutionApproval(s) \in {b \in Active(s) : Usable(b)}
    BY <1>1 DEF ExecutionApproval
  <1> QED BY <1>2 DEF Active
-----------------------------------------------------------------------------
(* The store's operations, one by one. *)

\* What each of them keeps.
StoreKept == StoreTypes' /\ OneInv' /\ \A s \in Strategies : Sound(s)

\* A strategy that exists is not one that was deleted.
LEMMA ExistingRow ==
  ASSUME StoreTypes, NEW s \in Strategies, Exists(s)
  PROVE  strategies[s] \in StrategyRows /\ strategies[s] # Deleted
  BY DEF StoreTypes, Exists

\* A write of a strategy that is not deleted.
LEMMA WriteKeeps ==
  ASSUME StoreTypes, OneInv, NEW s \in Strategies, strategies[s] # Deleted,
         NEW st \in {"draft", "saved"}, WriteStrategy(s, st)
  PROVE  StoreKept
  <1>1. /\ versions' = versions + 1
        /\ strategies' = [strategies EXCEPT ![s] = [status |-> st, version |-> versions + 1]]
        /\ approvals' = Restatus(Active(s), "superseded")
        /\ autos' = [autos EXCEPT ![s] = Outdated(autos[s])]
        /\ UNCHANGED <<signed, saving, clock>>
    BY DEF WriteStrategy
  <1>2. /\ strategies' \in [Strategies -> {None, Deleted} \cup StrategyRows]
        /\ versions' \in Nat /\ clock' \in Nat
    BY <1>1 DEF StoreTypes, StrategyRows
  <1>3. \A a \in approvals' : /\ IsApproval(a) /\ Message(a)
                              /\ a.status = "active" => a \in approvals
    BY <1>1, RestatusRows DEF Active
  <1>4. \A z \in Strategies : strategies[z] = Deleted => strategies'[z] = Deleted
    BY <1>1 DEF StoreTypes
  <1>5. Quieter(autos[s], Outdated(autos[s]))
    BY OutdatedRow DEF StoreTypes, Quieter
  <1>6. autos' \in [Strategies -> {None} \cup AutoRows] /\ \A z \in Strategies : Sound(z)
    BY <1>1, <1>4, <1>5, SoundOne
  <1>7. StoreTypes'
    BY <1>1, <1>2, <1>3, <1>6 DEF StoreTypes, Message
  <1> QED BY <1>3, <1>6, <1>7, FewerActive DEF StoreKept

\* A deletion takes the strategy's rows with it.
LEMMA DeleteKeeps ==
  ASSUME StoreTypes, OneInv, NEW s \in Strategies, DeleteStrategy(s)
  PROVE  StoreKept
  <1>1. /\ strategies' = [strategies EXCEPT ![s] = Deleted]
        /\ approvals' = {a \in approvals : a.strategy # s}
        /\ autos' = [autos EXCEPT ![s] = None]
        /\ UNCHANGED <<versions, signed, saving, clock>>
    BY DEF DeleteStrategy
  <1>2. ASSUME NEW z \in Strategies PROVE Sound(z)
    <2>1. CASE z = s
      BY <1>1, <2>1 DEF StoreTypes, Sound, Reactivated
    <2>2. CASE z # s
      BY <1>1, <2>2, SoundRows DEF StoreTypes, Quieter
    <2> QED BY <2>1, <2>2
  <1>3. StoreTypes'
    BY <1>1 DEF StoreTypes, Message
  <1> QED BY <1>1, <1>2, <1>3, FewerActive DEF StoreKept

\* The signed message is stored, and what was active is not any more.
LEMMA ApproveKeeps ==
  ASSUME StoreTypes, OneInv, EndSaveApproval
  PROVE  StoreKept
  <1>1. /\ saving # None /\ saving' = None
        /\ approvals' = approvals \/ approvals' = NewApprovals(saving)
        /\ UNCHANGED <<strategies, versions, autos, signed, clock>>
    BY DEF EndSaveApproval
  <1> DEFINE new == Approval(saving, "active")
             rows == Active(saving.strategy)
  <1>2. Message(saving)
    BY <1>1 DEF StoreTypes
  <1>3. IsApproval(new) /\ Message(new) /\ new.strategy = saving.strategy /\ new.status = "active"
    BY <1>2 DEF IsApproval, Message, Approval
  <1> HIDE DEF new
  <1>4. CASE approvals' = Restatus(rows, "superseded") \cup {new}
    <2>1. \A a \in Restatus(rows, "superseded") :
             /\ IsApproval(a) /\ Message(a)
             /\ a.status = "active" => a \in approvals /\ a \notin rows
      BY RestatusRows DEF Active
    <2>2. \A a \in Restatus(rows, "superseded") :
              a.status = "active" => a \in approvals /\ a.strategy # new.strategy
      BY <1>3, <2>1 DEF Active
    <2>3. OneInv'
      BY <1>4, <2>2 DEF OneInv
    <2>4. StoreTypes'
      BY <1>1, <1>3, <1>4, <2>1 DEF StoreTypes, Message
    <2> QED BY <1>1, <2>3, <2>4, SoundSame DEF StoreKept
  <1>5. CASE approvals' = approvals
    <2>1. StoreTypes' /\ OneInv'
      BY <1>1, <1>5 DEF StoreTypes, OneInv, Message
    <2> QED BY <1>1, <2>1, SoundSame DEF StoreKept
  <1> QED BY <1>1, <1>4, <1>5 DEF NewApprovals, new

\* The owner activates: the one way in which a row becomes active.
LEMMA ActivateKeeps ==
  ASSUME StoreTypes, OneInv, NEW s \in Strategies, NEW expires \in Expiries,
         ActivateAutoExecution(s, expires)
  PROVE  StoreKept
  <1> DEFINE approval == ExecutionApproval(s)
             checked == IF autos[s] = None THEN None ELSE autos[s].checked
             signal == IF autos[s] = None THEN None ELSE autos[s].signal
             row == [status |-> "active", version |-> strategies[s].version,
                     deadline |-> approval.deadline, expires |-> expires,
                     checked |-> checked, signal |-> signal]
  <1>1. /\ Exists(s) /\ approval # None
        /\ autos' = [autos EXCEPT ![s] = row]
        /\ UNCHANGED <<strategies, versions, approvals, signed, saving, clock>>
    BY DEF ActivateAutoExecution, Saved
  <1>2. approval.deadline \in Nat
    BY <1>1, ApprovalInUse DEF StoreTypes, Message
  <1>3. strategies[s].version \in Nat
    BY <1>1, ExistingRow DEF StrategyRows
  <1>4. checked \in Nat \cup {None} /\ signal \in Signals \cup {None}
    <2>1. autos[s] = None \/ autos[s] \in AutoRows
      BY DEF StoreTypes
    <2> QED BY <2>1 DEF AutoRows
  <1> HIDE DEF approval, checked, signal
  <1>5. row \in AutoRows
    BY <1>2, <1>3, <1>4, StoreInputs DEF AutoRows, Statuses
  <1> HIDE DEF row
  <1>6. autos' \in [Strategies -> {None} \cup AutoRows]
    BY <1>1, <1>5 DEF StoreTypes
  <1>7. ASSUME NEW z \in Strategies PROVE Sound(z)
    <2>1. CASE z = s
      BY <1>1, <1>5, <2>1 DEF StoreTypes, Sound
    <2>2. CASE z # s
      BY <1>1, <2>2, SoundRows DEF StoreTypes, Quieter
    <2> QED BY <2>1, <2>2
  <1>8. StoreTypes' /\ OneInv'
    BY <1>1, <1>6 DEF StoreTypes, OneInv, Message
  <1> QED BY <1>7, <1>8 DEF StoreKept

\* A row that is read is written back as it reads.
LEMMA ReadKeeps ==
  ASSUME StoreTypes, OneInv, NEW s \in Strategies, autos' = [autos EXCEPT ![s] = AutoState(s)],
         UNCHANGED <<strategies, versions, approvals, signed, saving, clock>>
  PROVE  StoreKept
  <1>1. Quieter(autos[s], AutoState(s))
    BY AutoStateRow DEF StoreTypes, Quieter
  <1>2. autos' \in [Strategies -> {None} \cup AutoRows] /\ \A z \in Strategies : Sound(z)
    BY <1>1, SoundOne
  <1>3. StoreTypes' /\ OneInv'
    BY <1>2 DEF StoreTypes, OneInv, Message
  <1> QED BY <1>2, <1>3 DEF StoreKept

\* A deactivation.
LEMMA DeactivateKeeps ==
  ASSUME StoreTypes, OneInv, NEW s \in Strategies, DeactivateAutoExecution(s)
  PROVE  StoreKept
  <1> DEFINE st == IF AutoState(s).status \in {"expired", "needs_reactivation"}
                   THEN AutoState(s).status ELSE "inactive"
             row == [autos[s] EXCEPT !.status = st]
  <1>1. /\ autos[s] # None /\ autos' = [autos EXCEPT ![s] = row]
        /\ UNCHANGED <<strategies, versions, approvals, signed, saving, clock>>
    BY DEF DeactivateAutoExecution
  <1>2. autos[s] \in AutoRows /\ st \in Statuses /\ st # "active"
    BY <1>1 DEF StoreTypes, Statuses
  <1> HIDE DEF st
  <1>3. Quieter(autos[s], row)
    BY <1>2, RowStatus DEF Quieter
  <1> HIDE DEF row
  <1>4. autos' \in [Strategies -> {None} \cup AutoRows] /\ \A z \in Strategies : Sound(z)
    BY <1>1, <1>3, SoundOne
  <1>5. StoreTypes' /\ OneInv'
    BY <1>1, <1>4 DEF StoreTypes, OneInv, Message
  <1> QED BY <1>4, <1>5 DEF StoreKept

\* The dashboard reads every row.
LEMMA DashboardKeeps ==
  ASSUME StoreTypes, OneInv, ReadDashboard
  PROVE  StoreKept
  <1>1. /\ autos' = [s \in Strategies |-> IF Exists(s) THEN AutoState(s) ELSE autos[s]]
        /\ UNCHANGED <<strategies, versions, approvals, signed, saving, clock>>
    BY DEF ReadDashboard
  <1>2. ASSUME NEW s \in Strategies PROVE Sound(s)
    <2>1. Quieter(autos[s], AutoState(s))
      BY AutoStateRow DEF StoreTypes, Quieter
    <2>2. Quieter(autos[s], autos'[s])
      BY <1>1, <2>1 DEF Quieter
    <2> QED BY <1>1, <2>2, SoundRows
  <1>3. autos' \in [Strategies -> {None} \cup AutoRows]
    BY <1>1, <1>2 DEF Sound
  <1>4. StoreTypes' /\ OneInv'
    BY <1>1, <1>3 DEF StoreTypes, OneInv, Message
  <1> QED BY <1>2, <1>4 DEF StoreKept

\* Nothing of the store changes but what is signed or being saved, or the clock.
LEMMA StoreSame ==
  ASSUME StoreTypes, OneInv, UNCHANGED <<strategies, versions, approvals, autos>>,
         signed' = None \/ Message(signed'), saving' = None \/ Message(saving'), clock' \in Nat
  PROVE  StoreKept
  <1>1. StoreTypes' /\ OneInv'
    BY DEF StoreTypes, OneInv, Message
  <1> QED BY <1>1, SoundSame DEF StoreKept

\* Every operation of the store.
LEMMA StoreNextKeeps ==
  ASSUME StoreTypes, OneInv, StoreNext
  PROVE  StoreKept
  <1>1. ASSUME NEW s \in Strategies,
               CreateDraft(s) \/ CloneTemplate(s) \/ UpdateDraft(s) \/ SaveStrategy(s)
        PROVE  StoreKept
    <2>1. strategies[s] # Deleted
      BY <1>1, ExistingRow, Sentinels
         DEF CreateDraft, CloneTemplate, UpdateDraft, SaveStrategy, Exists
    <2>2. WriteStrategy(s, "draft") \/ WriteStrategy(s, "saved")
      BY <1>1 DEF CreateDraft, CloneTemplate, UpdateDraft, SaveStrategy
    <2> QED BY <2>1, <2>2, WriteKeeps
  <1>2. ASSUME NEW s \in Strategies, NEW ttl \in ApprovalTtls, CreateExecutionIntent(s, ttl)
        PROVE  StoreKept
    <2> DEFINE m == [strategy |-> s, version |-> strategies[s].version,
                     nonce |-> NextApprovalNonce, deadline |-> clock + ttl]
    <2>1. /\ Exists(s) /\ signed' = m
          /\ UNCHANGED <<strategies, versions, approvals, autos, saving, clock>>
      BY <1>2 DEF CreateExecutionIntent, Saved
    <2>2. strategies[s].version \in Nat
      BY <2>1, ExistingRow DEF StrategyRows
    <2>3. clock + ttl \in Nat
      BY StoreInputs DEF StoreTypes
    <2>4. Message(m)
      BY <2>2, <2>3 DEF Message
    <2> HIDE DEF m
    <2>5. Message(signed')
      BY <2>1, <2>4
    <2>6. (saving' = None \/ Message(saving')) /\ clock' \in Nat
      BY <2>1 DEF StoreTypes
    <2> QED BY <2>1, <2>5, <2>6, StoreSame
  <1>3. ASSUME NEW s \in Strategies, NEW expires \in Expiries, ActivateAutoExecution(s, expires)
        PROVE  StoreKept
    BY <1>3, ActivateKeeps
  <1>4. ASSUME NEW s \in Strategies, DeactivateAutoExecution(s) PROVE StoreKept
    BY <1>4, DeactivateKeeps
  <1>5. CASE BeginSaveApproval
    <2>1. /\ signed # None /\ saving' = signed
          /\ UNCHANGED <<strategies, versions, approvals, autos, signed, clock>>
      BY <1>5 DEF BeginSaveApproval
    <2>2. Message(saving') /\ Message(signed') /\ clock' \in Nat
      BY <2>1 DEF StoreTypes
    <2> QED BY <2>1, <2>2, StoreSame
  <1>6. CASE EndSaveApproval
    BY <1>6, ApproveKeeps
  <1>7. CASE ReadDashboard
    BY <1>7, DashboardKeeps
  <1>8. CASE Tick
    <2>1. /\ clock' = clock + 1
          /\ UNCHANGED <<strategies, versions, approvals, autos, signed, saving>>
      BY <1>8 DEF Tick
    <2>2. clock' \in Nat /\ (signed' = None \/ Message(signed'))
          /\ (saving' = None \/ Message(saving'))
      BY <2>1 DEF StoreTypes
    <2> QED BY <2>1, <2>2, StoreSame
  <1> QED BY <1>1, <1>2, <1>3, <1>4, <1>5, <1>6, <1>7, <1>8 DEF StoreNext

\* Nothing of the store changes, or a save is given up.
LEMMA StoreStays ==
  ASSUME StoreTypes, OneInv, UNCHANGED <<strategies, versions, approvals, autos, signed, clock>>,
         saving' = saving \/ saving' = None
  PROVE  StoreKept
  <1>1. (signed' = None \/ Message(signed')) /\ (saving' = None \/ Message(saving'))
        /\ clock' \in Nat
    BY DEF StoreTypes
  <1> QED BY <1>1, StoreSame
-----------------------------------------------------------------------------
(* The executions. *)

\* Where an approval is consumed once, each that let a run through has its own nonce,
\* which the contract has consumed.
RunInv ==
  /\ \E S : ran \in Seq(S)
  /\ deployed => /\ \A i \in DOMAIN ran : ran[i].nonce \in used
                 /\ \A i, j \in DOMAIN ran : ran[i].nonce = ran[j].nonce => i = j

\* Everything.
StrategyInv == TypeInv /\ OneInv /\ WorkerInv /\ RunInv

\* No approval lets a run through.
LEMMA RunsStay == ASSUME RunInv, UNCHANGED <<ran, used, deployed>> PROVE RunInv'
  BY DEF RunInv

\* A step of the others, with the worker's frame and list as they were, or lost.
LEMMA WorkerStays ==
  ASSUME WorkerInv, \A s \in Strategies : Sound(s), queue \subseteq Strategies,
         frames'[Worker] = frames[Worker] \/ frames'[Worker].at \in {"idle", "next"},
         queue' \subseteq queue
  PROVE  WorkerInv'
  <1>1. \A s \in Strategies : HasRow(s) => autos'[s] \in AutoRows \/ strategies'[s] = Deleted
    BY DEF Sound
  <1>2. \A s \in queue' : autos'[s] \in AutoRows \/ strategies'[s] = Deleted
    BY <1>1 DEF WorkerInv
  <1>3. CASE frames'[Worker] = frames[Worker]
    <2>1. CASE frames[Worker].at = "route"
      <3>1. PICK t \in Strategies : t = frames[Worker].strategy /\ HasRow(t)
        BY <2>1 DEF WorkerInv
      <3>2. autos'[t] \in AutoRows \/ strategies'[t] = Deleted
        BY <1>1, <3>1
      <3>3. /\ frames[Worker].at = "route" /\ frames[Worker].candle \in Nat
            /\ frames[Worker].signal \in Signals
        BY <2>1 DEF WorkerInv
      <3> QED BY <1>2, <1>3, <3>1, <3>2, <3>3 DEF WorkerInv, HasRow
    <2>2. CASE frames[Worker].at # "route"
      BY <1>2, <1>3, <2>2 DEF WorkerInv, HasRow
    <2> QED BY <2>1, <2>2
  <1>4. CASE frames'[Worker].at \in {"idle", "next"}
    BY <1>2, <1>4 DEF WorkerInv, HasRow
  <1> QED BY <1>3, <1>4

\* What a step keeps of all this.
Kept == TypeInv' /\ WorkerInv' /\ RunInv' /\ StoreKept

\* A step outside the worker.
LEMMA KeptOutside ==
  ASSUME StrategyInv, StoreKept, queue' \subseteq queue,
         candle' \in Nat, condition' \in Signals,
         frames' = [r \in Runners |-> frames'[r]],
         frames'[Worker] = frames[Worker] \/ frames'[Worker].at \in {"idle", "next"}
  PROVE  TypeInv' /\ WorkerInv'
  <1>1. TypeInv'
    BY DEF StrategyInv, TypeInv, StoreKept, ExecutionTypes
  <1>2. WorkerInv'
    BY WorkerStays DEF StrategyInv, TypeInv, StoreKept, ExecutionTypes
  <1> QED BY <1>1, <1>2

\* A runner's frame changes, no other.
LEMMA AtOne ==
  ASSUME ExecutionTypes, NEW r \in Runners, NEW frame, At(r, frame)
  PROVE  /\ frames' = [z \in Runners |-> frames'[z]] /\ frames'[r] = frame
         /\ \A z \in Runners : z # r => frames'[z] = frames[z]
  BY DEF ExecutionTypes, At

\* What the rules say is one of four things.
LEMMA SignalType == ASSUME ExecutionTypes, NEW s PROVE Signal(s) \in Signals
  BY DEF ExecutionTypes, Signal, Signals

\* A manual execution's step.
LEMMA RunKeeps ==
  ASSUME StrategyInv, NEW r \in Runs, NEW frame, At(r, frame), StoreKept,
         UNCHANGED <<queue, candle, condition>>
  PROVE  TypeInv' /\ WorkerInv'
  <1>1. r \in Runners /\ Worker \in Runners /\ r # Worker
    BY WorkerFrames DEF Runners
  <1>2. frames' = [z \in Runners |-> frames'[z]] /\ frames'[Worker] = frames[Worker]
    BY <1>1, AtOne DEF StrategyInv, TypeInv
  <1>3. candle' \in Nat /\ condition' \in Signals
    BY DEF StrategyInv, TypeInv, ExecutionTypes
  <1> QED BY <1>2, <1>3, KeptOutside

\* A step that leaves frames, list and candle alone.
LEMMA OthersKeep ==
  ASSUME StrategyInv, StoreKept, UNCHANGED <<frames, queue>>,
         candle' \in Nat, condition' \in Signals
  PROVE  TypeInv' /\ WorkerInv'
  BY KeptOutside DEF StrategyInv, TypeInv, ExecutionTypes

\* The process ends, or is found ended.
LEMMA DeadKeep ==
  ASSUME StrategyInv, StoreKept, frames' = [r \in Runners |-> Idle], queue' = {},
         UNCHANGED <<candle, condition>>
  PROVE  TypeInv' /\ WorkerInv'
  <1>1. frames'[Worker].at = "idle" /\ frames' = [r \in Runners |-> frames'[r]]
    BY WorkerFrames
  <1>2. candle' \in Nat /\ condition' \in Signals
    BY DEF StrategyInv, TypeInv, ExecutionTypes
  <1> QED BY <1>1, <1>2, KeptOutside

\* A step of the worker.
LEMMA WorkerKeeps ==
  ASSUME StrategyInv, StoreKept, UNCHANGED <<candle, condition>>,
         NEW frame, At(Worker, frame), queue' \subseteq Strategies,
         \A s \in queue' : autos'[s] \in AutoRows \/ strategies'[s] = Deleted,
         \/ frame.at \in {"idle", "next"}
         \/ \E t \in Strategies :
               /\ frame.at = "route" /\ frame.strategy = t
               /\ autos'[t] \in AutoRows \/ strategies'[t] = Deleted
               /\ frame.candle \in Nat /\ frame.signal \in Signals
  PROVE  TypeInv' /\ WorkerInv'
  <1>1. frames' = [z \in Runners |-> frames'[z]] /\ frames'[Worker] = frame
    BY WorkerFrames, AtOne DEF StrategyInv, TypeInv
  <1>2. TypeInv'
    BY <1>1 DEF StrategyInv, TypeInv, StoreKept, ExecutionTypes
  <1>3. WorkerInv'
    BY <1>1 DEF WorkerInv, HasRow
  <1> QED BY <1>2, <1>3
-----------------------------------------------------------------------------
(* The manual executions, step by step. *)

\* A run reads the strategy, its approval and its automatic state.
LEMMA RunNowKeeps ==
  ASSUME StrategyInv, NEW r \in Runs, NEW s \in Strategies, RunNow(r, s)
  PROVE  Kept
  <1>1. /\ autos' = [autos EXCEPT ![s] = AutoState(s)]
        /\ UNCHANGED <<strategies, versions, approvals, signed, saving, clock>>
        /\ UNCHANGED <<queue, candle, condition>> /\ UNCHANGED <<deployed, used, ran>>
    BY DEF RunNow, Refreshed
  <1>2. StoreKept
    BY <1>1, ReadKeeps DEF StrategyInv, TypeInv
  <1>3. PICK frame : At(r, frame)
    BY DEF RunNow
  <1>4. TypeInv' /\ WorkerInv'
    BY <1>1, <1>2, <1>3, RunKeeps
  <1>5. RunInv'
    BY <1>1, RunsStay DEF StrategyInv
  <1> QED BY <1>2, <1>4, <1>5 DEF Kept

\* An approval that lets a run through is one more, with a nonce of its own.
LEMMA OneMoreRun ==
  ASSUME RunInv, UNCHANGED deployed, NEW a, ran' = Append(ran, a),
         deployed => a.nonce \notin used /\ used' = used \cup {a.nonce}
  PROVE  RunInv'
  <1>1. PICK S : ran \in Seq(S)
    BY DEF RunInv
  <1>2. ran \in Seq(S \cup {a})
    BY <1>1
  <1>3. /\ ran' \in Seq(S \cup {a}) /\ Len(ran) \in Nat
        /\ DOMAIN ran = 1 .. Len(ran) /\ DOMAIN ran' = 1 .. (Len(ran) + 1)
        /\ ran'[Len(ran) + 1] = a
        /\ \A i \in 1 .. Len(ran) : ran'[i] = ran[i]
    BY <1>2
  <1>4. ASSUME deployed
        PROVE  /\ \A i \in DOMAIN ran' : ran'[i].nonce \in used'
               /\ \A i, j \in DOMAIN ran' : ran'[i].nonce = ran'[j].nonce => i = j
    <2>1. \A i \in 1 .. Len(ran) : ran[i].nonce \in used
      BY <1>3, <1>4 DEF RunInv
    <2>2. \A i, j \in 1 .. Len(ran) : ran[i].nonce = ran[j].nonce => i = j
      BY <1>3, <1>4 DEF RunInv
    <2>3. \A i \in DOMAIN ran' : i \in 1 .. Len(ran) \/ i = Len(ran) + 1
      BY <1>3
    <2>4. \A i \in 1 .. Len(ran) : ran'[i].nonce \in used
      BY <1>3, <2>1
    <2>5. ran'[Len(ran) + 1].nonce = a.nonce /\ a.nonce \notin used
          /\ used' = used \cup {a.nonce}
      BY <1>3, <1>4
    <2>6. \A i \in DOMAIN ran' : ran'[i].nonce \in used'
      BY <2>3, <2>4, <2>5
    <2>7. ASSUME NEW i \in DOMAIN ran', NEW j \in DOMAIN ran', ran'[i].nonce = ran'[j].nonce
          PROVE  i = j
      <3>1. CASE i \in 1 .. Len(ran) /\ j \in 1 .. Len(ran)
        BY <1>3, <2>2, <2>7, <3>1
      <3>2. CASE i = Len(ran) + 1 /\ j \in 1 .. Len(ran)
        BY <2>4, <2>5, <2>7, <3>2
      <3>3. CASE i \in 1 .. Len(ran) /\ j = Len(ran) + 1
        BY <2>4, <2>5, <2>7, <3>3
      <3> QED BY <2>3, <3>1, <3>2, <3>3
    <2> QED BY <2>6, <2>7
  <1> QED BY <1>3, <1>4 DEF RunInv

\* The contract consumes a nonce, and no run goes through with it.
LEMMA NonceOnly ==
  ASSUME RunInv, UNCHANGED <<ran, deployed>>, used \subseteq used'
  PROVE  RunInv'
  BY DEF RunInv

\* The approval is consumed in the contract, then in the store.
LEMMA ConsumeKeeps ==
  ASSUME StrategyInv, NEW r \in Runs, Consume(r)
  PROVE  Kept
  <1> DEFINE a == frames[r].approval
             rows == Consumed(a)
  <1>1. /\ deployed => Accepts(a)
        /\ used' = IF deployed THEN used \cup {a.nonce} ELSE used
        /\ approvals' = Restatus(rows, "consumed")
        /\ UNCHANGED <<strategies, versions, autos, signed, saving, clock>>
        /\ UNCHANGED <<queue, candle, condition>> /\ UNCHANGED deployed
    BY DEF Consume
  <1>2. \/ At(r, Idle) /\ UNCHANGED ran
        \/ ran' = Append(ran, a) /\ \E frame : At(r, frame)
    BY DEF Consume
  <1>3. rows \in SUBSET approvals
    BY DEF Consumed, Active
  <1> HIDE DEF rows
  <1>4. \A b \in approvals' : /\ IsApproval(b) /\ Message(b)
                              /\ b.status = "active" => b \in approvals
    BY <1>1, <1>3, RestatusRows DEF StrategyInv, TypeInv
  <1>5. StoreTypes' /\ OneInv'
    BY <1>1, <1>4, FewerActive DEF StrategyInv, TypeInv, StoreTypes, Message
  <1>6. StoreKept
    BY <1>1, <1>5, SoundSame DEF StoreKept, StrategyInv, TypeInv
  <1>7. TypeInv' /\ WorkerInv'
    BY <1>1, <1>2, <1>6, RunKeeps
  <1> HIDE DEF a
  <1>8. ASSUME UNCHANGED ran PROVE RunInv'
    BY <1>1, <1>8, NonceOnly DEF StrategyInv
  <1>9. ASSUME ran' = Append(ran, a) PROVE RunInv'
    BY <1>1, <1>9, OneMoreRun DEF StrategyInv, Accepts
  <1>10. RunInv'
    BY <1>2, <1>8, <1>9
  <1> QED BY <1>6, <1>7, <1>10 DEF Kept

\* A manual execution's step that leaves the store alone.
LEMMA RunAloneKeeps ==
  ASSUME StrategyInv, NEW r \in Runs, NEW frame, At(r, frame), UNCHANGED storeVars,
         UNCHANGED <<deployed, ran, queue, candle, condition>>, used \subseteq used'
  PROVE  Kept
  <1>1. StoreKept
    BY StoreStays DEF StrategyInv, TypeInv, storeVars
  <1>2. TypeInv' /\ WorkerInv'
    BY <1>1, RunKeeps
  <1>3. RunInv'
    BY NonceOnly DEF StrategyInv
  <1> QED BY <1>1, <1>2, <1>3 DEF Kept

\* The receipt that does not come, the refusals, and the swap.
LEMMA RunEndKeeps ==
  ASSUME StrategyInv, NEW r \in Runs,
         ConsumeFails(r) \/ ConsumeTimeout(r) \/ Route(r) \/ RouteFails(r)
  PROVE  Kept
  <1>1. At(r, Idle)
    BY DEF ConsumeFails, ConsumeTimeout, Route, RouteFails
  <1>2. /\ UNCHANGED storeVars /\ UNCHANGED <<deployed, ran, queue, candle, condition>>
        /\ used \subseteq used'
    BY DEF ConsumeFails, ConsumeTimeout, Route, RouteFails
  <1> QED BY <1>1, <1>2, RunAloneKeeps
-----------------------------------------------------------------------------
(* The worker, step by step. *)

\* A row that is listed is a row.
LEMMA WorkerTickKeeps ==
  ASSUME StrategyInv, WorkerTick
  PROVE  Kept
  <1>1. /\ UNCHANGED storeVars /\ UNCHANGED <<candle, condition>>
        /\ UNCHANGED <<deployed, used, ran>>
        /\ queue' = Listed /\ At(Worker, [at |-> "next"])
    BY DEF WorkerTick
  <1>2. StoreKept
    BY <1>1, StoreStays DEF StrategyInv, TypeInv, storeVars
  <1>3. queue' \subseteq Strategies
        /\ \A s \in queue' : autos'[s] \in AutoRows \/ strategies'[s] = Deleted
    BY <1>1 DEF Listed, StrategyInv, TypeInv, StoreTypes, storeVars
  <1>4. TypeInv' /\ WorkerInv'
    BY <1>1, <1>2, <1>3, WorkerKeeps
  <1>5. RunInv'
    BY <1>1, RunsStay DEF StrategyInv
  <1> QED BY <1>2, <1>4, <1>5 DEF Kept

\* The process ends in the worker.
LEMMA DieKeeps ==
  ASSUME StrategyInv, Die, UNCHANGED <<strategies, versions, approvals, autos, signed, clock>>,
         UNCHANGED <<candle, condition>>, UNCHANGED <<deployed, used, ran>>
  PROVE  Kept
  <1>1. frames' = [r \in Runners |-> Idle] /\ queue' = {} /\ saving' = None
    BY DEF Die
  <1>2. StoreKept
    BY <1>1, StoreStays DEF StrategyInv, TypeInv
  <1>3. TypeInv' /\ WorkerInv'
    BY <1>1, <1>2, DeadKeep
  <1>4. RunInv'
    BY RunsStay DEF StrategyInv
  <1> QED BY <1>2, <1>3, <1>4 DEF Kept

\* One row is written, by the worker, and does not become active.
LEMMA QuietWriteKeeps ==
  ASSUME StoreTypes, OneInv, NEW s \in Strategies, NEW row, Quieter(autos[s], row),
         autos' = [autos EXCEPT ![s] = row],
         UNCHANGED <<strategies, versions, approvals, signed, saving, clock>>
  PROVE  StoreKept
  <1>1. autos' \in [Strategies -> {None} \cup AutoRows] /\ \A z \in Strategies : Sound(z)
    BY SoundOne
  <1>2. StoreTypes' /\ OneInv'
    BY <1>1 DEF StoreTypes, OneInv, Message
  <1> QED BY <1>1, <1>2 DEF StoreKept

\* What the worker makes of a row it has nothing to await for.
LEMMA EvaluationRow ==
  ASSUME TypeInv, NEW s \in Strategies, autos[s] \in AutoRows
  PROVE  Quieter(autos[s], Evaluation(s))
  <1> DEFINE row == AutoState(s)
  <1>1. row \in AutoRows /\ (row.status = "active" => autos[s].status = "active")
    BY AutoStateRow
  <1>2. Signal(s) \in Signals /\ candle \in Nat
    BY SignalType DEF TypeInv, ExecutionTypes
  <1> HIDE DEF row
  <1>3. /\ [row EXCEPT !.status = "needs_reactivation"] \in AutoRows
        /\ [row EXCEPT !.status = "needs_reactivation"].status = "needs_reactivation"
    BY <1>1, RowStatus DEF Statuses
  <1>4. /\ [row EXCEPT !.checked = candle, !.signal = Signal(s)] \in AutoRows
        /\ [row EXCEPT !.checked = candle, !.signal = Signal(s)].status = row.status
    <2>1. \A c \in Nat, g \in Signals :
              /\ [row EXCEPT !.checked = c, !.signal = g] \in AutoRows
              /\ [row EXCEPT !.checked = c, !.signal = g].status = row.status
      BY <1>1 DEF AutoRows
    <2> QED BY <1>2, <2>1
  <1>5. \/ Evaluation(s) = row
        \/ Evaluation(s) = [row EXCEPT !.status = "needs_reactivation"]
        \/ Evaluation(s) = [row EXCEPT !.checked = candle, !.signal = Signal(s)]
    BY DEF Evaluation, Evaluated, row
  <1> QED BY <1>1, <1>3, <1>4, <1>5 DEF Quieter

\* The worker takes the next strategy of its list.
LEMMA WorkerNextKeeps ==
  ASSUME StrategyInv, WorkerNext
  PROVE  Kept
  <1>1. UNCHANGED <<candle, condition>> /\ UNCHANGED <<deployed, used, ran>>
    BY DEF WorkerNext
  <1>2. RunInv'
    BY <1>1, RunsStay DEF StrategyInv
  <1>3. queue \subseteq Strategies /\ \A s \in queue : autos[s] \in AutoRows \/ strategies[s] = Deleted
    BY DEF StrategyInv, TypeInv, ExecutionTypes, WorkerInv, HasRow
  <1>4. CASE queue = {} /\ At(Worker, Idle) /\ UNCHANGED <<storeVars, queue, up>>
    <2>1. StoreKept
      BY <1>4, StoreStays DEF StrategyInv, TypeInv, storeVars
    <2>2. TypeInv' /\ WorkerInv'
      BY <1>1, <1>4, <2>1, WorkerFrames, WorkerKeeps
    <2> QED BY <1>2, <2>1, <2>2 DEF Kept
  <1>5. CASE Die /\ UNCHANGED <<strategies, versions, approvals, autos, signed, clock>>
    BY <1>1, <1>5, DieKeeps
  <1>6. ASSUME NEW s \in queue, Exists(s), queue' = queue \ {s},
               autos' = [autos EXCEPT ![s] = IF Executes(s) THEN AutoState(s) ELSE Evaluation(s)],
               At(Worker, IF Executes(s) THEN WorkerFrame(s) ELSE [at |-> "next"]),
               UNCHANGED <<strategies, versions, approvals, signed, saving, clock, up>>
        PROVE  Kept
    <2> DEFINE row == IF Executes(s) THEN AutoState(s) ELSE Evaluation(s)
               frame == IF Executes(s) THEN WorkerFrame(s) ELSE [at |-> "next"]
    <2>1. s \in Strategies /\ autos[s] \in AutoRows
      BY <1>3, <1>6 DEF Exists
    <2>2. Quieter(autos[s], AutoState(s)) /\ Quieter(autos[s], Evaluation(s))
      BY <2>1, AutoStateRow, EvaluationRow DEF Quieter, StrategyInv
    <2>3. Quieter(autos[s], row) /\ autos' = [autos EXCEPT ![s] = row]
          /\ UNCHANGED <<strategies, versions, approvals, signed, saving, clock>>
      BY <1>6, <2>2
    <2>4. /\ frame.at \in {"next", "route"}
          /\ frame.at = "route" => frame.strategy = s /\ frame.candle = candle
                                   /\ frame.signal = Signal(s)
      BY DEF WorkerFrame
    <2>5. At(Worker, frame)
      BY <1>6
    <2> HIDE DEF row, frame
    <2>6. StoreKept
      BY <2>1, <2>3, QuietWriteKeeps DEF StrategyInv, TypeInv
    <2>7. \A z \in Strategies : autos'[z] \in AutoRows \/ (strategies'[z] = Deleted \/ autos[z] \notin AutoRows)
      BY <2>1, <2>3, <2>6, RowIsNone DEF StoreKept, Sound, HasRow
    <2>8. autos'[s] \in AutoRows \/ strategies'[s] = Deleted
      BY <2>1, <2>7
    <2>9. \A z \in queue' : autos'[z] \in AutoRows \/ strategies'[z] = Deleted
      BY <1>3, <1>6, <2>3, <2>7
    <2>10. queue' \subseteq Strategies
      BY <1>3, <1>6
    <2>11. Signal(s) \in Signals /\ candle \in Nat
      BY SignalType DEF StrategyInv, TypeInv, ExecutionTypes
    <2>12. \/ frame.at \in {"idle", "next"}
           \/ \E t \in Strategies :
               /\ frame.at = "route" /\ frame.strategy = t
               /\ autos'[t] \in AutoRows \/ strategies'[t] = Deleted
               /\ frame.candle \in Nat /\ frame.signal \in Signals
      BY <2>1, <2>4, <2>8, <2>11
    <2>13. TypeInv' /\ WorkerInv'
      BY <1>1, <2>5, <2>6, <2>9, <2>10, <2>12, WorkerKeeps
    <2> QED BY <1>2, <2>6, <2>13 DEF Kept
  <1> QED BY <1>4, <1>5, <1>6 DEF WorkerNext

\* The evaluation is written, if the strategy is still there.
LEMMA MarkKeeps ==
  ASSUME StrategyInv, NEW s \in Strategies, NEW f, f.strategy = s, NEW marked, Mark(f, marked),
         HasRow(s), autos[s] \in AutoRows => Quieter(autos[s], marked),
         UNCHANGED <<strategies, versions, approvals, signed, clock>>,
         UNCHANGED <<candle, condition>>, UNCHANGED <<deployed, used, ran>>
  PROVE  Kept
  <1>1. CASE Exists(s)
    <2>1. /\ autos' = [autos EXCEPT ![s] = marked] /\ At(Worker, [at |-> "next"])
          /\ UNCHANGED <<saving, queue>>
      BY <1>1 DEF Mark
    <2>2. Quieter(autos[s], marked)
      BY <1>1 DEF HasRow, Exists
    <2>3. StoreKept
      BY <2>1, <2>2, QuietWriteKeeps DEF StrategyInv, TypeInv
    <2>4. queue' \subseteq Strategies
          /\ \A z \in queue' : autos'[z] \in AutoRows \/ strategies'[z] = Deleted
      BY <2>1, <2>3 DEF StrategyInv, TypeInv, ExecutionTypes, WorkerInv, StoreKept, Sound
    <2>5. TypeInv' /\ WorkerInv'
      BY <2>1, <2>3, <2>4, WorkerKeeps
    <2>6. RunInv'
      BY RunsStay DEF StrategyInv
    <2> QED BY <2>3, <2>5, <2>6 DEF Kept
  <1>2. CASE ~Exists(s)
    <2>1. Die /\ UNCHANGED autos
      BY <1>2 DEF Mark
    <2> QED BY <2>1, DieKeeps
  <1> QED BY <1>1, <1>2

\* The router answers the worker: the status it writes back is the one it reads.
LEMMA WorkerRouteKeeps ==
  ASSUME StrategyInv, WorkerRoute \/ WorkerRouteFails
  PROVE  Kept
  <1> DEFINE f == frames[Worker]
             s == f.strategy
             row == AutoState(s)
             evaluated == [row EXCEPT !.status = MarkedStatus(s, "active"),
                                      !.checked = f.candle, !.signal = f.signal]
  <1>1. /\ UNCHANGED <<strategies, versions, approvals, signed, clock>>
        /\ UNCHANGED <<candle, condition>> /\ UNCHANGED <<deployed, used, ran>>
        /\ f.at = "route" /\ (Mark(f, evaluated) \/ Mark(f, row))
    BY DEF WorkerRoute, WorkerRouteFails
  <1>2. s \in Strategies /\ HasRow(s) /\ f.candle \in Nat /\ f.signal \in Signals
    BY <1>1 DEF StrategyInv, WorkerInv
  <1>3. ASSUME autos[s] \in AutoRows
        PROVE  Quieter(autos[s], row) /\ Quieter(autos[s], evaluated)
    <2>1. row \in AutoRows /\ (row.status = "active" => autos[s].status = "active")
      BY <1>3, AutoStateRow
    <2>2. evaluated = [row EXCEPT !.status = row.status, !.checked = f.candle, !.signal = f.signal]
      BY DEF MarkedStatus
    <2> HIDE DEF row, evaluated
    <2>3. row.status \in Statuses
      BY <2>1 DEF AutoRows
    <2>4. \A st \in Statuses, c \in Nat, g \in Signals :
              /\ [row EXCEPT !.status = st, !.checked = c, !.signal = g] \in AutoRows
              /\ [row EXCEPT !.status = st, !.checked = c, !.signal = g].status = st
      BY <2>1 DEF AutoRows
    <2>5. evaluated \in AutoRows /\ evaluated.status = row.status
      BY <1>2, <2>2, <2>3, <2>4
    <2> QED BY <1>3, <2>1, <2>5 DEF Quieter
  <1>4. PICK marked : Mark(f, marked) /\ (autos[s] \in AutoRows => Quieter(autos[s], marked))
    BY <1>1, <1>3
  <1>5. f.strategy = s
    OBVIOUS
  <1> HIDE DEF f, s
  <1> QED BY <1>1, <1>2, <1>4, <1>5, MarkKeeps
-----------------------------------------------------------------------------
(* The rest of the system. *)

\* A step that leaves the executions alone, or only ends some.
LEMMA RestKeeps ==
  ASSUME StrategyInv, StoreKept, UNCHANGED <<frames, queue>>, UNCHANGED <<deployed, used, ran>>,
         candle' \in Nat, condition' \in Signals
  PROVE  Kept
  <1>1. TypeInv' /\ WorkerInv'
    BY OthersKeep
  <1>2. RunInv'
    BY RunsStay DEF StrategyInv
  <1> QED BY <1>1, <1>2 DEF Kept

\* The operations of the store, a deletion, the prices, a settlement and a start.
LEMMA OthersKept ==
  ASSUME StrategyInv, Store \/ (\E s \in Strategies : Deletion(s)) \/ Prices \/ Settle \/ Start
  PROVE  Kept
  <1>1. UNCHANGED <<frames, queue>> /\ UNCHANGED <<deployed, used, ran>>
    BY DEF Store, executionVars, Deletion, Prices, Settle, Start
  <1>2. candle' \in Nat /\ condition' \in Signals
    <2>1. candle \in Nat /\ condition \in Signals
      BY DEF StrategyInv, TypeInv, ExecutionTypes
    <2>2. CASE Prices
      BY <2>1, <2>2, ExecutionInputs DEF Prices
    <2>3. CASE ~Prices
      BY <2>1, <2>3 DEF Store, executionVars, Deletion, Settle, Start
    <2> QED BY <2>2, <2>3
  <1>3. CASE Store
    BY <1>1, <1>2, <1>3, StoreNextKeeps, RestKeeps DEF Store, StrategyInv, TypeInv
  <1>4. ASSUME NEW s \in Strategies, Deletion(s) PROVE Kept
    BY <1>1, <1>2, <1>4, DeleteKeeps, RestKeeps DEF Deletion, StrategyInv, TypeInv
  <1>5. CASE Prices \/ Settle \/ Start
    <2>1. UNCHANGED storeVars
      BY <1>5 DEF Prices, Settle, Start
    <2>2. StoreKept
      BY <2>1, StoreStays DEF StrategyInv, TypeInv, storeVars
    <2> QED BY <1>1, <1>2, <2>2, RestKeeps
  <1> QED BY <1>3, <1>4, <1>5

\* A stop in the middle of a write: the strategy is a draft of a new version, what
\* was allowed for the old one stays.
LEMMA StopInWriteKeeps ==
  ASSUME StoreTypes, OneInv, NEW s \in Strategies, StopInWrite(s)
  PROVE  StoreKept
  <1>1. /\ versions' = versions + 1
        /\ strategies' = [strategies EXCEPT ![s].version = versions + 1, ![s].status = "draft"]
        /\ saving' = None
        /\ UNCHANGED <<approvals, autos, signed, clock>>
    BY DEF StopInWrite
  <1>2. strategies[s] \in StrategyRows /\ strategies[s] # Deleted /\ versions + 1 \in Nat
    BY ExistingRow DEF StopInWrite, StoreTypes
  <1>3. /\ \A z \in Strategies : z # s => strategies'[z] = strategies[z]
        /\ strategies'[s] = [status |-> "draft", version |-> versions + 1]
        /\ strategies' = [z \in Strategies |-> strategies'[z]]
    BY <1>1, <1>2 DEF StoreTypes, StrategyRows
  <1>4. strategies' \in [Strategies -> {None, Deleted} \cup StrategyRows]
    BY <1>2, <1>3 DEF StoreTypes, StrategyRows
  <1>5. \A z \in Strategies : Sound(z)
    BY <1>1, <1>2, <1>3, SoundRows DEF Quieter
  <1>6. StoreTypes' /\ OneInv'
    BY <1>1, <1>2, <1>4 DEF StoreTypes, OneInv, Message
  <1> QED BY <1>5, <1>6 DEF StoreKept

\* The process stops.
LEMMA StopKeeps ==
  ASSUME StrategyInv, Stop
  PROVE  Kept
  <1>1. /\ frames' = [r \in Runners |-> Idle] /\ queue' = {}
        /\ UNCHANGED <<candle, condition>> /\ UNCHANGED <<deployed, used, ran>>
    BY DEF Stop
  <1>2. StopStore \/ \E s \in Strategies : StopInWrite(s)
    BY DEF Stop
  <1>3. StoreKept
    BY <1>2, StopInWriteKeeps, StoreStays DEF StopStore, StrategyInv, TypeInv
  <1>4. TypeInv' /\ WorkerInv'
    BY <1>1, <1>3, DeadKeep
  <1>5. RunInv'
    BY <1>1, RunsStay DEF StrategyInv
  <1> QED BY <1>3, <1>4, <1>5 DEF Kept
-----------------------------------------------------------------------------
(* The system. *)

\* What holds at first.
LEMMA StrategyStarts == Init => StrategyInv
  <1> SUFFICES ASSUME Init PROVE StrategyInv
    OBVIOUS
  <1>1. TypeInv
    BY ExecutionInputs DEF Init, StoreInit, TypeInv, StoreTypes, ExecutionTypes, StrategyRows
  <1>2. OneInv
    BY DEF Init, StoreInit, OneInv
  <1>3. WorkerInv
    BY WorkerFrames DEF Init, WorkerInv
  <1>4. RunInv
    BY DEF Init, RunInv
  <1> QED BY <1>1, <1>2, <1>3, <1>4 DEF StrategyInv

\* Every step, and doing nothing, keeps it, and makes no automatic execution active.
LEMMA StrategyStep ==
  StrategyInv /\ [Next]_vars => StrategyInv' /\ \A s \in Strategies : Sound(s)
  <1> SUFFICES ASSUME StrategyInv, [Next]_vars
               PROVE  Kept
    BY DEF Kept, StoreKept, StrategyInv
  <1>1. ASSUME NEW r \in Runs, NEW s \in Strategies, RunNow(r, s) PROVE Kept
    BY <1>1, RunNowKeeps
  <1>2. ASSUME NEW r \in Runs, Consume(r) PROVE Kept
    BY <1>2, ConsumeKeeps
  <1>3. ASSUME NEW r \in Runs,
               ConsumeFails(r) \/ ConsumeTimeout(r) \/ Route(r) \/ RouteFails(r)
        PROVE  Kept
    BY <1>3, RunEndKeeps
  <1>4. CASE WorkerTick
    BY <1>4, WorkerTickKeeps
  <1>5. CASE WorkerNext
    BY <1>5, WorkerNextKeeps
  <1>6. CASE WorkerRoute \/ WorkerRouteFails
    BY <1>6, WorkerRouteKeeps
  <1>7. CASE Store \/ (\E s \in Strategies : Deletion(s)) \/ Prices \/ Settle \/ Start
    BY <1>7, OthersKept
  <1>8. CASE Stop
    BY <1>8, StopKeeps
  <1>9. CASE UNCHANGED vars
    <2>1. UNCHANGED <<frames, queue>> /\ UNCHANGED <<deployed, used, ran>>
          /\ UNCHANGED storeVars /\ UNCHANGED <<candle, condition>>
      BY <1>9 DEF vars, executionVars
    <2>2. StoreKept
      BY <2>1, StoreStays DEF StrategyInv, TypeInv, storeVars
    <2>3. candle' \in Nat /\ condition' \in Signals
      BY <2>1 DEF StrategyInv, TypeInv, ExecutionTypes
    <2> QED BY <2>1, <2>2, <2>3, RestKeeps
  <1> QED BY <1>1, <1>2, <1>3, <1>4, <1>5, <1>6, <1>7, <1>8, <1>9 DEF Next

\* What is claimed of the rows, the worker and the approvals holds in every behaviour.
THEOREM StrategiesAreSound == Spec => []StrategyInv
  <1>1. Init => StrategyInv
    BY StrategyStarts
  <1>2. StrategyInv /\ [Next]_vars => StrategyInv'
    BY StrategyStep
  <1> QED BY <1>1, <1>2, PTL DEF Spec

\* Two active approvals of a strategy are never there at once.
THEOREM OneUsableApproval == Spec => []OneActiveApproval
  <1>1. StrategyInv => OneActiveApproval
    <2> SUFFICES ASSUME StrategyInv, NEW s \in Strategies
                 PROVE  Cardinality(Active(s)) <= 1
      BY DEF OneActiveApproval
    <2>1. \A a, b \in Active(s) : a = b
      BY DEF StrategyInv, OneInv, Active
    <2>2. CASE Active(s) = {}
      BY <2>2, FS_EmptySet
    <2>3. CASE \E a : Active(s) = {a}
      <3>1. Cardinality(Active(s)) = 1
        BY <2>3, FS_Singleton
      <3> QED BY <3>1
    <2> QED BY <2>1, <2>2, <2>3
  <1> QED BY <1>1, StrategiesAreSound, PTL

\* With the contract, a signed approval lets at most one manual execution through.
THEOREM ANonceRunsOnce == Spec => []SignatureRunsOnce
  <1>1. StrategyInv => SignatureRunsOnce
    BY DEF StrategyInv, RunInv, SignatureRunsOnce, IsInjective
  <1> QED BY <1>1, StrategiesAreSound, PTL

\* Only the owner's activation makes an automatic execution active.
THEOREM OnlyTheOwnerActivates == Spec => OnlyActivationActivates
  <1>1. StrategyInv /\ [Next]_vars =>
           [\A s \in Strategies : Reactivated(s) =>
               \E expires \in Expiries : ActivateAutoExecution(s, expires)]_vars
    BY StrategyStep DEF Sound
  <1> QED BY <1>1, StrategiesAreSound, PTL DEF Spec, OnlyActivationActivates

-----------------------------------------------------------------------------
(* Extremes. *)

\* The greater of two, and the least of many.
LEMMA MaxOfTwo ==
    ASSUME NEW a \in Int, NEW b \in Int
    PROVE  Max({a, b}) = IF a >= b THEN a ELSE b
<1>1. PICK m \in {a, b} : \A y \in {a, b} : m >= y
  <2>1. CASE a >= b
    BY <2>1
  <2>2. CASE ~(a >= b)
    BY <2>2
  <2>3. QED
    BY <2>1, <2>2
<1>2. Max({a, b}) \in {a, b} /\ \A y \in {a, b} : Max({a, b}) >= y
  BY <1>1 DEF Max
<1>3. QED
  BY <1>2

LEMMA MinIsLeast ==
    ASSUME NEW S, IsFiniteSet(S), S \subseteq Int, S # {}
    PROVE  Min(S) \in S /\ \A m \in S : Min(S) <= m
BY LeastOf DEF Min
-----------------------------------------------------------------------------
(* The managed position: a fold over the rows. *)

\* What a row does to the position p, as Apply says, with the deals given.
Moves(p, row, ds) ==
  IF ~(row.deal = None \/ ds[row.deal].outcome = "paid") THEN p
  ELSE IF row.side = "entry" THEN p + (IF row.deal = None THEN row.out ELSE ds[row.deal].out)
  ELSE Max({0, p - row.amount})

\* The rows of s count, in their order.
Counts(p, rows, ds, s, n) ==
  IF n \in DOMAIN rows /\ rows[n].strategy = s THEN Moves(p, rows[n], ds) ELSE p

Held(h, N, rows, ds, s) ==
  h = [n \in 0 .. N |-> IF n = 0 THEN 0 ELSE Counts(h[n - 1], rows, ds, s, n)]

\* The position after the first n swaps.
PositionAt(n, N, rows, ds, s) == (CHOOSE h : Held(h, N, rows, ds, s))[n]

LEMMA ManagedIs ==
  ASSUME NEW s
  PROVE  Managed(s) = PositionAt(Len(swaps), Len(swaps), executions, deals, s)
  BY DEF Managed, PositionAt, Held, Counts, Moves, Apply, Completed, Out

LEMMA ManagedWillBe ==
  ASSUME NEW s
  PROVE  Managed(s)' = PositionAt(Len(swaps'), Len(swaps'), executions', deals', s)
  BY DEF Managed, PositionAt, Held, Counts, Moves, Apply, Completed, Out

\* There is such a function.
LEMMA HeldExists ==
  ASSUME NEW N \in Nat, NEW rows, NEW ds, NEW s
  PROVE  \E h : Held(h, N, rows, ds, s)
  <1> DEFINE Good == {n \in 0 .. N : \E h : Held(h, n, rows, ds, s)}
  <1>1. ASSUME NEW n \in 0 .. N, \A m \in 0 .. N : m < n => m \in Good
        PROVE  n \in Good
    <2>1. CASE n = 0
      <3> DEFINE h == [k \in 0 .. 0 |-> 0]
      <3>1. h = [k \in 0 .. 0 |-> IF k = 0 THEN 0 ELSE Counts(h[k - 1], rows, ds, s, k)]
        OBVIOUS
      <3> HIDE DEF h
      <3> QED BY <2>1, <3>1 DEF Held
    <2>2. CASE n # 0
      <3>1. n - 1 \in 0 .. N /\ n - 1 < n
        BY <2>2
      <3>2. PICK g : Held(g, n - 1, rows, ds, s)
        BY <1>1, <3>1
      <3> DEFINE h == [k \in 0 .. n |-> IF k = n THEN Counts(g[n - 1], rows, ds, s, n) ELSE g[k]]
      <3>3. \A k \in 0 .. n - 1 : g[k] = IF k = 0 THEN 0 ELSE Counts(g[k - 1], rows, ds, s, k)
        BY <3>2 DEF Held
      <3>4. \A k \in 0 .. n : k # n => k \in 0 .. n - 1 /\ (k # 0 => k - 1 \in 0 .. n /\ k - 1 # n)
        BY <2>2
      <3>5. \A k \in 0 .. n : h[k] = IF k = 0 THEN 0 ELSE Counts(h[k - 1], rows, ds, s, k)
        <4>1. SUFFICES ASSUME NEW k \in 0 .. n
                       PROVE  h[k] = IF k = 0 THEN 0 ELSE Counts(h[k - 1], rows, ds, s, k)
          OBVIOUS
        <4>2. CASE k = n
          <5>1. h[k] = Counts(g[n - 1], rows, ds, s, n) /\ h[n - 1] = g[n - 1]
            BY <4>2, <2>2
          <5> QED BY <4>2, <5>1, <2>2
        <4>3. CASE k # n /\ k # 0
          <5>1. h[k] = g[k] /\ h[k - 1] = g[k - 1]
            BY <4>3, <3>4
          <5>2. g[k] = Counts(g[k - 1], rows, ds, s, k)
            BY <4>3, <3>3, <3>4
          <5> QED BY <4>3, <5>1, <5>2
        <4>4. CASE k = 0
          <5>1. h[0] = g[0] /\ g[0] = 0
            BY <2>2, <3>3
          <5> QED BY <4>4, <5>1
        <4> QED BY <4>2, <4>3, <4>4
      <3>6. h = [k \in 0 .. n |-> IF k = 0 THEN 0 ELSE Counts(h[k - 1], rows, ds, s, k)]
        BY <3>5
      <3> HIDE DEF h
      <3> QED BY <3>6 DEF Held
    <2> QED BY <2>1, <2>2
  <1> HIDE DEF Good
  <1>2. N \in Good
    BY <1>1, NumberInduction
  <1> QED BY <1>2 DEF Good

\* The position starts with nothing and moves with each row.
LEMMA PositionMoves ==
  ASSUME NEW N \in Nat, NEW rows, NEW ds, NEW s
  PROVE  /\ PositionAt(0, N, rows, ds, s) = 0
         /\ \A n \in 1 .. N : PositionAt(n, N, rows, ds, s)
                                  = Counts(PositionAt(n - 1, N, rows, ds, s), rows, ds, s, n)
  <1> DEFINE h == CHOOSE h : Held(h, N, rows, ds, s)
  <1>1. Held(h, N, rows, ds, s)
    BY HeldExists
  <1>2. \A n \in 0 .. N : PositionAt(n, N, rows, ds, s) = h[n]
    BY DEF PositionAt
  <1> HIDE DEF h
  <1>3. \A n \in 0 .. N : h[n] = IF n = 0 THEN 0 ELSE Counts(h[n - 1], rows, ds, s, n)
    BY <1>1 DEF Held
  <1>4. ASSUME NEW n \in 1 .. N PROVE n \in 0 .. N /\ n - 1 \in 0 .. N /\ n # 0
    BY <1>4
  <1> QED BY <1>2, <1>3, <1>4

\* Two positions agree as far as the rows do.
LEMMA PositionsAgree ==
  ASSUME NEW N \in Nat, NEW rows, NEW ds, NEW M \in Nat, NEW rows2, NEW ds2, NEW s,
         NEW k \in Nat, k <= N, k <= M,
         \A n \in 1 .. k : \A p : Counts(p, rows, ds, s, n) = Counts(p, rows2, ds2, s, n)
  PROVE  PositionAt(k, N, rows, ds, s) = PositionAt(k, M, rows2, ds2, s)
  <1> DEFINE f(n) == PositionAt(n, N, rows, ds, s)
             g(n) == PositionAt(n, M, rows2, ds2, s)
             Good == {n \in 0 .. k : f(n) = g(n)}
  <1>1. /\ f(0) = 0 /\ \A n \in 1 .. N : f(n) = Counts(f(n - 1), rows, ds, s, n)
        /\ g(0) = 0 /\ \A n \in 1 .. M : g(n) = Counts(g(n - 1), rows2, ds2, s, n)
    BY PositionMoves
  <1> HIDE DEF f, g
  <1>2. ASSUME NEW n \in 0 .. k, \A m \in 0 .. k : m < n => m \in Good
        PROVE  n \in Good
    <2>1. CASE n = 0
      BY <2>1, <1>1
    <2>2. CASE n # 0
      <3>1. n - 1 \in 0 .. k /\ n - 1 < n /\ n \in 1 .. N /\ n \in 1 .. M /\ n \in 1 .. k
        BY <2>2
      <3>2. f(n - 1) = g(n - 1)
        BY <3>1, <1>2
      <3>3. /\ f(n) = Counts(f(n - 1), rows, ds, s, n)
            /\ g(n) = Counts(g(n - 1), rows2, ds2, s, n)
        BY <3>1, <1>1
      <3> QED BY <3>1, <3>2, <3>3
    <2> QED BY <2>1, <2>2
  <1> HIDE DEF Good
  <1>3. k \in Good
    BY <1>2, NumberInduction
  <1>4. f(k) = g(k)
    BY <1>3 DEF Good
  <1> QED BY <1>4 DEF f, g
-----------------------------------------------------------------------------
(* Swaps that repeat. *)

InFlight(r) == frames[r].at \in {"consume", "route"}

IsDeal(d) == d = [user |-> d.user, from |-> d.from, to |-> d.to, amount |-> d.amount,
                  outcome |-> d.outcome, out |-> d.out]

DealTypes ==
  /\ \E S : deals \in Seq(S)
  /\ \A d \in DOMAIN deals :
         /\ IsDeal(deals[d])
         /\ deals[d].outcome \in {"pending", "paid", "refunded"}
         /\ deals[d].outcome = "paid" => deals[d].out = deals[d].amount

\* A deal belongs to one swap.
SwapTypes ==
  /\ \E S : swaps \in Seq(S)
  /\ \A i \in DOMAIN swaps : swaps[i].deal = None \/ swaps[i].deal \in DOMAIN deals
  /\ \A i, j \in DOMAIN swaps :
         swaps[i].deal = swaps[j].deal /\ swaps[i].deal # None => i = j

\* An entry buys one unit, an exit sells what there is.
IsPlan(side, amount) ==
  /\ side \in {"entry", "exit"} /\ amount \in Nat \ {0}
  /\ side = "entry" => amount = 1

\* A row is its swap's.
RowsAreSwaps ==
  /\ DOMAIN executions \subseteq DOMAIN swaps
  /\ \A i \in DOMAIN executions :
         /\ executions[i].strategy = swaps[i].strategy
         /\ executions[i].side = swaps[i].side
         /\ executions[i].deal = swaps[i].deal
         /\ IsPlan(executions[i].side, executions[i].amount)
         /\ executions[i].out = executions[i].amount
         /\ executions[i].deal # None =>
                deals[executions[i].deal].amount = executions[i].amount

FramesHavePlans ==
  \A r \in Runners : InFlight(r) =>
      /\ frames[r].strategy \in Strategies
      /\ IsPlan(frames[r].plan.side, frames[r].plan.amount)

\* What became of a swap.
Outcome(i) == IF swaps[i].deal = None THEN "paid" ELSE deals[swaps[i].deal].outcome

\* A swap that an inspection sees.
Settled(i) == i \in DOMAIN executions /\ Outcome(i) # "pending"

SwapsOf(s) == {i \in DOMAIN swaps : swaps[i].strategy = s}
IsLast(s, i) == i \in SwapsOf(s) /\ \A j \in SwapsOf(s) : j <= i

\* No run of s was blind.
AllSeen(s) == \A i \in SwapsOf(s) : ~swaps[i].blind

\* As long as none is, a strategy holds its one entry or nothing, and what is not
\* settled is the last swap.
HoldsOne(s) ==
  /\ Managed(s) \in {0, 1}
  /\ \A i \in SwapsOf(s) : IsLast(s, i) \/ Settled(i)
  /\ \A i \in SwapsOf(s) : IsLast(s, i) /\ i \in DOMAIN executions =>
         /\ swaps[i].side = "entry" /\ Outcome(i) = "pending" => Managed(s) = 0
         /\ swaps[i].side = "exit" /\ Outcome(i) = "paid" => Managed(s) = 0
PositionsInv ==
  \A s \in Strategies : strategies[s] # Deleted /\ AllSeen(s) => HoldsOne(s)

\* A run that is not blind is the only one of its strategy that is not ...
Alone(r) ==
  \A z \in Runners : InFlight(z) /\ z # r /\ frames[z].strategy = frames[r].strategy =>
      frames[z].blind
\* ... and what it is about to do does not repeat the last swap, as it saw it.
Differs(r) ==
  \A i \in SwapsOf(frames[r].strategy) :
      IsLast(frames[r].strategy, i) /\ swaps[i].side = frames[r].plan.side =>
          \/ Outcome(i) = "refunded"
          \/ swaps[i].blind
          \/ swaps[i].side = "exit" /\ ~AllSeen(frames[r].strategy)
\* Everything it could see is settled still.
Stands(r) ==
  strategies[frames[r].strategy] # Deleted /\ AllSeen(frames[r].strategy) =>
      /\ \A i \in SwapsOf(frames[r].strategy) : Settled(i)
      /\ frames[r].plan.side = "entry" => Managed(frames[r].strategy) = 0
RunsInv ==
  \A r \in Runners : InFlight(r) /\ ~frames[r].blind => Alone(r) /\ Differs(r) /\ Stands(r)

-----------------------------------------------------------------------------
(* What a row does. *)

\* What it did before it is settled, and after.
LEMMA RowMoves ==
  ASSUME NEW p \in Nat, NEW row, NEW ds, IsPlan(row.side, row.amount), row.out = row.amount,
         row.deal # None /\ ds[row.deal].outcome = "paid" => ds[row.deal].out = row.amount
  PROVE  /\ ~(row.deal = None \/ ds[row.deal].outcome = "paid") => Moves(p, row, ds) = p
         /\ (row.deal = None \/ ds[row.deal].outcome = "paid") =>
               Moves(p, row, ds) = IF row.side = "entry" THEN p + 1
                                   ELSE IF p >= row.amount THEN p - row.amount ELSE 0
  <1>1. ASSUME row.deal = None \/ ds[row.deal].outcome = "paid", row.side = "entry"
        PROVE  Moves(p, row, ds) = p + 1
    <2>1. row.amount = 1
      BY <1>1 DEF IsPlan
    <2>2. Moves(p, row, ds) = p + (IF row.deal = None THEN row.out ELSE ds[row.deal].out)
      BY <1>1 DEF Moves
    <2> QED BY <1>1, <2>1, <2>2
  <1>2. ASSUME row.deal = None \/ ds[row.deal].outcome = "paid", row.side = "exit"
        PROVE  Moves(p, row, ds) = IF p >= row.amount THEN p - row.amount ELSE 0
    <2>1. Moves(p, row, ds) = Max({0, p - row.amount})
      BY <1>2 DEF Moves
    <2>2. row.amount \in Nat
      BY DEF IsPlan
    <2>3. 0 \in Int /\ p - row.amount \in Int
      BY <2>2
    <2>4. Max({0, p - row.amount}) = IF 0 >= p - row.amount THEN 0 ELSE p - row.amount
      BY <2>3, MaxOfTwo
    <2> QED BY <2>1, <2>2, <2>4
  <1>3. ASSUME ~(row.deal = None \/ ds[row.deal].outcome = "paid")
        PROVE  Moves(p, row, ds) = p
    BY <1>3 DEF Moves
  <1>4. row.side = "entry" \/ row.side = "exit"
    BY DEF IsPlan
  <1> QED BY <1>1, <1>2, <1>3, <1>4

\* A recorded swap's row.
LEMMA SwapRow ==
  ASSUME DealTypes, SwapTypes, RowsAreSwaps, NEW i \in DOMAIN executions, NEW p \in Nat
  PROVE  /\ Outcome(i) # "paid" => Moves(p, executions[i], deals) = p
         /\ Outcome(i) = "paid" =>
               Moves(p, executions[i], deals)
                   = IF swaps[i].side = "entry" THEN p + 1
                     ELSE IF p >= executions[i].amount THEN p - executions[i].amount ELSE 0
  <1>1. /\ IsPlan(executions[i].side, executions[i].amount)
        /\ executions[i].out = executions[i].amount
        /\ executions[i].side = swaps[i].side /\ executions[i].deal = swaps[i].deal
        /\ i \in DOMAIN swaps
    BY DEF RowsAreSwaps
  <1>2. executions[i].deal # None /\ deals[executions[i].deal].outcome = "paid" =>
            deals[executions[i].deal].out = executions[i].amount
    BY <1>1 DEF RowsAreSwaps, SwapTypes, DealTypes
  <1>3. Outcome(i) = "paid" <=> (executions[i].deal = None \/ deals[executions[i].deal].outcome = "paid")
    BY <1>1 DEF Outcome
  <1> QED BY <1>1, <1>2, <1>3, RowMoves

\* What one row makes of an amount is an amount.
LEMMA CountsNat ==
  ASSUME DealTypes, SwapTypes, RowsAreSwaps, NEW s, NEW n, NEW p \in Nat
  PROVE  Counts(p, executions, deals, s, n) \in Nat
  <1>1. CASE n \in DOMAIN executions
    <2>1. executions[n].amount \in Nat
      BY <1>1 DEF RowsAreSwaps, IsPlan
    <2>2. Moves(p, executions[n], deals) \in Nat
      BY <1>1, <2>1, SwapRow
    <2> QED BY <2>2 DEF Counts
  <1>2. CASE n \notin DOMAIN executions
    BY <1>2 DEF Counts
  <1> QED BY <1>1, <1>2

LEMMA PositionNat ==
  ASSUME DealTypes, SwapTypes, RowsAreSwaps, NEW s
  PROVE  \A n \in 0 .. Len(swaps) : PositionAt(n, Len(swaps), executions, deals, s) \in Nat
  <1> DEFINE N == Len(swaps)
             f(n) == PositionAt(n, N, executions, deals, s)
             Good == {n \in 0 .. N : f(n) \in Nat}
  <1>1. N \in Nat
    BY DEF SwapTypes
  <1>2. f(0) = 0 /\ \A n \in 1 .. N : f(n) = Counts(f(n - 1), executions, deals, s, n)
    BY <1>1, PositionMoves
  <1> HIDE DEF N, f
  <1>3. ASSUME NEW n \in 0 .. N, \A m \in 0 .. N : m < n => m \in Good
        PROVE  n \in Good
    <2>1. CASE n = 0
      BY <2>1, <1>2
    <2>2. CASE n # 0
      <3>1. n - 1 \in 0 .. N /\ n - 1 < n /\ n \in 1 .. N
        BY <1>1, <2>2
      <3>2. f(n - 1) \in Nat
        BY <3>1, <1>3
      <3>3. Counts(f(n - 1), executions, deals, s, n) \in Nat
        BY <3>2, CountsNat
      <3> QED BY <3>1, <3>3, <1>2
    <2> QED BY <2>1, <2>2
  <1> HIDE DEF Good
  <1>4. \A n \in 0 .. N : n \in Good
    BY <1>1, <1>3, NumberInduction
  <1>5. \A n \in 0 .. N : f(n) \in Nat
    BY <1>4 DEF Good
  <1> QED BY <1>5 DEF f, N

LEMMA ManagedNat ==
  ASSUME DealTypes, SwapTypes, RowsAreSwaps, NEW s
  PROVE  Managed(s) \in Nat
  <1>1. Len(swaps) \in Nat
    BY DEF SwapTypes
  <1> QED BY <1>1, ManagedIs, PositionNat
-----------------------------------------------------------------------------
(* A swap. *)

\* The row that records it.
RowFor(f, deal) == [strategy |-> f.strategy, side |-> f.plan.side, amount |-> f.plan.amount,
                    out |-> f.plan.amount, deal |-> deal]

\* A run that was under way, and is.
GoesOn(z) ==
  /\ InFlight(z)
  /\ frames'[z].strategy = frames[z].strategy
  /\ frames'[z].plan = frames[z].plan
  /\ frames'[z].blind <=> frames[z].blind

\* A run swaps, at once or with a deal of its own; it is recorded, or a stop comes first.
\* It ends there, and no other run begins.
SwapBy(r, deal) ==
  /\ InFlight(r)
  /\ swaps' = Append(swaps, Swap(frames[r], deal))
  /\ \/ deal = None /\ deals' = deals
     \/ /\ deal = Len(deals) + 1
        /\ \E d : /\ IsDeal(d) /\ d.outcome = "pending" /\ d.amount = frames[r].plan.amount
                  /\ deals' = Append(deals, d)
  /\ \/ executions' = executions
     \/ executions' = [n \in DOMAIN executions \cup {Len(swaps) + 1} |->
                          IF n = Len(swaps) + 1 THEN RowFor(frames[r], deal)
                          ELSE executions[n]]
  /\ UNCHANGED strategies
  /\ \A z \in Runners : InFlight(z)' => GoesOn(z) /\ z # r

\* One more element.
LEMMA OneMore ==
  ASSUME NEW q, NEW x, NEW p, p = Append(q, x), \E S : q \in Seq(S)
  PROVE  /\ \E S : p \in Seq(S)
         /\ Len(q) \in Nat /\ Len(p) = Len(q) + 1
         /\ DOMAIN q = 1 .. Len(q) /\ DOMAIN p = 1 .. Len(q) + 1
         /\ p[Len(q) + 1] = x
         /\ \A i \in DOMAIN q : p[i] = q[i]
         /\ Len(q) + 1 \notin DOMAIN q
  <1>1. PICK S : q \in Seq(S)
    OBVIOUS
  <1>2. q \in Seq(S \cup {x})
    BY <1>1
  <1> QED BY <1>2

\* Where a deal is told from none.
LEMMA DealNumbers ==
  ASSUME DealTypes
  PROVE  /\ Len(deals) \in Nat /\ DOMAIN deals = 1 .. Len(deals)
         /\ None \notin DOMAIN deals /\ None # Len(deals) + 1
  BY Sentinels DEF DealTypes

LEMMA SwapDeals ==
  ASSUME DealTypes, NEW r, NEW deal, SwapBy(r, deal)
  PROVE  /\ DealTypes' /\ DOMAIN deals \subseteq DOMAIN deals'
         /\ \A d \in DOMAIN deals : deals'[d] = deals[d]
         /\ \/ deal = None
            \/ /\ deal \in DOMAIN deals' /\ deal \notin DOMAIN deals /\ deal # None
               /\ deals'[deal].outcome = "pending"
               /\ deals'[deal].amount = frames[r].plan.amount
  <1>1. CASE deal = None /\ deals' = deals
    BY <1>1 DEF DealTypes
  <1>2. ASSUME deal = Len(deals) + 1, NEW d, IsDeal(d), d.outcome = "pending",
               d.amount = frames[r].plan.amount, deals' = Append(deals, d)
        PROVE  /\ DealTypes' /\ DOMAIN deals \subseteq DOMAIN deals'
               /\ \A e \in DOMAIN deals : deals'[e] = deals[e]
               /\ deal \in DOMAIN deals' /\ deal \notin DOMAIN deals /\ deal # None
               /\ deals'[deal].outcome = "pending"
               /\ deals'[deal].amount = frames[r].plan.amount
    <2>1. /\ \E S : deals' \in Seq(S)
          /\ Len(deals) \in Nat /\ DOMAIN deals = 1 .. Len(deals)
          /\ DOMAIN deals' = 1 .. Len(deals) + 1
          /\ deals'[Len(deals) + 1] = d
          /\ \A i \in DOMAIN deals : deals'[i] = deals[i]
          /\ Len(deals) + 1 \notin DOMAIN deals
      <3>1. \E S : deals \in Seq(S)
        BY DEF DealTypes
      <3>2. deals' = Append(deals, d)
        BY <1>2
      <3> QED BY <3>1, <3>2, OneMore
    <2>2. deal # None
      BY <1>2, DealNumbers
    <2>3. \A i \in DOMAIN deals' : i \in DOMAIN deals \/ i = Len(deals) + 1
      BY <2>1
    <2>4. DealTypes'
      BY <1>2, <2>1, <2>3 DEF DealTypes
    <2> QED BY <1>2, <2>1, <2>2, <2>4
  <1> QED BY <1>1, <1>2 DEF SwapBy

\* The list of swaps grows by one.
LEMMA SwapList ==
  ASSUME SwapTypes, RowsAreSwaps, NEW r, NEW deal, SwapBy(r, deal), NEW N, N = Len(swaps) + 1
  PROVE  /\ N - 1 = Len(swaps) /\ N \in Nat \ {0} /\ Len(swaps') = N
         /\ \E S : swaps' \in Seq(S)
         /\ DOMAIN swaps = 1 .. N - 1 /\ DOMAIN swaps' = 1 .. N
         /\ swaps'[N] = Swap(frames[r], deal)
         /\ \A i \in DOMAIN swaps : swaps'[i] = swaps[i] /\ i # N
         /\ \A i \in DOMAIN swaps' : i \in DOMAIN swaps \/ i = N
         /\ N \notin DOMAIN executions
         /\ \A i \in DOMAIN executions : i \in DOMAIN executions' /\ executions'[i] = executions[i]
         /\ \A i \in DOMAIN executions' : i \in DOMAIN executions \/ i = N
         /\ N \in DOMAIN executions' => executions'[N] = RowFor(frames[r], deal)
  <1>1. /\ \E S : swaps' \in Seq(S)
        /\ Len(swaps) \in Nat /\ Len(swaps') = N
        /\ DOMAIN swaps = 1 .. Len(swaps) /\ DOMAIN swaps' = 1 .. Len(swaps) + 1
        /\ swaps'[N] = Swap(frames[r], deal)
        /\ \A i \in DOMAIN swaps : swaps'[i] = swaps[i]
        /\ N \notin DOMAIN swaps
    <2> DEFINE x == Swap(frames[r], deal)
    <2>1. swaps' = Append(swaps, x) /\ \E S : swaps \in Seq(S)
      BY DEF SwapBy, SwapTypes
    <2> HIDE DEF x
    <2>2. QED
      BY <2>1, OneMore DEF x
  <1>2. N \notin DOMAIN executions
    BY <1>1 DEF RowsAreSwaps
  <1>3. /\ \A i \in DOMAIN executions : i \in DOMAIN executions' /\ executions'[i] = executions[i]
        /\ \A i \in DOMAIN executions' : i \in DOMAIN executions \/ i = N
        /\ N \in DOMAIN executions' => executions'[N] = RowFor(frames[r], deal)
    BY <1>2 DEF SwapBy
  <1> QED BY <1>1, <1>2, <1>3

LEMMA SwapRows ==
  ASSUME DealTypes, SwapTypes, RowsAreSwaps, FramesHavePlans, NEW r \in Runners, NEW deal,
         SwapBy(r, deal)
  PROVE  DealTypes' /\ SwapTypes' /\ RowsAreSwaps' /\ FramesHavePlans'
  <1> DEFINE N == Len(swaps) + 1
             f == frames[r]
  <1>1. /\ \E S : swaps' \in Seq(S)
        /\ DOMAIN swaps' = 1 .. N /\ N \in DOMAIN swaps'
        /\ swaps'[N] = Swap(f, deal)
        /\ \A i \in DOMAIN swaps : i \in DOMAIN swaps' /\ swaps'[i] = swaps[i] /\ i # N
        /\ \A i \in DOMAIN swaps' : i \in DOMAIN swaps \/ i = N
        /\ \A i \in DOMAIN executions : executions'[i] = executions[i]
        /\ \A i \in DOMAIN executions' : i \in DOMAIN executions \/ i = N
        /\ N \in DOMAIN executions' => executions'[N] = RowFor(f, deal)
    BY SwapList
  <1>2. /\ DealTypes' /\ DOMAIN deals \subseteq DOMAIN deals'
        /\ \A d \in DOMAIN deals : deals'[d] = deals[d]
        /\ \/ deal = None
           \/ /\ deal \in DOMAIN deals' /\ deal \notin DOMAIN deals /\ deal # None
              /\ deals'[deal].outcome = "pending" /\ deals'[deal].amount = f.plan.amount
    BY SwapDeals
  <1>3. InFlight(r) /\ IsPlan(f.plan.side, f.plan.amount)
    BY DEF SwapBy, FramesHavePlans
  <1>4. FramesHavePlans'
    BY DEF SwapBy, FramesHavePlans, GoesOn
  <1> HIDE DEF N, f
  <1>5. swaps'[N].deal = deal /\ swaps'[N].strategy = f.strategy /\ swaps'[N].side = f.plan.side
    BY <1>1 DEF Swap
  <1>6. SwapTypes'
    <2>1. \A i \in DOMAIN swaps' : swaps'[i].deal = None \/ swaps'[i].deal \in DOMAIN deals'
      BY <1>1, <1>2, <1>5 DEF SwapTypes
    <2>2. ASSUME NEW i \in DOMAIN swaps', NEW j \in DOMAIN swaps',
                 swaps'[i].deal = swaps'[j].deal, swaps'[i].deal # None
          PROVE  i = j
      <3>1. \A k \in DOMAIN swaps : swaps[k].deal = None \/ swaps[k].deal \in DOMAIN deals
        BY DEF SwapTypes
      <3>2. CASE i \in DOMAIN swaps /\ j \in DOMAIN swaps
        BY <1>1, <2>2, <3>2 DEF SwapTypes
      <3>3. CASE i = N /\ j \in DOMAIN swaps
        BY <1>1, <1>2, <1>5, <2>2, <3>1, <3>3
      <3>4. CASE i \in DOMAIN swaps /\ j = N
        BY <1>1, <1>2, <1>5, <2>2, <3>1, <3>4
      <3> QED BY <1>1, <3>2, <3>3, <3>4
    <2> QED BY <1>1, <2>1, <2>2 DEF SwapTypes
  <1>7. RowsAreSwaps'
    <2>1. DOMAIN executions \subseteq DOMAIN swaps
      BY DEF RowsAreSwaps
    <2>2. DOMAIN executions' \subseteq DOMAIN swaps'
      BY <1>1, <2>1
    <2>3. ASSUME NEW i \in DOMAIN executions'
          PROVE  /\ executions'[i].strategy = swaps'[i].strategy
                 /\ executions'[i].side = swaps'[i].side
                 /\ executions'[i].deal = swaps'[i].deal
                 /\ IsPlan(executions'[i].side, executions'[i].amount)
                 /\ executions'[i].out = executions'[i].amount
                 /\ executions'[i].deal # None =>
                        deals'[executions'[i].deal].amount = executions'[i].amount
      <3>1. CASE i \in DOMAIN executions
        <4>1. executions'[i] = executions[i] /\ swaps'[i] = swaps[i] /\ i \in DOMAIN swaps
          BY <1>1, <2>1, <3>1
        <4>2. executions[i].deal # None => deals'[executions[i].deal] = deals[executions[i].deal]
          BY <1>2, <3>1, <4>1 DEF RowsAreSwaps, SwapTypes
        <4> QED BY <3>1, <4>1, <4>2 DEF RowsAreSwaps
      <3>2. CASE i = N
        <4>1. executions'[i] = RowFor(f, deal)
          BY <1>1, <2>3, <3>2
        <4> QED BY <1>2, <1>3, <1>5, <3>2, <4>1 DEF RowFor
      <3> QED BY <1>1, <2>3, <3>1, <3>2
    <2> QED BY <2>2, <2>3 DEF RowsAreSwaps
  <1> QED BY <1>2, <1>4, <1>6, <1>7
-----------------------------------------------------------------------------
(* What a step does to the managed position. *)

\* Rows that do not count leave the position where it was.
LEMMA PositionStays ==
  ASSUME NEW N \in Nat, NEW rows, NEW ds, NEW s, NEW k \in 0 .. N,
         \A n \in k + 1 .. N : \A p : Counts(p, rows, ds, s, n) = p
  PROVE  PositionAt(N, N, rows, ds, s) = PositionAt(k, N, rows, ds, s)
  <1> DEFINE f(n) == PositionAt(n, N, rows, ds, s)
             Good == {n \in 0 .. N : n >= k => f(n) = f(k)}
  <1>1. f(0) = 0 /\ \A n \in 1 .. N : f(n) = Counts(f(n - 1), rows, ds, s, n)
    BY PositionMoves
  <1> HIDE DEF f
  <1>2. ASSUME NEW n \in 0 .. N, \A m \in 0 .. N : m < n => m \in Good
        PROVE  n \in Good
    <2>1. CASE n <= k
      BY <2>1
    <2>2. CASE n > k
      <3>1. n - 1 \in 0 .. N /\ n - 1 < n /\ n - 1 >= k /\ n \in 1 .. N /\ n \in k + 1 .. N
        BY <2>2
      <3>2. f(n - 1) = f(k)
        BY <3>1, <1>2
      <3>3. f(n) = f(n - 1)
        BY <3>1, <1>1
      <3> QED BY <3>2, <3>3
    <2> QED BY <2>1, <2>2
  <1> HIDE DEF Good
  <1>3. N \in Good
    BY <1>2, NumberInduction
  <1>4. f(N) = f(k)
    BY <1>3 DEF Good
  <1> QED BY <1>4 DEF f

\* The last row that counts decides.
LEMMA LastRowCounts ==
  ASSUME NEW s, Len(swaps) \in Nat, NEW i \in 1 .. Len(swaps),
         \A n \in i + 1 .. Len(swaps) : \A p : Counts(p, executions, deals, s, n) = p
  PROVE  Managed(s) = Counts(PositionAt(i - 1, Len(swaps), executions, deals, s),
                             executions, deals, s, i)
  <1> DEFINE N == Len(swaps)
             f(n) == PositionAt(n, N, executions, deals, s)
  <1>1. N \in Nat /\ i \in 0 .. N
    OBVIOUS
  <1>2. Managed(s) = f(N)
    BY ManagedIs
  <1>3. f(N) = f(i)
    BY <1>1, PositionStays
  <1>4. f(i) = Counts(f(i - 1), executions, deals, s, i)
    <2> HIDE DEF N
    <2>1. f(0) = 0 /\ \A n \in 1 .. N : f(n) = Counts(f(n - 1), executions, deals, s, n)
      BY <1>1, PositionMoves
    <2> QED BY <2>1 DEF N
  <1> QED BY <1>2, <1>3, <1>4

LEMMA ManagedSame ==
  ASSUME NEW s, Len(swaps) \in Nat, Len(swaps') = Len(swaps),
         \A n \in 1 .. Len(swaps) : \A p :
             Counts(p, executions, deals, s, n) = Counts(p, executions', deals', s, n)
  PROVE  Managed(s)' = Managed(s)
  <1> DEFINE N == Len(swaps)
  <1>1. PositionAt(N, N, executions, deals, s) = PositionAt(N, N, executions', deals', s)
    BY PositionsAgree
  <1> QED BY <1>1, ManagedIs, ManagedWillBe

LEMMA ManagedMoves ==
  ASSUME NEW s, Len(swaps) \in Nat, Len(swaps') = Len(swaps) + 1,
         \A n \in 1 .. Len(swaps) : \A p :
             Counts(p, executions, deals, s, n) = Counts(p, executions', deals', s, n)
  PROVE  Managed(s)' = Counts(Managed(s), executions', deals', s, Len(swaps) + 1)
  <1> DEFINE N == Len(swaps)
  <1>1. N \in Nat /\ N + 1 \in Nat /\ N + 1 \in 1 .. N + 1 /\ (N + 1) - 1 = N
    OBVIOUS
  <1>2. PositionAt(N, N, executions, deals, s) = PositionAt(N, N + 1, executions', deals', s)
    BY <1>1, PositionsAgree
  <1> DEFINE M == N + 1
             g(n) == PositionAt(n, M, executions', deals', s)
  <1>3. g(M) = Counts(g(M - 1), executions', deals', s, M)
    <2>1. M \in Nat /\ M \in 1 .. M
      BY <1>1
    <2> HIDE DEF M
    <2>2. g(0) = 0 /\ \A n \in 1 .. M : g(n) = Counts(g(n - 1), executions', deals', s, n)
      BY <2>1, PositionMoves
    <2> QED BY <2>1, <2>2
  <1>4. Managed(s) = PositionAt(N, N, executions, deals, s)
    BY ManagedIs
  <1>5. Managed(s)' = PositionAt(N + 1, N + 1, executions', deals', s)
    BY ManagedWillBe
  <1> QED BY <1>1, <1>2, <1>3, <1>4, <1>5

\* The last row comes to count.
LEMMA ManagedSettles ==
  ASSUME NEW s, Len(swaps) \in Nat, Len(swaps') = Len(swaps), NEW i \in 1 .. Len(swaps),
         \A n \in 1 .. Len(swaps) : n # i => \A p :
             Counts(p, executions, deals, s, n) = Counts(p, executions', deals', s, n),
         \A n \in i .. Len(swaps) : \A p : Counts(p, executions, deals, s, n) = p
  PROVE  Managed(s)' = Counts(Managed(s), executions', deals', s, i)
  <1> DEFINE N == Len(swaps)
             f(n) == PositionAt(n, N, executions, deals, s)
             g(n) == PositionAt(n, N, executions', deals', s)
  <1>1. N \in Nat /\ i \in 0 .. N /\ i - 1 \in 0 .. N /\ i - 1 \in Nat /\ (i - 1) + 1 = i
    OBVIOUS
  <1>2. f(N) = f(i - 1)
    BY <1>1, PositionStays
  <1>3. f(i - 1) = g(i - 1)
    <2>1. \A n \in 1 .. i - 1 : n \in 1 .. N /\ n # i
      OBVIOUS
    <2>2. \A n \in 1 .. i - 1 : \A p :
              Counts(p, executions, deals, s, n) = Counts(p, executions', deals', s, n)
      BY <2>1
    <2> HIDE DEF N
    <2>3. i - 1 <= N
      BY <1>1
    <2> QED BY <1>1, <2>2, <2>3, PositionsAgree
  <1>4. g(i) = Counts(g(i - 1), executions', deals', s, i)
    <2> HIDE DEF N
    <2>1. g(0) = 0 /\ \A n \in 1 .. N : g(n) = Counts(g(n - 1), executions', deals', s, n)
      BY <1>1, PositionMoves
    <2> QED BY <2>1 DEF N
  <1>5. g(N) = g(i)
    <2>1. \A n \in i + 1 .. N : n \in 1 .. N /\ n # i /\ n \in i .. N
      OBVIOUS
    <2>2. \A n \in i + 1 .. N : \A p : Counts(p, executions', deals', s, n) = p
      BY <2>1
    <2> QED BY <1>1, <2>2, PositionStays
  <1>6. Managed(s) = f(N)
    BY ManagedIs
  <1>7. Managed(s)' = g(N)
    BY ManagedWillBe
  <1> HIDE DEF N, f, g
  <1> QED BY <1>2, <1>3, <1>4, <1>5, <1>6, <1>7
-----------------------------------------------------------------------------
(* What the others see of a step. *)

\* A strategy whose swaps, and what became of them, stay as they are.
Same(t) ==
  /\ SwapsOf(t)' = SwapsOf(t)
  /\ Managed(t)' = Managed(t)
  /\ \A i \in SwapsOf(t) : /\ swaps'[i] = swaps[i]
                           /\ Outcome(i)' = Outcome(i)
                           /\ i \in DOMAIN executions' <=> i \in DOMAIN executions

LEMMA SameKeeps ==
  ASSUME NEW t, Same(t)
  PROVE  /\ AllSeen(t)' <=> AllSeen(t)
         /\ HoldsOne(t) => HoldsOne(t)'
         /\ \A i \in SwapsOf(t) : Settled(i)' <=> Settled(i)
         /\ \A i : IsLast(t, i)' <=> IsLast(t, i)
  <1>1. AllSeen(t)' <=> AllSeen(t)
    BY DEF Same, AllSeen
  <1>2. \A i \in SwapsOf(t) : Settled(i)' <=> Settled(i)
    BY DEF Same, Settled
  <1>3. \A i : IsLast(t, i)' <=> IsLast(t, i)
    BY DEF Same, IsLast
  <1>4. HoldsOne(t) => HoldsOne(t)'
    BY <1>2, <1>3 DEF Same, HoldsOne
  <1> QED BY <1>1, <1>2, <1>3, <1>4

\* A run of such a strategy that goes on, alone or in fewer company.
LEMMA RunSame ==
  ASSUME NEW r \in Runners, InFlight(r), ~frames[r].blind, Alone(r) /\ Differs(r) /\ Stands(r),
         GoesOn(r), NEW s, s = frames[r].strategy, Same(s),
         strategies[s] = Deleted => strategies'[s] = Deleted,
         \A z \in Runners : InFlight(z)' /\ frames'[z].strategy = s =>
             frames'[z].blind \/ GoesOn(z)
  PROVE  Alone(r)' /\ Differs(r)' /\ Stands(r)'
  <1>1. /\ AllSeen(s)' <=> AllSeen(s)
        /\ \A i \in SwapsOf(s) : Settled(i)' <=> Settled(i)
        /\ \A i : IsLast(s, i)' <=> IsLast(s, i)
    BY SameKeeps
  <1>2. /\ SwapsOf(s)' = SwapsOf(s) /\ Managed(s)' = Managed(s)
        /\ \A i \in SwapsOf(s) : swaps'[i] = swaps[i] /\ Outcome(i)' = Outcome(i)
    BY DEF Same
  <1>3. Alone(r)'
    BY DEF Alone, GoesOn
  <1>4. Differs(r)'
    BY <1>1, <1>2 DEF Differs, GoesOn
  <1>5. Stands(r)'
    BY <1>1, <1>2 DEF Stands, GoesOn
  <1> QED BY <1>3, <1>4, <1>5

\* Swaps that are as they were do not come to repeat each other.
LEMMA RepeatsSame ==
  ASSUME RepeatsAreBlind, NEW i \in DOMAIN swaps, NEW j \in DOMAIN swaps,
         DOMAIN swaps = 1 .. Len(swaps), Len(swaps) \in Nat,
         \A k \in DOMAIN swaps : /\ swaps'[k] = swaps[k]
                                 /\ Outcome(k) = "refunded" => Outcome(k)' = "refunded",
         Repeats(i, j)'
  PROVE  \/ swaps'[i].blind \/ swaps'[j].blind
         \/ /\ swaps'[j].side = "exit"
            /\ \E k \in 1 .. i : swaps'[k].strategy = swaps'[i].strategy /\ swaps'[k].blind
  <1>1. /\ swaps'[i] = swaps[i] /\ swaps'[j] = swaps[j]
        /\ i < j /\ i \in Nat /\ j \in Nat
        /\ swaps[i].strategy = swaps[j].strategy /\ swaps[i].side = swaps[j].side
        /\ Outcome(i)' # "refunded"
    BY DEF Repeats, Outcome
  <1>2. \A k \in 1 .. Len(swaps) : swaps'[k] = swaps[k]
    OBVIOUS
  <1>3. ASSUME NEW k \in (i + 1) .. (j - 1) PROVE swaps[k].strategy # swaps[j].strategy
    <2>1. k \in 1 .. Len(swaps)
      BY <1>3
    <2> QED BY <1>1, <1>2, <1>3, <2>1 DEF Repeats
  <1>4. swaps[i].deal # None => deals[swaps[i].deal].outcome # "refunded"
    BY <1>1 DEF Outcome
  <1>5. Repeats(i, j)
    BY <1>1, <1>3, <1>4 DEF Repeats
  <1>6. \/ swaps[i].blind \/ swaps[j].blind
        \/ /\ swaps[j].side = "exit"
           /\ \E k \in 1 .. i : swaps[k].strategy = swaps[i].strategy /\ swaps[k].blind
    BY <1>5 DEF RepeatsAreBlind
  <1>7. \A k \in 1 .. i : swaps'[k] = swaps[k]
    BY <1>1, <1>2
  <1> QED BY <1>1, <1>6, <1>7
\* A row counts alike wherever its deal has come to the same.
LEMMA MovesSame ==
  ASSUME NEW row, NEW ds, NEW ds2,
         row.deal = None \/ (ds[row.deal].outcome = ds2[row.deal].outcome
                             /\ ds[row.deal].out = ds2[row.deal].out)
  PROVE  \A p : Moves(p, row, ds) = Moves(p, row, ds2)
  BY DEF Moves

-----------------------------------------------------------------------------
(* A swap keeps what must be kept. *)

\* The earlier swaps do not notice, and neither do the other strategies.
LEMMA SwapSees ==
  ASSUME DealTypes, SwapTypes, RowsAreSwaps, NEW r \in Runners, NEW deal, SwapBy(r, deal),
         NEW N, N = Len(swaps) + 1, NEW s, s = frames[r].strategy
  PROVE  /\ \A i \in DOMAIN swaps : /\ swaps'[i] = swaps[i] /\ Outcome(i)' = Outcome(i)
                                    /\ i \in DOMAIN executions' <=> i \in DOMAIN executions
         /\ Outcome(N)' = (IF deal = None THEN "paid" ELSE "pending")
         /\ SwapsOf(s)' = SwapsOf(s) \cup {N}
         /\ \A t : t # s => Same(t)
         /\ Managed(s)' = IF N \in DOMAIN executions'
                          THEN Moves(Managed(s), executions'[N], deals') ELSE Managed(s)
  <1>1. /\ N - 1 = Len(swaps) /\ N \in Nat \ {0} /\ Len(swaps') = N
        /\ DOMAIN swaps = 1 .. N - 1 /\ DOMAIN swaps' = 1 .. N
        /\ swaps'[N] = Swap(frames[r], deal)
        /\ \A i \in DOMAIN swaps : swaps'[i] = swaps[i] /\ i # N
        /\ \A i \in DOMAIN swaps' : i \in DOMAIN swaps \/ i = N
        /\ N \notin DOMAIN executions
        /\ \A i \in DOMAIN executions : i \in DOMAIN executions' /\ executions'[i] = executions[i]
        /\ \A i \in DOMAIN executions' : i \in DOMAIN executions \/ i = N
        /\ N \in DOMAIN executions' => executions'[N] = RowFor(frames[r], deal)
    BY SwapList
  <1>2. /\ \A d \in DOMAIN deals : deals'[d] = deals[d]
        /\ deal = None \/ (deal # None /\ deals'[deal].outcome = "pending")
    BY SwapDeals
  <1>3. \A i \in DOMAIN swaps : swaps[i].deal = None \/ swaps[i].deal \in DOMAIN deals
    BY DEF SwapTypes
  <1>4. \A i \in DOMAIN swaps : /\ swaps'[i] = swaps[i] /\ Outcome(i)' = Outcome(i)
                                /\ i \in DOMAIN executions' <=> i \in DOMAIN executions
    BY <1>1, <1>2, <1>3 DEF Outcome
  <1>5. swaps'[N].deal = deal /\ swaps'[N].strategy = s
    BY <1>1 DEF Swap
  <1>6. Outcome(N)' = (IF deal = None THEN "paid" ELSE "pending")
    BY <1>2, <1>5 DEF Outcome
  <1>7. \A i \in DOMAIN swaps : i \in DOMAIN swaps'
    BY <1>1
  <1>8. N \in DOMAIN swaps'
    BY <1>1
  <1>9. SwapsOf(s)' = SwapsOf(s) \cup {N}
    BY <1>1, <1>5, <1>7, <1>8 DEF SwapsOf
  <1>10. \A t : t # s => SwapsOf(t)' = SwapsOf(t)
    BY <1>1, <1>5, <1>7 DEF SwapsOf
  <1>11. ASSUME NEW t
         PROVE  Managed(t)' = Counts(Managed(t), executions', deals', t, N)
    <2>1. ASSUME NEW n \in 1 .. Len(swaps), NEW p
          PROVE  Counts(p, executions, deals, t, n) = Counts(p, executions', deals', t, n)
      <3>1. n \in DOMAIN swaps
        BY <1>1, <2>1
      <3>2. CASE n \in DOMAIN executions
        <4>1. executions[n].deal = None \/ executions[n].deal \in DOMAIN deals
          BY <1>3, <3>1, <3>2 DEF RowsAreSwaps
        <4> DEFINE row == executions[n]
        <4>2. row.deal = None \/ (deals[row.deal].outcome = deals'[row.deal].outcome
                                  /\ deals[row.deal].out = deals'[row.deal].out)
          BY <1>2, <4>1
        <4> HIDE DEF row
        <4>3. Moves(p, row, deals) = Moves(p, row, deals')
          BY <4>2, MovesSame
        <4> QED BY <1>1, <3>2, <4>3 DEF Counts, row
      <3>3. CASE n \notin DOMAIN executions
        BY <1>4, <3>1, <3>3 DEF Counts
      <3> QED BY <3>2, <3>3
    <2>2. Len(swaps) \in Nat /\ Len(swaps') = Len(swaps) + 1
      BY <1>1 DEF SwapTypes
    <2> QED BY <2>1, <2>2, ManagedMoves
  <1>12. N \in DOMAIN executions' => executions'[N].strategy = s
    BY <1>1 DEF RowFor
  <1>13. ASSUME NEW t, t # s PROVE Same(t)
    <2>1. Managed(t)' = Managed(t)
      BY <1>11, <1>12, <1>13 DEF Counts
    <2> QED BY <1>4, <1>10, <1>13, <2>1 DEF Same, SwapsOf
  <1>14. Managed(s)' = IF N \in DOMAIN executions'
                       THEN Moves(Managed(s), executions'[N], deals') ELSE Managed(s)
    BY <1>11, <1>12 DEF Counts
  <1> QED BY <1>4, <1>6, <1>9, <1>13, <1>14

\* The new swap is the last of its strategy.
LEMMA SwapIsLast ==
  ASSUME SwapTypes, RowsAreSwaps, NEW r, NEW deal, SwapBy(r, deal),
         NEW N, N = Len(swaps) + 1, NEW s, SwapsOf(s)' = SwapsOf(s) \cup {N}
  PROVE  /\ IsLast(s, N)' /\ N \notin SwapsOf(s)
         /\ \A i \in SwapsOf(s) : i \in DOMAIN swaps /\ i \in Nat /\ i < N /\ ~IsLast(s, i)'
  <1>1. N \in Nat /\ DOMAIN swaps = 1 .. N - 1
    BY SwapList
  <1>2. SwapsOf(s) \subseteq 1 .. N - 1
    BY <1>1 DEF SwapsOf
  <1>3. \A i \in SwapsOf(s) : i \in DOMAIN swaps /\ i \in Nat /\ i < N
    BY <1>1, <1>2
  <1> QED BY <1>1, <1>3 DEF IsLast

\* A strategy that no blind run has touched holds one entry or nothing after it.
LEMMA SwapHolds ==
  ASSUME DealTypes, SwapTypes, RowsAreSwaps, FramesHavePlans, PositionsInv, RunsInv,
         NEW r \in Runners, NEW deal, SwapBy(r, deal)
  PROVE  PositionsInv'
  <1> PICK N, f, s : N = Len(swaps) + 1 /\ f = frames[r] /\ s = f.strategy
    OBVIOUS
  <1>1. /\ \A i \in DOMAIN swaps : /\ swaps'[i] = swaps[i] /\ Outcome(i)' = Outcome(i)
                                   /\ i \in DOMAIN executions' <=> i \in DOMAIN executions
        /\ Outcome(N)' = (IF deal = None THEN "paid" ELSE "pending")
        /\ SwapsOf(s)' = SwapsOf(s) \cup {N}
        /\ \A t : t # s => Same(t)
        /\ Managed(s)' = IF N \in DOMAIN executions'
                         THEN Moves(Managed(s), executions'[N], deals') ELSE Managed(s)
    BY SwapSees
  <1>2. strategies' = strategies /\ InFlight(r)
    BY DEF SwapBy
  <1>3. ASSUME NEW t \in Strategies, t # s, strategies'[t] # Deleted, AllSeen(t)'
        PROVE  HoldsOne(t)'
    BY <1>1, <1>2, <1>3, SameKeeps DEF PositionsInv
  <1>4. ASSUME s \in Strategies, strategies'[s] # Deleted, AllSeen(s)'
        PROVE  HoldsOne(s)'
    <2>1. /\ IsLast(s, N)' /\ N \notin SwapsOf(s)
          /\ \A i \in SwapsOf(s) : i \in DOMAIN swaps /\ i \in Nat /\ i < N /\ ~IsLast(s, i)'
      BY <1>1, SwapIsLast
    <2>2. swaps'[N] = Swap(f, deal)
          /\ (N \in DOMAIN executions' => executions'[N] = RowFor(f, deal))
      BY SwapList
    <2>3. swaps'[N].blind = f.blind /\ swaps'[N].side = f.plan.side
      BY <2>2 DEF Swap
    <2>4. AllSeen(s) /\ ~f.blind
      BY <1>1, <1>4, <2>1, <2>3 DEF AllSeen
    <2>5. /\ \A i \in SwapsOf(s) : Settled(i)
          /\ f.plan.side = "entry" => Managed(s) = 0
          /\ Managed(s) \in {0, 1}
      BY <1>2, <1>4, <2>4 DEF RunsInv, Stands, PositionsInv, HoldsOne
    <2>6. \A i \in SwapsOf(s) : Settled(i)'
      BY <1>1, <2>1, <2>5 DEF Settled
    <2>7. IsPlan(f.plan.side, f.plan.amount)
      BY <1>2 DEF FramesHavePlans
    <2>8. CASE N \notin DOMAIN executions'
      BY <1>1, <2>1, <2>5, <2>6, <2>8 DEF HoldsOne
    <2>9. CASE N \in DOMAIN executions'
      <3> DEFINE row == RowFor(f, deal)
      <3>1. executions'[N] = row
        BY <2>2, <2>9
      <3>2. /\ row.side = f.plan.side /\ row.amount = f.plan.amount
            /\ row.out = row.amount /\ row.deal = deal
        BY DEF RowFor
      <3> HIDE DEF row
      <3>3. deal = None \/ (deal # None /\ deals'[deal].outcome = "pending")
        BY SwapDeals
      <3>4. Managed(s) \in Nat
        BY <2>5
      <3>5. /\ ~(row.deal = None \/ deals'[row.deal].outcome = "paid") =>
                   Moves(Managed(s), row, deals') = Managed(s)
            /\ (row.deal = None \/ deals'[row.deal].outcome = "paid") =>
                   Moves(Managed(s), row, deals')
                       = IF row.side = "entry" THEN Managed(s) + 1
                         ELSE IF Managed(s) >= row.amount THEN Managed(s) - row.amount ELSE 0
        BY <2>7, <3>2, <3>3, <3>4, RowMoves
      <3>6. Managed(s)' = Moves(Managed(s), row, deals')
        BY <1>1, <2>9, <3>1
      <3>7. CASE deal # None
        <4>1. Managed(s)' = Managed(s) /\ Outcome(N)' = "pending"
          BY <1>1, <3>2, <3>3, <3>5, <3>6, <3>7
        <4> QED BY <1>1, <2>1, <2>3, <2>5, <2>6, <4>1 DEF HoldsOne
      <3>8. CASE deal = None
        <4>1. Outcome(N)' = "paid"
          BY <1>1, <3>8
        <4>2. Managed(s)' = IF f.plan.side = "entry" THEN Managed(s) + 1
                            ELSE IF Managed(s) >= f.plan.amount
                            THEN Managed(s) - f.plan.amount ELSE 0
          BY <3>2, <3>5, <3>6, <3>8
        <4>3. CASE f.plan.side = "entry"
          <5>1. Managed(s)' = 1
            BY <2>5, <4>2, <4>3
          <5> QED BY <1>1, <2>1, <2>3, <2>6, <4>1, <4>3, <5>1 DEF HoldsOne
        <4>4. CASE f.plan.side # "entry"
          <5>1. f.plan.amount \in Nat \ {0}
            BY <2>7 DEF IsPlan
          <5>2. Managed(s)' = 0
            BY <2>5, <4>2, <4>4, <5>1
          <5> QED BY <1>1, <2>1, <2>6, <5>2 DEF HoldsOne
        <4> QED BY <4>3, <4>4
      <3> QED BY <3>7, <3>8
    <2> QED BY <2>8, <2>9
  <1> QED BY <1>3, <1>4 DEF PositionsInv

\* The runs that go on differ still, or know that a blind one has passed them.
LEMMA SwapRuns ==
  ASSUME DealTypes, SwapTypes, RowsAreSwaps, FramesHavePlans, RunsInv,
         NEW r \in Runners, NEW deal, SwapBy(r, deal)
  PROVE  RunsInv'
  <1> PICK N, f, s : N = Len(swaps) + 1 /\ f = frames[r] /\ s = f.strategy
    OBVIOUS
  <1>1. /\ \A i \in DOMAIN swaps : swaps'[i] = swaps[i]
        /\ SwapsOf(s)' = SwapsOf(s) \cup {N}
        /\ \A t : t # s => Same(t)
    BY SwapSees
  <1>2. /\ strategies' = strategies /\ InFlight(r)
        /\ \A z \in Runners : InFlight(z)' => GoesOn(z) /\ z # r
    BY DEF SwapBy
  <1>3. SUFFICES ASSUME NEW z \in Runners, InFlight(z)', ~frames'[z].blind
                 PROVE  Alone(z)' /\ Differs(z)' /\ Stands(z)'
    BY DEF RunsInv
  <1>4. /\ InFlight(z) /\ z # r /\ GoesOn(z) /\ ~frames[z].blind
        /\ Alone(z) /\ Differs(z) /\ Stands(z)
    BY <1>2, <1>3 DEF RunsInv, GoesOn
  <1>5. CASE frames[z].strategy # s
    <2>1. PICK t : t = frames[z].strategy
      OBVIOUS
    <2>2. Same(t)
      BY <1>1, <1>5, <2>1
    <2> QED BY <1>2, <1>4, <2>1, <2>2, RunSame
  <1>6. CASE frames[z].strategy = s
    <2>1. f.blind
      BY <1>2, <1>4, <1>6 DEF Alone
    <2>2. swaps'[N].blind
      <3>1. swaps'[N] = Swap(f, deal)
        BY SwapList
      <3>2. swaps'[N].blind = f.blind
        BY <3>1 DEF Swap
      <3> QED BY <2>1, <3>2
    <2>3. /\ IsLast(s, N)'
          /\ \A i \in SwapsOf(s) : ~IsLast(s, i)'
      BY <1>1, SwapIsLast
    <2>4. Alone(z)'
      BY <1>2, <1>3, <1>4 DEF Alone, GoesOn
    <2>5. Differs(z)'
      BY <1>1, <1>4, <1>6, <2>2, <2>3 DEF Differs, GoesOn
    <2>6. Stands(z)'
      BY <1>1, <1>4, <1>6, <2>2 DEF Stands, AllSeen, GoesOn
    <2> QED BY <2>4, <2>5, <2>6
  <1> QED BY <1>5, <1>6

\* The new swap repeats none that its run could see.
LEMMA SwapRepeats ==
  ASSUME DealTypes, SwapTypes, RowsAreSwaps, FramesHavePlans, RunsInv, RepeatsAreBlind,
         NEW r \in Runners, NEW deal, SwapBy(r, deal)
  PROVE  RepeatsAreBlind'
  <1> PICK N, f, s : N = Len(swaps) + 1 /\ f = frames[r] /\ s = f.strategy
    OBVIOUS
  <1>1. /\ \A i \in DOMAIN swaps : swaps'[i] = swaps[i] /\ Outcome(i)' = Outcome(i)
        /\ SwapsOf(s)' = SwapsOf(s) \cup {N}
    BY SwapSees
  <1>2. /\ N - 1 = Len(swaps) /\ N \in Nat \ {0}
        /\ DOMAIN swaps = 1 .. N - 1 /\ DOMAIN swaps' = 1 .. N
        /\ swaps'[N] = Swap(f, deal)
        /\ \A i \in DOMAIN swaps' : i \in DOMAIN swaps \/ i = N
    BY SwapList
  <1>3. swaps'[N].blind = f.blind /\ swaps'[N].side = f.plan.side /\ swaps'[N].strategy = s
    BY <1>2 DEF Swap
  <1>4. SUFFICES ASSUME NEW i \in DOMAIN swaps', NEW j \in DOMAIN swaps', Repeats(i, j)'
                 PROVE  \/ swaps'[i].blind \/ swaps'[j].blind
                        \/ /\ swaps'[j].side = "exit"
                           /\ \E k \in 1 .. i : /\ swaps'[k].strategy = swaps'[i].strategy
                                                /\ swaps'[k].blind
    BY DEF RepeatsAreBlind
  <1>5. /\ i < j /\ swaps'[i].strategy = swaps'[j].strategy /\ swaps'[i].side = swaps'[j].side
        /\ Outcome(i)' # "refunded"
        /\ \A k \in (i + 1) .. (j - 1) : swaps'[k].strategy # swaps'[j].strategy
    BY <1>4 DEF Repeats, Outcome
  <1>6. CASE j \in DOMAIN swaps
    <2>1. i \in DOMAIN swaps
      BY <1>2, <1>5, <1>6
    <2>2. DOMAIN swaps = 1 .. Len(swaps) /\ Len(swaps) \in Nat
      BY <1>2 DEF SwapTypes
    <2>3. \A k \in DOMAIN swaps : /\ swaps'[k] = swaps[k]
                                  /\ Outcome(k) = "refunded" => Outcome(k)' = "refunded"
      BY <1>1
    <2> QED BY <1>4, <1>6, <2>1, <2>2, <2>3, RepeatsSame
  <1>7. CASE j = N /\ ~f.blind
    <2>1. InFlight(r) /\ Differs(r)
      BY <1>7 DEF RunsInv, SwapBy
    <2>2. i \in 1 .. N - 1 /\ i \in DOMAIN swaps /\ swaps'[i] = swaps[i] /\ Outcome(i) # "refunded"
      BY <1>1, <1>2, <1>5, <1>7
    <2>3. i \in SwapsOf(s)
      BY <1>3, <1>5, <1>7, <2>2 DEF SwapsOf
    <2>4. \A k \in SwapsOf(s) : k <= i
      <3>1. ASSUME NEW k \in SwapsOf(s), k > i PROVE FALSE
        <4>1. k \in 1 .. N - 1 /\ swaps'[k] = swaps[k] /\ swaps[k].strategy = s
          BY <1>1, <1>2, <3>1 DEF SwapsOf
        <4>2. k \in (i + 1) .. (N - 1)
          BY <1>2, <2>2, <3>1, <4>1
        <4> QED BY <1>3, <1>5, <1>7, <4>1, <4>2
      <3>2. \A k \in SwapsOf(s) : k \in Nat
        BY <1>2 DEF SwapsOf
      <3> QED BY <2>2, <3>1, <3>2
    <2>5. IsLast(s, i)
      BY <2>3, <2>4 DEF IsLast
    <2>6. swaps[i].side = f.plan.side
      BY <1>3, <1>5, <1>7, <2>2
    <2>7. swaps[i].blind \/ (swaps[i].side = "exit" /\ ~AllSeen(s))
      BY <2>1, <2>2, <2>3, <2>5, <2>6 DEF Differs
    <2>8. CASE swaps[i].side = "exit" /\ ~AllSeen(s)
      <3>1. PICK k \in SwapsOf(s) : swaps[k].blind
        BY <2>8 DEF AllSeen
      <3>2. k \in DOMAIN swaps /\ swaps'[k] = swaps[k] /\ swaps[k].strategy = s /\ k <= i
        BY <1>1, <2>4 DEF SwapsOf
      <3>3. k \in 1 .. i
        BY <1>2, <2>2, <3>2
      <3> QED BY <1>3, <1>5, <1>7, <2>2, <2>8, <3>1, <3>2, <3>3
    <2> QED BY <2>2, <2>7, <2>8
  <1>8. CASE j = N /\ f.blind
    BY <1>3, <1>8
  <1> QED BY <1>2, <1>6, <1>7, <1>8
-----------------------------------------------------------------------------
(* Everything that makes a repetition blind. *)

BlindInv ==
  /\ DealTypes /\ SwapTypes /\ RowsAreSwaps /\ FramesHavePlans
  /\ PositionsInv /\ RunsInv /\ RepeatsAreBlind

LEMMA SwapKeeps ==
  ASSUME BlindInv, NEW r \in Runners, NEW deal, SwapBy(r, deal)
  PROVE  BlindInv'
  <1>1. DealTypes' /\ SwapTypes' /\ RowsAreSwaps' /\ FramesHavePlans'
    BY SwapRows DEF BlindInv
  <1>2. PositionsInv' /\ RunsInv' /\ RepeatsAreBlind'
    BY SwapHolds, SwapRuns, SwapRepeats DEF BlindInv
  <1> QED BY <1>1, <1>2 DEF BlindInv

\* No swap is made or changed.
LEMMA SameAll ==
  ASSUME SwapTypes, UNCHANGED <<swaps, deals, executions>>
  PROVE  \A t : Same(t)
  <1>1. ASSUME NEW t PROVE Same(t)
    <2>1. Len(swaps) \in Nat
      BY DEF SwapTypes
    <2>2. Managed(t)' = Managed(t)
      BY <2>1, ManagedSame
    <2> QED BY <2>2 DEF Same, SwapsOf, Outcome
  <1> QED BY <1>1

LEMMA RowsStay ==
  ASSUME DealTypes, SwapTypes, RowsAreSwaps, RepeatsAreBlind, UNCHANGED <<swaps, deals, executions>>
  PROVE  DealTypes' /\ SwapTypes' /\ RowsAreSwaps' /\ RepeatsAreBlind'
  BY DEF DealTypes, SwapTypes, RowsAreSwaps, RepeatsAreBlind, Repeats

\* A deleted strategy stays so.
DeletedStay == \A s \in Strategies : strategies[s] = Deleted => strategies'[s] = Deleted

LEMMA PositionsStay ==
  ASSUME SwapTypes, PositionsInv, UNCHANGED <<swaps, deals, executions>>, DeletedStay
  PROVE  PositionsInv'
  <1>1. ASSUME NEW s \in Strategies, strategies'[s] # Deleted, AllSeen(s)'
        PROVE  HoldsOne(s)'
    <2>1. Same(s)
      BY SameAll
    <2>2. strategies[s] # Deleted
      BY <1>1 DEF DeletedStay
    <2> QED BY <1>1, <2>1, <2>2, SameKeeps DEF PositionsInv
  <1> QED BY <1>1 DEF PositionsInv

\* Runs go on or end.
LEMMA QuietKeeps ==
  ASSUME BlindInv, UNCHANGED <<swaps, deals, executions>>, DeletedStay,
         \A z \in Runners : InFlight(z)' => GoesOn(z)
  PROVE  BlindInv'
  <1>1. DealTypes' /\ SwapTypes' /\ RowsAreSwaps' /\ RepeatsAreBlind'
    BY RowsStay DEF BlindInv
  <1>2. PositionsInv'
    BY PositionsStay DEF BlindInv
  <1>3. FramesHavePlans'
    BY DEF BlindInv, FramesHavePlans, GoesOn
  <1>4. ASSUME NEW z \in Runners, InFlight(z)', ~frames'[z].blind
        PROVE  Alone(z)' /\ Differs(z)' /\ Stands(z)'
    <2>1. PICK s : s = frames[z].strategy
      OBVIOUS
    <2>2. /\ InFlight(z) /\ GoesOn(z) /\ ~frames[z].blind /\ s \in Strategies
          /\ Alone(z) /\ Differs(z) /\ Stands(z)
      BY <1>4, <2>1 DEF BlindInv, RunsInv, FramesHavePlans, GoesOn
    <2>3. Same(s)
      BY SameAll DEF BlindInv
    <2> QED BY <2>1, <2>2, <2>3, RunSame DEF DeletedStay
  <1>5. RunsInv'
    BY <1>4 DEF RunsInv
  <1> QED BY <1>1, <1>2, <1>3, <1>5 DEF BlindInv

-----------------------------------------------------------------------------
(* An inspection. *)

\* What a run is about to do.
LEMMA PlanIs ==
  ASSUME NEW s, Plan(s) # None
  PROVE  \/ Plan(s).side = "entry" /\ Plan(s).amount = 1 /\ Managed(s) = 0
         \/ Plan(s).side = "exit" /\ Plan(s).amount = Managed(s) /\ Managed(s) # 0
  <1>1. Signal(s) = "exit" => Managed(s) # 0
    BY DEF Signal
  <1>2. CASE Signal(s) = "entry"
    BY <1>2 DEF Plan
  <1>3. CASE Signal(s) = "exit"
    BY <1>1, <1>3 DEF Plan
  <1>4. CASE Signal(s) # "entry" /\ Signal(s) # "exit"
    BY <1>4 DEF Plan
  <1> QED BY <1>2, <1>3, <1>4

\* A run begins.
Inspects(r, s) ==
  /\ Exists(s) /\ Plan(s) # None
  /\ frames'[r].strategy = s /\ frames'[r].plan = Plan(s)
  /\ frames'[r].blind <=> Unseen(s)
  /\ \A z \in Runners : z # r /\ InFlight(z)' => GoesOn(z)

\* After an entry that was paid there is something to hold.
LEMMA PaidEntryHolds ==
  ASSUME DealTypes, SwapTypes, RowsAreSwaps, NEW s, NEW i \in SwapsOf(s), IsLast(s, i),
         Settled(i), Outcome(i) = "paid", swaps[i].side = "entry"
  PROVE  Managed(s) # 0
  <1>1. Len(swaps) \in Nat /\ DOMAIN swaps = 1 .. Len(swaps)
    BY DEF SwapTypes
  <1>2. i \in 1 .. Len(swaps) /\ swaps[i].strategy = s /\ i \in DOMAIN executions
    BY <1>1 DEF SwapsOf, Settled
  <1>3. ASSUME NEW n \in i + 1 .. Len(swaps), NEW p
        PROVE  Counts(p, executions, deals, s, n) = p
    <2>1. n \in DOMAIN swaps /\ n \in Nat /\ ~(n <= i)
      BY <1>1, <1>2, <1>3
    <2>2. swaps[n].strategy # s
      BY <2>1 DEF IsLast, SwapsOf
    <2> QED BY <2>2 DEF Counts, RowsAreSwaps
  <1> DEFINE p == PositionAt(i - 1, Len(swaps), executions, deals, s)
  <1>4. Managed(s) = Counts(p, executions, deals, s, i)
    BY <1>1, <1>2, <1>3, LastRowCounts
  <1>5. p \in Nat
    <2>1. i - 1 \in 0 .. Len(swaps)
      BY <1>1, <1>2
    <2> QED BY <2>1, PositionNat
  <1> HIDE DEF p
  <1>6. executions[i].strategy = s
    BY <1>2 DEF RowsAreSwaps
  <1>7. Moves(p, executions[i], deals) = p + 1
    BY <1>2, <1>5, SwapRow
  <1> QED BY <1>2, <1>4, <1>5, <1>6, <1>7 DEF Counts

\* A run that sees everything does not repeat what it sees.
LEMMA SeesLast ==
  ASSUME DealTypes, SwapTypes, RowsAreSwaps, PositionsInv, NEW s \in Strategies,
         Exists(s), ~Unseen(s), Plan(s) # None, NEW i \in SwapsOf(s), IsLast(s, i),
         swaps[i].side = Plan(s).side
  PROVE  Outcome(i) = "refunded" \/ (swaps[i].side = "exit" /\ ~AllSeen(s))
  <1>1. i \in DOMAIN swaps /\ swaps[i].strategy = s
    BY DEF SwapsOf
  <1>2. Settled(i)
    BY <1>1 DEF Unseen, Recorded, Settled, Outcome
  <1>3. Outcome(i) \in {"paid", "refunded"}
    BY <1>1, <1>2 DEF Settled, Outcome, SwapTypes, DealTypes
  <1>4. CASE Outcome(i) = "paid" /\ swaps[i].side = "entry"
    BY <1>2, <1>4, PaidEntryHolds, PlanIs
  <1>5. CASE Outcome(i) = "paid" /\ swaps[i].side # "entry"
    <2>1. swaps[i].side = "exit" /\ Managed(s) # 0
      BY <1>5, PlanIs
    <2>2. ASSUME AllSeen(s) PROVE FALSE
      <3>1. HoldsOne(s)
        BY <2>2 DEF PositionsInv, Exists
      <3>2. Managed(s) = 0
        BY <1>2, <1>5, <2>1, <3>1 DEF HoldsOne, Settled
      <3> QED BY <2>1, <3>2
    <2> QED BY <2>1, <2>2
  <1> QED BY <1>3, <1>4, <1>5

LEMMA InspectKeeps ==
  ASSUME BlindInv, NEW r \in Runners, NEW s \in Strategies, Inspects(r, s),
         UNCHANGED <<swaps, deals, executions, strategies>>
  PROVE  BlindInv'
  <1>1. DealTypes' /\ SwapTypes' /\ RowsAreSwaps' /\ RepeatsAreBlind'
    BY RowsStay DEF BlindInv
  <1>2. DeletedStay
    BY DEF DeletedStay
  <1>3. PositionsInv'
    BY <1>2, PositionsStay DEF BlindInv
  <1>4. Managed(s) \in Nat
    BY ManagedNat DEF BlindInv
  <1>5. IsPlan(Plan(s).side, Plan(s).amount)
    BY <1>4, PlanIs DEF Inspects, IsPlan
  <1>6. FramesHavePlans'
    BY <1>5 DEF BlindInv, FramesHavePlans, GoesOn, Inspects
  <1>7. \A t : Same(t)
    BY SameAll DEF BlindInv
  <1>8. ASSUME NEW z \in Runners, InFlight(z)', ~frames'[z].blind, z # r
        PROVE  Alone(z)' /\ Differs(z)' /\ Stands(z)'
    <2>1. PICK t : t = frames[z].strategy
      OBVIOUS
    <2>2. /\ InFlight(z) /\ GoesOn(z) /\ ~frames[z].blind
          /\ Alone(z) /\ Differs(z) /\ Stands(z)
      BY <1>8, <2>1 DEF BlindInv, RunsInv, GoesOn, Inspects
    <2>3. Same(t)
      BY <1>7
    <2>4. ASSUME NEW x \in Runners, InFlight(x)', frames'[x].strategy = t
          PROVE  frames'[x].blind \/ GoesOn(x)
      <3>1. CASE x = r
        <4>1. s = t
          BY <2>4, <3>1 DEF Inspects
        <4>2. Unseen(s)
          BY <2>1, <2>2, <4>1 DEF Unseen, InFlight
        <4> QED BY <3>1, <4>2 DEF Inspects
      <3>2. CASE x # r
        BY <2>4, <3>2 DEF Inspects
      <3> QED BY <3>1, <3>2
    <2> QED BY <2>1, <2>2, <2>3, <2>4, RunSame
  <1>9. ASSUME InFlight(r)', ~frames'[r].blind
        PROVE  Alone(r)' /\ Differs(r)' /\ Stands(r)'
    <2>1. /\ ~Unseen(s) /\ Exists(s) /\ Plan(s) # None
          /\ frames'[r].strategy = s /\ frames'[r].plan = Plan(s)
      BY <1>9 DEF Inspects
    <2>2. Alone(r)'
      <3>1. \A z \in Runners : InFlight(z) => frames[z].strategy # s
        BY <2>1 DEF Unseen, InFlight
      <3>2. ASSUME NEW z \in Runners, InFlight(z)', z # r, frames'[z].strategy = s PROVE FALSE
        BY <3>1, <3>2 DEF Inspects, GoesOn
      <3> QED BY <2>1, <3>2 DEF Alone
    <2>3. /\ AllSeen(s)' <=> AllSeen(s)
          /\ \A i \in SwapsOf(s) : Settled(i)' <=> Settled(i)
          /\ \A i : IsLast(s, i)' <=> IsLast(s, i)
      BY <1>7, SameKeeps
    <2>4. /\ SwapsOf(s)' = SwapsOf(s) /\ Managed(s)' = Managed(s)
          /\ \A i \in SwapsOf(s) : swaps'[i] = swaps[i] /\ Outcome(i)' = Outcome(i)
      BY <1>7 DEF Same
    <2>5. \A i \in SwapsOf(s) : IsLast(s, i) /\ swaps[i].side = Plan(s).side =>
              Outcome(i) = "refunded" \/ (swaps[i].side = "exit" /\ ~AllSeen(s))
      BY <2>1, SeesLast DEF BlindInv
    <2>6. Differs(r)'
      BY <2>1, <2>3, <2>4, <2>5 DEF Differs
    <2>7. \A i \in SwapsOf(s) : Settled(i)
      BY <2>1 DEF Unseen, SwapsOf, Recorded, Settled, Outcome
    <2>8. Plan(s).side = "entry" => Managed(s) = 0
      BY <2>1, PlanIs
    <2>9. Stands(r)'
      BY <2>1, <2>3, <2>4, <2>7, <2>8 DEF Stands
    <2> QED BY <2>2, <2>6, <2>9
  <1>10. RunsInv'
    BY <1>8, <1>9 DEF RunsInv
  <1> QED BY <1>1, <1>3, <1>6, <1>10 DEF BlindInv
-----------------------------------------------------------------------------
(* A settlement and a deletion. *)

\* A pending deal is paid what was put in, or refunded.
SettleBy(d) ==
  /\ d \in DOMAIN deals /\ deals[d].outcome = "pending"
  /\ \/ deals' = [deals EXCEPT ![d].outcome = "paid", ![d].out = deals[d].amount]
     \/ deals' = [deals EXCEPT ![d].outcome = "refunded"]
  /\ UNCHANGED <<swaps, executions, frames, strategies>>

LEMMA SettleDeals ==
  ASSUME DealTypes, NEW d, SettleBy(d)
  PROVE  /\ DealTypes' /\ DOMAIN deals' = DOMAIN deals
         /\ \A e \in DOMAIN deals : e # d => deals'[e] = deals[e]
         /\ deals'[d].outcome \in {"paid", "refunded"}
         /\ deals'[d].amount = deals[d].amount
         /\ deals'[d].outcome = "paid" => deals'[d].out = deals[d].amount
  <1>1. PICK S : deals \in Seq(S)
    BY DEF DealTypes
  <1>2. d \in DOMAIN deals /\ IsDeal(deals[d])
    BY DEF SettleBy, DealTypes
  <1>3. PICK row : /\ deals' = [deals EXCEPT ![d] = row]
                   /\ \/ row = [deals[d] EXCEPT !.outcome = "paid", !.out = deals[d].amount]
                      \/ row = [deals[d] EXCEPT !.outcome = "refunded"]
    <2>1. CASE deals' = [deals EXCEPT ![d].outcome = "paid", ![d].out = deals[d].amount]
      <3>1. deals' = [deals EXCEPT ![d] = [deals[d] EXCEPT !.outcome = "paid",
                                                           !.out = deals[d].amount]]
        BY <1>1, <1>2, <2>1
      <3> QED BY <3>1
    <2>2. CASE deals' = [deals EXCEPT ![d].outcome = "refunded"]
      <3>1. deals' = [deals EXCEPT ![d] = [deals[d] EXCEPT !.outcome = "refunded"]]
        BY <1>1, <1>2, <2>2
      <3> QED BY <3>1
    <2> QED BY <2>1, <2>2 DEF SettleBy
  <1>4. /\ IsDeal(row) /\ row.outcome \in {"paid", "refunded"} /\ row.amount = deals[d].amount
        /\ row.outcome = "paid" => row.out = deals[d].amount
    BY <1>2, <1>3 DEF IsDeal
  <1>5. deals' \in Seq(S \cup {row})
    <2>1. deals \in Seq(S \cup {row})
      BY <1>1
    <2> QED BY <1>2, <1>3, <2>1
  <1>6. /\ DOMAIN deals' = DOMAIN deals /\ deals'[d] = row
        /\ \A e \in DOMAIN deals : e # d => deals'[e] = deals[e]
    BY <1>1, <1>2, <1>3
  <1>7. \A e \in DOMAIN deals' :
            /\ IsDeal(deals'[e])
            /\ deals'[e].outcome \in {"pending", "paid", "refunded"}
            /\ deals'[e].outcome = "paid" => deals'[e].out = deals'[e].amount
    BY <1>4, <1>6 DEF DealTypes
  <1>8. DealTypes'
    BY <1>5, <1>7 DEF DealTypes
  <1> QED BY <1>4, <1>6, <1>8

\* It is of one swap at most.
LEMMA SettleSees ==
  ASSUME DealTypes, SwapTypes, RowsAreSwaps, NEW d, SettleBy(d)
  PROVE  /\ \A i \in DOMAIN swaps : swaps[i].deal # d => Outcome(i)' = Outcome(i)
         /\ \A i \in DOMAIN swaps : swaps[i].deal = d =>
               Outcome(i) = "pending" /\ Outcome(i)' \in {"paid", "refunded"}
         /\ \A t : (\A i \in SwapsOf(t) : swaps[i].deal # d) => Same(t)
         /\ \A t, n, p : (n \in DOMAIN executions => swaps[n].deal # d) =>
               Counts(p, executions, deals, t, n) = Counts(p, executions', deals', t, n)
  <1>1. /\ \A e \in DOMAIN deals : e # d => deals'[e] = deals[e]
        /\ deals'[d].outcome \in {"paid", "refunded"}
    BY SettleDeals
  <1>2. swaps' = swaps /\ executions' = executions /\ deals[d].outcome = "pending" /\ d # None
    BY DealNumbers DEF SettleBy
  <1>3. \A i \in DOMAIN swaps : swaps[i].deal # d => Outcome(i)' = Outcome(i)
    BY <1>1, <1>2 DEF Outcome, SwapTypes
  <1>4. \A i \in DOMAIN swaps : swaps[i].deal = d =>
            Outcome(i) = "pending" /\ Outcome(i)' \in {"paid", "refunded"}
    BY <1>1, <1>2 DEF Outcome
  <1>5. ASSUME NEW t, NEW n, NEW p, n \in DOMAIN executions => swaps[n].deal # d
        PROVE  Counts(p, executions, deals, t, n) = Counts(p, executions', deals', t, n)
    <2>1. CASE n \in DOMAIN executions
      <3> DEFINE row == executions[n]
      <3>1. row.deal = None \/ (deals[row.deal].outcome = deals'[row.deal].outcome
                                /\ deals[row.deal].out = deals'[row.deal].out)
        BY <1>1, <1>5, <2>1 DEF RowsAreSwaps, SwapTypes
      <3> HIDE DEF row
      <3>2. Moves(p, row, deals) = Moves(p, row, deals')
        BY <3>1, MovesSame
      <3> QED BY <1>2, <2>1, <3>2 DEF Counts, row
    <2>2. CASE n \notin DOMAIN executions
      BY <1>2, <2>2 DEF Counts
    <2> QED BY <2>1, <2>2
  <1>6. ASSUME NEW t, \A i \in SwapsOf(t) : swaps[i].deal # d
        PROVE  Same(t)
    <2>1. ASSUME NEW n \in 1 .. Len(swaps), NEW p
          PROVE  Counts(p, executions, deals, t, n) = Counts(p, executions', deals', t, n)
      <3>1. CASE n \in DOMAIN executions /\ executions[n].strategy = t
        <4>1. swaps[n].deal # d
          BY <1>6, <3>1 DEF RowsAreSwaps, SwapsOf
        <4> QED BY <1>5, <4>1
      <3>2. CASE ~(n \in DOMAIN executions /\ executions[n].strategy = t)
        BY <1>2, <3>2 DEF Counts
      <3> QED BY <3>1, <3>2
    <2>2. Len(swaps) \in Nat /\ Len(swaps') = Len(swaps)
      BY <1>2 DEF SwapTypes
    <2>3. Managed(t)' = Managed(t)
      BY <2>1, <2>2, ManagedSame
    <2>4. SwapsOf(t)' = SwapsOf(t)
      BY <1>2 DEF SwapsOf
    <2>5. \A i \in SwapsOf(t) : i \in DOMAIN swaps
      BY DEF SwapsOf
    <2> QED BY <1>2, <1>3, <1>6, <2>3, <2>4, <2>5 DEF Same
  <1> QED BY <1>3, <1>4, <1>5, <1>6

\* The strategy of the swap that is settled.
LEMMA SettleHolds ==
  ASSUME DealTypes, SwapTypes, RowsAreSwaps, NEW d, SettleBy(d),
         NEW s, HoldsOne(s), NEW i \in SwapsOf(s), swaps[i].deal = d
  PROVE  HoldsOne(s)'
  <1>1. swaps' = swaps /\ executions' = executions /\ d # None /\ d \in DOMAIN deals
    BY DealNumbers DEF SettleBy
  <1>2. i \in DOMAIN swaps /\ swaps[i].strategy = s /\ Len(swaps) \in Nat
        /\ DOMAIN swaps = 1 .. Len(swaps)
    BY DEF SwapsOf, SwapTypes
  <1>3. /\ Outcome(i) = "pending" /\ Outcome(i)' \in {"paid", "refunded"}
        /\ \A j \in SwapsOf(s) : j # i => swaps[j].deal # d /\ Outcome(j)' = Outcome(j)
    <2>1. \A j \in SwapsOf(s) : j \in DOMAIN swaps
      BY DEF SwapsOf
    <2>2. \A j \in SwapsOf(s) : j # i => swaps[j].deal # d
      BY <1>1, <1>2, <2>1 DEF SwapTypes
    <2> QED BY <1>2, <2>1, <2>2, SettleSees
  <1>4. IsLast(s, i)
    BY <1>3 DEF HoldsOne, Settled
  <1>5. SwapsOf(s)' = SwapsOf(s) /\ \A j : IsLast(s, j)' <=> IsLast(s, j)
    BY <1>1 DEF SwapsOf, IsLast
  <1>6. \A j \in SwapsOf(s) : j # i => ~IsLast(s, j) /\ Settled(j)'
    <2>1. ASSUME NEW j \in SwapsOf(s), j # i PROVE ~IsLast(s, j)
      <3>1. j \in DOMAIN swaps /\ j \in Nat /\ i \in Nat
        BY <1>2 DEF SwapsOf
      <3>2. j <= i
        BY <1>4 DEF IsLast
      <3> QED BY <2>1, <3>1, <3>2 DEF IsLast
    <2> QED BY <1>1, <1>3, <2>1 DEF HoldsOne, Settled
  <1>7. \A n \in 1 .. Len(swaps) : n # i => \A p :
            Counts(p, executions, deals, s, n) = Counts(p, executions', deals', s, n)
    <2>1. ASSUME NEW n \in 1 .. Len(swaps), n # i, NEW p
          PROVE  Counts(p, executions, deals, s, n) = Counts(p, executions', deals', s, n)
      <3>1. CASE n \in SwapsOf(s)
        <4>1. swaps[n].deal # d
          BY <1>3, <2>1, <3>1
        <4> QED BY <4>1, SettleSees
      <3>2. CASE n \notin SwapsOf(s)
        <4>1. ~(n \in DOMAIN executions /\ executions[n].strategy = s)
          BY <1>2, <2>1, <3>2 DEF SwapsOf, RowsAreSwaps
        <4> QED BY <1>1, <4>1 DEF Counts
      <3> QED BY <3>1, <3>2
    <2> QED BY <2>1
  <1>8. CASE i \notin DOMAIN executions
    <2>1. \A n \in 1 .. Len(swaps) : \A p :
              Counts(p, executions, deals, s, n) = Counts(p, executions', deals', s, n)
      BY <1>1, <1>7, <1>8 DEF Counts
    <2>2. Managed(s)' = Managed(s)
      BY <1>1, <1>2, <2>1, ManagedSame
    <2> QED BY <1>1, <1>4, <1>5, <1>6, <1>8, <2>2 DEF HoldsOne
  <1>9. CASE i \in DOMAIN executions
    <2> DEFINE row == executions[i]
    <2>1. /\ row.strategy = s /\ row.side = swaps[i].side /\ row.deal = d
          /\ IsPlan(row.side, row.amount) /\ row.out = row.amount
          /\ deals[d].amount = row.amount
      BY <1>1, <1>2, <1>9 DEF RowsAreSwaps
    <2>2. \A n \in i .. Len(swaps) : \A p : Counts(p, executions, deals, s, n) = p
      <3>1. ASSUME NEW n \in i .. Len(swaps), NEW p
            PROVE  Counts(p, executions, deals, s, n) = p
        <4>1. CASE n = i
          <5>1. ~(row.deal = None \/ deals[row.deal].outcome = "paid")
            BY <1>1, <2>1 DEF SettleBy
          <5>2. Moves(p, row, deals) = p
            BY <5>1 DEF Moves
          <5> QED BY <4>1, <5>2 DEF Counts
        <4>2. CASE n # i
          <5>1. n \in DOMAIN swaps /\ ~(n <= i)
            BY <1>2, <3>1, <4>2
          <5>2. swaps[n].strategy # s
            BY <1>4, <5>1 DEF IsLast, SwapsOf
          <5> QED BY <5>2 DEF Counts, RowsAreSwaps
        <4> QED BY <4>1, <4>2
      <3> QED BY <3>1
    <2>3. Managed(s)' = Counts(Managed(s), executions', deals', s, i)
      BY <1>1, <1>2, <1>7, <2>2, ManagedSettles
    <2>4. Managed(s) \in {0, 1} /\ (swaps[i].side = "entry" => Managed(s) = 0)
      BY <1>3, <1>4, <1>9 DEF HoldsOne
    <2>5. /\ deals'[d].outcome \in {"paid", "refunded"}
          /\ deals'[d].outcome = "paid" => deals'[d].out = row.amount
          /\ Outcome(i)' = deals'[d].outcome
      BY <1>1, <2>1, SettleDeals DEF Outcome
    <2>6. Managed(s)' = Moves(Managed(s), row, deals')
      BY <1>1, <1>9, <2>1, <2>3 DEF Counts
    <2> HIDE DEF row
    <2>7. /\ ~(row.deal = None \/ deals'[row.deal].outcome = "paid") =>
                 Moves(Managed(s), row, deals') = Managed(s)
          /\ (row.deal = None \/ deals'[row.deal].outcome = "paid") =>
                 Moves(Managed(s), row, deals')
                     = IF row.side = "entry" THEN Managed(s) + 1
                       ELSE IF Managed(s) >= row.amount THEN Managed(s) - row.amount ELSE 0
      <3>1. Managed(s) \in Nat
        BY <2>4
      <3>2. row.deal # None /\ deals'[row.deal].outcome = "paid" =>
                deals'[row.deal].out = row.amount
        BY <2>1, <2>5
      <3> QED BY <2>1, <3>1, <3>2, RowMoves
    <2>8. CASE Outcome(i)' = "refunded"
      <3>1. Managed(s)' = Managed(s)
        BY <1>1, <2>1, <2>5, <2>6, <2>7, <2>8
      <3> QED BY <1>1, <1>4, <1>5, <1>6, <2>4, <2>8, <3>1 DEF HoldsOne
    <2>9. CASE Outcome(i)' = "paid"
      <3>1. Managed(s)' = IF row.side = "entry" THEN Managed(s) + 1
                          ELSE IF Managed(s) >= row.amount THEN Managed(s) - row.amount ELSE 0
        BY <2>1, <2>5, <2>6, <2>7, <2>9
      <3>2. CASE row.side = "entry"
        <4>1. Managed(s)' = 1
          BY <2>1, <2>4, <3>1, <3>2
        <4> QED BY <1>1, <1>4, <1>5, <1>6, <2>1, <2>9, <3>2, <4>1 DEF HoldsOne
      <3>3. CASE row.side # "entry"
        <4>1. row.amount \in Nat \ {0}
          BY <2>1 DEF IsPlan
        <4>2. Managed(s)' = 0
          BY <2>4, <3>1, <3>3, <4>1
        <4> QED BY <1>1, <1>4, <1>5, <1>6, <4>2 DEF HoldsOne
      <3> QED BY <3>2, <3>3
    <2> QED BY <1>3, <2>8, <2>9
  <1> QED BY <1>8, <1>9

LEMMA SettleKeeps ==
  ASSUME BlindInv, NEW d, SettleBy(d)
  PROVE  BlindInv'
  <1>1. /\ swaps' = swaps /\ executions' = executions /\ frames' = frames
        /\ strategies' = strategies /\ d # None /\ d \in DOMAIN deals
    BY DealNumbers DEF SettleBy, BlindInv
  <1>2. /\ DealTypes' /\ DOMAIN deals' = DOMAIN deals
        /\ \A e \in DOMAIN deals : deals'[e].amount = deals[e].amount
    BY SettleDeals DEF BlindInv
  <1>3. SwapTypes'
    BY <1>1, <1>2 DEF BlindInv, SwapTypes
  <1>4. RowsAreSwaps'
    <2>1. \A i \in DOMAIN executions : executions[i].deal # None =>
              deals'[executions[i].deal].amount = executions[i].amount
      BY <1>2 DEF BlindInv, RowsAreSwaps, SwapTypes
    <2> QED BY <1>1, <2>1 DEF BlindInv, RowsAreSwaps
  <1>5. FramesHavePlans'
    BY <1>1 DEF BlindInv, FramesHavePlans, InFlight
  <1>6. /\ \A i \in DOMAIN swaps : swaps[i].deal # d => Outcome(i)' = Outcome(i)
        /\ \A i \in DOMAIN swaps : swaps[i].deal = d =>
              Outcome(i) = "pending" /\ Outcome(i)' \in {"paid", "refunded"}
        /\ \A t : (\A i \in SwapsOf(t) : swaps[i].deal # d) => Same(t)
    BY SettleSees DEF BlindInv
  <1>7. \A i \in DOMAIN swaps : Outcome(i) = "refunded" => Outcome(i)' = "refunded"
    BY <1>6
  <1>8. \A t : /\ SwapsOf(t)' = SwapsOf(t) /\ (AllSeen(t)' <=> AllSeen(t))
               /\ \A i : IsLast(t, i)' <=> IsLast(t, i)
    BY <1>1 DEF SwapsOf, AllSeen, IsLast
  <1>9. RepeatsAreBlind'
    <2>1. DOMAIN swaps = 1 .. Len(swaps) /\ Len(swaps) \in Nat
      BY DEF BlindInv, SwapTypes
    <2>2. \A k \in DOMAIN swaps : /\ swaps'[k] = swaps[k]
                                  /\ Outcome(k) = "refunded" => Outcome(k)' = "refunded"
      BY <1>1, <1>7
    <2>3. ASSUME NEW i \in DOMAIN swaps, NEW j \in DOMAIN swaps, Repeats(i, j)'
          PROVE  \/ swaps'[i].blind \/ swaps'[j].blind
                 \/ /\ swaps'[j].side = "exit"
                    /\ \E k \in 1 .. i : swaps'[k].strategy = swaps'[i].strategy /\ swaps'[k].blind
      BY <2>1, <2>2, <2>3, RepeatsSame DEF BlindInv
    <2> QED BY <1>1, <2>3 DEF RepeatsAreBlind
  <1>10. ASSUME NEW s \in Strategies, strategies'[s] # Deleted, AllSeen(s)'
         PROVE  HoldsOne(s)'
    <2>1. HoldsOne(s)
      BY <1>1, <1>8, <1>10 DEF BlindInv, PositionsInv
    <2>2. CASE \E i \in SwapsOf(s) : swaps[i].deal = d
      BY <2>1, <2>2, SettleHolds DEF BlindInv
    <2>3. CASE \A i \in SwapsOf(s) : swaps[i].deal # d
      BY <1>6, <2>1, <2>3, SameKeeps
    <2> QED BY <2>2, <2>3
  <1>11. PositionsInv'
    BY <1>10 DEF PositionsInv
  <1>12. ASSUME NEW z \in Runners, InFlight(z)', ~frames'[z].blind
         PROVE  Alone(z)' /\ Differs(z)' /\ Stands(z)'
    <2>1. PICK s : s = frames[z].strategy
      OBVIOUS
    <2>2. /\ InFlight(z) /\ ~frames[z].blind /\ Alone(z) /\ Differs(z) /\ Stands(z)
      BY <1>1, <1>12 DEF BlindInv, RunsInv, InFlight
    <2>3. \A i \in SwapsOf(s) : i \in DOMAIN swaps
      BY DEF SwapsOf
    <2>4. Alone(z)'
      BY <1>1, <2>2 DEF Alone, InFlight
    <2>5. Differs(z)'
      BY <1>1, <1>7, <1>8, <2>1, <2>2, <2>3 DEF Differs
    <2>6. ASSUME strategies'[s] # Deleted, AllSeen(s)'
          PROVE  /\ \A i \in SwapsOf(s)' : Settled(i)'
                 /\ frames'[z].plan.side = "entry" => Managed(s)' = 0
      <3>1. /\ \A i \in SwapsOf(s) : Settled(i)
            /\ frames[z].plan.side = "entry" => Managed(s) = 0
        BY <1>1, <1>8, <2>1, <2>2, <2>6 DEF Stands
      <3>2. \A i \in SwapsOf(s) : swaps[i].deal # d
        BY <1>6, <2>3, <3>1 DEF Settled
      <3>3. Same(s)
        BY <1>6, <3>2
      <3> QED BY <1>1, <3>1, <3>3, SameKeeps DEF Same
    <2>7. Stands(z)'
      BY <1>1, <2>1, <2>6 DEF Stands
    <2> QED BY <2>4, <2>5, <2>7
  <1>13. RunsInv'
    BY <1>12 DEF RunsInv
  <1> QED BY <1>2, <1>3, <1>4, <1>5, <1>9, <1>11, <1>13 DEF BlindInv

\* A strategy's rows go with it.
DeletesRows(s) ==
  /\ strategies' = [strategies EXCEPT ![s] = Deleted]
  /\ executions' = [n \in {m \in DOMAIN executions : executions[m].strategy # s} |-> executions[n]]
  /\ UNCHANGED <<swaps, deals, frames>>

LEMMA DeletionKeeps ==
  ASSUME BlindInv, strategies = [z \in Strategies |-> strategies[z]],
         NEW s \in Strategies, DeletesRows(s)
  PROVE  BlindInv'
  <1>1. /\ swaps' = swaps /\ deals' = deals /\ frames' = frames
        /\ strategies'[s] = Deleted
        /\ \A z \in Strategies : z # s => strategies'[z] = strategies[z]
        /\ DOMAIN executions' \subseteq DOMAIN executions
        /\ \A n \in DOMAIN executions' : executions'[n] = executions[n]
        /\ \A n \in DOMAIN executions : executions[n].strategy # s => n \in DOMAIN executions'
        /\ \A n \in DOMAIN executions' : executions[n].strategy # s
    BY DEF DeletesRows
  <1>2. DealTypes' /\ SwapTypes' /\ RepeatsAreBlind'
    BY <1>1 DEF BlindInv, DealTypes, SwapTypes, RepeatsAreBlind, Repeats
  <1>3. RowsAreSwaps'
    BY <1>1 DEF BlindInv, RowsAreSwaps
  <1>4. FramesHavePlans'
    BY <1>1 DEF BlindInv, FramesHavePlans, InFlight
  <1>5. ASSUME NEW t, t # s PROVE Same(t)
    <2>1. ASSUME NEW n \in 1 .. Len(swaps), NEW p
          PROVE  Counts(p, executions, deals, t, n) = Counts(p, executions', deals', t, n)
      BY <1>1, <1>5 DEF Counts
    <2>2. Len(swaps) \in Nat /\ Len(swaps') = Len(swaps)
      BY <1>1 DEF BlindInv, SwapTypes
    <2>3. Managed(t)' = Managed(t)
      BY <2>1, <2>2, ManagedSame
    <2>4. \A i \in SwapsOf(t) : i \in DOMAIN executions' <=> i \in DOMAIN executions
      BY <1>1, <1>5 DEF BlindInv, RowsAreSwaps, SwapsOf
    <2> QED BY <1>1, <2>3, <2>4 DEF Same, SwapsOf, Outcome
  <1>6. PositionsInv'
    <2>1. ASSUME NEW t \in Strategies, strategies'[t] # Deleted, AllSeen(t)'
          PROVE  HoldsOne(t)'
      <3>1. t # s /\ strategies[t] # Deleted
        BY <1>1, <2>1
      <3> QED BY <1>5, <2>1, <3>1, SameKeeps DEF BlindInv, PositionsInv
    <2> QED BY <2>1 DEF PositionsInv
  <1>7. ASSUME NEW z \in Runners, InFlight(z)', ~frames'[z].blind
        PROVE  Alone(z)' /\ Differs(z)' /\ Stands(z)'
    <2>1. PICK t : t = frames[z].strategy
      OBVIOUS
    <2>2. /\ InFlight(z) /\ ~frames[z].blind /\ Alone(z) /\ Differs(z) /\ Stands(z)
          /\ t \in Strategies
      BY <1>1, <1>7, <2>1 DEF BlindInv, RunsInv, InFlight, FramesHavePlans
    <2>3. Alone(z)'
      BY <1>1, <2>2 DEF Alone, InFlight
    <2>4. Differs(z)'
      BY <1>1, <2>2 DEF Differs, SwapsOf, IsLast, AllSeen, Outcome
    <2>5. CASE t = s
      <3>1. Stands(z)'
        BY <1>1, <2>1, <2>5 DEF Stands
      <3> QED BY <2>3, <2>4, <3>1
    <2>6. CASE t # s
      <3>1. GoesOn(z) /\ Same(t) /\ strategies'[t] = strategies[t]
        BY <1>1, <1>5, <2>2, <2>6 DEF GoesOn
      <3>2. \A x \in Runners : InFlight(x)' => GoesOn(x)
        BY <1>1 DEF GoesOn, InFlight
      <3> QED BY <2>1, <2>2, <3>1, <3>2, RunSame
    <2> QED BY <2>5, <2>6
  <1>8. RunsInv'
    BY <1>7 DEF RunsInv
  <1> QED BY <1>2, <1>3, <1>4, <1>6, <1>8 DEF BlindInv
-----------------------------------------------------------------------------
(* The runs' steps, told by what they do to swaps and frames. *)

\* A run that waits for the contract keeps what it inspected in its columns.
IsFrame(f) == f = [at |-> f.at, strategy |-> f.strategy, approval |-> f.approval,
                   plan |-> f.plan, blind |-> f.blind]
FrameInv == \A r \in Runners : frames[r].at = "consume" => IsFrame(frames[r])

LEMMA FramesStay ==
  ASSUME FrameInv,
         \A r \in Runners : \/ frames'[r] = frames[r] \/ frames'[r].at # "consume"
                            \/ IsFrame(frames'[r])
  PROVE  FrameInv'
  BY DEF FrameInv

\* What is kept of swaps and frames.
RepeatInv == BlindInv /\ FrameInv

\* Nothing begins.
LEMMA EndsKeep ==
  ASSUME RepeatInv, UNCHANGED <<swaps, deals, executions>>, DeletedStay,
         \A z \in Runners : frames'[z] = frames[z] \/ frames'[z].at \notin {"consume", "route"}
  PROVE  RepeatInv'
  <1>1. \A z \in Runners : InFlight(z)' => GoesOn(z)
    BY DEF InFlight, GoesOn
  <1>2. BlindInv'
    BY <1>1, QuietKeeps DEF RepeatInv
  <1>3. FrameInv'
    BY FramesStay DEF RepeatInv
  <1> QED BY <1>2, <1>3 DEF RepeatInv

\* One frame changes.
LEMMA OneFrame ==
  ASSUME TypeInv, NEW r \in Runners, NEW frame, At(r, frame)
  PROVE  frames'[r] = frame /\ \A z \in Runners : z # r => frames'[z] = frames[z]
  BY AtOne DEF TypeInv

\* A run ends, or the worker goes on to the next strategy.
LEMMA EndKeeps ==
  ASSUME RepeatInv, TypeInv, UNCHANGED <<swaps, deals, executions>>, DeletedStay,
         NEW r \in Runners, NEW frame, At(r, frame), frame.at \notin {"consume", "route"}
  PROVE  RepeatInv'
  BY OneFrame, EndsKeep

\* The process ends.
LEMMA AllEndKeeps ==
  ASSUME RepeatInv, UNCHANGED <<swaps, deals, executions>>, DeletedStay,
         frames' = [r \in Runners |-> Idle]
  PROVE  RepeatInv'
  <1>1. \A z \in Runners : frames'[z].at \notin {"consume", "route"}
    BY WorkerFrames
  <1> QED BY <1>1, EndsKeep

\* A store that deletes nothing, and forgets no deletion.
LEMMA StoreDeletedStay ==
  ASSUME StoreTypes, StoreNext
  PROVE  DeletedStay
  <1>1. ASSUME NEW s \in Strategies, NEW st \in {"draft", "saved"}, WriteStrategy(s, st),
               strategies[s] # Deleted
        PROVE  DeletedStay
    BY <1>1 DEF WriteStrategy, DeletedStay, StoreTypes
  <1>2. ASSUME NEW s \in Strategies,
               CreateDraft(s) \/ CloneTemplate(s) \/ UpdateDraft(s) \/ SaveStrategy(s)
        PROVE  DeletedStay
    <2>1. strategies[s] # Deleted
      BY <1>2, ExistingRow, Sentinels
         DEF CreateDraft, CloneTemplate, UpdateDraft, SaveStrategy, Exists
    <2>2. WriteStrategy(s, "draft") \/ WriteStrategy(s, "saved")
      BY <1>2 DEF CreateDraft, CloneTemplate, UpdateDraft, SaveStrategy
    <2> QED BY <1>1, <2>1, <2>2
  <1>3. ASSUME UNCHANGED strategies PROVE DeletedStay
    BY <1>3 DEF DeletedStay
  <1>4. ASSUME NEW s \in Strategies,
               \/ \E ttl \in ApprovalTtls : CreateExecutionIntent(s, ttl)
               \/ \E expires \in Expiries : ActivateAutoExecution(s, expires)
               \/ DeactivateAutoExecution(s)
        PROVE  UNCHANGED strategies
    BY <1>4 DEF CreateExecutionIntent, ActivateAutoExecution, DeactivateAutoExecution
  <1>5. ASSUME BeginSaveApproval \/ EndSaveApproval \/ ReadDashboard \/ Tick
        PROVE  UNCHANGED strategies
    BY <1>5 DEF BeginSaveApproval, EndSaveApproval, ReadDashboard, Tick
  <1> QED BY <1>2, <1>3, <1>4, <1>5 DEF StoreNext

\* The router trades at once, or opens a deal.
LEMMA ExecuteSwaps ==
  ASSUME NEW f, Execute(f)
  PROVE  \E deal : /\ swaps' = Append(swaps, Swap(f, deal))
                   /\ \/ deal = None /\ deals' = deals
                      \/ /\ deal = Len(deals) + 1
                         /\ \E d : /\ IsDeal(d) /\ d.outcome = "pending"
                                   /\ d.amount = f.plan.amount
                                   /\ deals' = Append(deals, d)
  <1>1. CASE /\ Router!Trade(Owner, From(f.plan), To(f.plan), f.plan.amount, f.plan.amount)
             /\ swaps' = Append(swaps, Swap(f, None))
    BY <1>1 DEF Router!Trade
  <1>2. CASE /\ Router!Open(Owner, From(f.plan), To(f.plan), f.plan.amount)
             /\ swaps' = Append(swaps, Swap(f, Len(deals) + 1))
    <2> DEFINE d == Router!Deal(Owner, From(f.plan), To(f.plan), f.plan.amount)
    <2>1. deals' = Append(deals, d)
      BY <1>2 DEF Router!Open
    <2>2. IsDeal(d) /\ d.outcome = "pending" /\ d.amount = f.plan.amount
      BY DEF Router!Deal, IsDeal
    <2> HIDE DEF d
    <2> QED BY <1>2, <2>1, <2>2
  <1> QED BY <1>1, <1>2 DEF Execute

\* The execution is recorded under the number of its swap.
LEMMA RecordRows ==
  ASSUME SwapTypes, NEW f, NEW deal, swaps' = Append(swaps, Swap(f, deal)), Record(f)
  PROVE  executions' = [n \in DOMAIN executions \cup {Len(swaps) + 1} |->
                           IF n = Len(swaps) + 1 THEN RowFor(f, deal) ELSE executions[n]]
  <1> DEFINE x == Swap(f, deal)
  <1>1. swaps' = Append(swaps, x) /\ \E S : swaps \in Seq(S)
    BY DEF SwapTypes
  <1>2. x.deal = deal
    BY DEF Swap
  <1> HIDE DEF x
  <1>3. Len(swaps') = Len(swaps) + 1 /\ swaps'[Len(swaps) + 1] = x
    BY <1>1, OneMore
  <1>4. Row(f) = RowFor(f, deal)
    BY <1>2, <1>3 DEF Row, RowFor
  <1> QED BY <1>3, <1>4 DEF Record

\* A run swaps and ends.
LEMMA RunSwaps ==
  ASSUME RepeatInv, NEW r \in Runners, InFlight(r), Execute(frames[r]),
         executions' = executions \/ Record(frames[r]), UNCHANGED strategies,
         frames'[r].at \notin {"consume", "route"},
         \A z \in Runners : z # r =>
             frames'[z] = frames[z] \/ frames'[z].at \notin {"consume", "route"}
  PROVE  RepeatInv'
  <1>1. PICK deal : /\ swaps' = Append(swaps, Swap(frames[r], deal))
                    /\ \/ deal = None /\ deals' = deals
                       \/ /\ deal = Len(deals) + 1
                          /\ \E d : /\ IsDeal(d) /\ d.outcome = "pending"
                                    /\ d.amount = frames[r].plan.amount
                                    /\ deals' = Append(deals, d)
    BY ExecuteSwaps
  <1>2. \/ executions' = executions
        \/ executions' = [n \in DOMAIN executions \cup {Len(swaps) + 1} |->
                             IF n = Len(swaps) + 1 THEN RowFor(frames[r], deal)
                             ELSE executions[n]]
    <2>1. PICK f : f = frames[r]
      OBVIOUS
    <2>2. SwapTypes /\ swaps' = Append(swaps, Swap(f, deal))
      BY <1>1, <2>1 DEF RepeatInv, BlindInv
    <2>3. CASE Record(frames[r])
      <3>1. Record(f)
        BY <2>1, <2>3
      <3>2. executions' = [n \in DOMAIN executions \cup {Len(swaps) + 1} |->
                              IF n = Len(swaps) + 1 THEN RowFor(f, deal) ELSE executions[n]]
        BY <2>2, <3>1, RecordRows
      <3> QED BY <2>1, <3>2
    <2> QED BY <2>3
  <1>3. \A z \in Runners : InFlight(z)' => GoesOn(z) /\ z # r
    BY DEF InFlight, GoesOn
  <1>4. SwapBy(r, deal)
    BY <1>1, <1>2, <1>3 DEF SwapBy
  <1>5. BlindInv'
    BY <1>4, SwapKeeps DEF RepeatInv
  <1>6. FrameInv'
    BY FramesStay DEF RepeatInv
  <1> QED BY <1>5, <1>6 DEF RepeatInv

-----------------------------------------------------------------------------
(* The steps, one by one. *)

LEMMA RunNowRepeats ==
  ASSUME RepeatInv, TypeInv, NEW r \in Runs, NEW s \in Strategies, RunNow(r, s)
  PROVE  RepeatInv'
  <1>1. r \in Runners
    BY DEF Runners
  <1>2. UNCHANGED <<swaps, deals, executions>> /\ UNCHANGED strategies
    BY DEF RunNow, routerVars
  <1>3. DeletedStay
    BY <1>2 DEF DeletedStay
  <1>4. CASE Plan(s) = None
    <2>1. At(r, Idle)
      BY <1>4 DEF RunNow
    <2> QED BY <1>1, <1>2, <1>3, <2>1, WorkerFrames, EndKeeps
  <1>5. CASE Plan(s) # None
    <2> DEFINE frame == Frame(s)
    <2>1. At(r, frame)
      BY <1>5 DEF RunNow
    <2>2. /\ frame.strategy = s /\ frame.plan = Plan(s) /\ (frame.blind <=> Unseen(s))
          /\ IsFrame(frame)
      BY DEF Frame, IsFrame
    <2> HIDE DEF frame
    <2>3. frames'[r] = frame /\ \A z \in Runners : z # r => frames'[z] = frames[z]
      BY <1>1, <2>1, OneFrame
    <2>4. Exists(s)
      BY DEF RunNow
    <2>5. Inspects(r, s)
      BY <1>5, <2>2, <2>3, <2>4 DEF Inspects, InFlight, GoesOn
    <2>6. BlindInv'
      BY <1>1, <1>2, <2>5, InspectKeeps DEF RepeatInv
    <2>7. FrameInv'
      BY <2>2, <2>3, FramesStay DEF RepeatInv
    <2> QED BY <2>6, <2>7 DEF RepeatInv
  <1> QED BY <1>4, <1>5

LEMMA ConsumeRepeats ==
  ASSUME RepeatInv, TypeInv, NEW r \in Runs, Consume(r)
  PROVE  RepeatInv'
  <1>1. r \in Runners
    BY DEF Runners
  <1>2. UNCHANGED <<swaps, deals, executions>> /\ UNCHANGED strategies
    BY DEF Consume, routerVars
  <1>3. DeletedStay
    BY <1>2 DEF DeletedStay
  <1>4. CASE At(r, Idle)
    BY <1>1, <1>2, <1>3, <1>4, WorkerFrames, EndKeeps
  <1>5. CASE At(r, [frames[r] EXCEPT !.at = "route", !.approval = None])
    <2> DEFINE frame == [frames[r] EXCEPT !.at = "route", !.approval = None]
    <2>1. frames[r].at = "consume" /\ IsFrame(frames[r])
      BY <1>1 DEF Consume, RepeatInv, FrameInv
    <2>2. /\ frame.at = "route" /\ frame.strategy = frames[r].strategy
          /\ frame.plan = frames[r].plan /\ (frame.blind <=> frames[r].blind)
      BY <2>1 DEF IsFrame
    <2> HIDE DEF frame
    <2>3. frames'[r] = frame /\ \A z \in Runners : z # r => frames'[z] = frames[z]
      BY <1>1, <1>5, OneFrame DEF frame
    <2>4. \A z \in Runners : InFlight(z)' => GoesOn(z)
      BY <2>1, <2>2, <2>3 DEF InFlight, GoesOn
    <2>5. BlindInv'
      BY <1>2, <1>3, <2>4, QuietKeeps DEF RepeatInv
    <2>6. FrameInv'
      BY <2>2, <2>3, FramesStay DEF RepeatInv
    <2> QED BY <2>5, <2>6 DEF RepeatInv
  <1> QED BY <1>4, <1>5 DEF Consume

LEMMA RunEndRepeats ==
  ASSUME RepeatInv, TypeInv, NEW r \in Runs,
         ConsumeFails(r) \/ ConsumeTimeout(r) \/ Route(r) \/ RouteFails(r)
  PROVE  RepeatInv'
  <1>1. r \in Runners /\ At(r, Idle) /\ UNCHANGED strategies
    BY DEF Runners, ConsumeFails, ConsumeTimeout, Route, RouteFails, storeVars
  <1>2. CASE ~Route(r)
    <2>1. UNCHANGED <<swaps, deals, executions>>
      BY <1>2 DEF ConsumeFails, ConsumeTimeout, RouteFails, routerVars
    <2>2. DeletedStay
      BY <1>1 DEF DeletedStay
    <2> QED BY <1>1, <2>1, <2>2, WorkerFrames, EndKeeps
  <1>3. CASE Route(r)
    <2>1. InFlight(r) /\ Execute(frames[r]) /\ Record(frames[r])
      BY <1>3 DEF Route, InFlight
    <2>2. frames'[r] = Idle /\ \A z \in Runners : z # r => frames'[z] = frames[z]
      BY <1>1, OneFrame
    <2> QED BY <1>1, <2>1, <2>2, WorkerFrames, RunSwaps
  <1> QED BY <1>2, <1>3

LEMMA WorkerTickRepeats ==
  ASSUME RepeatInv, TypeInv, WorkerTick
  PROVE  RepeatInv'
  <1>1. /\ UNCHANGED <<swaps, deals, executions>> /\ UNCHANGED strategies
        /\ At(Worker, [at |-> "next"])
    BY DEF WorkerTick, routerVars, storeVars
  <1>2. DeletedStay
    BY <1>1 DEF DeletedStay
  <1>3. [at |-> "next"].at \notin {"consume", "route"}
    OBVIOUS
  <1> QED BY <1>1, <1>2, <1>3, WorkerFrames, EndKeeps

LEMMA WorkerNextRepeats ==
  ASSUME RepeatInv, TypeInv, WorkerNext
  PROVE  RepeatInv'
  <1>1. UNCHANGED <<swaps, deals, executions>> /\ UNCHANGED strategies
    BY DEF WorkerNext, routerVars, storeVars
  <1>2. DeletedStay
    BY <1>1 DEF DeletedStay
  <1>3. CASE At(Worker, Idle)
    BY <1>1, <1>2, <1>3, WorkerFrames, EndKeeps
  <1>4. CASE Die
    BY <1>1, <1>2, <1>4, AllEndKeeps DEF Die
  <1>5. CASE At(Worker, [at |-> "next"])
    <2>1. [at |-> "next"].at \notin {"consume", "route"}
      OBVIOUS
    <2> QED BY <1>1, <1>2, <1>5, <2>1, WorkerFrames, EndKeeps
  <1>6. ASSUME NEW s \in queue, Exists(s), Executes(s), At(Worker, WorkerFrame(s))
        PROVE  RepeatInv'
    <2> DEFINE frame == WorkerFrame(s)
    <2>1. /\ frame.strategy = s /\ frame.plan = Plan(s) /\ (frame.blind <=> Unseen(s))
          /\ frame.at = "route"
      BY DEF WorkerFrame
    <2> HIDE DEF frame
    <2>2. /\ Worker \in Runners /\ frames'[Worker] = frame
          /\ \A z \in Runners : z # Worker => frames'[z] = frames[z]
      BY <1>6, OneFrame, WorkerFrames DEF frame
    <2>3. s \in Strategies
      BY DEF TypeInv, ExecutionTypes
    <2>4. Inspects(Worker, s)
      BY <1>6, <2>1, <2>2 DEF Inspects, InFlight, GoesOn, Executes
    <2>5. BlindInv'
      BY <1>1, <2>2, <2>3, <2>4, InspectKeeps DEF RepeatInv
    <2>6. FrameInv'
      BY <2>1, <2>2, FramesStay DEF RepeatInv
    <2> QED BY <2>5, <2>6 DEF RepeatInv
  <1> QED BY <1>3, <1>4, <1>5, <1>6 DEF WorkerNext

\* What follows the worker's await.
LEMMA MarkEnds ==
  ASSUME TypeInv, NEW f, NEW marked, Mark(f, marked)
  PROVE  /\ frames'[Worker].at \notin {"consume", "route"}
         /\ \A z \in Runners : z # Worker =>
                frames'[z] = frames[z] \/ frames'[z].at \notin {"consume", "route"}
  <1>1. CASE At(Worker, [at |-> "next"])
    BY <1>1, OneFrame, WorkerFrames
  <1>2. CASE Die
    BY <1>2, WorkerFrames DEF Die
  <1> QED BY <1>1, <1>2 DEF Mark

LEMMA WorkerRouteRepeats ==
  ASSUME RepeatInv, TypeInv, WorkerRoute \/ WorkerRouteFails
  PROVE  RepeatInv'
  <1>1. Worker \in Runners /\ UNCHANGED strategies
    BY WorkerFrames DEF WorkerRoute, WorkerRouteFails
  <1>2. PICK f, marked : Mark(f, marked)
    BY DEF WorkerRoute, WorkerRouteFails
  <1>3. /\ frames'[Worker].at \notin {"consume", "route"}
        /\ \A z \in Runners : z # Worker =>
               frames'[z] = frames[z] \/ frames'[z].at \notin {"consume", "route"}
    BY <1>2, MarkEnds
  <1>4. CASE WorkerRoute
    <2>1. InFlight(Worker) /\ Execute(frames[Worker]) /\ Record(frames[Worker])
      BY <1>4 DEF WorkerRoute, InFlight
    <2> QED BY <1>1, <1>3, <2>1, RunSwaps
  <1>5. CASE WorkerRouteFails
    <2>1. UNCHANGED <<swaps, deals, executions>>
      BY <1>5 DEF WorkerRouteFails, routerVars
    <2>2. DeletedStay
      BY <1>1 DEF DeletedStay
    <2> QED BY <1>3, <2>1, <2>2, EndsKeep
  <1> QED BY <1>4, <1>5

LEMMA StopRepeats ==
  ASSUME RepeatInv, TypeInv, Stop
  PROVE  RepeatInv'
  <1>1. frames' = [r \in Runners |-> Idle] /\ executions' = executions
    BY DEF Stop
  <1>2. ASSUME StopStore, UNCHANGED <<routerVars, swaps>> PROVE RepeatInv'
    <2>1. DeletedStay
      BY <1>2 DEF StopStore, DeletedStay
    <2> QED BY <1>1, <1>2, <2>1, AllEndKeeps DEF routerVars
  <1>3. ASSUME NEW s \in Strategies, StopInWrite(s), UNCHANGED <<routerVars, swaps>>
        PROVE  RepeatInv'
    <2>1. strategies' = [strategies EXCEPT ![s].version = versions + 1, ![s].status = "draft"]
      BY <1>3 DEF StopInWrite
    <2>2. strategies[s] # Deleted
      BY <1>3 DEF StopInWrite, Exists
    <2>3. \A z \in Strategies : z # s => strategies'[z] = strategies[z]
      BY <2>1 DEF TypeInv, StoreTypes
    <2>4. DeletedStay
      BY <2>2, <2>3 DEF DeletedStay
    <2> QED BY <1>1, <1>3, <2>4, AllEndKeeps DEF routerVars
  <1>4. ASSUME NEW r \in Runners, frames[r].at = "route", Execute(frames[r]), StopStore
        PROVE  RepeatInv'
    <2>1. \A z \in Runners : frames'[z].at \notin {"consume", "route"}
      BY <1>1, WorkerFrames
    <2>2. InFlight(r) /\ UNCHANGED strategies
      BY <1>4 DEF InFlight, StopStore
    <2> QED BY <1>1, <1>4, <2>1, <2>2, RunSwaps
  <1> QED BY <1>2, <1>3, <1>4 DEF Stop

LEMMA DeletionRepeats ==
  ASSUME RepeatInv, TypeInv, NEW s \in Strategies, Deletion(s)
  PROVE  RepeatInv'
  <1>1. DeletesRows(s)
    BY DEF Deletion, DeleteStrategy, DeletesRows, Restrict, routerVars
  <1>2. strategies = [z \in Strategies |-> strategies[z]]
    BY DEF TypeInv, StoreTypes
  <1>3. BlindInv'
    BY <1>1, <1>2, DeletionKeeps DEF RepeatInv
  <1>4. FrameInv'
    BY <1>1 DEF DeletesRows, RepeatInv, FrameInv
  <1> QED BY <1>3, <1>4 DEF RepeatInv

LEMMA SettleRepeats ==
  ASSUME RepeatInv, Settle
  PROVE  RepeatInv'
  <1>1. PICK d \in DOMAIN deals : Router!Pay(d, deals[d].amount) \/ Router!Refund(d)
    BY DEF Settle
  <1>2. UNCHANGED <<swaps, executions, frames, strategies>>
    BY DEF Settle, storeVars
  <1>3. SettleBy(d)
    BY <1>1, <1>2 DEF SettleBy, Router!Pay, Router!Refund
  <1>4. BlindInv'
    BY <1>3, SettleKeeps DEF RepeatInv
  <1>5. FrameInv'
    BY <1>2 DEF RepeatInv, FrameInv
  <1> QED BY <1>4, <1>5 DEF RepeatInv

\* The rest leaves swaps and frames alone.
LEMMA RestRepeats ==
  ASSUME RepeatInv, TypeInv, Store \/ Prices \/ Start \/ UNCHANGED vars
  PROVE  RepeatInv'
  <1>1. UNCHANGED <<swaps, deals, executions>> /\ UNCHANGED frames
    BY DEF Store, Prices, Start, vars, executionVars, routerVars
  <1>2. DeletedStay
    <2>1. CASE Store
      BY <2>1, StoreDeletedStay DEF Store, TypeInv
    <2>2. CASE ~Store
      <3>1. UNCHANGED strategies
        BY <2>2 DEF Prices, Start, vars, storeVars
      <3> QED BY <3>1 DEF DeletedStay
    <2> QED BY <2>1, <2>2
  <1> QED BY <1>1, <1>2, EndsKeep

LEMMA RepeatStep ==
  ASSUME RepeatInv, TypeInv, [Next]_vars
  PROVE  RepeatInv'
  <1>1. ASSUME NEW r \in Runs, NEW s \in Strategies, RunNow(r, s) PROVE RepeatInv'
    BY <1>1, RunNowRepeats
  <1>2. ASSUME NEW r \in Runs, Consume(r) PROVE RepeatInv'
    BY <1>2, ConsumeRepeats
  <1>3. ASSUME NEW r \in Runs,
               ConsumeFails(r) \/ ConsumeTimeout(r) \/ Route(r) \/ RouteFails(r)
        PROVE  RepeatInv'
    BY <1>3, RunEndRepeats
  <1>4. CASE WorkerTick
    BY <1>4, WorkerTickRepeats
  <1>5. CASE WorkerNext
    BY <1>5, WorkerNextRepeats
  <1>6. CASE WorkerRoute \/ WorkerRouteFails
    BY <1>6, WorkerRouteRepeats
  <1>7. CASE Store \/ Prices \/ Start \/ UNCHANGED vars
    BY <1>7, RestRepeats
  <1>8. CASE Stop
    BY <1>8, StopRepeats
  <1>9. CASE Settle
    BY <1>9, SettleRepeats
  <1>10. ASSUME NEW s \in Strategies, Deletion(s) PROVE RepeatInv'
    BY <1>10, DeletionRepeats
  <1> QED BY <1>1, <1>2, <1>3, <1>4, <1>5, <1>6, <1>7, <1>8, <1>9, <1>10 DEF Next

\* Before the first swap.
LEMMA RepeatStarts == Init => RepeatInv
  <1> SUFFICES ASSUME Init PROVE RepeatInv
    OBVIOUS
  <1>1. swaps = << >> /\ deals = << >> /\ executions = << >> /\ frames = [r \in Runners |-> Idle]
    BY DEF Init, Router!Init
  <1>2. \A r \in Runners : frames[r].at = "idle"
    BY <1>1, WorkerFrames
  <1>3. DealTypes /\ SwapTypes /\ RowsAreSwaps
    BY <1>1 DEF DealTypes, SwapTypes, RowsAreSwaps
  <1>4. FramesHavePlans /\ RunsInv /\ FrameInv
    BY <1>2 DEF FramesHavePlans, RunsInv, FrameInv, InFlight
  <1>5. ASSUME NEW s PROVE HoldsOne(s)
    <2>1. Len(swaps) = 0 /\ SwapsOf(s) = {}
      BY <1>1 DEF SwapsOf
    <2>2. Managed(s) = PositionAt(0, 0, executions, deals, s)
      BY <2>1, ManagedIs
    <2>3. Managed(s) = 0
      BY <2>2, PositionMoves
    <2> QED BY <2>1, <2>3 DEF HoldsOne
  <1>6. PositionsInv
    BY <1>5 DEF PositionsInv
  <1>7. RepeatsAreBlind
    BY <1>1 DEF RepeatsAreBlind
  <1> QED BY <1>3, <1>4, <1>6, <1>7 DEF RepeatInv, BlindInv

\* A strategy swaps twice on a side only where a run could not see a swap.
THEOREM NoRunRepeatsWhatItSees == Spec => []RepeatsAreBlind
  <1>1. Init => RepeatInv /\ TypeInv
    BY RepeatStarts, StrategyStarts DEF StrategyInv
  <1>2. RepeatInv /\ TypeInv /\ [Next]_vars => RepeatInv'
    BY RepeatStep
  <1>3. StrategyInv => TypeInv
    BY DEF StrategyInv
  <1>4. RepeatInv => RepeatsAreBlind
    BY DEF RepeatInv, BlindInv
  <1> QED BY <1>1, <1>2, <1>3, <1>4, StrategiesAreSound, PTL DEF Spec
-----------------------------------------------------------------------------
(* The engine's backtests. *)

Sides == {"long", "short"}

\* A position is a record with one of the two sides.
OnASide(p) == p = NoPosition \/ ("side" \in DOMAIN p /\ p.side \in Sides)

EngineInv == /\ bar \in Nat
             /\ OnASide(position)
             /\ position # NoPosition => bar > 0
             /\ OpensOnlyIfSidesDiffer

\* The same groups trigger both sides, or neither, so that none is entered.
LEMMA SameGroupsNoSide ==
  ASSUME NEW last, NEW signals \in SignalsAt(last), NEW side \in EntrySides(signals)
  PROVE  /\ side \in Sides /\ side \in strategy.sides
         /\ strategy.sides = Sides /\ strategy.engine = "none" =>
               Populated(strategy.groups[1]) # Populated(strategy.groups[2])
  <1>1. side \in Sides /\ side \in strategy.sides /\ signals[EntryOf[side]]
        /\ ~Enters(signals, Other(side))
    BY DEF EntrySides, Enters, Sides
  <1>2. ASSUME strategy.sides = Sides, strategy.engine = "none",
               Populated(strategy.groups[1]) = Populated(strategy.groups[2])
        PROVE  FALSE
    <2>1. signals = [k \in 1 .. 4 |-> Triggered(strategy.groups[k], last, relations)]
      BY <1>2 DEF SignalsAt
    <2>2. Triggered(strategy.groups[1], last, relations)
          = Triggered(strategy.groups[2], last, relations)
      BY <1>2 DEF Triggered
    <2>3. signals[1] = signals[2]
      BY <2>1, <2>2
    <2>4. Other(side) \in Sides
      BY DEF Other, Sides
    <2>5. ~signals[EntryOf[Other(side)]]
      BY <1>1, <1>2, <2>4 DEF Enters
    <2>6. EntryOf["long"] = 1 /\ EntryOf["short"] = 2
      BY DEF EntryOf
    <2>7. {EntryOf[side], EntryOf[Other(side)]} = {1, 2}
      BY <1>1, <2>6 DEF Other, Sides
    <2> QED BY <1>1, <2>3, <2>5, <2>7
  <1> QED BY <1>1, <1>2

\* A side is entered only if it is enabled.
LEMMA OpenedSide ==
  ASSUME NEW side \in Sides, NEW close, NEW funded
  PROVE  /\ OnASide(OpenAt(side, close, funded))
         /\ OpenAt(side, close, funded) # NoPosition => OpenAt(side, close, funded).side = side
  BY DEF OpenAt, OnASide

\* A position that is held keeps its side.
LEMMA AgedSide ==
  ASSUME OnASide(position), position # NoPosition, NEW close
  PROVE  OnASide(Aged(close)) /\ Aged(close).side = position.side
  <1>1. "side" \in DOMAIN position /\ position.side \in Sides
    BY DEF OnASide
  <1>2. DOMAIN Aged(close) = DOMAIN position /\ Aged(close).side = position.side
    BY <1>1 DEF Aged
  <1> QED BY <1>1, <1>2 DEF OnASide

\* One candle of a backtest.
LEMMA CandleKeeps ==
  ASSUME EngineInv, Candle
  PROVE  EngineInv'
  <1> SUFFICES ASSUME NEW last \in Relations(strategy), NEW close \in Closes,
                      NEW signals \in SignalsAt(last),
                      Enter(close, signals) \/ Hold(close, signals) \/ Exit(close, signals)
               PROVE  EngineInv'
    BY DEF Candle
  <1>2. bar' = bar + 1 /\ strategy' = strategy
    BY DEF Candle
  <1>3. bar' \in Nat /\ bar' > 0
    BY <1>2 DEF EngineInv
  <1>4. /\ OnASide(position')
        /\ position' # NoPosition =>
             /\ position'.side \in strategy.sides
             /\ strategy.sides = Sides /\ strategy.engine = "none" =>
                  Populated(strategy.groups[1]) # Populated(strategy.groups[2])
    <2>1. CASE Enter(close, signals)
      <3>1. CASE EntrySides(signals) = {}
        BY <2>1, <3>1 DEF Enter, OnASide
      <3>2. CASE EntrySides(signals) # {}
        <4> DEFINE side == CHOOSE x \in EntrySides(signals) : TRUE
        <4>1. side \in EntrySides(signals)
          BY <3>2
        <4>2. position' = OpenAt(side, close, solvent)
          BY <2>1, <3>2 DEF Enter
        <4> HIDE DEF side
        <4>3. /\ side \in Sides /\ side \in strategy.sides
              /\ strategy.sides = Sides /\ strategy.engine = "none" =>
                   Populated(strategy.groups[1]) # Populated(strategy.groups[2])
          BY <4>1, SameGroupsNoSide
        <4> QED BY <4>2, <4>3, OpenedSide
      <3> QED BY <3>1, <3>2
    <2>2. CASE Hold(close, signals)
      <3>1. position # NoPosition /\ position' = Aged(close)
        BY <2>2 DEF Hold
      <3>2. OnASide(position') /\ position'.side = position.side
        BY <3>1, AgedSide DEF EngineInv
      <3> QED BY <3>1, <3>2 DEF EngineInv, OpensOnlyIfSidesDiffer, Sides
    <2>3. CASE Exit(close, signals)
      <3>1. position # NoPosition
        BY <2>3 DEF Exit
      <3>2. CASE position' = NoPosition
        BY <3>2 DEF OnASide
      <3>3. CASE position' # NoPosition
        <4>1. /\ ExitReason(Aged(close), close, signals) = "reverse"
              /\ position' = OpenAt(Other(position.side), close, solvent')
          BY <2>3, <3>3 DEF Exit
        <4>2. Enters(signals, Other(Aged(close).side))
          BY <4>1 DEF ExitReason
        <4>3. Aged(close).side = position.side
          BY <3>1, AgedSide DEF EngineInv
        <4>4. Other(position.side) \in strategy.sides /\ Other(position.side) \in Sides
          BY <4>2, <4>3 DEF Enters, Other, Sides
        <4>5. OnASide(position') /\ position'.side = Other(position.side)
          BY <3>3, <4>1, <4>4, OpenedSide
        <4> QED BY <3>1, <4>4, <4>5 DEF EngineInv, OpensOnlyIfSidesDiffer, Sides
      <3> QED BY <3>2, <3>3
    <2> QED BY <2>1, <2>2, <2>3
  <1> QED BY <1>2, <1>3, <1>4 DEF EngineInv, OpensOnlyIfSidesDiffer, Sides

\* With the same rules for both sides no position is ever opened, and none is on a
\* side that is not enabled, whatever the drafts, the candidates and repairs made of
\* them, and the candles.
THEOREM SameRulesNeverTrade == EngineSpec => []OpensOnlyIfSidesDiffer
  <1>1. EngineInit => EngineInv
    BY DEF EngineInit, EngineInv, OpensOnlyIfSidesDiffer, OnASide
  <1>2. EngineInv /\ [EngineNext]_engineVars => EngineInv'
    <2> SUFFICES ASSUME EngineInv, [EngineNext]_engineVars PROVE EngineInv'
      OBVIOUS
    <2>1. ASSUME bar = 0, bar' = bar, position' = position
          PROVE  EngineInv'
      <3>1. position = NoPosition
        BY <2>1 DEF EngineInv
      <3> QED BY <2>1, <3>1 DEF EngineInv, OpensOnlyIfSidesDiffer
    <2>2. CASE TryCandidate
      BY <2>1, <2>2 DEF TryCandidate
    <2>3. CASE \E market \in RunMarkets : RepairOnce(market) \/ EnforceCompletion(market)
      BY <2>1, <2>3 DEF RepairOnce, EnforceCompletion, Patch
    <2>4. CASE Candle
      BY <2>4, CandleKeeps
    <2>5. CASE Finish
      BY <2>5 DEF Finish, EngineInv, OpensOnlyIfSidesDiffer, OnASide
    <2>6. CASE UNCHANGED engineVars
      BY <2>6 DEF engineVars, EngineInv, OpensOnlyIfSidesDiffer, OnASide
    <2> QED BY <2>2, <2>3, <2>4, <2>5, <2>6 DEF EngineNext
  <1>3. EngineInv => OpensOnlyIfSidesDiffer
    BY DEF EngineInv
  <1> QED BY <1>1, <1>2, <1>3, PTL DEF EngineSpec

-----------------------------------------------------------------------------
(* The history of the prices. *)

\* There are bars of every asset.
BarsInv == DOMAIN bars = Assets /\ bars = [a \in Assets |-> bars[a]]

\* What a step does to the bars of one asset.
RealStay(b) == \A m \in SourcedFrom(b, {"feed"}) : m \in DOMAIN bars'[b] /\ bars'[b][m] = "feed"

\* Rows that replace those of one asset: the bars of feeds are among them.
LEMMA OneAssetChanges ==
  ASSUME BarsInv, NEW a, NEW rows, bars' = [bars EXCEPT ![a] = rows],
         a \in Assets => \A m \in SourcedFrom(a, {"feed"}) : m \in DOMAIN rows /\ rows[m] = "feed"
  PROVE  BarsInv' /\ \A b \in Assets : RealStay(b)
  <1>1. DOMAIN bars' = Assets /\ bars' = [b \in Assets |-> bars'[b]]
    BY DEF BarsInv
  <1>2. ASSUME NEW b \in Assets PROVE RealStay(b)
    <2>1. CASE b = a
      <3>1. bars'[b] = rows
        BY <2>1, <1>2 DEF BarsInv
      <3> QED BY <2>1, <3>1, <1>2 DEF RealStay
    <2>2. CASE b # a
      <3>1. bars'[b] = bars[b]
        BY <2>2, <1>2 DEF BarsInv
      <3> QED BY <3>1 DEF RealStay, SourcedFrom, Minutes
    <2> QED BY <2>1, <2>2
  <1> QED BY <1>1, <1>2 DEF BarsInv

\* Bars of a feed replace bars of the same minutes.
LEMMA UpsertKeeps ==
  ASSUME BarsInv, NEW a, NEW minutes, bars' = Upsert(a, minutes)
  PROVE  BarsInv' /\ \A b \in Assets : RealStay(b)
  <1> DEFINE kept == Minutes(a) \ (minutes \cup SourcedFrom(a, {"fallback"}))
             rows == [m \in kept \cup minutes |-> IF m \in minutes THEN "feed" ELSE bars[a][m]]
  <1>1. bars' = [bars EXCEPT ![a] = rows]
    BY DEF Upsert
  <1>2. \A m \in SourcedFrom(a, {"feed"}) : m \in DOMAIN rows /\ rows[m] = "feed"
    BY DEF SourcedFrom
  <1> HIDE DEF rows
  <1> QED BY <1>1, <1>2, OneAssetChanges

\* A gap is filled.
LEMMA PatchKeeps ==
  ASSUME BarsInv, NEW a, NEW gap, PatchGap(a, gap)
  PROVE  BarsInv' /\ \A b \in Assets : RealStay(b)
  <1>1. PICK minutes \in SUBSET Inside(gap) :
           bars' = IF minutes = {} THEN Interpolated(a, gap) ELSE WithExchange(a, gap, minutes)
    BY DEF PatchGap
  <1>2. CASE minutes = {}
    <2> DEFINE rows == [m \in Minutes(a) \cup Inside(gap) |->
                           IF m \in Minutes(a) THEN bars[a][m] ELSE "patched"]
    <2>1. bars' = [bars EXCEPT ![a] = rows]
      BY <1>1, <1>2 DEF Interpolated
    <2>2. \A m \in SourcedFrom(a, {"feed"}) : m \in DOMAIN rows /\ rows[m] = "feed"
      BY DEF SourcedFrom
    <2> HIDE DEF rows
    <2> QED BY <2>1, <2>2, OneAssetChanges
  <1>3. CASE minutes # {}
    <2> DEFINE made == SourcedFrom(a, {"patched"}) \cap Inside(gap)
               kept == Minutes(a) \ (minutes \cup made)
               rows == [m \in kept \cup minutes |-> IF m \in minutes THEN "feed" ELSE bars[a][m]]
    <2>1. bars' = [bars EXCEPT ![a] = rows]
      BY <1>1, <1>3 DEF WithExchange
    <2>2. \A m \in SourcedFrom(a, {"feed"}) : m \in DOMAIN rows /\ rows[m] = "feed"
      BY DEF SourcedFrom
    <2> HIDE DEF rows
    <2> QED BY <2>1, <2>2, OneAssetChanges
  <1> QED BY <1>2, <1>3

\* No bar of a feed is lost or replaced by one that was made up, for any number of
\* assets, polls and runs of the script.
THEOREM FeedsAreKept == PricesSpec => RealBarsStay
  <1>1. PricesInit => BarsInv
    BY DEF PricesInit, Seeds, BarsInv
  <1>2. BarsInv /\ [PricesNext]_priceVars => BarsInv' /\ \A b \in Assets : RealStay(b)
    <2> SUFFICES ASSUME BarsInv, [PricesNext]_priceVars
                 PROVE  BarsInv' /\ \A b \in Assets : RealStay(b)
      OBVIOUS
    <2>1. ASSUME bars' = bars
          PROVE  BarsInv' /\ \A b \in Assets : RealStay(b)
      BY <2>1 DEF BarsInv, RealStay, SourcedFrom, Minutes
    <2>2. CASE MinutePasses \/ Restart \/ UNCHANGED priceVars
      BY <2>1, <2>2 DEF MinutePasses, Restart, priceVars
    <2>3. CASE StartScript \/ FindGaps \/ StopScript
      BY <2>1, <2>3 DEF StartScript, FindGaps, StopScript
    <2>4. ASSUME NEW a \in Assets, Backfill(a)
          PROVE  BarsInv' /\ \A b \in Assets : RealStay(b)
      BY <2>1, <2>4, UpsertKeeps DEF Backfill, Backfilled
    <2>5. ASSUME NEW gap, PatchGap(gap[1], gap[2])
          PROVE  BarsInv' /\ \A b \in Assets : RealStay(b)
      BY <2>5, PatchKeeps
    <2>6. ASSUME NEW p \in Polls, Poll(p)
          PROVE  BarsInv' /\ \A b \in Assets : RealStay(b)
      BY <2>1, <2>6 DEF Poll
    <2>7. ASSUME NEW p \in Polls, NEW a \in Assets, Feed(p, a) \/ FeedFails(p, a)
          PROVE  BarsInv' /\ \A b \in Assets : RealStay(b)
      BY <2>1, <2>7, UpsertKeeps DEF Feed, FeedFails, OracleAnswers, RangeAnswers
    <2> QED BY <2>2, <2>3, <2>4, <2>5, <2>6, <2>7 DEF PricesNext, Script
  <1>3. ASSUME BarsInv, [PricesNext]_priceVars
        PROVE  [\A a \in Assets : \A m \in SourcedFrom(a, {"feed"}) :
                   m \in DOMAIN bars'[a] /\ bars'[a][m] = "feed"]_priceVars
    BY <1>2, <1>3 DEF RealStay
  <1> QED BY <1>1, <1>2, <1>3, PTL DEF PricesSpec, RealBarsStay
-----------------------------------------------------------------------------
(* Buckets of minutes. *)

LEMMA TimesOrdered ==
  ASSUME NEW i \in Int, NEW j \in Int, NEW b \in Nat \ {0}
  PROVE  /\ i * b \in Int /\ j * b \in Int
         /\ i <= j => i * b <= j * b
         /\ i < j => i * b + b <= j * b
  <1>1. \A x, y \in Int : x * b \in Int /\ (x + y) * b = x * b + y * b
    OBVIOUS
  <1>2. \A d \in Nat : d * b \in Nat
    OBVIOUS
  <1>3. ASSUME i <= j PROVE i * b <= j * b
    <2>1. j - i \in Nat /\ i + (j - i) = j
      BY <1>3
    <2>2. j * b = i * b + (j - i) * b
      BY <2>1, <1>1
    <2> QED BY <1>1, <1>2, <2>1, <2>2
  <1>4. ASSUME i < j PROVE i * b + b <= j * b
    <2>1. j - (i + 1) \in Nat /\ (i + 1) + (j - (i + 1)) = j /\ i + 1 \in Int
      BY <1>4
    <2>2. j * b = (i + 1) * b + (j - (i + 1)) * b
      BY <2>1, <1>1
    <2>3. (i + 1) * b = i * b + b
      OBVIOUS
    <2> QED BY <1>1, <1>2, <2>1, <2>2, <2>3
  <1> QED BY <1>1, <1>3, <1>4

\* A bucket's time and the minutes from it on.
LEMMA BucketOf ==
  ASSUME NEW m \in Nat, NEW b \in Nat \ {0}
  PROVE  TimeOf(m, b) \in Nat /\ TimeOf(m, b) <= m /\ m < TimeOf(m, b) + b
  <1>1. m \div b \in Int
    OBVIOUS
  <1>2. (m \div b) * b <= m /\ m < (m \div b) * b + b
    OBVIOUS
  <1>3. m \div b \in Nat
    OBVIOUS
  <1>4. (m \div b) * b \in Nat
    BY <1>3
  <1> QED BY <1>2, <1>4 DEF TimeOf

\* Buckets come one after another.
LEMMA BucketsOrdered ==
  ASSUME NEW m \in Nat, NEW n \in Nat, NEW b \in Nat \ {0}
  PROVE  /\ m <= n => TimeOf(m, b) <= TimeOf(n, b)
         /\ TimeOf(m, b) < TimeOf(n, b) => m < TimeOf(n, b)
         /\ n < TimeOf(m, b) <=> TimeOf(n, b) < TimeOf(m, b)
  <1> DEFINE i == m \div b
             j == n \div b
  <1>1. /\ i \in Int /\ j \in Int
        /\ TimeOf(m, b) = i * b /\ TimeOf(n, b) = j * b
    BY DEF TimeOf
  <1>2. /\ TimeOf(m, b) \in Nat /\ TimeOf(m, b) <= m /\ m < TimeOf(m, b) + b
        /\ TimeOf(n, b) \in Nat /\ TimeOf(n, b) <= n /\ n < TimeOf(n, b) + b
    BY BucketOf
  <1> HIDE DEF i, j
  <1>3. i < j \/ i = j \/ j < i
    BY <1>1
  <1>4. /\ i < j => i * b + b <= j * b
        /\ j < i => j * b + b <= i * b
    BY <1>1, TimesOrdered
  <1>5. CASE i < j
    BY <1>1, <1>2, <1>4, <1>5
  <1>6. CASE i = j
    BY <1>1, <1>2, <1>6
  <1>7. CASE j < i
    BY <1>1, <1>2, <1>4, <1>7
  <1> QED BY <1>3, <1>5, <1>6, <1>7
-----------------------------------------------------------------------------
(* Candles. *)

\* A candle is all of its bucket's rows.
LEMMA CandleFacts ==
  ASSUME NEW R, R \subseteq Nat, IsFiniteSet(R), NEW b \in Nat \ {0},
         NEW c \in Aggregate(R, b)
  PROVE  /\ c \subseteq R /\ IsFiniteSet(c)
         /\ Min(c) \in c /\ \A m \in c : Min(c) <= m
         /\ CandleTime(c, b) \in Nat
         /\ c = {n \in R : TimeOf(n, b) = CandleTime(c, b)}
  <1>1. PICK m \in R : c = {n \in R : TimeOf(n, b) = TimeOf(m, b)}
    BY DEF Aggregate
  <1>2. c \subseteq R /\ m \in c /\ c \subseteq Int
    <2>1. c \subseteq R
      BY <1>1
    <2>2. m \in c
      BY <1>1
    <2> QED BY <2>1, <2>2
  <1>3. IsFiniteSet(c)
    BY <1>2, FS_Subset
  <1>4. Min(c) \in c /\ \A n \in c : Min(c) <= n
    BY <1>2, <1>3, MinIsLeast
  <1>5. CandleTime(c, b) = TimeOf(m, b)
    BY <1>1, <1>4 DEF CandleTime
  <1>6. CandleTime(c, b) \in Nat
    BY <1>5, BucketOf
  <1> QED BY <1>1, <1>2, <1>3, <1>4, <1>5, <1>6

\* The rows of a bucket that has one are a candle.
LEMMA RowsAreCandle ==
  ASSUME NEW R, NEW b, NEW m \in R
  PROVE  {n \in R : TimeOf(n, b) = TimeOf(m, b)} \in Aggregate(R, b)
  BY DEF Aggregate

\* Candles come one after another, by their first rows as by their times.
LEMMA CandlesOrdered ==
  ASSUME NEW R, R \subseteq Nat, IsFiniteSet(R), NEW b \in Nat \ {0},
         NEW c \in Aggregate(R, b), NEW d \in Aggregate(R, b)
  PROVE  /\ Min(c) < Min(d) <=> CandleTime(c, b) < CandleTime(d, b)
         /\ CandleTime(c, b) = CandleTime(d, b) => c = d
  <1>1. /\ Min(c) \in Nat /\ Min(d) \in Nat
        /\ CandleTime(c, b) \in Nat /\ CandleTime(d, b) \in Nat
        /\ CandleTime(c, b) = TimeOf(Min(c), b) /\ CandleTime(d, b) = TimeOf(Min(d), b)
    BY CandleFacts DEF CandleTime
  <1>2. c = {n \in R : TimeOf(n, b) = CandleTime(c, b)}
        /\ d = {n \in R : TimeOf(n, b) = CandleTime(d, b)}
    BY CandleFacts
  <1>3. CandleTime(c, b) = CandleTime(d, b) => c = d
    BY <1>2
  <1>4. ASSUME Min(c) < Min(d) PROVE CandleTime(c, b) < CandleTime(d, b)
    <2>1. CandleTime(c, b) <= CandleTime(d, b)
      BY <1>1, <1>4, BucketsOrdered
    <2>2. CandleTime(c, b) # CandleTime(d, b)
      BY <1>1, <1>3, <1>4
    <2> QED BY <1>1, <2>1, <2>2
  <1>5. ASSUME CandleTime(c, b) < CandleTime(d, b) PROVE Min(c) < Min(d)
    <2>1. Min(d) <= Min(c) => CandleTime(d, b) <= CandleTime(c, b)
      BY <1>1, BucketsOrdered
    <2> QED BY <1>1, <1>5, <2>1
  <1> QED BY <1>3, <1>4, <1>5

\* There are finitely many candles, which hold all rows.
LEMMA CandlesCover ==
  ASSUME NEW R, R \subseteq Nat, IsFiniteSet(R), NEW b \in Nat \ {0}
  PROVE  IsFiniteSet(Aggregate(R, b)) /\ UNION Aggregate(R, b) = R
  <1>1. Aggregate(R, b) \in SUBSET SUBSET R
    BY DEF Aggregate
  <1>2. IsFiniteSet(SUBSET R)
    BY FS_SUBSET
  <1>3. IsFiniteSet(Aggregate(R, b))
    BY <1>1, <1>2, FS_Subset
  <1>4. ASSUME NEW m \in R PROVE m \in UNION Aggregate(R, b)
    <2>1. m \in {n \in R : TimeOf(n, b) = TimeOf(m, b)}
      OBVIOUS
    <2> QED BY <2>1, RowsAreCandle
  <1> QED BY <1>1, <1>3, <1>4

\* A candle has no more rows than its bucket has minutes.
LEMMA CandleSize ==
  ASSUME NEW R, R \subseteq Nat, IsFiniteSet(R), NEW b \in Nat \ {0},
         NEW c \in Aggregate(R, b)
  PROVE  IsFiniteSet(c) /\ Cardinality(c) \in Nat /\ Cardinality(c) <= b
  <1> DEFINE t == CandleTime(c, b)
  <1>1. c \subseteq R /\ t \in Nat /\ \A n \in c : TimeOf(n, b) = t
    <2>1. c \subseteq R /\ t \in Nat /\ c = {n \in R : TimeOf(n, b) = t}
      BY CandleFacts
    <2> HIDE DEF t
    <2> QED BY <2>1
  <1>2. c \subseteq t .. (t + b - 1)
    <2>1. SUFFICES ASSUME NEW n \in c PROVE n \in t .. (t + b - 1)
      OBVIOUS
    <2>2. n \in Nat /\ TimeOf(n, b) = t
      BY <1>1
    <2>3. TimeOf(n, b) <= n /\ n < TimeOf(n, b) + b
      BY <2>2, BucketOf
    <2> HIDE DEF t
    <2> QED BY <1>1, <2>2, <2>3
  <1> HIDE DEF t
  <1>3. /\ IsFiniteSet(t .. (t + b - 1))
        /\ Cardinality(t .. (t + b - 1)) = b
    <2>1. t + b - 1 \in Int /\ ~(t > t + b - 1) /\ (t + b - 1) - t + 1 = b
      BY <1>1
    <2> QED BY <1>1, <2>1, FS_Interval
  <1>4. IsFiniteSet(c) /\ Cardinality(c) <= b
    BY <1>2, <1>3, FS_Subset
  <1> QED BY <1>4, FS_CardinalityType

\* Some candles have at most as many rows as their buckets have minutes.
LEMMA CandlesSize ==
  ASSUME NEW R, R \subseteq Nat, IsFiniteSet(R), NEW b \in Nat \ {0},
         NEW D \in SUBSET Aggregate(R, b)
  PROVE  /\ IsFiniteSet(D) /\ Cardinality(D) \in Nat
         /\ IsFiniteSet(UNION D) /\ Cardinality(UNION D) \in Nat
         /\ Cardinality(UNION D) <= Cardinality(D) * b
  <1> DEFINE Good == {E \in SUBSET Aggregate(R, b) :
                        /\ IsFiniteSet(UNION E)
                        /\ Cardinality(UNION E) <= Cardinality(E) * b}
  <1>1. IsFiniteSet(Aggregate(R, b))
    BY CandlesCover
  <1>2. ASSUME NEW E \in SUBSET Aggregate(R, b), \A U \in SUBSET E : U # E => U \in Good
        PROVE  E \in Good
    <2>1. CASE E = {}
      <3>1. UNION E = {} /\ Cardinality(UNION E) = 0 /\ Cardinality(E) = 0 /\ IsFiniteSet(UNION E)
        BY <2>1, FS_EmptySet
      <3> QED BY <3>1
    <2>2. CASE E # {}
      <3>1. PICK c \in E : TRUE
        BY <2>2
      <3> DEFINE U == E \ {c}
      <3>2. U \in Good
        BY <1>2, <3>1
      <3>3. IsFiniteSet(E) /\ IsFiniteSet(U) /\ Cardinality(E) = Cardinality(U) + 1
            /\ Cardinality(U) \in Nat
        <4>1. IsFiniteSet(E)
          BY <1>1, FS_Subset
        <4>2. IsFiniteSet(U) /\ c \notin U /\ U \cup {c} = E
          BY <4>1, <3>1, FS_RemoveElement
        <4>3. Cardinality(U \cup {c}) = Cardinality(U) + 1
          <5> HIDE DEF U
          <5> QED BY <4>2, FS_AddElement
        <4> QED BY <4>1, <4>2, <4>3, FS_CardinalityType
      <3>4. UNION E = (UNION U) \cup c
        BY <3>1
      <3>5. IsFiniteSet(UNION U) /\ Cardinality(UNION U) <= Cardinality(U) * b
        BY <3>2
      <3>6. IsFiniteSet(c) /\ Cardinality(c) \in Nat /\ Cardinality(c) <= b
        BY <3>1, CandleSize
      <3> HIDE DEF U, Good
      <3>7. /\ IsFiniteSet((UNION U) \cup c)
            /\ Cardinality((UNION U) \cup c) <= Cardinality(UNION U) + Cardinality(c)
            /\ Cardinality(UNION U) \in Nat /\ Cardinality((UNION U) \cup c) \in Nat
        <4>1. IsFiniteSet((UNION U) \cup c)
          BY <3>5, <3>6, FS_Union
        <4>2. IsFiniteSet((UNION U) \cap c)
          BY <3>5, FS_Subset
        <4>3. Cardinality((UNION U) \cup c)
                = Cardinality(UNION U) + Cardinality(c) - Cardinality((UNION U) \cap c)
          BY <3>5, <3>6, FS_Union
        <4>4. /\ Cardinality(UNION U) \in Nat /\ Cardinality((UNION U) \cup c) \in Nat
              /\ Cardinality((UNION U) \cap c) \in Nat
          BY <3>5, <4>1, <4>2, FS_CardinalityType
        <4> QED BY <3>6, <4>1, <4>3, <4>4
      <3>8. \A k, u, n, w \in Nat : u <= k * b /\ n <= b /\ w <= u + n => w <= (k + 1) * b
        <4>1. \A k \in Nat : (k + 1) * b = k * b + b /\ k * b \in Int
          OBVIOUS
        <4> QED BY <4>1
      <3>9. Cardinality((UNION U) \cup c) <= (Cardinality(U) + 1) * b
        BY <3>3, <3>5, <3>6, <3>7, <3>8
      <3>10. Cardinality(UNION E) <= Cardinality(E) * b
        BY <3>3, <3>4, <3>9
      <3> QED BY <3>4, <3>7, <3>10 DEF Good
    <2> QED BY <2>1, <2>2
  <1>3. D \in Good
    <2> HIDE DEF Good
    <2>1. \A E \in SUBSET Aggregate(R, b) :
             (\A U \in SUBSET E : U # E => U \in Good) => E \in Good
      BY <1>2
    <2>2. \A E \in SUBSET Aggregate(R, b) : E \in Good
      BY <1>1, <2>1, SubsetInduction
    <2> QED BY <2>2
  <1>4. IsFiniteSet(D)
    BY <1>1, FS_Subset
  <1> QED BY <1>3, <1>4, FS_CardinalityType
-----------------------------------------------------------------------------
(* The end of the history, and a page of it. *)

\* With a row, all later ones are among the last; if not all rows are, they are
\* as many as were asked for.
LEMMA LastRowsFacts ==
  ASSUME NEW R, R \subseteq Nat, IsFiniteSet(R), NEW n \in Nat
  PROVE  /\ LastRows(R, n) \subseteq R
         /\ \A m \in LastRows(R, n), k \in R : m <= k => k \in LastRows(R, n)
         /\ \A m \in R \ LastRows(R, n) : Cardinality({k \in R : k > m}) >= n
  <1>1. \A m \in R : Cardinality({k \in R : k > m}) \in Nat
    <2>1. \A m \in R : IsFiniteSet({k \in R : k > m})
      BY FS_Subset
    <2> QED BY <2>1, FS_CardinalityType
  <1>2. ASSUME NEW m \in LastRows(R, n), NEW k \in R, m <= k
        PROVE  k \in LastRows(R, n)
    <2> DEFINE afterM == {i \in R : i > m}
               afterK == {i \in R : i > k}
    <2>1. m \in R /\ Cardinality(afterM) < n
      BY DEF LastRows
    <2>2. afterK \subseteq afterM
      <3>1. m \in Nat /\ k \in Nat /\ \A i \in R : i \in Nat
        BY <2>1
      <3>2. \A i \in R : i > k => i > m
        BY <1>2, <3>1
      <3> QED BY <3>2
    <2>3. IsFiniteSet(afterM)
      BY FS_Subset
    <2>4. Cardinality(afterK) \in Nat /\ Cardinality(afterM) \in Nat
      BY <1>1, <2>1
    <2>5. Cardinality(afterK) <= Cardinality(afterM)
      <3> HIDE DEF afterK, afterM
      <3> QED BY <2>2, <2>3, FS_Subset
    <2>6. Cardinality(afterK) < n
      <3> HIDE DEF afterK, afterM
      <3> QED BY <2>1, <2>4, <2>5
    <2> QED BY <2>6 DEF LastRows
  <1>3. \A m \in R \ LastRows(R, n) : Cardinality({k \in R : k > m}) >= n
    BY <1>1 DEF LastRows
  <1> QED BY <1>2, <1>3 DEF LastRows

RowsAfter(rows, m) == {k \in rows : k > m}

\* All later ones are among the last, and they are as many as were asked for.
LEMMA RowsAfterLeftOut ==
  ASSUME NEW R, R \subseteq Nat, IsFiniteSet(R), NEW n \in Nat,
         NEW F, F = LastRows(R, n), NEW m \in R \ F, \A k \in R \ F : k <= m
  PROVE  RowsAfter(R, m) \subseteq F /\ Cardinality(RowsAfter(R, m)) >= n
  <1>1. RowsAfter(R, m) \subseteq F
    <2>1. SUFFICES ASSUME NEW k \in R, k > m, k \in R \ F PROVE FALSE
      BY DEF RowsAfter
    <2>2. k <= m /\ k \in Nat /\ m \in Nat
      BY <2>1
    <2> QED BY <2>1, <2>2
  <1>2. Cardinality({k \in R : k > m}) >= n
    BY LastRowsFacts
  <1> QED BY <1>1, <1>2 DEF RowsAfter

\* With a candle, all later ones are among the last.
LEMMA LastCandlesFacts ==
  ASSUME NEW D, IsFiniteSet(D), \A c \in D : Min(c) \in Int, NEW n \in Nat
  PROVE  /\ LastCandles(D, n) \subseteq D
         /\ \A c \in LastCandles(D, n), d \in D : Min(c) <= Min(d) => d \in LastCandles(D, n)
         /\ \A c \in D : n > 0 /\ (\A d \in D : Min(d) <= Min(c)) => c \in LastCandles(D, n)
  <1>1. ASSUME NEW c \in LastCandles(D, n), NEW d \in D, Min(c) <= Min(d)
        PROVE  d \in LastCandles(D, n)
    <2> DEFINE afterC == {i \in D : Min(i) > Min(c)}
               afterD == {i \in D : Min(i) > Min(d)}
    <2>1. c \in D /\ Cardinality(afterC) < n
      BY DEF LastCandles
    <2>2. afterD \subseteq afterC
      BY <1>1, <2>1
    <2>3. IsFiniteSet(afterC) /\ IsFiniteSet(afterD)
      BY FS_Subset
    <2>4. Cardinality(afterC) \in Nat /\ Cardinality(afterD) \in Nat
      BY <2>3, FS_CardinalityType
    <2>5. Cardinality(afterD) <= Cardinality(afterC)
      <3> HIDE DEF afterC, afterD
      <3> QED BY <2>2, <2>3, FS_Subset
    <2>6. Cardinality(afterD) < n
      <3> HIDE DEF afterC, afterD
      <3> QED BY <2>1, <2>4, <2>5
    <2> QED BY <2>6 DEF LastCandles
  <1>2. ASSUME NEW c \in D, n > 0, \A d \in D : Min(d) <= Min(c)
        PROVE  c \in LastCandles(D, n)
    <2>1. {d \in D : Min(d) > Min(c)} = {}
      BY <1>2
    <2>2. Cardinality({d \in D : Min(d) > Min(c)}) = 0
      BY <2>1, FS_EmptySet
    <2> QED BY <1>2, <2>2 DEF LastCandles
  <1> QED BY <1>1, <1>2 DEF LastCandles

\* Of candles that there are, one is the last.
LEMMA LastCandleExists ==
  ASSUME NEW D, IsFiniteSet(D), D # {}, \A c \in D : Min(c) \in Int
  PROVE  \E c \in D : \A d \in D : Min(d) <= Min(c)
  <1> DEFINE Good == {E \in SUBSET D : E # {} => \E c \in E : \A d \in E : Min(d) <= Min(c)}
  <1>1. ASSUME NEW E \in SUBSET D, \A U \in SUBSET E : U # E => U \in Good
        PROVE  E \in Good
    <2>1. SUFFICES ASSUME NEW c \in E PROVE \E d \in E : \A x \in E : Min(x) <= Min(d)
      OBVIOUS
    <2> DEFINE U == {d \in E : Min(d) > Min(c)}
    <2>2. Min(c) \in Int /\ \A d \in E : Min(d) \in Int
      OBVIOUS
    <2>3. U \in SUBSET E /\ U # E
      BY <2>2
    <2>4. CASE U = {}
      <3>1. \A d \in E : Min(d) <= Min(c)
        BY <2>2, <2>4
      <3> QED BY <3>1
    <2>5. CASE U # {}
      <3>1. PICK d \in U : \A x \in U : Min(x) <= Min(d)
        BY <1>1, <2>3, <2>5
      <3>2. d \in E /\ Min(d) > Min(c)
        BY <3>1
      <3>3. \A x \in E : Min(x) <= Min(d)
        BY <2>2, <3>1, <3>2
      <3> QED BY <3>2, <3>3
    <2> QED BY <2>4, <2>5
  <1> HIDE DEF Good
  <1>2. D \in Good
    BY <1>1, SubsetInduction
  <1> QED BY <1>2 DEF Good

\* The contiguous tail has, with a candle, all later ones of those read, and is not
\* empty if any was read.  A page that says there is no more has all that were read.
LEMMA TailFacts ==
  ASSUME NEW D, IsFiniteSet(D), \A c \in D : Min(c) \in Int,
         NEW b, NEW limit \in Nat \ {0}, NEW page, page = TrimToContiguousTail(D, b, limit)
  PROVE  /\ page.candles \subseteq LastCandles(D, limit + 1)
         /\ \A c \in page.candles, d \in D : Min(c) <= Min(d) => d \in page.candles
         /\ page.hasMore \in BOOLEAN
         /\ page.hasMore => page.candles # {}
         /\ ~page.hasMore => page.candles = D /\ Cardinality(D) <= limit
  <1> DEFINE recent == LastCandles(D, limit + 1)
             tail == {c \in recent : ContiguousFrom(c, recent, b)}
  <1>1. Max({limit + 1, 2}) = limit + 1
    BY MaxOfTwo
  <1>2. page = IF Cardinality(tail) > limit
               THEN [candles |-> LastCandles(tail, limit), hasMore |-> TRUE]
               ELSE [candles |-> tail, hasMore |-> tail # D]
    BY <1>1 DEF TrimToContiguousTail
  <1>3. /\ recent \subseteq D
        /\ \A c \in recent, d \in D : Min(c) <= Min(d) => d \in recent
        /\ \A c \in D : (\A d \in D : Min(d) <= Min(c)) => c \in recent
    BY LastCandlesFacts
  <1> HIDE DEF recent
  <1>4. tail \subseteq recent /\ tail \subseteq D
    BY <1>3
  <1>5. ASSUME NEW c \in tail, NEW d \in D, Min(c) <= Min(d)
        PROVE  d \in tail
    <2>1. c \in D /\ d \in recent /\ ContiguousFrom(c, recent, b)
      BY <1>3, <1>5
    <2>2. \A e \in recent : Min(e) > Min(d) => Min(e) > Min(c)
      BY <1>3, <1>5, <2>1
    <2>3. ContiguousFrom(d, recent, b)
      BY <2>1, <2>2 DEF ContiguousFrom
    <2> QED BY <2>1, <2>3
  <1>6. ASSUME D # {} PROVE tail # {}
    <2>1. PICK c \in D : \A d \in D : Min(d) <= Min(c)
      BY <1>6, LastCandleExists
    <2>2. c \in recent
      BY <1>3, <2>1
    <2>3. \A e \in recent : ~(Min(e) > Min(c))
      BY <1>3, <2>1
    <2>4. ContiguousFrom(c, recent, b)
      BY <2>3 DEF ContiguousFrom
    <2> QED BY <2>2, <2>4
  <1> HIDE DEF tail
  <1>7. IsFiniteSet(tail) /\ Cardinality(tail) \in Nat /\ \A c \in tail : Min(c) \in Int
    BY <1>4, FS_Subset, FS_CardinalityType
  <1>8. CASE Cardinality(tail) > limit
    <2>1. page.candles = LastCandles(tail, limit) /\ page.hasMore = TRUE
      BY <1>2, <1>8
    <2>2. tail # {}
      BY <1>8, FS_EmptySet
    <2>3. /\ page.candles \subseteq tail
          /\ \A c \in page.candles, d \in tail : Min(c) <= Min(d) => d \in page.candles
          /\ \A c \in tail : (\A d \in tail : Min(d) <= Min(c)) => c \in page.candles
      BY <1>7, <2>1, LastCandlesFacts
    <2>4. PICK c \in tail : \A d \in tail : Min(d) <= Min(c)
      BY <1>7, <2>2, LastCandleExists
    <2>5. page.candles # {}
      BY <2>3, <2>4
    <2>6. \A e \in page.candles, d \in D : Min(e) <= Min(d) => d \in page.candles
      BY <1>5, <2>3
    <2> QED BY <1>4, <2>1, <2>3, <2>5, <2>6 DEF recent
  <1>9. CASE ~(Cardinality(tail) > limit)
    <2>1. page.candles = tail /\ page.hasMore = (tail # D)
      BY <1>2, <1>9
    <2>2. tail # D => tail # {}
      BY <1>4, <1>6
    <2>3. page.candles \subseteq LastCandles(D, limit + 1)
      BY <1>4, <2>1 DEF recent
    <2>4. tail = D => Cardinality(D) <= limit
      BY <1>7, <1>9
    <2>5. \A c \in page.candles, d \in D : Min(c) <= Min(d) => d \in page.candles
      BY <1>5, <2>1
    <2>6. page.hasMore \in BOOLEAN /\ (page.hasMore <=> tail # D)
      BY <2>1
    <2> QED BY <2>1, <2>2, <2>3, <2>4, <2>5, <2>6
  <1> QED BY <1>8, <1>9

\* A candle that the read cuts off has as many rows after it as were asked for, which
\* are more than the candles of a page have: it is not among the last.
LEMMA CutCandleNotShown ==
  ASSUME NEW S, S \subseteq Nat, IsFiniteSet(S), NEW b \in Nat \ {0}, NEW limit \in Nat \ {0},
         NEW F, F = LastRows(S, FetchLimit(b, limit)),
         NEW c \in LastCandles(Aggregate(F, b), limit + 1),
         NEW r \in S, TimeOf(r, b) = CandleTime(c, b)
  PROVE  r \in F
  <1> DEFINE C == Aggregate(F, b)
             t == CandleTime(c, b)
             later == {d \in C : Min(d) > Min(c)}
             whole == {n \in S : TimeOf(n, b) = TimeOf(r, b)}
  <1>1. /\ F \subseteq S /\ F \subseteq Nat /\ IsFiniteSet(F) /\ FetchLimit(b, limit) \in Nat
        /\ \A m \in F, k \in S : m <= k => k \in F
    <2>1. FetchLimit(b, limit) \in Nat
      BY DEF FetchLimit
    <2>2. F \subseteq S /\ \A m \in F, k \in S : m <= k => k \in F
      BY <2>1, LastRowsFacts
    <2>3. IsFiniteSet(F)
      BY <2>2, FS_Subset
    <2>4. F \subseteq Nat
      BY <2>2
    <2> QED BY <2>1, <2>2, <2>3, <2>4
  <1>2. c \in C /\ Cardinality(later) < limit + 1
    BY DEF LastCandles
  <1>3. /\ Min(c) \in F /\ t \in Nat /\ TimeOf(Min(c), b) = t
        /\ c = {n \in F : TimeOf(n, b) = t}
    <2>1. Min(c) \in c /\ c \subseteq F /\ t \in Nat /\ c = {n \in F : TimeOf(n, b) = t}
      BY <1>1, <1>2, CandleFacts
    <2> QED BY <2>1 DEF CandleTime
  <1>4. later \in SUBSET C
    OBVIOUS
  <1> HIDE DEF C, t, later
  <1>5. SUFFICES ASSUME r \notin F PROVE FALSE
    OBVIOUS
  <1>6. PICK m \in S \ F : \A k \in S \ F : k <= m
    <2>1. PICK rest : rest = S \ F
      OBVIOUS
    <2>2. r \in rest /\ rest \subseteq S
      BY <1>5, <2>1
    <2>3. IsFiniteSet(rest)
      BY <2>2, FS_Subset
    <2>4. rest \subseteq Int
      BY <2>2
    <2>5. \E m \in rest : \A k \in rest : k <= m
      BY <2>2, <2>3, <2>4, GreatestOf
    <2> QED BY <2>1, <2>5
  <1>7. r <= m
    BY <1>5, <1>6
  <1>8. RowsAfter(S, m) \subseteq F /\ Cardinality(RowsAfter(S, m)) >= FetchLimit(b, limit)
    BY <1>1, <1>6, RowsAfterLeftOut
  <1> DEFINE after == RowsAfter(S, m)
  <1>9. TimeOf(r, b) = t
    BY DEF t
  <1>10. TimeOf(m, b) = t
    <2>1. m \in Nat /\ r \in Nat /\ Min(c) \in Nat /\ m < Min(c)
      BY <1>1, <1>3, <1>6
    <2>2. TimeOf(r, b) <= TimeOf(m, b) /\ TimeOf(m, b) <= TimeOf(Min(c), b)
      BY <1>7, <2>1, BucketsOrdered
    <2>3. TimeOf(m, b) \in Nat
      BY <2>1, BucketOf
    <2> QED BY <1>3, <1>9, <2>2, <2>3
  <1>11. after \subseteq whole \cup UNION later
    <2>1. SUFFICES ASSUME NEW k \in S, k > m, TimeOf(k, b) # t PROVE k \in UNION later
      BY <1>9 DEF RowsAfter
    <2>2. k \in F /\ k \in Nat /\ m \in Nat
      BY <1>6, <1>8, <2>1 DEF RowsAfter
    <2>3. t < TimeOf(k, b)
      <3>1. TimeOf(m, b) <= TimeOf(k, b) /\ TimeOf(k, b) \in Nat
        BY <2>1, <2>2, BucketsOrdered, BucketOf
      <3> QED BY <1>3, <1>10, <2>1, <3>1
    <2>4. PICK d \in C : k \in d
      BY <1>1, <2>2, CandlesCover DEF C
    <2>5. CandleTime(d, b) = TimeOf(k, b)
      BY <1>1, <2>4, CandleFacts DEF C
    <2>6. Min(c) < Min(d)
      BY <1>1, <1>2, <2>3, <2>4, <2>5, CandlesOrdered DEF C, t
    <2>7. Min(d) \in Nat
      BY <1>1, <2>4, CandleFacts DEF C
    <2>8. d \in later
      BY <1>1, <1>3, <2>4, <2>6, <2>7 DEF later
    <2> QED BY <2>4, <2>8
  <1>12. IsFiniteSet(whole) /\ Cardinality(whole) \in Nat /\ Cardinality(whole) <= b
    <2>1. whole \in Aggregate(S, b)
      BY RowsAreCandle
    <2> HIDE DEF whole
    <2> QED BY <2>1, CandleSize
  <1>13. /\ IsFiniteSet(UNION later) /\ Cardinality(UNION later) \in Nat
         /\ Cardinality(later) \in Nat
         /\ Cardinality(UNION later) <= Cardinality(later) * b
    BY <1>1, <1>4, CandlesSize DEF C
  <1> HIDE DEF whole
  <1>14. /\ IsFiniteSet(whole \cup UNION later)
         /\ Cardinality(whole \cup UNION later) <= Cardinality(whole) + Cardinality(UNION later)
         /\ Cardinality(whole \cup UNION later) \in Nat
    <2>1. IsFiniteSet(whole \cup UNION later)
      BY <1>12, <1>13, FS_Union
    <2>2. IsFiniteSet(whole \cap UNION later)
      BY <1>12, FS_Subset
    <2>3. Cardinality(whole \cup UNION later)
            = Cardinality(whole) + Cardinality(UNION later) - Cardinality(whole \cap UNION later)
      BY <1>12, <1>13, FS_Union
    <2>4. /\ Cardinality(whole \cup UNION later) \in Nat
          /\ Cardinality(whole \cap UNION later) \in Nat
      BY <2>1, <2>2, FS_CardinalityType
    <2> QED BY <1>12, <1>13, <2>1, <2>3, <2>4
  <1>15. m \in whole /\ m \notin after
    BY <1>1, <1>6, <1>9, <1>10 DEF whole, RowsAfter
  <1> HIDE DEF after
  <1>16. Cardinality(after) <= Cardinality(whole \cup UNION later)
         /\ Cardinality(after) # Cardinality(whole \cup UNION later)
         /\ Cardinality(after) \in Nat
    <2>1. /\ IsFiniteSet(after)
          /\ Cardinality(after) <= Cardinality(whole \cup UNION later)
          /\ Cardinality(whole \cup UNION later) = Cardinality(after)
               => whole \cup UNION later = after
      BY <1>11, <1>14, FS_Subset
    <2> QED BY <1>15, <2>1, FS_CardinalityType
  <1>17. Cardinality(after) >= FetchLimit(b, limit)
    BY <1>8 DEF after
  <1>18. \A a, w, u, k \in Nat :
            /\ w <= b /\ k <= limit /\ u <= k * b /\ a < w + u
            => a < (limit + 1) * b
    <2>1. (limit + 1) * b = limit * b + b
      OBVIOUS
    <2>2. \A k \in Nat : k <= limit => k * b <= limit * b /\ k * b \in Int /\ limit * b \in Int
      BY TimesOrdered
    <2> QED BY <2>1, <2>2
  <1>19. Cardinality(after) < Cardinality(whole) + Cardinality(UNION later)
    BY <1>12, <1>13, <1>14, <1>16
  <1>20. Cardinality(later) <= limit
    BY <1>2, <1>13
  <1>21. Cardinality(after) < (limit + 1) * b
    BY <1>12, <1>13, <1>16, <1>18, <1>19, <1>20
  <1> QED BY <1>16, <1>17, <1>21 DEF FetchLimit

\* A page shows whole candles, with each one all later ones; when it says that there
\* is no more, it shows all of them.
LEMMA PageIsEnd ==
  ASSUME NEW S, S \subseteq Nat, IsFiniteSet(S), NEW b \in Nat \ {0}, NEW limit \in Nat \ {0},
         NEW F, F = LastRows(S, FetchLimit(b, limit)),
         NEW page, page = TrimToContiguousTail(Aggregate(F, b), b, limit)
  PROVE  /\ page.candles \subseteq Aggregate(S, b)
         /\ \A c \in page.candles, d \in Aggregate(S, b) :
               CandleTime(c, b) <= CandleTime(d, b) => d \in page.candles
         /\ page.hasMore \in BOOLEAN
         /\ page.hasMore => page.candles # {}
         /\ ~page.hasMore => page.candles = Aggregate(S, b)
  <1> DEFINE C == Aggregate(F, b)
             P == page.candles
  <1>1. /\ F \subseteq S /\ F \subseteq Nat /\ IsFiniteSet(F) /\ FetchLimit(b, limit) \in Nat
        /\ \A m \in F, k \in S : m <= k => k \in F
    <2>1. FetchLimit(b, limit) \in Nat
      BY DEF FetchLimit
    <2>2. F \subseteq S /\ \A m \in F, k \in S : m <= k => k \in F
      BY <2>1, LastRowsFacts
    <2>3. IsFiniteSet(F)
      BY <2>2, FS_Subset
    <2>4. F \subseteq Nat
      BY <2>2
    <2> QED BY <2>1, <2>2, <2>3, <2>4
  <1>2. IsFiniteSet(C) /\ UNION C = F /\ \A c \in C : Min(c) \in Int
    BY <1>1, CandlesCover, CandleFacts
  <1> HIDE DEF C
  <1>3. /\ P \subseteq LastCandles(C, limit + 1)
        /\ \A c \in P, d \in C : Min(c) <= Min(d) => d \in P
        /\ page.hasMore \in BOOLEAN
        /\ page.hasMore => P # {}
        /\ ~page.hasMore => P = C /\ Cardinality(C) <= limit
    <2>1. page = TrimToContiguousTail(C, b, limit)
      BY DEF C
    <2> QED BY <1>2, <2>1, TailFacts
  <1> HIDE DEF P
  <1>4. P \subseteq C
    BY <1>3 DEF LastCandles
  <1>5. ASSUME NEW c \in P
        PROVE  /\ c \in Aggregate(S, b) /\ c # {} /\ Min(c) \in F
               /\ c = {n \in S : TimeOf(n, b) = CandleTime(c, b)}
    <2>1. c \in LastCandles(Aggregate(F, b), limit + 1)
      BY <1>3 DEF C
    <2>2. /\ Min(c) \in c /\ c \subseteq F
          /\ c = {n \in F : TimeOf(n, b) = CandleTime(c, b)}
      BY <1>1, <1>4, CandleFacts DEF C
    <2>3. \A r \in S : TimeOf(r, b) = CandleTime(c, b) => r \in F
      BY <2>1, CutCandleNotShown
    <2>4. c = {n \in S : TimeOf(n, b) = CandleTime(c, b)}
      BY <1>1, <2>2, <2>3
    <2>5. Min(c) \in S /\ CandleTime(c, b) = TimeOf(Min(c), b)
      BY <1>1, <2>2 DEF CandleTime
    <2>6. {n \in S : TimeOf(n, b) = TimeOf(Min(c), b)} \in Aggregate(S, b)
      BY <2>5, RowsAreCandle
    <2> QED BY <2>2, <2>4, <2>5, <2>6
  <1>6. ASSUME NEW c \in P, NEW d \in Aggregate(S, b), CandleTime(c, b) <= CandleTime(d, b)
        PROVE  d \in P
    <2>1. CASE CandleTime(c, b) = CandleTime(d, b)
      BY <1>5, <2>1, CandlesOrdered
    <2>2. CASE CandleTime(c, b) # CandleTime(d, b)
      <3>1. /\ Min(c) \in Nat /\ Min(d) \in d /\ d \subseteq S
            /\ CandleTime(c, b) \in Nat /\ CandleTime(d, b) \in Nat
            /\ d = {n \in S : TimeOf(n, b) = CandleTime(d, b)}
        BY <1>5, CandleFacts
      <3>2. \A n \in d : n \in F
        <4>1. SUFFICES ASSUME NEW n \in d PROVE n \in F
          OBVIOUS
        <4>2. n \in S /\ n \in Nat /\ TimeOf(n, b) = CandleTime(d, b)
          BY <3>1
        <4>3. TimeOf(Min(c), b) < TimeOf(n, b)
          BY <1>6, <2>2, <3>1, <4>2 DEF CandleTime
        <4>4. Min(c) < TimeOf(n, b) /\ TimeOf(n, b) <= n /\ TimeOf(n, b) \in Nat
          BY <3>1, <4>2, <4>3, BucketsOrdered, BucketOf
        <4>5. Min(c) <= n
          BY <3>1, <4>2, <4>4
        <4> QED BY <1>1, <1>5, <4>2, <4>5
      <3>3. Min(d) \in F /\ Min(d) \in S /\ CandleTime(d, b) = TimeOf(Min(d), b)
        BY <3>1, <3>2 DEF CandleTime
      <3>4. d = {n \in F : TimeOf(n, b) = TimeOf(Min(d), b)}
        BY <1>1, <3>1, <3>2, <3>3
      <3>5. d \in C
        BY <3>3, <3>4, RowsAreCandle DEF C
      <3>6. Min(c) < Min(d)
        <4>1. CandleTime(c, b) < CandleTime(d, b)
          BY <1>6, <2>2, <3>1
        <4> QED BY <1>5, <4>1, CandlesOrdered
      <3>7. Min(d) \in Nat
        BY <3>3
      <3> QED BY <1>3, <3>1, <3>5, <3>6, <3>7
    <2> QED BY <2>1, <2>2
  <1>7. ASSUME ~page.hasMore PROVE P = Aggregate(S, b)
    <2>1. P = C /\ Cardinality(C) <= limit
      BY <1>3, <1>7
    <2>2. F = S
      <3>1. SUFFICES ASSUME NEW r \in S \ F PROVE FALSE
        BY <1>1
      <3>2. PICK m \in S \ F : \A k \in S \ F : k <= m
        <4>1. PICK rest : rest = S \ F
          OBVIOUS
        <4>2. r \in rest /\ rest \subseteq S
          BY <4>1
        <4>3. IsFiniteSet(rest)
          BY <4>2, FS_Subset
        <4>4. rest \subseteq Int
          BY <4>2
        <4>5. \E m \in rest : \A k \in rest : k <= m
          BY <4>2, <4>3, <4>4, GreatestOf
        <4> QED BY <4>1, <4>5
      <3> DEFINE after == RowsAfter(S, m)
      <3>3. after \subseteq F /\ Cardinality(after) >= FetchLimit(b, limit)
        BY <1>1, <3>2, RowsAfterLeftOut
      <3> HIDE DEF after
      <3>4. Cardinality(after) <= Cardinality(F) /\ Cardinality(after) \in Nat
            /\ Cardinality(F) \in Nat
        BY <1>1, <3>3, FS_Subset, FS_CardinalityType
      <3>5. /\ Cardinality(C) \in Nat /\ Cardinality(UNION C) <= Cardinality(C) * b
        <4>1. C \in SUBSET Aggregate(F, b)
          BY DEF C
        <4> QED BY <1>1, <4>1, CandlesSize
      <3>6. Cardinality(F) <= Cardinality(C) * b
        BY <1>2, <3>5
      <3>7. \A k \in Nat : k <= limit => k * b < (limit + 1) * b /\ k * b \in Int
        <4>1. \A k \in Nat : k < limit + 1 => /\ k * b + b <= (limit + 1) * b
                                              /\ k * b \in Int /\ (limit + 1) * b \in Int
          BY TimesOrdered
        <4>2. \A k \in Nat : k <= limit => k < limit + 1
          OBVIOUS
        <4> QED BY <4>1, <4>2
      <3>8. (limit + 1) * b \in Nat
        OBVIOUS
      <3>9. Cardinality(C) * b < (limit + 1) * b /\ Cardinality(C) * b \in Int
        BY <2>1, <3>5, <3>7
      <3>10. FetchLimit(b, limit) = (limit + 1) * b
        BY DEF FetchLimit
      <3> QED BY <3>3, <3>4, <3>6, <3>8, <3>9, <3>10
    <2> QED BY <2>1, <2>2 DEF C
  <1>8. P \subseteq Aggregate(S, b)
    BY <1>5
  <1> QED BY <1>3, <1>6, <1>7, <1>8 DEF P

RowsBefore(rows, time) == {m \in rows : m < time}
\* The time of the first candle of a page.
FirstTime(page, b) == Min({CandleTime(c, b) : c \in page.candles})

\* The rows before a time that begins a bucket make the candles before that time.
LEMMA CandlesBefore ==
  ASSUME NEW S, S \subseteq Nat, IsFiniteSet(S), NEW b \in Nat \ {0},
         NEW x \in Nat, NEW t, t = TimeOf(x, b)
  PROVE  \A c : c \in Aggregate(RowsBefore(S, t), b) <=> c \in Aggregate(S, b) /\ CandleTime(c, b) < t
  <1> DEFINE U == RowsBefore(S, t)
  <1>1. U \subseteq S /\ U \subseteq Nat /\ IsFiniteSet(U) /\ t \in Nat
    <2>1. U \subseteq S
      BY DEF RowsBefore
    <2>2. IsFiniteSet(U)
      BY <2>1, FS_Subset
    <2>3. U \subseteq Nat
      BY <2>1
    <2>4. t \in Nat
      BY BucketOf
    <2> HIDE DEF U
    <2> QED BY <2>1, <2>2, <2>3, <2>4
  <1>2. \A m \in S : m \in U <=> TimeOf(m, b) < t
    BY BucketsOrdered DEF RowsBefore
  <1> HIDE DEF U
  <1>3. ASSUME NEW m \in S, TimeOf(m, b) < t
        PROVE  {n \in U : TimeOf(n, b) = TimeOf(m, b)} = {n \in S : TimeOf(n, b) = TimeOf(m, b)}
    BY <1>1, <1>2, <1>3
  <1>4. ASSUME NEW c \in Aggregate(U, b)
        PROVE  c \in Aggregate(S, b) /\ CandleTime(c, b) < t
    <2>1. /\ Min(c) \in c /\ c \subseteq U
          /\ c = {n \in U : TimeOf(n, b) = CandleTime(c, b)}
      BY <1>1, CandleFacts
    <2>2. Min(c) \in S /\ TimeOf(Min(c), b) < t /\ CandleTime(c, b) = TimeOf(Min(c), b)
      BY <1>1, <1>2, <2>1 DEF CandleTime
    <2>3. c = {n \in S : TimeOf(n, b) = TimeOf(Min(c), b)}
      BY <1>3, <2>1, <2>2
    <2> QED BY <2>2, <2>3, RowsAreCandle
  <1>5. ASSUME NEW c \in Aggregate(S, b), CandleTime(c, b) < t
        PROVE  c \in Aggregate(U, b)
    <2>1. /\ Min(c) \in c /\ c \subseteq S
          /\ c = {n \in S : TimeOf(n, b) = CandleTime(c, b)}
      BY CandleFacts
    <2>2. Min(c) \in S /\ TimeOf(Min(c), b) < t /\ CandleTime(c, b) = TimeOf(Min(c), b)
      BY <1>5, <2>1 DEF CandleTime
    <2>3. Min(c) \in U
      BY <1>2, <2>2
    <2>4. c = {n \in U : TimeOf(n, b) = TimeOf(Min(c), b)}
      BY <1>3, <2>1, <2>2
    <2> QED BY <2>3, <2>4, RowsAreCandle
  <1> QED BY <1>4, <1>5 DEF U

\* What one page leaves to the next: the page and the candles before its first are
\* all candles, and when it says that there is no more, the page is all of them.
LEMMA PageLeaves ==
  ASSUME NEW R, R \subseteq Nat, IsFiniteSet(R), NEW b \in Nat \ {0}, NEW limit \in Nat \ {0},
         NEW before \in Nat, NEW page, page = Page(R, b, limit, before),
         NEW first, first = FirstTime(page, b)
  PROVE  /\ page.hasMore \in BOOLEAN
         /\ page.hasMore =>
              /\ first \in Nat /\ first < before
              /\ Aggregate(RowsBefore(R, before), b)
                   = page.candles \cup Aggregate(RowsBefore(R, first), b)
         /\ ~page.hasMore => Aggregate(RowsBefore(R, before), b) = page.candles
  <1> DEFINE S == RowsBefore(R, before)
             F == LastRows(S, FetchLimit(b, limit))
             P == page.candles
             Times == {CandleTime(c, b) : c \in P}
  <1>1. S \subseteq R /\ \A m \in S : m < before
    BY DEF RowsBefore
  <1>2. page = TrimToContiguousTail(Aggregate(F, b), b, limit)
    BY DEF Page, RowsBefore
  <1> HIDE DEF S
  <1>3. S \subseteq Nat /\ IsFiniteSet(S)
    BY <1>1, FS_Subset
  <1>4. /\ P \subseteq Aggregate(S, b)
        /\ \A c \in P, d \in Aggregate(S, b) : CandleTime(c, b) <= CandleTime(d, b) => d \in P
        /\ page.hasMore \in BOOLEAN
        /\ page.hasMore => P # {}
        /\ ~page.hasMore => P = Aggregate(S, b)
    <2>1. PICK G : G = F
      OBVIOUS
    <2>2. G = LastRows(S, FetchLimit(b, limit)) /\ page = TrimToContiguousTail(Aggregate(G, b), b, limit)
      BY <1>2, <2>1
    <2> HIDE DEF F, P
    <2>3. /\ page.candles \subseteq Aggregate(S, b)
          /\ \A c \in page.candles, d \in Aggregate(S, b) :
                CandleTime(c, b) <= CandleTime(d, b) => d \in page.candles
          /\ page.hasMore \in BOOLEAN
          /\ page.hasMore => page.candles # {}
          /\ ~page.hasMore => page.candles = Aggregate(S, b)
      BY <1>3, <2>2, PageIsEnd
    <2> QED BY <2>3 DEF P
  <1> HIDE DEF F, P
  <1>5. ASSUME page.hasMore
        PROVE  /\ first \in Nat /\ first < before
               /\ Aggregate(S, b) = P \cup Aggregate(RowsBefore(R, first), b)
    <2>1. \A c \in P : /\ CandleTime(c, b) \in Nat /\ CandleTime(c, b) < before
                       /\ Min(c) \in Nat /\ CandleTime(c, b) = TimeOf(Min(c), b)
      <3>1. SUFFICES ASSUME NEW c \in P
                     PROVE  /\ CandleTime(c, b) \in Nat /\ CandleTime(c, b) < before
                            /\ Min(c) \in Nat /\ CandleTime(c, b) = TimeOf(Min(c), b)
        OBVIOUS
      <3>2. Min(c) \in c /\ c \subseteq S
        BY <1>3, <1>4, CandleFacts
      <3>3. Min(c) \in Nat /\ Min(c) < before
        BY <1>1, <1>3, <3>2
      <3>4. TimeOf(Min(c), b) \in Nat /\ TimeOf(Min(c), b) <= Min(c)
        BY <3>3, BucketOf
      <3> QED BY <3>3, <3>4 DEF CandleTime
    <2>2. Times \subseteq Nat /\ Times # {} /\ \A x \in Times : x <= before
      BY <1>4, <1>5, <2>1
    <2>3. first = Min(Times)
      BY DEF P, FirstTime
    <2>4. IsFiniteSet(Times) /\ Times \subseteq Int
      <3> HIDE DEF Times
      <3>1. IsFiniteSet(Times)
        BY <2>2, FS_BoundedSetOfNaturals
      <3>2. Times \subseteq Int
        BY <2>2
      <3> QED BY <3>1, <3>2
    <2>5. first \in Times /\ \A x \in Times : first <= x
      <3> HIDE DEF Times
      <3> QED BY <2>2, <2>3, <2>4, MinIsLeast
    <2>6. PICK c \in P : CandleTime(c, b) = first
      BY <2>5
    <2>7. first \in Nat /\ first < before /\ first = TimeOf(Min(c), b) /\ Min(c) \in Nat
      BY <2>1, <2>6
    <2>8. \A d \in Aggregate(S, b) : d \in P <=> ~(CandleTime(d, b) < first)
      <3>1. SUFFICES ASSUME NEW d \in Aggregate(S, b)
                     PROVE  d \in P <=> ~(CandleTime(d, b) < first)
        OBVIOUS
      <3>2. CandleTime(d, b) \in Nat
        BY <1>3, CandleFacts
      <3>3. d \in P => CandleTime(d, b) \in Times
        OBVIOUS
      <3>4. d \in P => first <= CandleTime(d, b)
        <4> HIDE DEF Times
        <4> QED BY <2>5, <3>3
      <3>5. first <= CandleTime(d, b) => d \in P
        BY <1>4, <2>6
      <3> QED BY <2>7, <3>2, <3>4, <3>5
    <2>9. RowsBefore(R, first) = RowsBefore(S, first)
      <3>1. \A m \in R : m \in Nat
        OBVIOUS
      <3>2. \A m \in R : m < first => m < before
        BY <2>7, <3>1
      <3> QED BY <3>2 DEF RowsBefore, S
    <2>10. PICK x \in Nat : first = TimeOf(x, b)
      BY <2>7
    <2>11. \A d : d \in Aggregate(RowsBefore(R, first), b) <=>
                    d \in Aggregate(S, b) /\ CandleTime(d, b) < first
      BY <1>3, <2>9, <2>10, CandlesBefore
    <2>12. Aggregate(S, b) = P \cup Aggregate(RowsBefore(R, first), b)
      BY <1>4, <2>8, <2>11
    <2> QED BY <2>7, <2>12
  <1> QED BY <1>4, <1>5 DEF S, P

\* Page by page a reader gets every candle.
LEMMA PagesShowAll ==
  ASSUME NEW R, R \subseteq Nat, IsFiniteSet(R), NEW b \in Nat \ {0}, NEW limit \in Nat \ {0},
         NEW end \in Nat, \A m \in R : m < end
  PROVE  AllPages(R, b, limit, end) = Aggregate(R, b)
  <1> DEFINE Shows(f) == f = [before \in 0 .. end |->
                LET page == Page(R, b, limit, before)
                IN  page.candles \cup
                    IF page.hasMore THEN f[FirstTime(page, b)] ELSE {}]
             All == [before \in 0 .. end |-> Aggregate(RowsBefore(R, before), b)]
  <1>1. AllPages(R, b, limit, end) = (CHOOSE f : Shows(f))[end]
    BY DEF AllPages, FirstTime
  <1>2. ASSUME NEW before \in 0 .. end,
               NEW page, page = Page(R, b, limit, before),
               NEW first, first = FirstTime(page, b)
        PROVE  /\ page.hasMore \in BOOLEAN
               /\ page.hasMore =>
                    /\ first \in 0 .. end /\ first < before
                    /\ All[before] = page.candles \cup All[first]
               /\ ~page.hasMore => All[before] = page.candles
    <2> HIDE DEF All, Shows
    <2>1. PICK n \in Nat : n = before
      OBVIOUS
    <2>2. page = Page(R, b, limit, n)
      BY <1>2, <2>1
    <2>3. /\ page.hasMore \in BOOLEAN
          /\ page.hasMore =>
               /\ first \in Nat /\ first < n
               /\ Aggregate(RowsBefore(R, n), b)
                    = page.candles \cup Aggregate(RowsBefore(R, first), b)
          /\ ~page.hasMore => Aggregate(RowsBefore(R, n), b) = page.candles
      BY <1>2, <2>2, PageLeaves
    <2>4. page.hasMore => first \in 0 .. end /\ first < before
      BY <2>1, <2>3
    <2>5. /\ All[before] = Aggregate(RowsBefore(R, n), b)
          /\ first \in 0 .. end => All[first] = Aggregate(RowsBefore(R, first), b)
      BY <2>1 DEF All
    <2> QED BY <2>3, <2>4, <2>5
  <1>3. DOMAIN All = 0 .. end /\ All = [before \in 0 .. end |-> All[before]]
    OBVIOUS
  <1>4. All[end] = Aggregate(R, b)
    <2>1. RowsBefore(R, end) = R
      BY DEF RowsBefore
    <2> QED BY <2>1
  <1> HIDE DEF All
  <1>5. Shows(All)
    <2>1. ASSUME NEW before \in 0 .. end
          PROVE  All[before] =
                   LET page == Page(R, b, limit, before)
                   IN  page.candles \cup
                       IF page.hasMore THEN All[FirstTime(page, b)] ELSE {}
      <3>1. PICK page : page = Page(R, b, limit, before)
        OBVIOUS
      <3>2. PICK first : first = FirstTime(page, b)
        OBVIOUS
      <3>3. /\ page.hasMore => All[before] = page.candles \cup All[first]
            /\ ~page.hasMore => All[before] = page.candles
        BY <1>2, <3>1, <3>2
      <3>4. All[before] = page.candles \cup IF page.hasMore THEN All[first] ELSE {}
        BY <3>3
      <3> QED BY <3>1, <3>2, <3>4
    <2> QED BY <1>3, <2>1
  <1>6. PICK f : f = CHOOSE g : Shows(g)
    OBVIOUS
  <1>7. Shows(f)
    BY <1>5, <1>6
  <1>8. \A before \in 0 .. end : f[before] = All[before]
    <2> DEFINE Good == {before \in 0 .. end : f[before] = All[before]}
    <2>1. ASSUME NEW before \in 0 .. end, \A m \in 0 .. end : m < before => m \in Good
          PROVE  before \in Good
      <3>1. PICK page : page = Page(R, b, limit, before)
        OBVIOUS
      <3>2. PICK first : first = FirstTime(page, b)
        OBVIOUS
      <3>3. f[before] = page.candles \cup IF page.hasMore THEN f[first] ELSE {}
        BY <1>7, <3>1, <3>2
      <3>4. /\ page.hasMore =>
                 /\ first \in 0 .. end /\ first < before
                 /\ All[before] = page.candles \cup All[first]
            /\ ~page.hasMore => All[before] = page.candles
        BY <1>2, <3>1, <3>2
      <3>5. page.hasMore => f[first] = All[first]
        BY <2>1, <3>4
      <3>6. f[before] = All[before]
        BY <3>3, <3>4, <3>5
      <3> QED BY <3>6
    <2> HIDE DEF Good, Shows
    <2>2. \A n \in 0 .. end : (\A m \in 0 .. end : m < n => m \in Good) => n \in Good
      BY <2>1
    <2>3. \A n \in 0 .. end : n \in Good
      BY <2>2, NumberInduction
    <2> QED BY <2>3 DEF Good
  <1> HIDE DEF Shows
  <1>9. end \in 0 .. end
    OBVIOUS
  <1> QED BY <1>1, <1>4, <1>6, <1>8, <1>9

\* A range shows every candle whose time is in it, with all of its rows.
LEMMA RangeShowsAll ==
  ASSUME NEW R, R \subseteq Nat, IsFiniteSet(R), NEW b \in Nat \ {0},
         NEW from \in Nat, NEW to \in Nat
  PROVE  \A c : c \in InRange(R, b, from, to) <=>
                  /\ c \in Aggregate(R, b)
                  /\ from <= CandleTime(c, b) /\ CandleTime(c, b) <= to
  <1> DEFINE S == {m \in R : from <= m /\ m < to + b}
  <1>1. S \subseteq R
    OBVIOUS
  <1>2. \A m \in R : from <= TimeOf(m, b) /\ TimeOf(m, b) <= to => m \in S
    <2>1. SUFFICES ASSUME NEW m \in R, from <= TimeOf(m, b), TimeOf(m, b) <= to
                   PROVE  from <= m /\ m < to + b
      OBVIOUS
    <2>2. /\ TimeOf(m, b) \in Nat /\ TimeOf(m, b) <= m /\ m < TimeOf(m, b) + b /\ m \in Nat
      BY BucketOf
    <2> HIDE DEF S
    <2> QED BY <2>1, <2>2
  <1>3. InRange(R, b, from, to) =
          {c \in Aggregate(S, b) : from <= CandleTime(c, b) /\ CandleTime(c, b) <= to}
    BY DEF InRange
  <1> HIDE DEF S
  <1>4. S \subseteq Nat /\ IsFiniteSet(S)
    BY <1>1, FS_Subset
  <1>5. ASSUME NEW c \in Aggregate(S, b), from <= CandleTime(c, b), CandleTime(c, b) <= to
        PROVE  c \in Aggregate(R, b)
    <2>1. /\ Min(c) \in c /\ c \subseteq S
          /\ c = {n \in S : TimeOf(n, b) = CandleTime(c, b)}
      BY <1>4, CandleFacts
    <2>2. Min(c) \in R /\ CandleTime(c, b) = TimeOf(Min(c), b)
      BY <1>1, <2>1 DEF CandleTime
    <2>3. c = {n \in R : TimeOf(n, b) = TimeOf(Min(c), b)}
      BY <1>1, <1>2, <1>5, <2>1, <2>2
    <2> QED BY <2>2, <2>3, RowsAreCandle
  <1>6. ASSUME NEW c \in Aggregate(R, b), from <= CandleTime(c, b), CandleTime(c, b) <= to
        PROVE  c \in Aggregate(S, b)
    <2>1. /\ Min(c) \in c /\ c \subseteq R
          /\ c = {n \in R : TimeOf(n, b) = CandleTime(c, b)}
      BY CandleFacts
    <2>2. Min(c) \in R /\ CandleTime(c, b) = TimeOf(Min(c), b)
      BY <2>1 DEF CandleTime
    <2>3. Min(c) \in S
      BY <1>2, <1>6, <2>2
    <2>4. c = {n \in S : TimeOf(n, b) = TimeOf(Min(c), b)}
      BY <1>1, <1>2, <1>6, <2>1, <2>2
    <2> QED BY <2>3, <2>4, RowsAreCandle
  <1> QED BY <1>3, <1>5, <1>6
-----------------------------------------------------------------------------
(* The charts of the stored prices. *)

\* The bars are of minutes that have passed, and so are the gaps that were looked up.
MinutesInv ==
  /\ BarsInv
  /\ now \in 1 .. Horizon
  /\ \A a \in Assets : Minutes(a) \subseteq 1 .. now
  /\ script = [at |-> script.at, assets |-> script.assets, gaps |-> script.gaps]
  /\ \A g \in script.gaps : g[2][1] \in 1 .. now /\ g[2][2] \in 1 .. now

\* Rows of minutes that have passed replace those of one asset.
LEMMA OneAssetPast ==
  ASSUME MinutesInv, NEW a, NEW rows, bars' = [bars EXCEPT ![a] = rows],
         a \in Assets => DOMAIN rows \subseteq 1 .. now
  PROVE  BarsInv' /\ \A b \in Assets : DOMAIN bars'[b] \subseteq 1 .. now
  <1>1. BarsInv'
    BY DEF MinutesInv, BarsInv
  <1>2. ASSUME NEW b \in Assets PROVE DOMAIN bars'[b] \subseteq 1 .. now
    <2>1. CASE b = a
      <3>1. bars'[b] = rows
        BY <2>1, <1>2 DEF MinutesInv, BarsInv
      <3> QED BY <2>1, <3>1
    <2>2. CASE b # a
      <3>1. bars'[b] = bars[b]
        BY <2>2, <1>2 DEF MinutesInv, BarsInv
      <3> QED BY <3>1, <1>2 DEF MinutesInv, Minutes
    <2> QED BY <2>1, <2>2
  <1> QED BY <1>1, <1>2

LEMMA UpsertPast ==
  ASSUME MinutesInv, NEW a, NEW minutes, minutes \subseteq 1 .. now, bars' = Upsert(a, minutes)
  PROVE  BarsInv' /\ \A b \in Assets : DOMAIN bars'[b] \subseteq 1 .. now
  <1> DEFINE kept == Minutes(a) \ (minutes \cup SourcedFrom(a, {"fallback"}))
             rows == [m \in kept \cup minutes |-> IF m \in minutes THEN "feed" ELSE bars[a][m]]
  <1>1. bars' = [bars EXCEPT ![a] = rows]
    BY DEF Upsert
  <1>2. a \in Assets => DOMAIN rows \subseteq 1 .. now
    BY DEF MinutesInv
  <1> HIDE DEF rows
  <1> QED BY <1>1, <1>2, OneAssetPast

LEMMA PatchPast ==
  ASSUME MinutesInv, NEW a, NEW gap, PatchGap(a, gap)
  PROVE  BarsInv' /\ \A b \in Assets : DOMAIN bars'[b] \subseteq 1 .. now
  <1>1. Inside(gap) \subseteq 1 .. now
    <2>1. <<a, gap>> \in script.gaps
      BY DEF PatchGap
    <2>2. gap[1] \in 1 .. now /\ gap[2] \in 1 .. now /\ now \in Nat
      BY <2>1 DEF MinutesInv
    <2> QED BY <2>2 DEF Inside
  <1>2. PICK minutes \in SUBSET Inside(gap) :
           bars' = IF minutes = {} THEN Interpolated(a, gap) ELSE WithExchange(a, gap, minutes)
    BY DEF PatchGap
  <1>3. CASE minutes = {}
    <2> DEFINE rows == [m \in Minutes(a) \cup Inside(gap) |->
                           IF m \in Minutes(a) THEN bars[a][m] ELSE "patched"]
    <2>1. bars' = [bars EXCEPT ![a] = rows]
      BY <1>2, <1>3 DEF Interpolated
    <2>2. a \in Assets => DOMAIN rows \subseteq 1 .. now
      BY <1>1 DEF MinutesInv
    <2> HIDE DEF rows
    <2> QED BY <2>1, <2>2, OneAssetPast
  <1>4. CASE minutes # {}
    <2> DEFINE made == SourcedFrom(a, {"patched"}) \cap Inside(gap)
               kept == Minutes(a) \ (minutes \cup made)
               rows == [m \in kept \cup minutes |-> IF m \in minutes THEN "feed" ELSE bars[a][m]]
    <2>1. bars' = [bars EXCEPT ![a] = rows]
      BY <1>2, <1>4 DEF WithExchange
    <2>2. a \in Assets => DOMAIN rows \subseteq 1 .. now
      BY <1>1, <1>2 DEF MinutesInv
    <2> HIDE DEF rows
    <2> QED BY <2>1, <2>2, OneAssetPast
  <1> QED BY <1>3, <1>4

\* When only the bars change, by one of the writes above, the invariant stays.
LEMMA WritesKeepPast ==
  ASSUME MinutesInv, now' = now,
         BarsInv', \A b \in Assets : DOMAIN bars'[b] \subseteq 1 .. now,
         script' = [at |-> script'.at, assets |-> script'.assets, gaps |-> script'.gaps],
         script'.gaps \subseteq script.gaps
  PROVE  MinutesInv'
  <1>1. now' \in 1 .. Horizon /\ \A a \in Assets : Minutes(a)' \subseteq 1 .. now'
    BY DEF MinutesInv, Minutes
  <1>2. \A g \in script'.gaps : g[2][1] \in 1 .. now' /\ g[2][2] \in 1 .. now'
    BY DEF MinutesInv
  <1> QED BY <1>1, <1>2 DEF MinutesInv

LEMMA MinutesStayPast == ASSUME MinutesInv, [PricesNext]_priceVars PROVE MinutesInv'
  <1>1. /\ script = [at |-> script.at, assets |-> script.assets, gaps |-> script.gaps]
        /\ now \in 1 .. Horizon /\ now \in Nat /\ BarsInv
        /\ \A b \in Assets : DOMAIN bars[b] \subseteq 1 .. now
    BY DEF MinutesInv, Minutes
  <1>2. ASSUME bars' = bars
        PROVE  BarsInv' /\ \A b \in Assets : DOMAIN bars'[b] \subseteq 1 .. now
    BY <1>1, <1>2 DEF BarsInv
  <1>3. CASE Restart \/ UNCHANGED priceVars
    <2>1. bars' = bars /\ now' = now /\ script' = script
      BY <1>3 DEF Restart, priceVars
    <2> QED BY <1>1, <1>2, <2>1, WritesKeepPast
  <1>4. CASE MinutePasses
    <2>1. bars' = bars /\ script' = script /\ now' = now + 1 /\ now < Horizon
      BY <1>4 DEF MinutePasses
    <2>2. 1 .. now \subseteq 1 .. now' /\ now' \in 1 .. Horizon
      BY <1>1, <2>1, PriceInputs
    <2>3. \A a \in Assets : Minutes(a)' \subseteq 1 .. now'
      BY <1>1, <2>1, <2>2 DEF Minutes
    <2>4. \A g \in script'.gaps : g[2][1] \in 1 .. now' /\ g[2][2] \in 1 .. now'
      BY <2>1, <2>2 DEF MinutesInv
    <2> QED BY <1>1, <1>2, <2>1, <2>2, <2>3, <2>4 DEF MinutesInv
  <1>5. CASE StartScript \/ StopScript
    <2>1. bars' = bars /\ now' = now
      BY <1>5 DEF StartScript, StopScript
    <2>2. /\ script' = [at |-> script'.at, assets |-> script'.assets, gaps |-> script'.gaps]
          /\ script'.gaps \subseteq script.gaps
      <3>1. CASE StartScript
        <4>1. script' = [at |-> "backfill", assets |-> Assets, gaps |-> script.gaps]
          BY <1>1, <3>1 DEF StartScript
        <4> QED BY <4>1
      <3>2. CASE StopScript
        BY <3>2 DEF StopScript, Stopped
      <3> QED BY <1>5, <3>1, <3>2
    <2> QED BY <1>2, <2>1, <2>2, WritesKeepPast
  <1>6. CASE FindGaps
    <2> DEFINE found == UNION {{a} \X GapsOf(a) : a \in Oracle}
    <2>1. bars' = bars /\ now' = now /\ script' = [script EXCEPT !.at = "patch", !.gaps = found]
      BY <1>6 DEF FindGaps
    <2>2. \A g \in found : g[2][1] \in 1 .. now /\ g[2][2] \in 1 .. now
      <3>1. SUFFICES ASSUME NEW a \in Oracle, NEW g \in {a} \X GapsOf(a)
                     PROVE  g[2][1] \in 1 .. now /\ g[2][2] \in 1 .. now
        OBVIOUS
      <3>2. g[2] \in Minutes(a) \X Minutes(a)
        BY DEF GapsOf
      <3>3. Minutes(a) \subseteq 1 .. now
        BY PriceInputs DEF MinutesInv
      <3> QED BY <3>2, <3>3
    <2> HIDE DEF found
    <2>3. script' = [at |-> "patch", assets |-> script.assets, gaps |-> found]
      BY <1>1, <2>1
    <2>4. /\ script' = [at |-> script'.at, assets |-> script'.assets, gaps |-> script'.gaps]
          /\ script'.gaps = found
      BY <2>3
    <2>5. \A a \in Assets : Minutes(a)' \subseteq 1 .. now'
      BY <1>1, <2>1 DEF Minutes
    <2> QED BY <1>1, <1>2, <2>1, <2>2, <2>4, <2>5 DEF MinutesInv
  <1>7. ASSUME NEW a \in Assets, Backfill(a)
        PROVE  MinutesInv'
    <2>1. PICK to \in 0 .. now : bars' = Backfilled(a, to)
      BY <1>7 DEF Backfill
    <2>2. now' = now /\ script' = [script EXCEPT !.assets = @ \ {a}]
      BY <1>7 DEF Backfill
    <2>3. script' = [at |-> script.at, assets |-> script.assets \ {a}, gaps |-> script.gaps]
      BY <1>1, <2>2
    <2>4. BarsInv' /\ \A b \in Assets : DOMAIN bars'[b] \subseteq 1 .. now
      <3>1. CASE to = 0
        BY <1>2, <2>1, <3>1 DEF Backfilled
      <3>2. CASE to # 0
        <4>1. bars' = Upsert(a, 1 .. to)
          BY <2>1, <3>2 DEF Backfilled
        <4>2. 1 .. to \subseteq 1 .. now
          BY <1>1
        <4> QED BY <4>1, <4>2, UpsertPast
      <3> QED BY <3>1, <3>2
    <2> QED BY <2>2, <2>3, <2>4, WritesKeepPast
  <1>8. ASSUME NEW gap, PatchGap(gap[1], gap[2])
        PROVE  MinutesInv'
    <2>1. BarsInv' /\ \A b \in Assets : DOMAIN bars'[b] \subseteq 1 .. now
      BY <1>8, PatchPast
    <2>2. now' = now /\ script' = [script EXCEPT !.gaps = @ \ {<<gap[1], gap[2]>>}]
      BY <1>8 DEF PatchGap
    <2>3. script' = [at |-> script.at, assets |-> script.assets,
                     gaps |-> script.gaps \ {<<gap[1], gap[2]>>}]
      BY <1>1, <2>2
    <2> QED BY <2>1, <2>2, <2>3, WritesKeepPast
  <1>9. ASSUME NEW p \in Polls, Poll(p)
        PROVE  MinutesInv'
    <2>1. bars' = bars /\ now' = now /\ script' = script
      BY <1>9 DEF Poll
    <2> QED BY <1>1, <1>2, <2>1, WritesKeepPast
  <1>10. ASSUME NEW p \in Polls, NEW a \in Assets, Feed(p, a) \/ FeedFails(p, a)
         PROVE  MinutesInv'
    <2>1. now' = now /\ script' = script
      BY <1>10 DEF Feed, FeedFails, OracleAnswers, RangeAnswers
    <2>2. CASE OracleAnswers(p, a)
      <3>1. PICK m \in Max({now - 1, 1}) .. now : bars' = Upsert(a, {m})
        BY <2>2 DEF OracleAnswers
      <3>2. Max({now - 1, 1}) \in Nat /\ Max({now - 1, 1}) >= 1
        <4>1. now - 1 \in Int
          BY <1>1
        <4>2. Max({now - 1, 1}) = IF now - 1 >= 1 THEN now - 1 ELSE 1
          BY <4>1, MaxOfTwo
        <4> QED BY <1>1, <4>2
      <3>3. {m} \subseteq 1 .. now
        BY <1>1, <3>1, <3>2
      <3> QED BY <1>1, <2>1, <3>1, <3>3, UpsertPast, WritesKeepPast
    <2>3. CASE RangeAnswers(p, a)
      <3>1. PICK minutes \in {{}, 1 .. now} :
               bars' = IF minutes = {} THEN bars ELSE Upsert(a, minutes)
        BY <2>3 DEF RangeAnswers
      <3>2. BarsInv' /\ \A b \in Assets : DOMAIN bars'[b] \subseteq 1 .. now
        <4>1. minutes \subseteq 1 .. now
          BY <3>1
        <4>2. CASE minutes = {}
          BY <1>2, <3>1, <4>2
        <4>3. CASE minutes # {}
          BY <3>1, <4>1, <4>3, UpsertPast
        <4> QED BY <4>2, <4>3
      <3> QED BY <1>1, <2>1, <3>2, WritesKeepPast
    <2>4. CASE FeedFails(p, a)
      <3>1. bars' = bars
        BY <2>4 DEF FeedFails
      <3> QED BY <1>1, <1>2, <2>1, <3>1, WritesKeepPast
    <2> QED BY <1>10, <2>2, <2>3, <2>4 DEF Feed
  <1> QED BY <1>3, <1>4, <1>5, <1>6, <1>7, <1>8, <1>9, <1>10 DEF PricesNext, Script

\* Page by page, or by a range, a chart gets every candle once and whole, for any
\* history of bars, intervals of candles and sizes of pages: the rows that are read
\* are enough for the candles that are shown, a candle that the read cuts off is not
\* among those, and a page with more before it is never empty.
THEOREM ChartsAreComplete == PricesSpec => []CandlesAreComplete
  <1>1. PricesInit => MinutesInv
    <2> SUFFICES ASSUME PricesInit PROVE MinutesInv
      OBVIOUS
    <2>1. BarsInv
      BY DEF PricesInit, Seeds, BarsInv
    <2>2. now = 1 /\ now \in 1 .. Horizon /\ script = Stopped
      BY PriceInputs DEF PricesInit
    <2>3. ASSUME NEW a \in Assets PROVE Minutes(a) \subseteq 1 .. now
      <3>1. bars[a] = [minute \in {1} |-> "fallback"]
        BY DEF PricesInit, Seeds
      <3>2. DOMAIN bars[a] = {1}
        BY <3>1
      <3> QED BY <2>2, <3>2 DEF Minutes
    <2>4. /\ script = [at |-> script.at, assets |-> script.assets, gaps |-> script.gaps]
          /\ script.gaps = {}
      BY <2>2 DEF Stopped
    <2> QED BY <2>1, <2>2, <2>3, <2>4 DEF MinutesInv
  <1>2. MinutesInv /\ [PricesNext]_priceVars => MinutesInv'
    BY MinutesStayPast
  <1>3. MinutesInv => CandlesAreComplete
    <2> SUFFICES ASSUME MinutesInv, NEW a \in Assets, NEW bucket \in Buckets
                 PROVE  /\ \A limit \in Limits :
                             AllPages(LiveRows(a), bucket, limit, Horizon + 1)
                               = Aggregate(LiveRows(a), bucket)
                        /\ \A from \in 0 .. now : \A to \in {from, now} :
                             InRange(LiveRows(a), bucket, from, to) =
                               {c \in Aggregate(LiveRows(a), bucket) :
                                   from <= CandleTime(c, bucket)
                                   /\ CandleTime(c, bucket) <= to}
      BY DEF CandlesAreComplete
    <2>1. PICK rows : rows = LiveRows(a)
      OBVIOUS
    <2>2. bucket \in Nat \ {0} /\ Horizon \in Nat /\ now \in 1 .. Horizon
      BY PriceInputs DEF MinutesInv
    <2>3. rows \subseteq 1 .. now
      <3>1. rows \subseteq Minutes(a)
        BY <2>1 DEF LiveRows
      <3> QED BY <3>1 DEF MinutesInv
    <2>4. rows \subseteq Nat /\ \A m \in rows : m < Horizon + 1
      BY <2>2, <2>3
    <2>5. IsFiniteSet(rows)
      <3>1. now \in Int
        BY <2>2
      <3>2. IsFiniteSet(1 .. now)
        BY <3>1, FS_Interval
      <3> QED BY <2>3, <3>2, FS_Subset
    <2>6. ASSUME NEW limit \in Limits
          PROVE  AllPages(rows, bucket, limit, Horizon + 1) = Aggregate(rows, bucket)
      <3>1. limit \in Nat \ {0}
        BY PriceInputs
      <3>2. Horizon + 1 \in Nat
        BY <2>2
      <3> QED BY <2>2, <2>4, <2>5, <3>1, <3>2, PagesShowAll
    <2>7. ASSUME NEW from \in 0 .. now, NEW to \in {from, now}
          PROVE  InRange(rows, bucket, from, to) =
                   {c \in Aggregate(rows, bucket) :
                       from <= CandleTime(c, bucket) /\ CandleTime(c, bucket) <= to}
      <3>1. from \in Nat /\ to \in Nat
        BY <2>2
      <3>2. \A c : c \in InRange(rows, bucket, from, to) <=>
                     /\ c \in Aggregate(rows, bucket)
                     /\ from <= CandleTime(c, bucket) /\ CandleTime(c, bucket) <= to
        BY <2>2, <2>4, <2>5, <3>1, RangeShowsAll
      <3> QED BY <3>2
    <2> QED BY <2>1, <2>6, <2>7
  <1> QED BY <1>1, <1>2, <1>3, PTL DEF PricesSpec

-----------------------------------------------------------------------------
(* Strategies of rules: the codes of their issues. *)

\* A sequence, of whatever, and the codes of one of issues.
IsSeq(x) == \E X : x \in Seq(X)
CodesOf(issues) == {issues[n].code : n \in DOMAIN issues}

\* No issues have no codes.
LEMMA NoIssues == IsSeq(<<>>) /\ CodesOf(<<>>) = {}
  <1>1. <<>> \in Seq({})
    OBVIOUS
  <1> QED BY <1>1 DEF IsSeq, CodesOf

\* An issue, or none.
LEMMA WhenCodes ==
  ASSUME NEW wrong, NEW code, NEW about
  PROVE  /\ IsSeq(When(wrong, code, about))
         /\ CodesOf(When(wrong, code, about)) = IF wrong THEN {code} ELSE {}
  <1> DEFINE issue == [code |-> code, about |-> about]
  <1>1. <<issue>> \in Seq({issue}) /\ DOMAIN <<issue>> = {1} /\ <<issue>>[1] = issue
    OBVIOUS
  <1>2. issue.code = code
    OBVIOUS
  <1>3. CASE wrong
    <2>1. When(wrong, code, about) = <<issue>>
      BY <1>3 DEF When
    <2> HIDE DEF issue
    <2>2. IsSeq(<<issue>>)
      BY <1>1 DEF IsSeq
    <2>3. CodesOf(<<issue>>) = {code}
      BY <1>1, <1>2 DEF CodesOf
    <2> QED BY <1>3, <2>1, <2>2, <2>3
  <1>4. CASE ~wrong
    BY <1>4, NoIssues DEF When
  <1> QED BY <1>3, <1>4

\* The codes of two sequences of issues, one after the other.
LEMMA TwoSeqs ==
  ASSUME NEW a, NEW b, IsSeq(a), IsSeq(b)
  PROVE  IsSeq(a \o b) /\ CodesOf(a \o b) = CodesOf(a) \cup CodesOf(b)
  <1>1. PICK A : a \in Seq(A)
    BY DEF IsSeq
  <1>2. PICK B : b \in Seq(B)
    BY DEF IsSeq
  <1>3. a \in Seq(A \cup B) /\ b \in Seq(A \cup B)
    BY <1>1, <1>2
  <1>4. a \o b \in Seq(A \cup B)
    BY <1>3
  <1>5. /\ Len(a) \in Nat /\ DOMAIN a = 1 .. Len(a)
        /\ Len(b) \in Nat /\ DOMAIN b = 1 .. Len(b)
        /\ DOMAIN (a \o b) = 1 .. Len(a) + Len(b)
    BY <1>3
  <1>6. \A n \in 1 .. Len(a) + Len(b) :
            (a \o b)[n] = IF n <= Len(a) THEN a[n] ELSE b[n - Len(a)]
    BY <1>3
  <1>7. CodesOf(a \o b) \subseteq CodesOf(a) \cup CodesOf(b)
    <2>1. SUFFICES ASSUME NEW n \in DOMAIN (a \o b)
                   PROVE  (a \o b)[n].code \in CodesOf(a) \cup CodesOf(b)
      BY DEF CodesOf
    <2>2. CASE n <= Len(a)
      <3>1. n \in DOMAIN a /\ (a \o b)[n] = a[n]
        BY <1>5, <1>6, <2>2
      <3> QED BY <3>1 DEF CodesOf
    <2>3. CASE ~(n <= Len(a))
      <3>1. n - Len(a) \in DOMAIN b /\ (a \o b)[n] = b[n - Len(a)]
        BY <1>5, <1>6, <2>3
      <3> QED BY <3>1 DEF CodesOf
    <2> QED BY <2>2, <2>3
  <1>8. CodesOf(a) \subseteq CodesOf(a \o b)
    <2>1. SUFFICES ASSUME NEW n \in DOMAIN a PROVE a[n].code \in CodesOf(a \o b)
      BY DEF CodesOf
    <2>2. n \in DOMAIN (a \o b) /\ (a \o b)[n] = a[n]
      BY <1>5, <1>6
    <2> QED BY <2>2 DEF CodesOf
  <1>9. CodesOf(b) \subseteq CodesOf(a \o b)
    <2>1. SUFFICES ASSUME NEW n \in DOMAIN b PROVE b[n].code \in CodesOf(a \o b)
      BY DEF CodesOf
    <2>2. n + Len(a) \in DOMAIN (a \o b) /\ (a \o b)[n + Len(a)] = b[n]
      <3>1. n \in 1 .. Len(b) /\ n + Len(a) \in 1 .. Len(a) + Len(b) /\ ~(n + Len(a) <= Len(a))
            /\ (n + Len(a)) - Len(a) = n
        BY <1>5
      <3> QED BY <1>5, <1>6, <3>1
    <2> QED BY <2>2 DEF CodesOf
  <1> QED BY <1>4, <1>7, <1>8, <1>9 DEF IsSeq

JoinsUpTo(f, parts, n) == f = [k \in 0 .. n |-> IF k = 0 THEN <<>> ELSE f[k - 1] \o parts[k]]

\* The recursion that joins sequences has a value.
LEMMA JoinExists ==
  ASSUME NEW N \in Nat, NEW parts
  PROVE  \E f : JoinsUpTo(f, parts, N)
  <1> DEFINE Good == {n \in 0 .. N : \E f : JoinsUpTo(f, parts, n)}
  <1>1. ASSUME NEW n \in 0 .. N, \A m \in 0 .. N : m < n => m \in Good
        PROVE  n \in Good
    <2>1. CASE n = 0
      <3> DEFINE f == [k \in 0 .. 0 |-> <<>>]
      <3>1. f = [k \in 0 .. 0 |-> IF k = 0 THEN <<>> ELSE f[k - 1] \o parts[k]]
        OBVIOUS
      <3> HIDE DEF f
      <3> QED BY <2>1, <3>1 DEF JoinsUpTo
    <2>2. CASE n # 0
      <3>1. n - 1 \in 0 .. N /\ n - 1 < n
        BY <2>2
      <3>2. PICK g : JoinsUpTo(g, parts, n - 1)
        BY <1>1, <3>1
      <3> DEFINE f == [k \in 0 .. n |-> IF k = n THEN g[n - 1] \o parts[n] ELSE g[k]]
      <3>3. \A k \in 0 .. n - 1 : g[k] = IF k = 0 THEN <<>> ELSE g[k - 1] \o parts[k]
        BY <3>2 DEF JoinsUpTo
      <3>4. \A k \in 0 .. n : k # n => k \in 0 .. n - 1 /\ (k # 0 => k - 1 \in 0 .. n /\ k - 1 # n)
        BY <2>2
      <3>5. \A k \in 0 .. n : f[k] = IF k = 0 THEN <<>> ELSE f[k - 1] \o parts[k]
        <4>1. SUFFICES ASSUME NEW k \in 0 .. n
                       PROVE  f[k] = IF k = 0 THEN <<>> ELSE f[k - 1] \o parts[k]
          OBVIOUS
        <4>2. CASE k = n
          <5>1. f[k] = g[n - 1] \o parts[n] /\ f[n - 1] = g[n - 1]
            BY <4>2, <2>2
          <5> QED BY <4>2, <5>1, <2>2
        <4>3. CASE k # n /\ k # 0
          <5>1. f[k] = g[k] /\ f[k - 1] = g[k - 1]
            BY <4>3, <3>4
          <5>2. g[k] = g[k - 1] \o parts[k]
            BY <4>3, <3>3, <3>4
          <5> QED BY <4>3, <5>1, <5>2
        <4>4. CASE k = 0
          <5>1. f[0] = g[0] /\ g[0] = <<>>
            BY <2>2, <3>3
          <5> QED BY <4>4, <5>1
        <4> QED BY <4>2, <4>3, <4>4
      <3>6. f = [k \in 0 .. n |-> IF k = 0 THEN <<>> ELSE f[k - 1] \o parts[k]]
        BY <3>5
      <3> HIDE DEF f
      <3> QED BY <3>6 DEF JoinsUpTo
    <2> QED BY <2>1, <2>2
  <1> HIDE DEF Good
  <1>2. N \in Good
    BY <1>1, NumberInduction
  <1> QED BY <1>2 DEF Good

\* The codes of joined sequences are those of each.
LEMMA JoinedCodes ==
  ASSUME NEW N \in Nat, NEW parts, \A n \in 1 .. N : IsSeq(parts[n])
  PROVE  /\ IsSeq(Joined(parts, N))
         /\ CodesOf(Joined(parts, N)) = UNION {CodesOf(parts[n]) : n \in 1 .. N}
  <1> DEFINE f == CHOOSE f : JoinsUpTo(f, parts, N)
             Good == {n \in 0 .. N : /\ IsSeq(f[n])
                                     /\ CodesOf(f[n]) = UNION {CodesOf(parts[k]) : k \in 1 .. n}}
  <1>1. JoinsUpTo(f, parts, N)
    BY JoinExists
  <1>2. Joined(parts, N) = f[N]
    BY DEF Joined, JoinsUpTo
  <1> HIDE DEF f
  <1>3. \A n \in 0 .. N : f[n] = IF n = 0 THEN <<>> ELSE f[n - 1] \o parts[n]
    BY <1>1 DEF JoinsUpTo
  <1>4. ASSUME NEW n \in 0 .. N, \A m \in 0 .. N : m < n => m \in Good
        PROVE  n \in Good
    <2>1. CASE n = 0
      <3>1. UNION {CodesOf(parts[k]) : k \in 1 .. n} = {}
        BY <2>1
      <3> QED BY <2>1, <3>1, <1>3, NoIssues
    <2>2. CASE n # 0
      <3>1. n - 1 \in 0 .. N /\ n - 1 < n /\ n \in 1 .. N
        BY <2>2
      <3>2. IsSeq(f[n - 1]) /\ CodesOf(f[n - 1]) = UNION {CodesOf(parts[k]) : k \in 1 .. n - 1}
        BY <3>1, <1>4
      <3>3. IsSeq(f[n]) /\ CodesOf(f[n]) = CodesOf(f[n - 1]) \cup CodesOf(parts[n])
        BY <2>2, <3>1, <3>2, <1>3, TwoSeqs
      <3>4. 1 .. n = (1 .. n - 1) \cup {n}
        BY <2>2
      <3>5. UNION {CodesOf(parts[k]) : k \in 1 .. n}
            = (UNION {CodesOf(parts[k]) : k \in 1 .. n - 1}) \cup CodesOf(parts[n])
        BY <3>4
      <3> QED BY <3>2, <3>3, <3>5
    <2> QED BY <2>1, <2>2
  <1> HIDE DEF Good
  <1>5. N \in Good
    BY <1>4, NumberInduction
  <1> QED BY <1>2, <1>5 DEF Good
-----------------------------------------------------------------------------
(* The codes of a definition, part by part. *)

One(wrong, code) == IF wrong THEN {code} ELSE {}

\* Three sequences.
LEMMA ThreeSeqs ==
  ASSUME NEW a, NEW b, NEW c, IsSeq(a), IsSeq(b), IsSeq(c)
  PROVE  IsSeq(a \o b \o c) /\ CodesOf(a \o b \o c) = CodesOf(a) \cup CodesOf(b) \cup CodesOf(c)
  <1>1. IsSeq(a \o b) /\ CodesOf(a \o b) = CodesOf(a) \cup CodesOf(b)
    BY TwoSeqs
  <1>2. IsSeq((a \o b) \o c) /\ CodesOf((a \o b) \o c) = CodesOf(a \o b) \cup CodesOf(c)
    BY <1>1, TwoSeqs
  <1> QED BY <1>1, <1>2

\* The code of an issue that there may be.
LEMMA WhenOne ==
  ASSUME NEW wrong, NEW code, NEW about
  PROVE  /\ IsSeq(When(wrong, code, about))
         /\ CodesOf(When(wrong, code, about)) = One(wrong, code)
  BY WhenCodes DEF One

\* The code of an issue that there is.
LEMMA WhenTrue ==
  ASSUME NEW code, NEW about
  PROVE  IsSeq(When(TRUE, code, about)) /\ CodesOf(When(TRUE, code, about)) = {code}
  BY WhenCodes

ParamCodes(o, name) ==
  LET known == Catalog[o.indicator].params
      value == o.params[name]
  IN  IF name \notin DOMAIN known THEN {}
      ELSE IF name \notin DOMAIN o.params THEN {"missing_indicator_param"}
      ELSE One(name # "stdDev" /\ value % 10 # 0, "indicator_param_not_integer")
           \cup One(value < known[name].min, "indicator_param_low")
           \cup One(value > known[name].max, "indicator_param_high")

\* The issues of a parameter, as a set of codes.
LEMMA ParamCodesAre ==
  ASSUME NEW o, NEW name
  PROVE  IsSeq(ParamIssues(o, name)) /\ CodesOf(ParamIssues(o, name)) = ParamCodes(o, name)
  <1>1. CASE name \notin DOMAIN Catalog[o.indicator].params
    BY <1>1, NoIssues DEF ParamIssues, ParamCodes
  <1>2. CASE name \in DOMAIN Catalog[o.indicator].params /\ name \notin DOMAIN o.params
    <2>1. ParamIssues(o, name) = When(TRUE, "missing_indicator_param", name)
      BY <1>2 DEF ParamIssues
    <2>2. ParamCodes(o, name) = {"missing_indicator_param"}
      BY <1>2 DEF ParamCodes
    <2>3. /\ IsSeq(When(TRUE, "missing_indicator_param", name))
          /\ CodesOf(When(TRUE, "missing_indicator_param", name)) = {"missing_indicator_param"}
      BY WhenTrue
    <2> QED BY <2>1, <2>2, <2>3
  <1>3. CASE name \in DOMAIN Catalog[o.indicator].params /\ name \in DOMAIN o.params
    <2> DEFINE known == Catalog[o.indicator].params
               value == o.params[name]
               a == When(name # "stdDev" /\ value % 10 # 0, "indicator_param_not_integer", name)
               b == When(value < known[name].min, "indicator_param_low", name)
               c == When(value > known[name].max, "indicator_param_high", name)
    <2>1. ParamIssues(o, name) = a \o b \o c
      BY <1>3 DEF ParamIssues
    <2>2. /\ IsSeq(a) /\ IsSeq(b) /\ IsSeq(c)
          /\ CodesOf(a) = One(name # "stdDev" /\ value % 10 # 0, "indicator_param_not_integer")
          /\ CodesOf(b) = One(value < known[name].min, "indicator_param_low")
          /\ CodesOf(c) = One(value > known[name].max, "indicator_param_high")
      BY WhenOne
    <2>3. ParamCodes(o, name)
          = One(name # "stdDev" /\ value % 10 # 0, "indicator_param_not_integer")
            \cup One(value < known[name].min, "indicator_param_low")
            \cup One(value > known[name].max, "indicator_param_high")
      BY <1>3 DEF ParamCodes
    <2> HIDE DEF a, b, c, known, value
    <2> QED BY <2>1, <2>2, <2>3, ThreeSeqs
  <1> QED BY <1>1, <1>2, <1>3

IndicatorCodes(o) ==
  IF o.indicator \notin DOMAIN Catalog THEN {"invalid_indicator"}
  ELSE One(o.output \notin Catalog[o.indicator].outputs, "invalid_indicator_output")
       \cup (UNION {ParamCodes(o, ParamNames[n]) : n \in 1 .. 8})
       \cup One(Catalog[o.indicator].sourced /\ o.source \notin PriceFields \cup {"none"},
                "invalid_indicator_source")

\* The issues of an indicator.
LEMMA IndicatorCodesAre ==
  ASSUME NEW o
  PROVE  IsSeq(IndicatorIssues(o)) /\ CodesOf(IndicatorIssues(o)) = IndicatorCodes(o)
  <1>1. CASE o.indicator \notin DOMAIN Catalog
    <2>1. IndicatorIssues(o) = When(TRUE, "invalid_indicator", o.indicator)
      BY <1>1 DEF IndicatorIssues
    <2>2. IndicatorCodes(o) = {"invalid_indicator"}
      BY <1>1 DEF IndicatorCodes
    <2> QED BY <2>1, <2>2, WhenTrue
  <1>2. CASE o.indicator \in DOMAIN Catalog
    <2> DEFINE known == Catalog[o.indicator]
               parts == [n \in DOMAIN ParamNames |-> ParamIssues(o, ParamNames[n])]
               a == When(o.output \notin known.outputs, "invalid_indicator_output",
                         <<o.indicator, o.output>>)
               b == Joined(parts, 8)
               c == When(known.sourced /\ o.source \notin PriceFields \cup {"none"},
                         "invalid_indicator_source", "source")
    <2>1. DOMAIN ParamNames = 1 .. 8 /\ Len(ParamNames) = 8
      BY DEF ParamNames
    <2>2. IndicatorIssues(o) = a \o b \o c
      <3>1. Each(LAMBDA name : ParamIssues(o, name), ParamNames) = b
        BY <2>1 DEF Each
      <3> HIDE DEF b
      <3> QED BY <1>2, <3>1 DEF IndicatorIssues
    <2>3. \A n \in 1 .. 8 : IsSeq(parts[n]) /\ CodesOf(parts[n]) = ParamCodes(o, ParamNames[n])
      BY <2>1, ParamCodesAre
    <2>4. /\ IsSeq(a) /\ CodesOf(a) = One(o.output \notin known.outputs, "invalid_indicator_output")
          /\ IsSeq(c) /\ CodesOf(c) = One(known.sourced /\ o.source \notin PriceFields \cup {"none"},
                                          "invalid_indicator_source")
      BY WhenOne
    <2>5. IsSeq(b) /\ CodesOf(b) = UNION {CodesOf(parts[n]) : n \in 1 .. 8}
      <3> HIDE DEF parts
      <3> QED BY <2>3, JoinedCodes
    <2>6. UNION {CodesOf(parts[n]) : n \in 1 .. 8}
          = UNION {ParamCodes(o, ParamNames[n]) : n \in 1 .. 8}
      <3> HIDE DEF parts
      <3> QED BY <2>3
    <2> HIDE DEF a, b, c, parts
    <2>7. IsSeq(a \o b \o c) /\ CodesOf(a \o b \o c) = CodesOf(a) \cup CodesOf(b) \cup CodesOf(c)
      BY <2>4, <2>5, ThreeSeqs
    <2> QED BY <1>2, <2>2, <2>4, <2>5, <2>6, <2>7 DEF IndicatorCodes
  <1> QED BY <1>1, <1>2

OperandCodes(o) ==
  IF o.type = "constant" THEN {}
  ELSE One(o.barsAgo < 0, "invalid_bars_ago")
       \cup One(o.barsAgo > MaxIndicatorLookback, "bars_ago_above_limit")
       \cup (IF o.type = "price_field"
             THEN One(o.field \notin PriceFields, "invalid_price_field")
             ELSE IndicatorCodes(o))

\* The issues of an operand.
LEMMA OperandCodesAre ==
  ASSUME NEW o
  PROVE  IsSeq(OperandIssues(o)) /\ CodesOf(OperandIssues(o)) = OperandCodes(o)
  <1>1. CASE o.type = "constant"
    BY <1>1, NoIssues DEF OperandIssues, OperandCodes
  <1>2. CASE o.type # "constant"
    <2> DEFINE a == When(o.barsAgo < 0, "invalid_bars_ago", "barsAgo")
               b == When(o.barsAgo > MaxIndicatorLookback, "bars_ago_above_limit", "barsAgo")
               c == IF o.type = "price_field"
                    THEN When(o.field \notin PriceFields, "invalid_price_field", "field")
                    ELSE IndicatorIssues(o)
    <2>1. OperandIssues(o) = a \o b \o c
      BY <1>2 DEF OperandIssues
    <2>2. /\ IsSeq(a) /\ IsSeq(b)
          /\ CodesOf(a) = One(o.barsAgo < 0, "invalid_bars_ago")
          /\ CodesOf(b) = One(o.barsAgo > MaxIndicatorLookback, "bars_ago_above_limit")
      BY WhenOne
    <2>3. /\ IsSeq(c)
          /\ CodesOf(c) = IF o.type = "price_field"
                          THEN One(o.field \notin PriceFields, "invalid_price_field")
                          ELSE IndicatorCodes(o)
      BY WhenOne, IndicatorCodesAre
    <2> HIDE DEF a, b, c
    <2>4. IsSeq(a \o b \o c) /\ CodesOf(a \o b \o c) = CodesOf(a) \cup CodesOf(b) \cup CodesOf(c)
      BY <2>2, <2>3, ThreeSeqs
    <2> QED BY <1>2, <2>1, <2>2, <2>3, <2>4 DEF OperandCodes
  <1> QED BY <1>1, <1>2

RuleCodes(rule) ==
  One(rule.operator \notin Operators, "invalid_operator")
  \cup (UNION {OperandCodes(rule.operands[o]) : o \in 1 .. 2})

\* The issues of a rule.
LEMMA RuleCodesAre ==
  ASSUME NEW rule, DOMAIN rule.operands = 1 .. 2, Len(rule.operands) = 2
  PROVE  IsSeq(RuleIssues(rule)) /\ CodesOf(RuleIssues(rule)) = RuleCodes(rule)
  <1> DEFINE a == When(rule.operator \notin Operators, "invalid_operator", rule.operator)
             parts == [o \in DOMAIN rule.operands |-> OperandIssues(rule.operands[o])]
             b == Joined(parts, 2)
  <1>1. RuleIssues(rule) = a \o b
    BY DEF RuleIssues, Each
  <1>2. IsSeq(a) /\ CodesOf(a) = One(rule.operator \notin Operators, "invalid_operator")
    BY WhenOne
  <1>3. \A n \in 1 .. 2 : IsSeq(parts[n]) /\ CodesOf(parts[n]) = OperandCodes(rule.operands[n])
    BY OperandCodesAre
  <1> HIDE DEF a, parts
  <1>4. IsSeq(b) /\ CodesOf(b) = UNION {CodesOf(parts[n]) : n \in 1 .. 2}
    BY <1>3, JoinedCodes
  <1>5. UNION {CodesOf(parts[n]) : n \in 1 .. 2}
        = UNION {OperandCodes(rule.operands[o]) : o \in 1 .. 2}
    BY <1>3
  <1> HIDE DEF b
  <1>6. IsSeq(a \o b) /\ CodesOf(a \o b) = CodesOf(a) \cup CodesOf(b)
    BY <1>2, <1>4, TwoSeqs
  <1> QED BY <1>1, <1>2, <1>4, <1>5, <1>6 DEF RuleCodes

\* The strings; the provers have to be told that literals are some.
Text ==
  STRING \cup Operators \cup Timeframes \cup PriceFields
  \cup {"none", "known", "percent_of_equity", "fixed_quote_notional", "ema", "rsi",
        "bollinger", "rolling_high", "rolling_low", "value", "lower", "middle", "line",
        "k", "direction"}

\* The definitions, as a set.
Params == UNION {[names -> Int] : names \in SUBSET ToSet(ParamNames)}
Operands ==
  [type : {"constant"}, value : Int]
  \cup [type : {"price_field"}, field : Text, barsAgo : Int]
  \cup [type : {"indicator_output"}, indicator : Text, output : Text,
        params : Params, source : Text, barsAgo : Int]
Rules == [operator : Text, operands : [1 .. 2 -> Operands]]
Definitions ==
  [market : Text, timeframe : Text, sides : SUBSET {"long", "short"},
   groups : [1 .. 4 -> Seq(Seq(Rules))],
   sizing : [mode : Text, value : Int],
   risk : UNION {[keys -> Int] : keys \in SUBSET ToSet(RiskKeys)},
   costs : [feeBps : Int, slippageBps : Int, startingEquity : Int],
   engine : {"none", "sound", "broken"}]

GroupCodes(rules) ==
  One(Len(rules) > MaxRulesPerGroup, "too_many_rules")
  \cup (UNION {RuleCodes(rules[r]) : r \in DOMAIN rules})

\* The issues of a group of rules.
LEMMA GroupCodesAre ==
  ASSUME NEW rules \in Seq(Rules)
  PROVE  IsSeq(GroupIssues(rules)) /\ CodesOf(GroupIssues(rules)) = GroupCodes(rules)
  <1> DEFINE N == Len(rules)
             a == When(Len(rules) > MaxRulesPerGroup, "too_many_rules", "rules")
             parts == [r \in DOMAIN rules |-> RuleIssues(rules[r])]
             b == Joined(parts, N)
  <1>1. GroupIssues(rules) = a \o b
    BY DEF GroupIssues, Each
  <1>2. IsSeq(a) /\ CodesOf(a) = One(Len(rules) > MaxRulesPerGroup, "too_many_rules")
    BY WhenOne
  <1>3. N \in Nat /\ DOMAIN rules = 1 .. N
    OBVIOUS
  <1>4. \A n \in 1 .. N : IsSeq(parts[n]) /\ CodesOf(parts[n]) = RuleCodes(rules[n])
    <2>1. ASSUME NEW n \in 1 .. N
          PROVE  IsSeq(RuleIssues(rules[n])) /\ CodesOf(RuleIssues(rules[n])) = RuleCodes(rules[n])
      <3>1. rules[n] \in Rules
        BY <1>3
      <3>2. DOMAIN rules[n].operands = 1 .. 2 /\ Len(rules[n].operands) = 2
        BY <3>1 DEF Rules
      <3> QED BY <3>2, RuleCodesAre
    <2> QED BY <1>3, <2>1
  <1> HIDE DEF a, parts, N
  <1>5. IsSeq(b) /\ CodesOf(b) = UNION {CodesOf(parts[n]) : n \in 1 .. N}
    BY <1>3, <1>4, JoinedCodes
  <1>6. UNION {CodesOf(parts[n]) : n \in 1 .. N} = UNION {RuleCodes(rules[n]) : n \in 1 .. N}
    BY <1>4
  <1> HIDE DEF b
  <1>7. IsSeq(a \o b) /\ CodesOf(a \o b) = CodesOf(a) \cup CodesOf(b)
    BY <1>2, <1>5, TwoSeqs
  <1> QED BY <1>1, <1>2, <1>3, <1>5, <1>6, <1>7 DEF GroupCodes

GroupsCodes(groups) ==
  One(Len(groups) > MaxRuleGroupsPerSide, "too_many_groups")
  \cup (UNION {GroupCodes(groups[g]) : g \in DOMAIN groups})

\* The issues of the groups for one purpose.
LEMMA GroupsCodesAre ==
  ASSUME NEW s, NEW k, s.groups[k] \in Seq(Seq(Rules))
  PROVE  /\ IsSeq(GroupsIssues(s, k))
         /\ CodesOf(GroupsIssues(s, k)) = GroupsCodes(s.groups[k])
  <1> DEFINE groups == s.groups[k]
             N == Len(groups)
             a == When(Len(groups) > MaxRuleGroupsPerSide, "too_many_groups", k)
             parts == [g \in DOMAIN groups |-> GroupIssues(groups[g])]
             b == Joined(parts, N)
  <1>1. GroupsIssues(s, k) = a \o b
    BY DEF GroupsIssues, Each
  <1>2. IsSeq(a) /\ CodesOf(a) = One(Len(groups) > MaxRuleGroupsPerSide, "too_many_groups")
    BY WhenOne
  <1>3. N \in Nat /\ DOMAIN groups = 1 .. N /\ \A n \in 1 .. N : groups[n] \in Seq(Rules)
    OBVIOUS
  <1>4. \A n \in 1 .. N : IsSeq(parts[n]) /\ CodesOf(parts[n]) = GroupCodes(groups[n])
    BY <1>3, GroupCodesAre
  <1> HIDE DEF a, parts, N, groups
  <1>5. IsSeq(b) /\ CodesOf(b) = UNION {CodesOf(parts[n]) : n \in 1 .. N}
    BY <1>3, <1>4, JoinedCodes
  <1>6. UNION {CodesOf(parts[n]) : n \in 1 .. N} = UNION {GroupCodes(groups[n]) : n \in 1 .. N}
    BY <1>4
  <1> HIDE DEF b
  <1>7. IsSeq(a \o b) /\ CodesOf(a \o b) = CodesOf(a) \cup CodesOf(b)
    BY <1>2, <1>5, TwoSeqs
  <1>8. CodesOf(GroupsIssues(s, k)) = GroupsCodes(groups)
    BY <1>1, <1>2, <1>3, <1>5, <1>6, <1>7 DEF GroupsCodes
  <1> QED BY <1>1, <1>7, <1>8 DEF groups

RiskCodes(risk) ==
  UNION {One(RiskKeys[n] \in DOMAIN risk /\ risk[RiskKeys[n]] <= 0, "invalid_risk") : n \in 1 .. 4}

SettingCodes(s) ==
  One(s.market # "known", "invalid_market")
  \cup One(s.timeframe \notin Timeframes, "invalid_timeframe")
  \cup One(s.sides = {}, "missing_side")
  \cup One(s.sizing.value <= 0, "invalid_sizing")
  \cup One(s.sizing.mode = "percent_of_equity" /\ s.sizing.value > 100, "percent_above_limit")
  \cup One(s.costs.startingEquity <= 0, "invalid_starting_equity")
  \cup One(s.costs.feeBps < 0 \/ s.costs.slippageBps < 0, "invalid_costs")
  \cup RiskCodes(s.risk)

\* The issues of the settings.
LEMMA SettingCodesAre ==
  ASSUME NEW s
  PROVE  IsSeq(SettingIssues(s)) /\ CodesOf(SettingIssues(s)) = SettingCodes(s)
  <1> DEFINE a == When(s.market # "known", "invalid_market", "marketId")
             b == When(s.timeframe \notin Timeframes, "invalid_timeframe", "timeframe")
             c == When(s.sides = {}, "missing_side", "enabledSides")
             d == When(s.sizing.value <= 0, "invalid_sizing", "sizing")
             e == When(s.sizing.mode = "percent_of_equity" /\ s.sizing.value > 100,
                       "percent_above_limit", "sizing")
             f == When(s.costs.startingEquity <= 0, "invalid_starting_equity", "costs")
             g == When(s.costs.feeBps < 0 \/ s.costs.slippageBps < 0, "invalid_costs", "costs")
             parts == [n \in DOMAIN RiskKeys |->
                         When(RiskKeys[n] \in DOMAIN s.risk /\ s.risk[RiskKeys[n]] <= 0,
                              "invalid_risk", RiskKeys[n])]
             h == Joined(parts, 4)
  <1>1. DOMAIN RiskKeys = 1 .. 4 /\ Len(RiskKeys) = 4
    BY DEF RiskKeys
  <1>2. Each(LAMBDA key : When(key \in DOMAIN s.risk /\ s.risk[key] <= 0, "invalid_risk", key),
             RiskKeys) = h
    BY <1>1 DEF Each
  <1>3. /\ IsSeq(a) /\ CodesOf(a) = One(s.market # "known", "invalid_market")
        /\ IsSeq(b) /\ CodesOf(b) = One(s.timeframe \notin Timeframes, "invalid_timeframe")
        /\ IsSeq(c) /\ CodesOf(c) = One(s.sides = {}, "missing_side")
    BY WhenOne
  <1>4. /\ IsSeq(d) /\ CodesOf(d) = One(s.sizing.value <= 0, "invalid_sizing")
        /\ IsSeq(e)
        /\ CodesOf(e) = One(s.sizing.mode = "percent_of_equity" /\ s.sizing.value > 100,
                            "percent_above_limit")
    BY WhenOne
  <1>5. /\ IsSeq(f) /\ CodesOf(f) = One(s.costs.startingEquity <= 0, "invalid_starting_equity")
        /\ IsSeq(g) /\ CodesOf(g) = One(s.costs.feeBps < 0 \/ s.costs.slippageBps < 0, "invalid_costs")
    BY WhenOne
  <1>6. \A n \in 1 .. 4 :
            /\ IsSeq(parts[n])
            /\ CodesOf(parts[n]) = One(RiskKeys[n] \in DOMAIN s.risk /\ s.risk[RiskKeys[n]] <= 0,
                                       "invalid_risk")
    BY <1>1, WhenOne
  <1> HIDE DEF parts
  <1>7. IsSeq(h) /\ CodesOf(h) = UNION {CodesOf(parts[n]) : n \in 1 .. 4}
    BY <1>6, JoinedCodes
  <1>8. CodesOf(h) = RiskCodes(s.risk)
    BY <1>6, <1>7 DEF RiskCodes
  <1> HIDE DEF h
  <1>9. SettingIssues(s) = a \o b \o c \o d \o e \o f \o g \o h
    BY <1>2 DEF SettingIssues
  <1> HIDE DEF a, b, c, d, e, f, g
  <1> DEFINE i == a \o b \o c
             j == i \o d \o e
             l == j \o f \o g
  <1>10. IsSeq(i) /\ CodesOf(i) = CodesOf(a) \cup CodesOf(b) \cup CodesOf(c)
    BY <1>3, ThreeSeqs
  <1> HIDE DEF i
  <1>11. IsSeq(j) /\ CodesOf(j) = CodesOf(i) \cup CodesOf(d) \cup CodesOf(e)
    BY <1>4, <1>10, ThreeSeqs
  <1> HIDE DEF j
  <1>12. IsSeq(l) /\ CodesOf(l) = CodesOf(j) \cup CodesOf(f) \cup CodesOf(g)
    BY <1>5, <1>11, ThreeSeqs
  <1> HIDE DEF l
  <1>13. IsSeq(l \o h) /\ CodesOf(l \o h) = CodesOf(l) \cup CodesOf(h)
    BY <1>7, <1>12, TwoSeqs
  <1>14. SettingIssues(s) = l \o h
    BY <1>9 DEF i, j, l
  <1>15. CodesOf(SettingIssues(s))
         = CodesOf(a) \cup CodesOf(b) \cup CodesOf(c) \cup CodesOf(d) \cup CodesOf(e)
           \cup CodesOf(f) \cup CodesOf(g) \cup CodesOf(h)
    BY <1>10, <1>11, <1>12, <1>13, <1>14
  <1> QED BY <1>3, <1>4, <1>5, <1>8, <1>13, <1>14, <1>15 DEF SettingCodes

\* The issues that a repair may bring up.
Extra == {"missing_entry_rules", "ambiguous_dual_side_entries"}

\* An engine that is broken is an issue that stays; without one, the issues are those
\* that a repair may bring up.
LEMMA TriggerCodesAre ==
  ASSUME NEW s
  PROVE  /\ IsSeq(TriggerIssues(s))
         /\ IF s.engine # "none"
            THEN CodesOf(TriggerIssues(s)) = One(s.engine = "broken", "invalid_strategy_engine")
            ELSE CodesOf(TriggerIssues(s)) \subseteq Extra
  <1>1. CASE s.engine # "none"
    <2>1. TriggerIssues(s) = When(s.engine = "broken", "invalid_strategy_engine", "engine")
      BY <1>1 DEF TriggerIssues
    <2>2. /\ IsSeq(When(s.engine = "broken", "invalid_strategy_engine", "engine"))
          /\ CodesOf(When(s.engine = "broken", "invalid_strategy_engine", "engine"))
             = One(s.engine = "broken", "invalid_strategy_engine")
      BY WhenOne
    <2> QED BY <1>1, <2>1, <2>2
  <1>2. CASE s.engine = "none"
    <2> DEFINE both == <<"long", "short">>
               lacks(side) == side \in s.sides /\ IsEmpty(s.groups[EntryOf[side]])
               parts == [n \in DOMAIN both |-> When(lacks(both[n]), "missing_entry_rules", both[n])]
               a == Joined(parts, 2)
               same == s.sides = {"long", "short"} /\ s.groups[1] = s.groups[2]
               b == When(same, "ambiguous_dual_side_entries", "short")
    <2>1. DOMAIN both = 1 .. 2 /\ Len(both) = 2
      OBVIOUS
    <2>2. Each(LAMBDA side : When(side \in s.sides /\ IsEmpty(s.groups[EntryOf[side]]),
                                  "missing_entry_rules", side), both) = a
      BY <2>1 DEF Each
    <2>3. TriggerIssues(s) = a \o b
      <3> HIDE DEF a
      <3> QED BY <1>2, <2>2 DEF TriggerIssues
    <2>4. \A n \in 1 .. 2 : /\ IsSeq(parts[n])
                            /\ CodesOf(parts[n]) = One(lacks(both[n]), "missing_entry_rules")
      BY <2>1, WhenOne
    <2>5. IsSeq(b) /\ CodesOf(b) = One(same, "ambiguous_dual_side_entries")
      BY WhenOne
    <2> HIDE DEF parts, b, same, lacks, both
    <2>6. IsSeq(a) /\ CodesOf(a) = UNION {CodesOf(parts[n]) : n \in 1 .. 2}
      BY <2>4, JoinedCodes
    <2>7. CodesOf(a) \subseteq Extra
      BY <2>4, <2>6 DEF One, Extra
    <2>8. CodesOf(b) \subseteq Extra
      BY <2>5 DEF One, Extra
    <2> HIDE DEF a
    <2>9. IsSeq(a \o b) /\ CodesOf(a \o b) = CodesOf(a) \cup CodesOf(b)
      BY <2>5, <2>6, TwoSeqs
    <2> QED BY <1>2, <2>3, <2>7, <2>8, <2>9
  <1> QED BY <1>1, <1>2

\* The codes of a definition are those of its parts.
LEMMA CodesAre ==
  ASSUME NEW s \in Definitions
  PROVE  /\ IsSeq(Issues(s))
         /\ Codes(s) = SettingCodes(s) \cup CodesOf(TriggerIssues(s))
                       \cup (UNION {GroupsCodes(s.groups[k]) : k \in 1 .. 4})
  <1> DEFINE four == <<1, 2, 3, 4>>
             parts == [n \in DOMAIN four |-> GroupsIssues(s, four[n])]
             a == SettingIssues(s)
             b == TriggerIssues(s)
             c == Joined(parts, 4)
  <1>1. DOMAIN four = 1 .. 4 /\ Len(four) = 4 /\ \A n \in 1 .. 4 : four[n] = n
    OBVIOUS
  <1>2. Each(LAMBDA k : GroupsIssues(s, k), four) = c
    BY <1>1 DEF Each
  <1>3. Issues(s) = a \o b \o c
    <2> HIDE DEF a, b, c
    <2> QED BY <1>2 DEF Issues, a, b
  <1>4. \A n \in 1 .. 4 : s.groups[n] \in Seq(Seq(Rules))
    BY DEF Definitions
  <1>5. \A n \in 1 .. 4 : IsSeq(parts[n]) /\ CodesOf(parts[n]) = GroupsCodes(s.groups[n])
    <2>1. \A n \in 1 .. 4 : parts[n] = GroupsIssues(s, n)
      BY <1>1
    <2> HIDE DEF parts
    <2> QED BY <1>4, <2>1, GroupsCodesAre
  <1> HIDE DEF parts
  <1>6. IsSeq(c) /\ CodesOf(c) = UNION {CodesOf(parts[n]) : n \in 1 .. 4}
    BY <1>5, JoinedCodes
  <1>7. CodesOf(c) = UNION {GroupsCodes(s.groups[k]) : k \in 1 .. 4}
    BY <1>5, <1>6
  <1>8. IsSeq(a) /\ IsSeq(b) /\ CodesOf(a) = SettingCodes(s)
    BY SettingCodesAre, TriggerCodesAre
  <1> HIDE DEF a, c
  <1>9. IsSeq(a \o b \o c) /\ CodesOf(a \o b \o c) = CodesOf(a) \cup CodesOf(b) \cup CodesOf(c)
    BY <1>6, <1>8, ThreeSeqs
  <1>10. Codes(s) = CodesOf(Issues(s))
    BY DEF Codes, CodesOf
  <1> QED BY <1>3, <1>7, <1>8, <1>9, <1>10

\* What a fix may do to a definition, when it is told of an issue with this code.
Keeps(s, t, code) == t \in Definitions /\ Codes(t) \subseteq Codes(s) \cup Extra \cup {code}

\* Rules that have no new issue, and no new issues of the settings.
LEMMA PartsKeep ==
  ASSUME NEW s \in Definitions, NEW t \in Definitions, NEW code, t.engine = s.engine,
         SettingCodes(t) \subseteq SettingCodes(s) \cup {code},
         \A k \in 1 .. 4 : GroupsCodes(t.groups[k]) \subseteq GroupsCodes(s.groups[k])
  PROVE  Keeps(s, t, code)
  <1>1. Codes(s) = SettingCodes(s) \cup CodesOf(TriggerIssues(s))
                   \cup (UNION {GroupsCodes(s.groups[k]) : k \in 1 .. 4})
    BY CodesAre
  <1>2. Codes(t) = SettingCodes(t) \cup CodesOf(TriggerIssues(t))
                   \cup (UNION {GroupsCodes(t.groups[k]) : k \in 1 .. 4})
    BY CodesAre
  <1>3. CodesOf(TriggerIssues(t)) \subseteq CodesOf(TriggerIssues(s)) \cup Extra
    <2>1. CASE s.engine # "none"
      BY <2>1, TriggerCodesAre
    <2>2. CASE s.engine = "none"
      BY <2>2, TriggerCodesAre
    <2> QED BY <2>1, <2>2
  <1> QED BY <1>1, <1>2, <1>3 DEF Keeps

\* A rule becomes another that has no new issue.
LEMMA RuleKeeps ==
  ASSUME NEW s \in Definitions, NEW k \in 1 .. 4, NEW g \in DOMAIN s.groups[k],
         NEW r \in DOMAIN s.groups[k][g], NEW rule \in Rules, NEW code,
         RuleCodes(rule) \subseteq RuleCodes(s.groups[k][g][r])
  PROVE  Keeps(s, [s EXCEPT !.groups[k][g][r] = rule], code)
  <1> DEFINE groups == s.groups[k]
             rules == groups[g]
             newRules == [rules EXCEPT ![r] = rule]
             newGroups == [groups EXCEPT ![g] = newRules]
             all == [s.groups EXCEPT ![k] = newGroups]
             t == [s EXCEPT !.groups = all]
  <1>1. groups \in Seq(Seq(Rules))
    BY DEF Definitions
  <1>2. rules \in Seq(Rules)
    BY <1>1
  <1>3. /\ newRules \in Seq(Rules) /\ Len(newRules) = Len(rules) /\ DOMAIN newRules = DOMAIN rules
        /\ newRules[r] = rule /\ \A n \in DOMAIN rules : n # r => newRules[n] = rules[n]
    BY <1>2
  <1>4. GroupCodes(newRules) \subseteq GroupCodes(rules)
    <2> HIDE DEF newRules, rules
    <2>1. \A n \in DOMAIN rules : RuleCodes(newRules[n]) \subseteq RuleCodes(rules[n])
      BY <1>3 DEF rules
    <2> QED BY <1>3, <2>1 DEF GroupCodes
  <1> HIDE DEF newRules
  <1>5. /\ newGroups \in Seq(Seq(Rules)) /\ Len(newGroups) = Len(groups)
        /\ DOMAIN newGroups = DOMAIN groups
        /\ newGroups[g] = newRules /\ \A n \in DOMAIN groups : n # g => newGroups[n] = groups[n]
    BY <1>1, <1>3
  <1>6. GroupsCodes(newGroups) \subseteq GroupsCodes(groups)
    <2> HIDE DEF newGroups, groups
    <2>1. \A n \in DOMAIN groups : GroupCodes(newGroups[n]) \subseteq GroupCodes(groups[n])
      BY <1>4, <1>5
    <2> QED BY <1>5, <2>1 DEF GroupsCodes
  <1> HIDE DEF newGroups
  <1>7. /\ all \in [1 .. 4 -> Seq(Seq(Rules))] /\ all[k] = newGroups
        /\ \A n \in 1 .. 4 : n # k => all[n] = s.groups[n]
    BY <1>5 DEF Definitions
  <1> HIDE DEF all
  <1>8. /\ t \in Definitions /\ t.groups = all /\ t.engine = s.engine
        /\ t.market = s.market /\ t.timeframe = s.timeframe /\ t.sides = s.sides
        /\ t.sizing = s.sizing /\ t.costs = s.costs /\ t.risk = s.risk
    BY <1>7 DEF Definitions
  <1>9. t = [s EXCEPT !.groups[k][g][r] = rule]
    BY DEF all, newGroups, newRules
  <1> HIDE DEF t
  <1>10. SettingCodes(t) \subseteq SettingCodes(s) \cup {code}
    BY <1>8 DEF SettingCodes
  <1>11. \A n \in 1 .. 4 : GroupsCodes(t.groups[n]) \subseteq GroupsCodes(s.groups[n])
    BY <1>6, <1>7, <1>8
  <1>12. Keeps(s, t, code)
    BY <1>8, <1>10, <1>11, PartsKeep
  <1> QED BY <1>9, <1>12

\* The settings become others, and the rules stay.
LEMMA SettingsKeep ==
  ASSUME NEW s \in Definitions, NEW t \in Definitions, NEW code, t.engine = s.engine,
         t.groups = s.groups, SettingCodes(t) \subseteq SettingCodes(s) \cup {code}
  PROVE  Keeps(s, t, code)
  BY PartsKeep

\* A fix that changes nothing.
LEMMA NothingKeeps ==
  ASSUME NEW s \in Definitions, NEW code
  PROVE  Keeps(s, s, code)
  BY DEF Keeps

WithRule(s, k, g, r, rule) == [s EXCEPT !.groups[k][g][r] = rule]

\* No rule is there.
LEMMA NoRuleThere ==
  ASSUME NEW s \in Definitions, NEW k, NEW g, NEW r, NEW rule,
         ~(k \in 1 .. 4 /\ g \in DOMAIN s.groups[k] /\ r \in DOMAIN s.groups[k][g])
  PROVE  WithRule(s, k, g, r, rule) = s
  <1> SUFFICES [s EXCEPT !.groups[k][g][r] = rule] = s
    BY DEF WithRule
  <1>1. [s EXCEPT !.groups = s.groups] = s
    BY DEF Definitions
  <1>2. s.groups \in [1 .. 4 -> Seq(Seq(Rules))]
    BY DEF Definitions
  <1> DEFINE all == s.groups
             new == [all EXCEPT ![k] = [all[k] EXCEPT ![g] = [all[k][g] EXCEPT ![r] = rule]]]
  <1>3. CASE k \notin 1 .. 4
    <2>1. new = all
      BY <1>2, <1>3
    <2> QED BY <1>1, <2>1
  <1>4. CASE k \in 1 .. 4 /\ g \notin DOMAIN all[k]
    <2>1. all[k] \in Seq(Seq(Rules))
      BY <1>2, <1>4
    <2>2. [all[k] EXCEPT ![g] = [all[k][g] EXCEPT ![r] = rule]] = all[k]
      BY <1>4, <2>1
    <2>3. new = all
      BY <1>2, <1>4, <2>2
    <2> QED BY <1>1, <2>3
  <1>5. CASE k \in 1 .. 4 /\ g \in DOMAIN all[k] /\ r \notin DOMAIN all[k][g]
    <2>1. all[k] \in Seq(Seq(Rules))
      BY <1>2, <1>5
    <2>2. all[k][g] \in Seq(Rules)
      BY <1>5, <2>1
    <2>3. [all[k][g] EXCEPT ![r] = rule] = all[k][g]
      BY <1>5, <2>2
    <2>4. [all[k] EXCEPT ![g] = all[k][g]] = all[k]
      <3>1. ASSUME NEW f \in Seq(Seq(Rules)), NEW n PROVE [f EXCEPT ![n] = f[n]] = f
        OBVIOUS
      <3> HIDE DEF all
      <3> QED BY <2>1, <3>1
    <2>5. new = all
      BY <1>2, <1>5, <2>3, <2>4
    <2> QED BY <1>1, <2>5
  <1> QED BY <1>3, <1>4, <1>5

\* What is at a place of the definition.
IsPlace(s, k, g, r, e) ==
  k \in 1 .. 4 /\ g \in DOMAIN s.groups[k] /\ r \in DOMAIN s.groups[k][g] /\ e \in 1 .. 2

\* Where there is a place there is a rule.
LEMMA RulesThere ==
  ASSUME NEW s \in Definitions, NEW k \in 1 .. 4, NEW g \in DOMAIN s.groups[k],
         NEW r \in DOMAIN s.groups[k][g]
  PROVE  s.groups[k][g][r] \in Rules
  <1>1. s.groups[k] \in Seq(Seq(Rules))
    BY DEF Definitions
  <1>2. s.groups[k][g] \in Seq(Rules)
    BY <1>1
  <1> QED BY <1>2

\* An operand becomes another that has no new issue.
LEMMA OperandKeeps ==
  ASSUME NEW s \in Definitions, NEW k, NEW g, NEW r, NEW e, NEW o, NEW code,
         IsPlace(s, k, g, r, e) =>
             /\ o \in Operands
             /\ OperandCodes(o) \subseteq OperandCodes(s.groups[k][g][r].operands[e])
  PROVE  Keeps(s, [s EXCEPT !.groups[k][g][r].operands[e] = o], code)
  <1> DEFINE old == s.groups[k][g][r]
             new == [old EXCEPT !.operands[e] = o]
  <1>1. [s EXCEPT !.groups[k][g][r].operands[e] = o] = WithRule(s, k, g, r, new)
    BY DEF WithRule
  <1>2. CASE ~(k \in 1 .. 4 /\ g \in DOMAIN s.groups[k] /\ r \in DOMAIN s.groups[k][g])
    <2> HIDE DEF new
    <2>1. WithRule(s, k, g, r, new) = s
      BY <1>2, NoRuleThere
    <2> QED BY <1>1, <2>1, NothingKeeps
  <1>3. CASE k \in 1 .. 4 /\ g \in DOMAIN s.groups[k] /\ r \in DOMAIN s.groups[k][g]
    <2>1. old \in Rules
      BY <1>3, RulesThere
    <2>2. e \in 1 .. 2 => o \in Operands /\ OperandCodes(o) \subseteq OperandCodes(old.operands[e])
      BY <1>3 DEF IsPlace
    <2> HIDE DEF old
    <2>3. new \in Rules /\ new.operator = old.operator
      BY <2>1, <2>2 DEF Rules
    <2>4. \A n \in 1 .. 2 : OperandCodes(new.operands[n]) \subseteq OperandCodes(old.operands[n])
      <3>1. SUFFICES ASSUME NEW n \in 1 .. 2
                     PROVE  OperandCodes(new.operands[n]) \subseteq OperandCodes(old.operands[n])
        OBVIOUS
      <3>2. CASE n = e
        <4>1. new.operands[n] = o
          BY <2>1, <3>2 DEF Rules
        <4> QED BY <2>2, <3>2, <4>1
      <3>3. CASE n # e
        <4>1. new.operands[n] = old.operands[n]
          BY <2>1, <3>3 DEF Rules
        <4> QED BY <4>1
      <3> QED BY <3>2, <3>3
    <2> HIDE DEF new
    <2>5. RuleCodes(new) \subseteq RuleCodes(old)
      BY <2>3, <2>4 DEF RuleCodes
    <2>6. Keeps(s, WithRule(s, k, g, r, new), code)
      BY <1>3, <2>3, <2>5, RuleKeeps DEF old, WithRule
    <2> QED BY <1>1, <2>6
  <1> QED BY <1>2, <1>3

\* An operator becomes one that the matcher knows.
LEMMA OperatorKeeps ==
  ASSUME NEW s \in Definitions, NEW k, NEW g, NEW r, NEW operator \in Operators, NEW code
  PROVE  Keeps(s, [s EXCEPT !.groups[k][g][r].operator = operator], code)
  <1> DEFINE old == s.groups[k][g][r]
             new == [old EXCEPT !.operator = operator]
  <1>1. [s EXCEPT !.groups[k][g][r].operator = operator] = WithRule(s, k, g, r, new)
    BY DEF WithRule
  <1>2. CASE ~(k \in 1 .. 4 /\ g \in DOMAIN s.groups[k] /\ r \in DOMAIN s.groups[k][g])
    <2> HIDE DEF new
    <2>1. WithRule(s, k, g, r, new) = s
      BY <1>2, NoRuleThere
    <2> QED BY <1>1, <2>1, NothingKeeps
  <1>3. CASE k \in 1 .. 4 /\ g \in DOMAIN s.groups[k] /\ r \in DOMAIN s.groups[k][g]
    <2>1. old \in Rules
      BY <1>3, RulesThere
    <2> HIDE DEF old
    <2>2. operator \in Text
      BY DEF Text
    <2>3. new \in Rules /\ new.operator = operator /\ new.operands = old.operands
      BY <2>1, <2>2 DEF Rules
    <2> HIDE DEF new
    <2>4. RuleCodes(new) \subseteq RuleCodes(old)
      BY <2>3 DEF RuleCodes, One
    <2>5. Keeps(s, WithRule(s, k, g, r, new), code)
      BY <1>3, <2>3, <2>4, RuleKeeps DEF old, WithRule
    <2> QED BY <1>1, <2>5
  <1> QED BY <1>2, <1>3

\* The places are a sequence, and the first of some of them is one of them.
LEMMA IndexesAre ==
  ASSUME NEW X, NEW list \in Seq(X)
  PROVE  /\ Len(list) \in Nat /\ Len(Indexes(list)) = Len(list)
         /\ DOMAIN Indexes(list) = 1 .. Len(list)
  BY DEF Indexes

\* Places are a sequence.
LEMMA PlacesAre ==
  ASSUME NEW s \in Definitions
  PROVE  Len(Places(s)) \in Nat
  <1> DEFINE two(k, g, r) == <<<<k, g, r, 1>>, <<k, g, r, 2>>>>
             rules(k, g) == Indexes(s.groups[k][g])
             groups(k) == Indexes(s.groups[k])
             ofGroup(k, g) == Joined([n \in DOMAIN rules(k, g) |-> two(k, g, rules(k, g)[n])],
                                     Len(rules(k, g)))
             ofGroups(k) == Joined([n \in DOMAIN groups(k) |-> ofGroup(k, groups(k)[n])],
                                   Len(groups(k)))
             four == <<1, 2, 3, 4>>
             all == Joined([n \in DOMAIN four |-> ofGroups(four[n])], Len(four))
  <1>1. Places(s) = all
    BY DEF Places, Each
  <1>2. ASSUME NEW k \in 1 .. 4, NEW g \in DOMAIN s.groups[k]
        PROVE  IsSeq(ofGroup(k, g))
    <2>1. s.groups[k] \in Seq(Seq(Rules))
      BY DEF Definitions
    <2>2. s.groups[k][g] \in Seq(Rules)
      BY <2>1
    <2> DEFINE N == Len(s.groups[k][g])
    <2>3. N \in Nat /\ Len(rules(k, g)) = N /\ DOMAIN rules(k, g) = 1 .. N
      BY <2>2, IndexesAre
    <2> DEFINE parts == [n \in DOMAIN rules(k, g) |-> two(k, g, rules(k, g)[n])]
    <2>4. \A n \in 1 .. N : IsSeq(parts[n])
      <3>1. ASSUME NEW r PROVE IsSeq(two(k, g, r))
        <4>1. two(k, g, r) \in Seq({<<k, g, r, 1>>, <<k, g, r, 2>>})
          OBVIOUS
        <4> QED BY <4>1 DEF IsSeq
      <3> HIDE DEF two
      <3> QED BY <2>3, <3>1
    <2> HIDE DEF parts, N
    <2>5. IsSeq(Joined(parts, N))
      BY <2>3, <2>4, JoinedCodes
    <2> QED BY <2>3, <2>5 DEF parts
  <1>3. ASSUME NEW k \in 1 .. 4
        PROVE  IsSeq(ofGroups(k))
    <2>1. s.groups[k] \in Seq(Seq(Rules))
      BY DEF Definitions
    <2> DEFINE N == Len(s.groups[k])
    <2>2. N \in Nat /\ Len(groups(k)) = N /\ DOMAIN groups(k) = 1 .. N /\ DOMAIN s.groups[k] = 1 .. N
      BY <2>1, IndexesAre
    <2>3. \A n \in 1 .. N : groups(k)[n] = n
      BY <2>2 DEF Indexes
    <2> HIDE DEF ofGroup
    <2> DEFINE parts == [n \in DOMAIN groups(k) |-> ofGroup(k, groups(k)[n])]
    <2>4. \A n \in 1 .. N : IsSeq(parts[n])
      BY <1>2, <2>2, <2>3
    <2> HIDE DEF parts, N
    <2>5. IsSeq(Joined(parts, N))
      BY <2>2, <2>4, JoinedCodes
    <2> QED BY <2>2, <2>5 DEF parts
  <1> HIDE DEF ofGroups
  <1>4. IsSeq(all)
    <2>1. DOMAIN four = 1 .. 4 /\ Len(four) = 4 /\ \A n \in 1 .. 4 : four[n] = n
      OBVIOUS
    <2> DEFINE parts == [n \in DOMAIN four |-> ofGroups(four[n])]
    <2>2. \A n \in 1 .. 4 : IsSeq(parts[n])
      BY <1>3, <2>1
    <2> HIDE DEF parts
    <2>3. IsSeq(Joined(parts, 4))
      BY <2>2, JoinedCodes
    <2> QED BY <2>1, <2>3 DEF parts
  <1>5. PICK X : all \in Seq(X)
    BY <1>4 DEF IsSeq
  <1> HIDE DEF all
  <1> QED BY <1>1, <1>5

\* The least of some positions is one of them.
LEMMA FirstIsOne ==
  ASSUME NEW N \in Nat, NEW I, I \subseteq 1 .. N, I # {}
  PROVE  Min(I) \in I /\ Min(I) # 0
  <1>1. IsFiniteSet(1 .. N)
    BY FS_Interval
  <1>2. IsFiniteSet(I) /\ I \subseteq Int
    <2>1. IsFiniteSet(I)
      BY <1>1, FS_Subset
    <2> QED BY <2>1
  <1>3. PICK n \in I : \A m \in I : n <= m
    BY <1>2, LeastOf
  <1>4. Min(I) \in I
    BY <1>3 DEF Min
  <1> QED BY <1>4

-----------------------------------------------------------------------------
(* The catalog. *)

Kinds == {"sma", "ema", "rsi", "macd", "bollinger", "atr", "roc", "stoch", "vwap",
          "rolling_high", "rolling_low", "candle_body_pct", "candle_direction"}

\* The indicators of the catalog.
LEMMA KindsAre == DOMAIN Catalog = Kinds
  BY DEF Catalog, Kinds

\* What the fixes write is what the catalog allows, and where it does not, they leave
\* a value on the side on which it was.
LEMMA CatalogFacts ==
  ASSUME NEW kind \in Kinds
  PROVE  /\ DefaultOutput(kind) \in Catalog[kind].outputs
         /\ DefaultOutput(kind) \in Text
         /\ \A name \in DOMAIN Catalog[kind].params :
              LET param == Catalog[kind].params[name] IN
              /\ name \in ToSet(ParamNames)
              /\ DefaultParams(kind)[name] = param.default
              /\ param.default \in Int /\ param.min \in Int /\ param.max \in Int
              /\ param.min <= param.default /\ param.default <= param.max
              /\ name # "stdDev" => param.default % 10 = 0
              /\ param.min = LowestParam(name)
              /\ param.max <= HighestParam(name)
  <1> USE DEF Catalog, DefaultOutput, DefaultParams, Whole, Entry, LowestParam, HighestParam,
              Text, ToSet, ParamNames
  <1>1. CASE kind \in {"sma", "ema", "rsi"}
    BY <1>1
  <1>2. CASE kind \in {"macd"}
    BY <1>2
  <1>3. CASE kind \in {"bollinger"}
    BY <1>3
  <1>4. CASE kind \in {"atr", "roc"}
    BY <1>4
  <1>5. CASE kind \in {"stoch"}
    BY <1>5
  <1>6. CASE kind \in {"vwap", "candle_body_pct", "candle_direction"}
    BY <1>6
  <1>7. CASE kind \in {"rolling_high", "rolling_low"}
    BY <1>7
  <1> HIDE DEF Catalog, DefaultOutput, DefaultParams, Whole, Entry, LowestParam, HighestParam,
               Text, ToSet, ParamNames
  <1>8. \/ kind \in {"sma", "ema", "rsi"} \/ kind \in {"macd"} \/ kind \in {"bollinger"}
        \/ kind \in {"atr", "roc"} \/ kind \in {"stoch"}
        \/ kind \in {"vwap", "candle_body_pct", "candle_direction"}
        \/ kind \in {"rolling_high", "rolling_low"}
    BY DEF Kinds
  <1> QED BY <1>1, <1>2, <1>3, <1>4, <1>5, <1>6, <1>7, <1>8

-----------------------------------------------------------------------------
(* The fixes of an operand. *)

IndicatorOperands ==
  [type : {"indicator_output"}, indicator : Text, output : Text,
   params : Params, source : Text, barsAgo : Int]

\* An operand that is an indicator.
LEMMA IndicatorsAre ==
  ASSUME NEW o \in Operands, IsIndicator(o)
  PROVE  o \in IndicatorOperands
  BY DEF Operands, IsIndicator, IndicatorOperands

\* An indicator becomes another that has no new issue.
LEMMA IndicatorKeeps ==
  ASSUME NEW o \in IndicatorOperands, NEW p \in IndicatorOperands,
         p.indicator = o.indicator, p.barsAgo = o.barsAgo, p.source = o.source,
         o.indicator \in Kinds =>
             /\ p.output = o.output \/ p.output \in Catalog[o.indicator].outputs
             /\ \A n \in 1 .. 8 : ParamCodes(p, ParamNames[n]) \subseteq ParamCodes(o, ParamNames[n])
  PROVE  p \in Operands /\ OperandCodes(p) \subseteq OperandCodes(o)
  <1>1. o.type = "indicator_output" /\ p.type = "indicator_output" /\ p \in Operands
    BY DEF IndicatorOperands, Operands
  <1>2. IndicatorCodes(p) \subseteq IndicatorCodes(o)
    <2>1. CASE o.indicator \notin Kinds
      BY <2>1, KindsAre DEF IndicatorCodes
    <2>2. CASE o.indicator \in Kinds
      <3>1. One(p.output \notin Catalog[p.indicator].outputs, "invalid_indicator_output")
            \subseteq One(o.output \notin Catalog[o.indicator].outputs, "invalid_indicator_output")
        BY <2>2 DEF One
      <3>2. (UNION {ParamCodes(p, ParamNames[n]) : n \in 1 .. 8})
            \subseteq (UNION {ParamCodes(o, ParamNames[n]) : n \in 1 .. 8})
        BY <2>2
      <3>3. One(Catalog[p.indicator].sourced /\ p.source \notin PriceFields \cup {"none"},
                "invalid_indicator_source")
            = One(Catalog[o.indicator].sourced /\ o.source \notin PriceFields \cup {"none"},
                  "invalid_indicator_source")
        OBVIOUS
      <3> QED BY <2>2, <3>1, <3>2, <3>3, KindsAre DEF IndicatorCodes
    <2> QED BY <2>1, <2>2
  <1> QED BY <1>1, <1>2 DEF OperandCodes

\* Parameters are known ones.
LEMMA ParamsAre ==
  ASSUME NEW p
  PROVE  p \in Params <=> p \in [DOMAIN p -> Int] /\ DOMAIN p \subseteq ToSet(ParamNames)
  BY DEF Params

\* A parameter that is the default, or is not the indicator's, has no issue.
LEMMA DefaultIsFine ==
  ASSUME NEW o, o.indicator \in Kinds, NEW name,
         name \in DOMAIN Catalog[o.indicator].params =>
             /\ name \in DOMAIN o.params
             /\ o.params[name] = DefaultParams(o.indicator)[name]
  PROVE  ParamCodes(o, name) = {}
  <1>1. CASE name \notin DOMAIN Catalog[o.indicator].params
    BY <1>1 DEF ParamCodes
  <1>2. CASE name \in DOMAIN Catalog[o.indicator].params
    <2> DEFINE param == Catalog[o.indicator].params[name]
    <2>1. /\ param.default \in Int /\ param.min \in Int /\ param.max \in Int
          /\ param.min <= param.default /\ param.default <= param.max
          /\ name # "stdDev" => param.default % 10 = 0
          /\ o.params[name] = param.default
      BY <1>2, CatalogFacts
    <2> HIDE DEF param
    <2> QED BY <1>2, <2>1 DEF ParamCodes, One, param
  <1> QED BY <1>1, <1>2

\* The EMA that an unknown indicator becomes.
LEMMA ReplacedKeeps ==
  ASSUME NEW o \in IndicatorOperands
  PROVE  Replaced(o) \in Operands /\ OperandCodes(Replaced(o)) \subseteq OperandCodes(o)
  <1> DEFINE p == Replaced(o)
  <1>1. /\ p.type = "indicator_output" /\ p.indicator = "ema" /\ p.output = DefaultOutput("ema")
        /\ p.params = DefaultParams("ema") /\ p.source = "close" /\ p.barsAgo = o.barsAgo
        /\ o.type = "indicator_output"
    BY DEF Replaced, IndicatorOperands
  <1>2. "ema" \in Kinds
    BY DEF Kinds
  <1>3. DefaultParams("ema") \in Params
    <2>1. DOMAIN DefaultParams("ema") = DOMAIN Catalog["ema"].params
      BY DEF DefaultParams
    <2>2. \A name \in DOMAIN DefaultParams("ema") :
              name \in ToSet(ParamNames) /\ DefaultParams("ema")[name] \in Int
      BY <1>2, <2>1, CatalogFacts
    <2>3. DefaultParams("ema") \in [DOMAIN DefaultParams("ema") -> Int]
      BY <2>2 DEF DefaultParams
    <2> QED BY <2>2, <2>3, ParamsAre
  <1>4. p \in Operands
    <2>1. {"ema", "close"} \subseteq Text
      BY DEF Text, PriceFields
    <2>2. DefaultOutput("ema") \in Text
      BY <1>2, CatalogFacts
    <2> QED BY <1>3, <2>1, <2>2 DEF Replaced, IndicatorOperands, Operands
  <1> HIDE DEF p
  <1>5. IndicatorCodes(p) = {}
    <2>1. p.output \in Catalog[p.indicator].outputs
      BY <1>1, <1>2, CatalogFacts
    <2>2. \A n \in 1 .. 8 : ParamCodes(p, ParamNames[n]) = {}
      <3>1. DOMAIN DefaultParams("ema") = DOMAIN Catalog["ema"].params
        BY DEF DefaultParams
      <3> QED BY <1>1, <1>2, <3>1, DefaultIsFine
    <2>3. p.source \in PriceFields
      BY <1>1 DEF PriceFields
    <2>4. UNION {ParamCodes(p, ParamNames[n]) : n \in 1 .. 8} = {}
      BY <2>2
    <2> QED BY <1>1, <1>2, <2>1, <2>3, <2>4, KindsAre DEF IndicatorCodes, One
  <1>6. OperandCodes(p) \subseteq OperandCodes(o)
    BY <1>1, <1>5 DEF OperandCodes
  <1> QED BY <1>4, <1>6 DEF p

\* The default output is one of the indicator's, or the indicator is unknown.
LEMMA OutputKeeps ==
  ASSUME NEW o \in IndicatorOperands
  PROVE  LET p == [o EXCEPT !.output = DefaultOutput(o.indicator)] IN
         p \in Operands /\ OperandCodes(p) \subseteq OperandCodes(o)
  <1> DEFINE p == [o EXCEPT !.output = DefaultOutput(o.indicator)]
  <1>1. DefaultOutput(o.indicator) \in Text
    BY DEF DefaultOutput, Text
  <1>2. /\ p \in IndicatorOperands /\ p.indicator = o.indicator /\ p.barsAgo = o.barsAgo
        /\ p.source = o.source /\ p.params = o.params /\ p.output = DefaultOutput(o.indicator)
    BY <1>1 DEF IndicatorOperands
  <1> HIDE DEF p
  <1>3. o.indicator \in Kinds => p.output \in Catalog[o.indicator].outputs
    BY <1>2, CatalogFacts
  <1>4. \A n \in 1 .. 8 : ParamCodes(p, ParamNames[n]) = ParamCodes(o, ParamNames[n])
    BY <1>2 DEF ParamCodes
  <1>5. p \in Operands /\ OperandCodes(p) \subseteq OperandCodes(o)
    BY <1>2, <1>3, <1>4, IndicatorKeeps
  <1> QED BY <1>5 DEF p

\* The default of a parameter is fine for its indicator.
LEMMA MissingParamKeeps ==
  ASSUME NEW o \in IndicatorOperands, o.indicator \in Kinds,
         NEW name \in DOMAIN Catalog[o.indicator].params
  PROVE  /\ WithDefault(o, name) \in Operands
         /\ OperandCodes(WithDefault(o, name)) \subseteq OperandCodes(o)
  <1> DEFINE params == [other \in DOMAIN o.params \cup {name} |->
                          IF other = name THEN DefaultParams(o.indicator)[name]
                          ELSE o.params[other]]
             p == [o EXCEPT !.params = params]
  <1>1. o.params \in [DOMAIN o.params -> Int] /\ DOMAIN o.params \subseteq ToSet(ParamNames)
    BY ParamsAre DEF IndicatorOperands
  <1>2. DefaultParams(o.indicator)[name] \in Int /\ name \in ToSet(ParamNames)
    BY CatalogFacts
  <1>3. /\ DOMAIN params = DOMAIN o.params \cup {name}
        /\ params[name] = DefaultParams(o.indicator)[name]
        /\ \A other \in DOMAIN o.params : other # name => params[other] = o.params[other]
    OBVIOUS
  <1>4. params \in Params
    <2>1. params \in [DOMAIN params -> Int]
      BY <1>1, <1>2, <1>3
    <2> HIDE DEF params
    <2> QED BY <1>1, <1>2, <1>3, <2>1, ParamsAre
  <1> HIDE DEF params
  <1>5. /\ p \in IndicatorOperands /\ p.indicator = o.indicator /\ p.barsAgo = o.barsAgo
        /\ p.source = o.source /\ p.params = params /\ p.output = o.output
    BY <1>4 DEF IndicatorOperands
  <1> HIDE DEF p
  <1>6. \A other : ParamCodes(p, other) \subseteq ParamCodes(o, other)
    <2>1. SUFFICES ASSUME NEW other PROVE ParamCodes(p, other) \subseteq ParamCodes(o, other)
      OBVIOUS
    <2>2. CASE other = name
      <3>1. ParamCodes(p, name) = {}
        BY <1>3, <1>5, DefaultIsFine
      <3> QED BY <2>2, <3>1
    <2>3. CASE other # name
      <3>1. other \in DOMAIN p.params <=> other \in DOMAIN o.params
        BY <1>3, <1>5, <2>3
      <3>2. other \in DOMAIN o.params => p.params[other] = o.params[other]
        BY <1>3, <1>5, <2>3
      <3> QED BY <1>5, <3>1, <3>2 DEF ParamCodes
    <2> QED BY <2>2, <2>3
  <1>7. p \in Operands /\ OperandCodes(p) \subseteq OperandCodes(o)
    BY <1>5, <1>6, IndicatorKeeps
  <1> QED BY <1>7 DEF p, params, WithDefault

\* The agent's range of a parameter is not the indicator's: what is out of the one
\* may be too high in the other, before and after.
LEMMA ClampedKeeps ==
  ASSUME NEW o \in IndicatorOperands, NEW name \in DOMAIN o.params,
         o.params[name] \notin LowestParam(name) .. HighestParam(name)
  PROVE  /\ Clamped(o, name) \in Operands
         /\ OperandCodes(Clamped(o, name)) \subseteq OperandCodes(o)
  <1> DEFINE value == o.params[name]
             new == IF value < LowestParam(name) THEN LowestParam(name) ELSE HighestParam(name)
             params == [o.params EXCEPT ![name] = new]
             p == [o EXCEPT !.params = params]
  <1>1. o.params \in [DOMAIN o.params -> Int] /\ DOMAIN o.params \subseteq ToSet(ParamNames)
    BY ParamsAre DEF IndicatorOperands
  <1>2. /\ LowestParam(name) \in Int /\ HighestParam(name) \in Int
        /\ name # "stdDev" => LowestParam(name) % 10 = 0 /\ HighestParam(name) % 10 = 0
    BY DEF LowestParam, HighestParam
  <1>3. value \in Int /\ new \in Int
    BY <1>1, <1>2
  <1>4. /\ DOMAIN params = DOMAIN o.params /\ params[name] = new
        /\ \A other \in DOMAIN o.params : other # name => params[other] = o.params[other]
    OBVIOUS
  <1>5. params \in Params
    <2>1. params \in [DOMAIN params -> Int]
      BY <1>1, <1>3
    <2> HIDE DEF params
    <2> QED BY <1>1, <1>4, <2>1, ParamsAre
  <1> HIDE DEF params
  <1>6. /\ p \in IndicatorOperands /\ p.indicator = o.indicator /\ p.barsAgo = o.barsAgo
        /\ p.source = o.source /\ p.params = params /\ p.output = o.output
    BY <1>5 DEF IndicatorOperands
  <1> HIDE DEF p
  <1>7. ASSUME o.indicator \in Kinds, NEW other
        PROVE  ParamCodes(p, other) \subseteq ParamCodes(o, other)
    <2>1. CASE other # name
      <3>1. other \in DOMAIN p.params <=> other \in DOMAIN o.params
        BY <1>4, <1>6, <2>1
      <3>2. other \in DOMAIN o.params => p.params[other] = o.params[other]
        BY <1>4, <1>6, <2>1
      <3> QED BY <1>6, <3>1, <3>2 DEF ParamCodes
    <2>2. CASE other = name /\ name \notin DOMAIN Catalog[o.indicator].params
      BY <1>6, <2>2 DEF ParamCodes
    <2>3. CASE other = name /\ name \in DOMAIN Catalog[o.indicator].params
      <3> DEFINE param == Catalog[o.indicator].params[name]
      <3>1. /\ param.min \in Int /\ param.max \in Int /\ param.min <= param.max
            /\ param.min = LowestParam(name) /\ param.max <= HighestParam(name)
        <4>1. /\ param.default \in Int /\ param.min \in Int /\ param.max \in Int
              /\ param.min <= param.default /\ param.default <= param.max
              /\ param.min = LowestParam(name) /\ param.max <= HighestParam(name)
          BY <1>7, <2>3, CatalogFacts
        <4> HIDE DEF param
        <4> QED BY <4>1
      <3>2. /\ ParamCodes(p, name)
               = One(name # "stdDev" /\ new % 10 # 0, "indicator_param_not_integer")
                 \cup One(new < param.min, "indicator_param_low")
                 \cup One(new > param.max, "indicator_param_high")
            /\ ParamCodes(o, name)
               = One(name # "stdDev" /\ value % 10 # 0, "indicator_param_not_integer")
                 \cup One(value < param.min, "indicator_param_low")
                 \cup One(value > param.max, "indicator_param_high")
        BY <1>4, <1>6, <2>3 DEF ParamCodes
      <3> HIDE DEF param
      <3>3. /\ ~(name # "stdDev" /\ new % 10 # 0)
            /\ ~(new < param.min)
            /\ new > param.max => value > param.max
        BY <1>2, <1>3, <3>1
      <3> HIDE DEF new, value
      <3> QED BY <2>3, <3>2, <3>3 DEF One
    <2> QED BY <2>1, <2>2, <2>3
  <1>8. p \in Operands /\ OperandCodes(p) \subseteq OperandCodes(o)
    BY <1>6, <1>7, IndicatorKeeps
  <1> QED BY <1>8 DEF p, params, new, value, Clamped

\* The close is a price.
LEMMA PriceKeeps ==
  ASSUME NEW o \in Operands, o.type = "price_field"
  PROVE  LET p == [o EXCEPT !.field = "close"] IN
         p \in Operands /\ OperandCodes(p) \subseteq OperandCodes(o)
  <1> DEFINE p == [o EXCEPT !.field = "close"]
  <1>1. o \in [type : {"price_field"}, field : Text, barsAgo : Int]
    BY DEF Operands
  <1>2. "close" \in Text /\ "close" \in PriceFields
    BY DEF Text, PriceFields
  <1>3. /\ p \in [type : {"price_field"}, field : Text, barsAgo : Int]
        /\ p.type = "price_field" /\ p.field = "close" /\ p.barsAgo = o.barsAgo
    BY <1>1, <1>2
  <1> HIDE DEF p
  <1>4. p \in Operands
    BY <1>3 DEF Operands
  <1>5. OperandCodes(p) \subseteq OperandCodes(o)
    BY <1>2, <1>3 DEF OperandCodes, One
  <1> QED BY <1>4, <1>5 DEF p

\* What is at a place.
LEMMA OperandsThere ==
  ASSUME NEW s \in Definitions, NEW k, NEW g, NEW r, NEW e, IsPlace(s, k, g, r, e)
  PROVE  s.groups[k][g][r].operands[e] \in Operands
  <1>1. s.groups[k][g][r] \in Rules
    BY RulesThere DEF IsPlace
  <1> QED BY <1>1 DEF Rules, IsPlace

\* The fixes of operands keep the codes, whichever operand they find.
LEMMA FixOutputKeeps ==
  ASSUME NEW s \in Definitions, NEW kind, NEW output, NEW code
  PROVE  Keeps(s, FixOutput(s, kind, output).strategy, code)
  <1> DEFINE places == Places(s)
             old(n) == s.groups[places[n][1]][places[n][2]][places[n][3]].operands[places[n][4]]
             I == {n \in 1 .. Len(places) : IsIndicator(old(n)) /\ old(n).indicator = kind /\ old(n).output = output}
  <1>1. CASE I = {}
    <2>1. FixOutput(s, kind, output).strategy = s
      BY <1>1 DEF FixOutput, FixFirst, SelectInSeq, Fix, RuleAt
    <2> QED BY <2>1, NothingKeeps
  <1>2. CASE I # {}
    <2> DEFINE at == places[Min(I)]
               o == s.groups[at[1]][at[2]][at[3]].operands[at[4]]
               p == [o EXCEPT !.output = DefaultOutput(kind)]
    <2>1. Min(I) \in I /\ Min(I) # 0
      <3>1. Len(places) \in Nat /\ I \subseteq 1 .. Len(places)
        BY PlacesAre
      <3> HIDE DEF I, places
      <3> QED BY <1>2, <3>1, FirstIsOne
    <2>2. IsIndicator(o) /\ o.indicator = kind /\ o.output = output
      BY <2>1
    <2>3. FixOutput(s, kind, output).strategy = [s EXCEPT !.groups[at[1]][at[2]][at[3]].operands[at[4]] = p]
      BY <1>2, <2>1 DEF FixOutput, FixFirst, SelectInSeq, Fix, RuleAt
    <2> HIDE DEF at, I, places
    <2>4. ASSUME IsPlace(s, at[1], at[2], at[3], at[4])
          PROVE  p \in Operands /\ OperandCodes(p) \subseteq OperandCodes(o)
      <3>1. o \in IndicatorOperands
        BY <2>2, <2>4, OperandsThere, IndicatorsAre
      <3> HIDE DEF o
      <3> QED BY <2>2, <3>1, OutputKeeps
    <2> HIDE DEF p
    <2>5. Keeps(s, [s EXCEPT !.groups[at[1]][at[2]][at[3]].operands[at[4]] = p], code)
      BY <2>4, OperandKeeps
    <2> QED BY <2>3, <2>5
  <1> QED BY <1>1, <1>2

\* So does that of an unknown indicator,
LEMMA FixIndicatorKeeps ==
  ASSUME NEW s \in Definitions, NEW kind, NEW code
  PROVE  Keeps(s, FixIndicator(s, kind).strategy, code)
  <1> DEFINE places == Places(s)
             old(n) == s.groups[places[n][1]][places[n][2]][places[n][3]].operands[places[n][4]]
             I == {n \in 1 .. Len(places) : IsIndicator(old(n)) /\ old(n).indicator = kind}
  <1>1. CASE I = {}
    <2>1. FixIndicator(s, kind).strategy = s
      BY <1>1 DEF FixIndicator, FixFirst, SelectInSeq, Fix, RuleAt
    <2> QED BY <2>1, NothingKeeps
  <1>2. CASE I # {}
    <2> DEFINE at == places[Min(I)]
               o == s.groups[at[1]][at[2]][at[3]].operands[at[4]]
               p == Replaced(o)
    <2>1. Min(I) \in I /\ Min(I) # 0
      <3>1. Len(places) \in Nat /\ I \subseteq 1 .. Len(places)
        BY PlacesAre
      <3> HIDE DEF I, places
      <3> QED BY <1>2, <3>1, FirstIsOne
    <2>2. IsIndicator(o) /\ o.indicator = kind
      BY <2>1
    <2>3. FixIndicator(s, kind).strategy = [s EXCEPT !.groups[at[1]][at[2]][at[3]].operands[at[4]] = p]
      BY <1>2, <2>1 DEF FixIndicator, FixFirst, SelectInSeq, Fix, RuleAt
    <2> HIDE DEF at, I, places
    <2>4. ASSUME IsPlace(s, at[1], at[2], at[3], at[4])
          PROVE  p \in Operands /\ OperandCodes(p) \subseteq OperandCodes(o)
      <3>1. o \in IndicatorOperands
        BY <2>2, <2>4, OperandsThere, IndicatorsAre
      <3> HIDE DEF o
      <3> QED BY <2>2, <3>1, ReplacedKeeps
    <2> HIDE DEF p
    <2>5. Keeps(s, [s EXCEPT !.groups[at[1]][at[2]][at[3]].operands[at[4]] = p], code)
      BY <2>4, OperandKeeps
    <2> QED BY <2>3, <2>5
  <1> QED BY <1>1, <1>2

\* that of a missing parameter,
LEMMA FixMissingParamKeeps ==
  ASSUME NEW s \in Definitions, NEW name, NEW code
  PROVE  Keeps(s, FixMissingParam(s, name).strategy, code)
  <1> DEFINE places == Places(s)
             old(n) == s.groups[places[n][1]][places[n][2]][places[n][3]].operands[places[n][4]]
             I == {n \in 1 .. Len(places) : IsIndicator(old(n)) /\ old(n).indicator \in DOMAIN Catalog
                                           /\ name \in DOMAIN Catalog[old(n).indicator].params}
  <1>1. CASE I = {}
    <2>1. FixMissingParam(s, name).strategy = s
      BY <1>1 DEF FixMissingParam, FixFirst, SelectInSeq, Fix, RuleAt
    <2> QED BY <2>1, NothingKeeps
  <1>2. CASE I # {}
    <2> DEFINE at == places[Min(I)]
               o == s.groups[at[1]][at[2]][at[3]].operands[at[4]]
               p == WithDefault(o, name)
    <2>1. Min(I) \in I /\ Min(I) # 0
      <3>1. Len(places) \in Nat /\ I \subseteq 1 .. Len(places)
        BY PlacesAre
      <3> HIDE DEF I, places
      <3> QED BY <1>2, <3>1, FirstIsOne
    <2>2. IsIndicator(o) /\ o.indicator \in DOMAIN Catalog
                                           /\ name \in DOMAIN Catalog[o.indicator].params
      BY <2>1
    <2>3. FixMissingParam(s, name).strategy = [s EXCEPT !.groups[at[1]][at[2]][at[3]].operands[at[4]] = p]
      BY <1>2, <2>1 DEF FixMissingParam, FixFirst, SelectInSeq, Fix, RuleAt
    <2> HIDE DEF at, I, places
    <2>4. ASSUME IsPlace(s, at[1], at[2], at[3], at[4])
          PROVE  p \in Operands /\ OperandCodes(p) \subseteq OperandCodes(o)
      <3>1. o \in IndicatorOperands
        BY <2>2, <2>4, OperandsThere, IndicatorsAre
      <3> HIDE DEF o
      <3> QED BY <2>2, <3>1, MissingParamKeeps, KindsAre
    <2> HIDE DEF p
    <2>5. Keeps(s, [s EXCEPT !.groups[at[1]][at[2]][at[3]].operands[at[4]] = p], code)
      BY <2>4, OperandKeeps
    <2> QED BY <2>3, <2>5
  <1> QED BY <1>1, <1>2

\* that of a parameter out of its range,
LEMMA FixParamKeeps ==
  ASSUME NEW s \in Definitions, NEW name, NEW code
  PROVE  Keeps(s, FixParam(s, name).strategy, code)
  <1> DEFINE places == Places(s)
             old(n) == s.groups[places[n][1]][places[n][2]][places[n][3]].operands[places[n][4]]
             I == {n \in 1 .. Len(places) : IsIndicator(old(n)) /\ name \in DOMAIN old(n).params
                                           /\ old(n).params[name] \notin LowestParam(name) .. HighestParam(name)}
  <1>1. CASE I = {}
    <2>1. FixParam(s, name).strategy = s
      BY <1>1 DEF FixParam, FixFirst, SelectInSeq, Fix, RuleAt
    <2> QED BY <2>1, NothingKeeps
  <1>2. CASE I # {}
    <2> DEFINE at == places[Min(I)]
               o == s.groups[at[1]][at[2]][at[3]].operands[at[4]]
               p == Clamped(o, name)
    <2>1. Min(I) \in I /\ Min(I) # 0
      <3>1. Len(places) \in Nat /\ I \subseteq 1 .. Len(places)
        BY PlacesAre
      <3> HIDE DEF I, places
      <3> QED BY <1>2, <3>1, FirstIsOne
    <2>2. IsIndicator(o) /\ name \in DOMAIN o.params
                                           /\ o.params[name] \notin LowestParam(name) .. HighestParam(name)
      BY <2>1
    <2>3. FixParam(s, name).strategy = [s EXCEPT !.groups[at[1]][at[2]][at[3]].operands[at[4]] = p]
      BY <1>2, <2>1 DEF FixParam, FixFirst, SelectInSeq, Fix, RuleAt
    <2> HIDE DEF at, I, places
    <2>4. ASSUME IsPlace(s, at[1], at[2], at[3], at[4])
          PROVE  p \in Operands /\ OperandCodes(p) \subseteq OperandCodes(o)
      <3>1. o \in IndicatorOperands
        BY <2>2, <2>4, OperandsThere, IndicatorsAre
      <3> HIDE DEF o
      <3> QED BY <2>2, <3>1, ClampedKeeps
    <2> HIDE DEF p
    <2>5. Keeps(s, [s EXCEPT !.groups[at[1]][at[2]][at[3]].operands[at[4]] = p], code)
      BY <2>4, OperandKeeps
    <2> QED BY <2>3, <2>5
  <1> QED BY <1>1, <1>2

\* that of a price,
LEMMA FixPriceFieldKeeps ==
  ASSUME NEW s \in Definitions, NEW code
  PROVE  Keeps(s, FixPriceField(s).strategy, code)
  <1> DEFINE places == Places(s)
             old(n) == s.groups[places[n][1]][places[n][2]][places[n][3]].operands[places[n][4]]
             I == {n \in 1 .. Len(places) : old(n).type = "price_field"
                                           /\ old(n).field \notin {"open", "high", "low", "close", "volume"}}
  <1>1. CASE I = {}
    <2>1. FixPriceField(s).strategy = s
      BY <1>1 DEF FixPriceField, FixFirst, SelectInSeq, Fix, RuleAt
    <2> QED BY <2>1, NothingKeeps
  <1>2. CASE I # {}
    <2> DEFINE at == places[Min(I)]
               o == s.groups[at[1]][at[2]][at[3]].operands[at[4]]
               p == [o EXCEPT !.field = "close"]
    <2>1. Min(I) \in I /\ Min(I) # 0
      <3>1. Len(places) \in Nat /\ I \subseteq 1 .. Len(places)
        BY PlacesAre
      <3> HIDE DEF I, places
      <3> QED BY <1>2, <3>1, FirstIsOne
    <2>2. o.type = "price_field"
                                           /\ o.field \notin {"open", "high", "low", "close", "volume"}
      BY <2>1
    <2>3. FixPriceField(s).strategy = [s EXCEPT !.groups[at[1]][at[2]][at[3]].operands[at[4]] = p]
      BY <1>2, <2>1 DEF FixPriceField, FixFirst, SelectInSeq, Fix, RuleAt
    <2> HIDE DEF at, I, places
    <2>4. ASSUME IsPlace(s, at[1], at[2], at[3], at[4])
          PROVE  p \in Operands /\ OperandCodes(p) \subseteq OperandCodes(o)
      <3>1. o \in Operands
        BY <2>2, <2>4, OperandsThere
      <3> HIDE DEF o
      <3> QED BY <2>2, <3>1, PriceKeeps
    <2> HIDE DEF p
    <2>5. Keeps(s, [s EXCEPT !.groups[at[1]][at[2]][at[3]].operands[at[4]] = p], code)
      BY <2>4, OperandKeeps
    <2> QED BY <2>3, <2>5
  <1> QED BY <1>1, <1>2

\* and that of an operator.
LEMMA FixOperatorKeeps ==
  ASSUME NEW s \in Definitions, NEW operator, NEW code
  PROVE  Keeps(s, FixOperator(s, operator).strategy, code)
  <1> DEFINE places == Places(s)
             first == SelectInSeq(places, LAMBDA place : RuleAt(s, place).operator = operator)
             at == places[first]
             t == [s EXCEPT !.groups[at[1]][at[2]][at[3]].operator = "crosses_above"]
  <1>1. FixOperator(s, operator).strategy = s \/ FixOperator(s, operator).strategy = t
    BY DEF FixOperator, Fix
  <1>2. Keeps(s, t, code)
    <2> HIDE DEF at
    <2>1. "crosses_above" \in Operators
      BY DEF Operators
    <2> QED BY <2>1, OperatorKeeps
  <1> QED BY <1>1, <1>2, NothingKeeps

-----------------------------------------------------------------------------
(* The other fixes. *)

\* The groups for one purpose become others that have no new issue.
LEMMA GroupsKeep ==
  ASSUME NEW s \in Definitions, NEW k, NEW new, NEW code,
         k \in 1 .. 4 => /\ new \in Seq(Seq(Rules))
                         /\ GroupsCodes(new) \subseteq GroupsCodes(s.groups[k])
  PROVE  Keeps(s, [s EXCEPT !.groups[k] = new], code)
  <1> DEFINE all == [s.groups EXCEPT ![k] = new]
             t == [s EXCEPT !.groups = all]
  <1>1. s.groups \in [1 .. 4 -> Seq(Seq(Rules))]
    BY DEF Definitions
  <1>2. all \in [1 .. 4 -> Seq(Seq(Rules))]
        /\ \A n \in 1 .. 4 : all[n] = IF n = k THEN new ELSE s.groups[n]
    BY <1>1
  <1> HIDE DEF all
  <1>3. /\ t \in Definitions /\ t.groups = all /\ t.engine = s.engine
        /\ t.market = s.market /\ t.timeframe = s.timeframe /\ t.sides = s.sides
        /\ t.sizing = s.sizing /\ t.costs = s.costs /\ t.risk = s.risk
    BY <1>2 DEF Definitions
  <1> HIDE DEF t
  <1>4. SettingCodes(t) \subseteq SettingCodes(s) \cup {code}
    BY <1>3 DEF SettingCodes
  <1>5. \A n \in 1 .. 4 : GroupsCodes(t.groups[n]) \subseteq GroupsCodes(s.groups[n])
    BY <1>2, <1>3
  <1>6. Keeps(s, t, code)
    BY <1>3, <1>4, <1>5, PartsKeep
  <1> QED BY <1>6 DEF t, all

\* Rules in their places become others that have no new issue.
LEMMA RulewiseKeeps ==
  ASSUME NEW groups \in Seq(Seq(Rules)), NEW new \in Seq(Seq(Rules)), Len(new) = Len(groups),
         \A g \in DOMAIN groups :
             /\ Len(new[g]) = Len(groups[g])
             /\ \A r \in DOMAIN groups[g] : RuleCodes(new[g][r]) \subseteq RuleCodes(groups[g][r])
  PROVE  GroupsCodes(new) \subseteq GroupsCodes(groups)
  <1>1. DOMAIN new = DOMAIN groups
    OBVIOUS
  <1>2. ASSUME NEW g \in DOMAIN groups
        PROVE  GroupCodes(new[g]) \subseteq GroupCodes(groups[g])
    <2>1. new[g] \in Seq(Rules) /\ groups[g] \in Seq(Rules)
      BY <1>1
    <2>2. DOMAIN new[g] = DOMAIN groups[g]
      BY <2>1
    <2>3. (UNION {RuleCodes(new[g][r]) : r \in DOMAIN new[g]})
          \subseteq (UNION {RuleCodes(groups[g][r]) : r \in DOMAIN groups[g]})
      BY <2>2
    <2> QED BY <2>3 DEF GroupCodes
  <1>3. (UNION {GroupCodes(new[g]) : g \in DOMAIN new})
        \subseteq (UNION {GroupCodes(groups[g]) : g \in DOMAIN groups})
    BY <1>1, <1>2
  <1> QED BY <1>3 DEF GroupsCodes

\* The EMAs that fixes and candidates make.
LEMMA EmaIsOperand ==
  ASSUME NEW period \in Int
  PROVE  Ema(period) \in Operands
  <1>1. [period |-> 10 * period] \in Params
    <2> DEFINE p == [period |-> 10 * period]
    <2>1. p \in [DOMAIN p -> Int]
      OBVIOUS
    <2>2. DOMAIN p \subseteq ToSet(ParamNames)
      BY DEF ToSet, ParamNames
    <2> HIDE DEF p
    <2>3. p \in Params
      BY <2>1, <2>2, ParamsAre
    <2> QED BY <2>3 DEF p
  <1>2. {"ema", "value", "none"} \subseteq Text
    BY DEF Text
  <1> QED BY <1>1, <1>2 DEF Ema, Indicator, Operands

\* They have no issue when their period is one the catalog allows.
LEMMA EmaIsFine ==
  ASSUME NEW period \in 1 .. 400
  PROVE  OperandCodes(Ema(period)) = {}
  <1> DEFINE o == Ema(period)
  <1>1. /\ o.type = "indicator_output" /\ o.indicator = "ema" /\ o.output = "value"
        /\ o.params = [period |-> 10 * period] /\ o.source = "none" /\ o.barsAgo = 0
    BY DEF Ema, Indicator
  <1> HIDE DEF o
  <1>2. /\ Catalog["ema"].outputs = {"value"}
        /\ Catalog["ema"].params = [period |-> [default |-> 200, min |-> 10, max |-> 4000]]
    BY DEF Catalog, Entry, Whole
  <1>3. "ema" \in DOMAIN Catalog
    BY KindsAre DEF Kinds
  <1>4. ASSUME NEW name PROVE ParamCodes(o, name) = {}
    <2>1. CASE name = "period"
      BY <1>1, <1>2, <2>1 DEF ParamCodes, One
    <2>2. CASE name # "period"
      BY <1>1, <1>2, <2>2 DEF ParamCodes
    <2> QED BY <2>1, <2>2
  <1>5. UNION {ParamCodes(o, ParamNames[n]) : n \in 1 .. 8} = {}
    BY <1>4
  <1>6. IndicatorCodes(o) = {}
    BY <1>1, <1>2, <1>3, <1>5 DEF IndicatorCodes, One
  <1>7. OperandCodes(o) = {}
    BY <1>1, <1>6 DEF OperandCodes, One, MaxIndicatorLookback
  <1> QED BY <1>7 DEF o

\* Nor has a crossing of the two usual ones.
LEMMA CrossIsFine ==
  ASSUME NEW operator \in Operators
  PROVE  EmaCross(operator) \in Rules /\ RuleCodes(EmaCross(operator)) = {}
  <1>1. Ema(9) \in Operands /\ Ema(21) \in Operands
    BY EmaIsOperand
  <1>2. OperandCodes(Ema(9)) = {} /\ OperandCodes(Ema(21)) = {}
    BY EmaIsFine
  <1> DEFINE rule == EmaCross(operator)
  <1>3. rule = [operator |-> operator, operands |-> <<Ema(9), Ema(21)>>]
    BY DEF EmaCross, Rule
  <1> HIDE DEF rule
  <1>4. operator \in Text
    BY DEF Text
  <1>5. rule \in Rules
    <2>1. <<Ema(9), Ema(21)>> \in [1 .. 2 -> Operands]
      BY <1>1
    <2> QED BY <1>3, <1>4, <2>1 DEF Rules
  <1>6. RuleCodes(rule) = {}
    <2>1. \A n \in 1 .. 2 : OperandCodes(rule.operands[n]) = {}
      BY <1>2, <1>3
    <2>2. UNION {OperandCodes(rule.operands[n]) : n \in 1 .. 2} = {}
      BY <2>1
    <2> QED BY <1>3, <2>2 DEF RuleCodes, One
  <1> QED BY <1>5, <1>6 DEF rule

\* A side gets a crossing.
LEMMA FixMissingEntryRulesKeeps ==
  ASSUME NEW s \in Definitions, NEW side, NEW code
  PROVE  Keeps(s, FixMissingEntryRules(s, side).strategy, code)
  <1> DEFINE k == EntryOf[side]
             groups == s.groups[k]
             cross == <<EmaCross("crosses_above")>>
             new == IF groups = <<>> THEN <<cross>>
                    ELSE IF groups[1] = <<>> THEN [groups EXCEPT ![1] = cross]
                    ELSE groups
  <1>1. FixMissingEntryRules(s, side).strategy = [s EXCEPT !.groups[k] = new]
    BY DEF FixMissingEntryRules, Fix
  <1>2. ASSUME k \in 1 .. 4
        PROVE  new \in Seq(Seq(Rules)) /\ GroupsCodes(new) \subseteq GroupsCodes(groups)
    <2>1. groups \in Seq(Seq(Rules))
      BY <1>2 DEF Definitions
    <2>2. cross \in Seq(Rules) /\ GroupCodes(cross) = {}
      <3>1. "crosses_above" \in Operators
        BY DEF Operators
      <3>2. EmaCross("crosses_above") \in Rules /\ RuleCodes(EmaCross("crosses_above")) = {}
        BY <3>1, CrossIsFine
      <3>3. UNION {RuleCodes(cross[r]) : r \in DOMAIN cross} = {}
        BY <3>2
      <3>4. Len(cross) = 1
        OBVIOUS
      <3> QED BY <3>2, <3>3, <3>4, RuleLimits DEF GroupCodes, One
    <2> HIDE DEF cross, groups
    <2>3. CASE groups = <<>>
      <3>1. new = <<cross>> /\ Len(new) = 1 /\ DOMAIN new = {1} /\ new[1] = cross
        BY <2>3
      <3>2. new \in Seq(Seq(Rules))
        BY <2>2, <2>3
      <3> HIDE DEF new
      <3>3. UNION {GroupCodes(new[g]) : g \in DOMAIN new} = {}
        BY <2>2, <3>1
      <3>4. GroupsCodes(new) = {}
        BY <3>1, <3>3, RuleLimits DEF GroupsCodes, One
      <3> QED BY <3>2, <3>4
    <2>4. CASE groups # <<>> /\ groups[1] = <<>>
      <3>1. /\ new = [groups EXCEPT ![1] = cross] /\ 1 \in DOMAIN groups
        BY <2>1, <2>4
      <3> HIDE DEF new
      <3>2. /\ new \in Seq(Seq(Rules)) /\ Len(new) = Len(groups) /\ DOMAIN new = DOMAIN groups
            /\ new[1] = cross /\ \A g \in DOMAIN groups : g # 1 => new[g] = groups[g]
        BY <2>1, <2>2, <3>1
      <3>3. \A g \in DOMAIN groups : GroupCodes(new[g]) \subseteq GroupCodes(groups[g])
        BY <2>2, <3>2
      <3> QED BY <3>2, <3>3 DEF GroupsCodes
    <2>5. CASE groups # <<>> /\ groups[1] # <<>>
      BY <2>1, <2>5
    <2> QED BY <2>3, <2>4, <2>5
  <1> HIDE DEF new, k
  <1>3. Keeps(s, [s EXCEPT !.groups[k] = new], code)
    BY <1>2, GroupsKeep
  <1> QED BY <1>1, <1>3

\* The groups that are left are some of those there were.
LEMMA FixTooManyGroupsKeeps ==
  ASSUME NEW s \in Definitions, NEW k, NEW code
  PROVE  Keeps(s, FixTooManyGroups(s, k).strategy, code)
  <1> DEFINE groups == s.groups[k]
             new == SubSeq(groups, 1, MaxRuleGroupsPerSide)
  <1>1. CASE Len(groups) > MaxRuleGroupsPerSide
    <2>1. FixTooManyGroups(s, k).strategy = [s EXCEPT !.groups[k] = new]
      BY <1>1 DEF FixTooManyGroups, Fix
    <2>2. ASSUME k \in 1 .. 4
          PROVE  new \in Seq(Seq(Rules)) /\ GroupsCodes(new) \subseteq GroupsCodes(groups)
      <3>1. groups \in Seq(Seq(Rules))
        BY <2>2 DEF Definitions
      <3> HIDE DEF groups
      <3>2. /\ new \in Seq(Seq(Rules)) /\ Len(new) = MaxRuleGroupsPerSide
            /\ DOMAIN new = 1 .. MaxRuleGroupsPerSide
            /\ \A g \in 1 .. MaxRuleGroupsPerSide : g \in DOMAIN groups /\ new[g] = groups[g]
        BY <1>1, <3>1, RuleLimits
      <3> HIDE DEF new
      <3> QED BY <3>2, RuleLimits DEF GroupsCodes, One
    <2> HIDE DEF new
    <2>3. Keeps(s, [s EXCEPT !.groups[k] = new], code)
      BY <2>2, GroupsKeep
    <2> QED BY <2>1, <2>3
  <1>2. CASE ~(Len(groups) > MaxRuleGroupsPerSide)
    <2>1. FixTooManyGroups(s, k).strategy = s
      BY <1>2 DEF FixTooManyGroups, Fix
    <2> QED BY <2>1, NothingKeeps
  <1> QED BY <1>1, <1>2

\* Both operators of crossings are known.
LEMMA InvertedIsFine ==
  ASSUME NEW rule \in Rules
  PROVE  LET new == [rule EXCEPT !.operator = InvertOperator(@)]
         IN  new \in Rules /\ RuleCodes(new) \subseteq RuleCodes(rule)
  <1> DEFINE new == [rule EXCEPT !.operator = InvertOperator(@)]
  <1>1. InvertOperator(rule.operator) \in Operators
    BY DEF InvertOperator, Operators
  <1>2. InvertOperator(rule.operator) \in Text
    BY <1>1 DEF Text
  <1>3. /\ new \in Rules /\ new.operator \in Operators
        /\ new.operands = rule.operands
    BY <1>1, <1>2 DEF Rules
  <1> HIDE DEF new
  <1>4. RuleCodes(new) \subseteq RuleCodes(rule)
    BY <1>3 DEF RuleCodes, One
  <1> QED BY <1>3, <1>4 DEF new

\* Short rules are inverted.
LEMMA FixAmbiguousEntriesKeeps ==
  ASSUME NEW s \in Definitions, NEW code
  PROVE  Keeps(s, FixAmbiguousEntries(s).strategy, code)
  <1> DEFINE long == s.groups[1]
             short == s.groups[2]
             same(g, r) == /\ g \in DOMAIN long
                           /\ Len(long[g]) = Len(short[g])
                           /\ long[g][r] = short[g][r]
                           /\ short[g][r].operator \in {"crosses_above", "crosses_below"}
             inverted(rule) == [rule EXCEPT !.operator = InvertOperator(@)]
             ruleAt(g, r) == IF same(g, r) THEN inverted(short[g][r]) ELSE short[g][r]
             group(g) == [r \in DOMAIN short[g] |-> ruleAt(g, r)]
             new == [g \in DOMAIN short |-> group(g)]
  <1>1. FixAmbiguousEntries(s).strategy = [s EXCEPT !.groups[2] = new]
    BY DEF FixAmbiguousEntries, Fix
  <1>2. short \in Seq(Seq(Rules))
    BY DEF Definitions
  <1> HIDE DEF long, short
  <1>3. \A rule \in Rules : inverted(rule) \in Rules /\ RuleCodes(inverted(rule)) \subseteq RuleCodes(rule)
    BY InvertedIsFine
  <1> HIDE DEF same, inverted
  <1>4. ASSUME NEW g \in DOMAIN short
        PROVE  /\ group(g) \in Seq(Rules) /\ Len(group(g)) = Len(short[g])
               /\ \A r \in DOMAIN short[g] : RuleCodes(group(g)[r]) \subseteq RuleCodes(short[g][r])
    <2>1. short[g] \in Seq(Rules)
      BY <1>2
    <2>2. ASSUME NEW r \in DOMAIN short[g]
          PROVE  ruleAt(g, r) \in Rules /\ RuleCodes(ruleAt(g, r)) \subseteq RuleCodes(short[g][r])
      <3>1. short[g][r] \in Rules
        BY <2>1
      <3> QED BY <1>3, <3>1
    <2> HIDE DEF ruleAt
    <2>3. DOMAIN short[g] = 1 .. Len(short[g]) /\ Len(short[g]) \in Nat
      BY <2>1
    <2> QED BY <2>2, <2>3
  <1> HIDE DEF group
  <1>5. new \in Seq(Seq(Rules)) /\ Len(new) = Len(short)
        /\ \A g \in DOMAIN short : new[g] = group(g)
    BY <1>2, <1>4
  <1> HIDE DEF new
  <1>6. GroupsCodes(new) \subseteq GroupsCodes(short)
    BY <1>2, <1>4, <1>5, RulewiseKeeps
  <1>7. Keeps(s, [s EXCEPT !.groups[2] = new], code)
    BY <1>5, <1>6, GroupsKeep DEF short
  <1> QED BY <1>1, <1>7

\* The settings have the risks' issues only if a limit is not positive.
LEMMA FixRiskKeeps ==
  ASSUME NEW s \in Definitions, NEW key
  PROVE  Keeps(s, FixRisk(s, key).strategy, "invalid_risk")
  <1> DEFINE risk == [s.risk EXCEPT ![key] = EmptyDraft.risk[key]]
             t == [s EXCEPT !.risk = risk]
  <1>1. FixRisk(s, key).strategy = t
    BY DEF FixRisk, Fix
  <1>2. PICK keys \in SUBSET ToSet(RiskKeys) : s.risk \in [keys -> Int]
    BY DEF Definitions
  <1>3. \A any \in ToSet(RiskKeys) : EmptyDraft.risk[any] \in Int
    <2>1. ToSet(RiskKeys) = {"stopLossPct", "takeProfitPct", "trailingStopPct", "maxBarsInTrade"}
      BY DEF ToSet, RiskKeys
    <2>2. EmptyDraft.risk = [stopLossPct |-> 2, takeProfitPct |-> 4, trailingStopPct |-> 1,
                             maxBarsInTrade |-> 40]
      BY DEF EmptyDraft
    <2> QED BY <2>1, <2>2
  <1>4. risk \in [keys -> Int]
    BY <1>2, <1>3
  <1> HIDE DEF risk
  <1>5. t \in Definitions /\ t.engine = s.engine /\ t.groups = s.groups
        /\ t.market = s.market /\ t.timeframe = s.timeframe /\ t.sides = s.sides
        /\ t.sizing = s.sizing /\ t.costs = s.costs
    BY <1>4 DEF Definitions
  <1> HIDE DEF t
  <1>6. RiskCodes(t.risk) \subseteq {"invalid_risk"}
    BY DEF RiskCodes, One
  <1>7. SettingCodes(t) \subseteq SettingCodes(s) \cup {"invalid_risk"}
    BY <1>5, <1>6 DEF SettingCodes
  <1>8. Keeps(s, t, "invalid_risk")
    BY <1>5, <1>7, SettingsKeep
  <1> QED BY <1>1, <1>8

\* A quarter of the equity is a size.
LEMMA FixSizingKeeps ==
  ASSUME NEW s \in Definitions, NEW code
  PROVE  Keeps(s, FixSizing(s).strategy, code)
  <1> DEFINE quarter == [mode |-> "percent_of_equity", value |-> 25]
             t == [s EXCEPT !.sizing = quarter]
  <1>1. FixSizing(s).strategy = s \/ FixSizing(s).strategy = t
    BY DEF FixSizing, Fix
  <1>2. quarter \in [mode : Text, value : Int]
    BY DEF Text
  <1>3. t \in Definitions /\ t.engine = s.engine /\ t.groups = s.groups
        /\ t.market = s.market /\ t.timeframe = s.timeframe /\ t.sides = s.sides
        /\ t.sizing = quarter /\ t.costs = s.costs /\ t.risk = s.risk
    BY <1>2 DEF Definitions
  <1> HIDE DEF t
  <1>4. SettingCodes(t) \subseteq SettingCodes(s) \cup {code}
    BY <1>3 DEF SettingCodes, One
  <1>5. Keeps(s, t, code)
    BY <1>3, <1>4, SettingsKeep
  <1> QED BY <1>1, <1>5, NothingKeeps

\* Costs that are wrong become the usual ones.
LEMMA FixCostsKeeps ==
  ASSUME NEW s \in Definitions, NEW code
  PROVE  Keeps(s, FixCosts(s).strategy, code)
  <1> DEFINE fixed == [feeBps |-> IF s.costs.feeBps < 0 THEN 10 ELSE s.costs.feeBps,
                       slippageBps |-> IF s.costs.slippageBps < 0 THEN 5 ELSE s.costs.slippageBps,
                       startingEquity |-> IF s.costs.startingEquity <= 0 THEN 10000
                                          ELSE s.costs.startingEquity]
             t == [s EXCEPT !.costs = fixed]
  <1>1. FixCosts(s).strategy = t
    BY DEF FixCosts, Fix
  <1>2. s.costs \in [feeBps : Int, slippageBps : Int, startingEquity : Int]
    BY DEF Definitions
  <1>3. /\ fixed \in [feeBps : Int, slippageBps : Int, startingEquity : Int]
        /\ ~(fixed.feeBps < 0) /\ ~(fixed.slippageBps < 0) /\ ~(fixed.startingEquity <= 0)
    BY <1>2
  <1> HIDE DEF fixed
  <1>4. t \in Definitions /\ t.engine = s.engine /\ t.groups = s.groups
        /\ t.market = s.market /\ t.timeframe = s.timeframe /\ t.sides = s.sides
        /\ t.sizing = s.sizing /\ t.costs = fixed /\ t.risk = s.risk
    BY <1>3 DEF Definitions
  <1> HIDE DEF t
  <1>5. SettingCodes(t) \subseteq SettingCodes(s) \cup {code}
    BY <1>3, <1>4 DEF SettingCodes, One
  <1>6. Keeps(s, t, code)
    BY <1>4, <1>5, SettingsKeep
  <1> QED BY <1>1, <1>6

\* The market of the run may be unknown too, but then the old one was an issue.
LEMMA FixMarketKeeps ==
  ASSUME NEW s \in Definitions, NEW market \in Text
  PROVE  Keeps(s, FixMarket(s, market).strategy, "invalid_market")
  <1> DEFINE t == [s EXCEPT !.market = market]
  <1>1. FixMarket(s, market).strategy = s \/ FixMarket(s, market).strategy = t
    BY DEF FixMarket, Fix
  <1>2. t \in Definitions /\ t.engine = s.engine /\ t.groups = s.groups
        /\ t.timeframe = s.timeframe /\ t.sides = s.sides
        /\ t.sizing = s.sizing /\ t.costs = s.costs /\ t.risk = s.risk
    BY DEF Definitions
  <1> HIDE DEF t
  <1>3. SettingCodes(t) \subseteq SettingCodes(s) \cup {"invalid_market"}
    BY <1>2 DEF SettingCodes, One
  <1>4. Keeps(s, t, "invalid_market")
    BY <1>2, <1>3, SettingsKeep
  <1> QED BY <1>1, <1>4, NothingKeeps

\* The timeframe becomes a known one.
LEMMA FixTimeframeKeeps ==
  ASSUME NEW s \in Definitions, NEW code
  PROVE  Keeps(s, [s EXCEPT !.timeframe = "15m"], code)
  <1> DEFINE t == [s EXCEPT !.timeframe = "15m"]
  <1>1. "15m" \in Timeframes /\ "15m" \in Text
    BY DEF Timeframes, Text
  <1>2. t \in Definitions /\ t.engine = s.engine /\ t.groups = s.groups
        /\ t.market = s.market /\ t.timeframe = "15m" /\ t.sides = s.sides
        /\ t.sizing = s.sizing /\ t.costs = s.costs /\ t.risk = s.risk
    BY <1>1 DEF Definitions
  <1> HIDE DEF t
  <1>3. SettingCodes(t) \subseteq SettingCodes(s) \cup {code}
    BY <1>1, <1>2 DEF SettingCodes, One
  <1>4. Keeps(s, t, code)
    BY <1>2, <1>3, SettingsKeep
  <1> QED BY <1>4 DEF t

\* Both sides are some.
LEMMA FixSidesKeeps ==
  ASSUME NEW s \in Definitions, NEW code
  PROVE  Keeps(s, [s EXCEPT !.sides = {"long", "short"}], code)
  <1> DEFINE t == [s EXCEPT !.sides = {"long", "short"}]
  <1>1. t \in Definitions /\ t.engine = s.engine /\ t.groups = s.groups
        /\ t.market = s.market /\ t.timeframe = s.timeframe /\ t.sides # {}
        /\ t.sizing = s.sizing /\ t.costs = s.costs /\ t.risk = s.risk
    BY DEF Definitions
  <1> HIDE DEF t
  <1>2. SettingCodes(t) \subseteq SettingCodes(s) \cup {code}
    BY <1>1 DEF SettingCodes, One
  <1>3. Keeps(s, t, code)
    BY <1>1, <1>2, SettingsKeep
  <1> QED BY <1>3 DEF t

\* The fix of any issue keeps the others away.
LEMMA FixKeeps ==
  ASSUME NEW s \in Definitions, NEW issue, NEW market \in Text
  PROVE  Keeps(s, FixIssue(s, issue, market).strategy, issue.code)
  <1> DEFINE code == issue.code
             known == {"missing_entry_rules", "missing_indicator_param", "indicator_param_low",
                       "indicator_param_high", "invalid_indicator", "invalid_indicator_output",
                       "invalid_operator", "invalid_sizing", "percent_above_limit",
                       "invalid_costs", "invalid_starting_equity", "invalid_risk",
                       "invalid_timeframe", "invalid_market", "too_many_groups",
                       "invalid_price_field", "missing_side", "ambiguous_dual_side_entries"}
  <1>1. CASE code = "missing_entry_rules"
    BY <1>1, FixMissingEntryRulesKeeps DEF FixIssue
  <1>2. CASE code = "missing_indicator_param"
    BY <1>2, FixMissingParamKeeps DEF FixIssue
  <1>3. CASE code \in {"indicator_param_low", "indicator_param_high"}
    BY <1>3, FixParamKeeps DEF FixIssue
  <1>4. CASE code = "invalid_indicator"
    BY <1>4, FixIndicatorKeeps DEF FixIssue
  <1>5. CASE code = "invalid_indicator_output"
    BY <1>5, FixOutputKeeps DEF FixIssue
  <1>6. CASE code = "invalid_operator"
    BY <1>6, FixOperatorKeeps DEF FixIssue
  <1>7. CASE code \in {"invalid_sizing", "percent_above_limit"}
    BY <1>7, FixSizingKeeps DEF FixIssue
  <1>8. CASE code \in {"invalid_costs", "invalid_starting_equity"}
    BY <1>8, FixCostsKeeps DEF FixIssue
  <1>9. CASE code = "invalid_risk"
    BY <1>9, FixRiskKeeps DEF FixIssue
  <1>10. CASE code = "invalid_timeframe"
    <2>1. FixIssue(s, issue, market).strategy = [s EXCEPT !.timeframe = "15m"]
      BY <1>10 DEF FixIssue, Fix
    <2> QED BY <2>1, FixTimeframeKeeps
  <1>11. CASE code = "invalid_market"
    BY <1>11, FixMarketKeeps DEF FixIssue
  <1>12. CASE code = "too_many_groups"
    BY <1>12, FixTooManyGroupsKeeps DEF FixIssue
  <1>13. CASE code = "invalid_price_field"
    BY <1>13, FixPriceFieldKeeps DEF FixIssue
  <1>14. CASE code = "missing_side"
    <2>1. FixIssue(s, issue, market).strategy = [s EXCEPT !.sides = {"long", "short"}]
      BY <1>14 DEF FixIssue, Fix
    <2> QED BY <2>1, FixSidesKeeps
  <1>15. CASE code = "ambiguous_dual_side_entries"
    BY <1>15, FixAmbiguousEntriesKeeps DEF FixIssue
  <1>16. CASE code \notin known
    <2>1. FixIssue(s, issue, market).strategy = s
      BY <1>16 DEF FixIssue, Fix
    <2> QED BY <2>1, NothingKeeps
  <1> QED
    BY <1>1, <1>2, <1>3, <1>4, <1>5, <1>6, <1>7, <1>8, <1>9, <1>10, <1>11, <1>12, <1>13,
       <1>14, <1>15, <1>16

-----------------------------------------------------------------------------
(* The repair. *)

\* The results of the first n fixes.
FixesUpTo(f, s, issues, market, n) ==
  f = [k \in 0 .. n |->
         IF k = 0 THEN [strategy |-> s, all |-> TRUE, some |-> FALSE]
         ELSE CHOOSE next \in {AfterFix(last, issues[k], market) : last \in {f[k - 1]}} : TRUE]

\* The recursion over the issues has a value.
LEMMA FixesExist ==
  ASSUME NEW N \in Nat, NEW s, NEW issues, NEW market
  PROVE  \E f : FixesUpTo(f, s, issues, market, N)
  <1> DEFINE Good == {n \in 0 .. N : \E f : FixesUpTo(f, s, issues, market, n)}
             start == [strategy |-> s, all |-> TRUE, some |-> FALSE]
             step(x, n) == CHOOSE next \in {AfterFix(last, issues[n], market) : last \in {x}} : TRUE
  <1>0. \A f, n : FixesUpTo(f, s, issues, market, n)
                  <=> f = [k \in 0 .. n |-> IF k = 0 THEN start ELSE step(f[k - 1], k)]
    BY DEF FixesUpTo
  <1> HIDE DEF start, step
  <1>1. ASSUME NEW n \in 0 .. N, \A m \in 0 .. N : m < n => m \in Good
        PROVE  n \in Good
    <2>1. CASE n = 0
      <3> DEFINE f == [k \in 0 .. 0 |-> start]
      <3>1. f = [k \in 0 .. 0 |-> IF k = 0 THEN start ELSE step(f[k - 1], k)]
        OBVIOUS
      <3> HIDE DEF f
      <3> QED BY <1>0, <2>1, <3>1
    <2>2. CASE n # 0
      <3>1. n - 1 \in 0 .. N /\ n - 1 < n
        BY <2>2
      <3>2. PICK g : FixesUpTo(g, s, issues, market, n - 1)
        BY <1>1, <3>1
      <3> DEFINE f == [k \in 0 .. n |-> IF k = n THEN step(g[n - 1], n) ELSE g[k]]
      <3>3. \A k \in 0 .. n - 1 : g[k] = IF k = 0 THEN start ELSE step(g[k - 1], k)
        <4>1. g = [k \in 0 .. n - 1 |-> IF k = 0 THEN start ELSE step(g[k - 1], k)]
          BY <1>0, <3>2
        <4> QED BY <4>1
      <3>4. \A k \in 0 .. n : k # n => k \in 0 .. n - 1 /\ (k # 0 => k - 1 \in 0 .. n /\ k - 1 # n)
        BY <2>2
      <3>5. \A k \in 0 .. n : f[k] = IF k = 0 THEN start ELSE step(f[k - 1], k)
        <4>1. SUFFICES ASSUME NEW k \in 0 .. n
                       PROVE  f[k] = IF k = 0 THEN start ELSE step(f[k - 1], k)
          OBVIOUS
        <4>2. CASE k = n
          <5>1. f[k] = step(g[n - 1], n) /\ f[n - 1] = g[n - 1]
            BY <4>2, <2>2
          <5> QED BY <4>2, <5>1, <2>2
        <4>3. CASE k # n /\ k # 0
          <5>1. f[k] = g[k] /\ f[k - 1] = g[k - 1]
            BY <4>3, <3>4
          <5>2. g[k] = step(g[k - 1], k)
            BY <4>3, <3>3, <3>4
          <5> QED BY <4>3, <5>1, <5>2
        <4>4. CASE k = 0
          <5>1. f[0] = g[0] /\ g[0] = start
            BY <2>2, <3>3
          <5> QED BY <4>4, <5>1
        <4> QED BY <4>2, <4>3, <4>4
      <3>6. f = [k \in 0 .. n |-> IF k = 0 THEN start ELSE step(f[k - 1], k)]
        BY <3>5
      <3> HIDE DEF f
      <3> QED BY <1>0, <3>6
    <2> QED BY <2>1, <2>2
  <1> HIDE DEF Good
  <1>2. N \in Good
    BY <1>1, NumberInduction
  <1> QED BY <1>2 DEF Good

\* The strategy after one fix more.
LEMMA AfterFixIs ==
  ASSUME NEW result, NEW issue, NEW market
  PROVE  AfterFix(result, issue, market).strategy
         = FixIssue(result.strategy, issue, market).strategy
  <1> DEFINE fix == FixIssue(result.strategy, issue, market)
             next == [strategy |-> fix.strategy, all |-> result.all /\ fix.success,
                      some |-> result.some \/ fix.success]
  <1>1. AfterFix(result, issue, market) = next
    <2> DEFINE after(x) == [strategy |-> x.strategy, all |-> result.all /\ x.success,
                            some |-> result.some \/ x.success]
    <2>1. AfterFix(result, issue, market) = CHOOSE y \in {after(x) : x \in {fix}} : TRUE
      BY DEF AfterFix
    <2>2. {after(x) : x \in {fix}} = {after(fix)}
      OBVIOUS
    <2> HIDE DEF after, fix
    <2>3. AfterFix(result, issue, market) = after(fix)
      BY <2>1, <2>2
    <2> QED BY <2>3 DEF after
  <1> QED BY <1>1

\* Every fix is told of an issue of the definition as it was.
LEMMA RepairKeeps ==
  ASSUME NEW s \in Definitions, NEW market \in Text
  PROVE  /\ Repair(s, market).strategy \in Definitions
         /\ Codes(Repair(s, market).strategy) \subseteq Codes(s) \cup Extra
  <1> DEFINE issues == Issues(s)
             N == Len(issues)
             f == CHOOSE f : FixesUpTo(f, s, issues, market, N)
             Good == {n \in 0 .. N : /\ f[n].strategy \in Definitions
                                     /\ Codes(f[n].strategy) \subseteq Codes(s) \cup Extra}
  <1>1. N \in Nat /\ DOMAIN issues = 1 .. N
    BY CodesAre DEF IsSeq
  <1>2. \A n \in 1 .. N : issues[n].code \in Codes(s)
    BY <1>1 DEF Codes
  <1> HIDE DEF N
  <1>3. FixesUpTo(f, s, issues, market, N)
    BY <1>1, FixesExist
  <1>4. Repair(s, market) = f[N]
    BY DEF Repair, FixesUpTo, N
  <1> HIDE DEF f, issues
  <1>5. /\ f[0].strategy = s
        /\ \A n \in 1 .. N : f[n].strategy
                             = FixIssue(f[n - 1].strategy, issues[n], market).strategy
    <2>1. \A n \in 0 .. N :
              f[n] = IF n = 0 THEN [strategy |-> s, all |-> TRUE, some |-> FALSE]
                     ELSE CHOOSE next \in {AfterFix(last, issues[n], market) : last \in {f[n - 1]}} : TRUE
      BY <1>3 DEF FixesUpTo
    <2>2. f[0].strategy = s
      BY <1>1, <2>1
    <2>3. ASSUME NEW n \in 1 .. N
          PROVE  f[n].strategy = FixIssue(f[n - 1].strategy, issues[n], market).strategy
      <3>1. {AfterFix(last, issues[n], market) : last \in {f[n - 1]}}
            = {AfterFix(f[n - 1], issues[n], market)}
        OBVIOUS
      <3>2. n \in 0 .. N /\ n # 0
        BY <1>1
      <3>3. f[n] = AfterFix(f[n - 1], issues[n], market)
        BY <2>1, <3>1, <3>2
      <3> QED BY <3>3, AfterFixIs
    <2> QED BY <2>2, <2>3
  <1>6. ASSUME NEW n \in 0 .. N, \A m \in 0 .. N : m < n => m \in Good
        PROVE  n \in Good
    <2>1. CASE n = 0
      BY <1>5, <2>1
    <2>2. CASE n # 0
      <3>1. n - 1 \in 0 .. N /\ n - 1 < n /\ n \in 1 .. N
        BY <1>1, <2>2
      <3>2. n - 1 \in Good
        BY <1>6, <3>1
      <3>3. Keeps(f[n - 1].strategy, f[n].strategy, issues[n].code)
        BY <1>5, <3>1, <3>2, FixKeeps
      <3> QED BY <1>2, <3>1, <3>2, <3>3 DEF Keeps
    <2> QED BY <2>1, <2>2
  <1> HIDE DEF Good
  <1>7. N \in Good
    BY <1>1, <1>6, NumberInduction
  <1> QED BY <1>4, <1>7 DEF Good

-----------------------------------------------------------------------------
(* What is stored are definitions. *)

\* What a draft is, as members of the set.
LEMMA DraftsAreDefinitions ==
  ASSUME NEW s, IsDefinition(s)
  PROVE  s \in Definitions
  <1>1. STRING \subseteq Text
    BY DEF Text
  <1>2. ASSUME NEW o, IsOperand(o) PROVE o \in Operands
    <2>1. CASE o \in [type : {"constant"}, value : Int]
      BY <2>1 DEF Operands
    <2>2. CASE o \in [type : {"price_field"}, field : STRING, barsAgo : Int]
      BY <1>1, <2>2 DEF Operands
    <2>3. CASE /\ o \in [type : {"indicator_output"}, indicator : STRING, output : STRING,
                         params : [DOMAIN o.params -> Int], source : STRING, barsAgo : Int]
               /\ DOMAIN o.params \subseteq ToSet(ParamNames)
      <3>1. o.params \in Params
        BY <2>3 DEF Params
      <3> QED BY <1>1, <2>3, <3>1 DEF Operands
    <2> QED BY <1>2, <2>1, <2>2, <2>3 DEF IsOperand
  <1>3. ASSUME NEW rule, IsRule(rule) PROVE rule \in Rules
    <2>1. rule \in [operator : STRING, operands : [1 .. 2 -> ToSet(rule.operands)]]
      BY <1>3 DEF IsRule
    <2>2. rule.operands \in [1 .. 2 -> Operands]
      <3>1. \A n \in 1 .. 2 : rule.operands[n] \in Operands
        BY <1>2, <1>3 DEF IsRule
      <3> QED BY <2>1, <3>1
    <2> QED BY <1>1, <2>1, <2>2 DEF Rules
  <1>4. RulesIn(s) \subseteq Rules
    BY <1>3 DEF IsDefinition
  <1>5. s.groups \in [1 .. 4 -> Seq(Seq(Rules))]
    <2> DEFINE own == RulesIn(s)
    <2>1. s.groups \in [1 .. 4 -> Seq(Seq(own))]
      BY DEF IsDefinition
    <2> HIDE DEF own
    <2>2. own \subseteq Rules
      BY <1>4 DEF own
    <2>3. Seq(own) \subseteq Seq(Rules)
      BY <2>2
    <2>4. Seq(Seq(own)) \subseteq Seq(Seq(Rules))
      BY <2>3
    <2> QED BY <2>1, <2>4
  <1>6. s.risk \in UNION {[keys -> Int] : keys \in SUBSET ToSet(RiskKeys)}
    BY DEF IsDefinition
  <1>7. s.sizing \in [mode : Text, value : Int]
    BY DEF IsDefinition, Text
  <1> QED BY <1>1, <1>5, <1>6, <1>7 DEF IsDefinition, Definitions

\* Rules that are built of operands.
LEMMA RuleBuilt ==
  ASSUME NEW left \in Operands, NEW operator \in Operators, NEW right \in Operands
  PROVE  Rule(left, operator, right) \in Rules
  <1>1. operator \in Text
    BY DEF Text
  <1>2. <<left, right>> \in [1 .. 2 -> Operands]
    OBVIOUS
  <1> QED BY <1>1, <1>2 DEF Rule, Rules

\* Dropping the rules of a side.
Dropped(s, sides, k, n) == [s EXCEPT !.sides = sides, !.groups[k] = <<>>, !.groups[n] = <<>>]

\* Without the rules of a side it is still a definition.
LEMMA DroppedIsDefinition ==
  ASSUME NEW s \in Definitions, NEW sides \in SUBSET {"long", "short"},
         NEW k \in 1 .. 4, NEW n \in 1 .. 4
  PROVE  Dropped(s, sides, k, n) \in Definitions
  <1> DEFINE X == Seq(Seq(Rules))
             one == [s.groups EXCEPT ![k] = <<>>]
             all == [one EXCEPT ![n] = <<>>]
  <1>1. <<>> \in X /\ s.groups \in [1 .. 4 -> X]
    BY DEF Definitions
  <1>2. Dropped(s, sides, k, n) = [s EXCEPT !.sides = sides, !.groups = all]
    BY DEF Definitions, Dropped
  <1> HIDE DEF X
  <1>3. one \in [1 .. 4 -> X]
    BY <1>1
  <1> HIDE DEF one
  <1>4. all \in [1 .. 4 -> X]
    BY <1>1, <1>3
  <1> HIDE DEF all
  <1> QED BY <1>2, <1>4 DEF Definitions, X

\* So it is for the sides asked for.
LEMMA SidedIsDefinition ==
  ASSUME NEW s \in Definitions, NEW side \in {"long", "short", "both"}
  PROVE  Sided(s, side) \in Definitions
  <1>1. CASE side = "long"
    <2>1. Sided(s, side) = Dropped(s, {"long"}, 2, 4)
      BY <1>1 DEF Sided, Dropped
    <2> QED BY <2>1, DroppedIsDefinition
  <1>2. CASE side = "short"
    <2>1. Sided(s, side) = Dropped(s, {"short"}, 1, 3)
      BY <1>2 DEF Sided, Dropped
    <2> QED BY <2>1, DroppedIsDefinition
  <1>3. CASE side = "both"
    BY <1>3 DEF Sided
  <1> QED BY <1>1, <1>2, <1>3

\* A new draft is a definition.
LEMMA EmptyDraftIsDefinition == EmptyDraft \in Definitions
  <1>1. {"known", "15m", "percent_of_equity"} \subseteq Text
    BY DEF Text, Timeframes
  <1> DEFINE risk == [stopLossPct |-> 2, takeProfitPct |-> 4, trailingStopPct |-> 1,
                      maxBarsInTrade |-> 40]
             groups == [k \in 1 .. 4 |-> <<<<>>>>]
             size == [mode |-> "percent_of_equity", value |-> 25]
             costs == [feeBps |-> 10, slippageBps |-> 5, startingEquity |-> 10000]
  <1>2. risk \in UNION {[keys -> Int] : keys \in SUBSET ToSet(RiskKeys)}
    <2>1. ToSet(RiskKeys) = {"stopLossPct", "takeProfitPct", "trailingStopPct", "maxBarsInTrade"}
      BY DEF ToSet, RiskKeys
    <2>2. risk \in [{"stopLossPct", "takeProfitPct", "trailingStopPct", "maxBarsInTrade"} -> Int]
      OBVIOUS
    <2> QED BY <2>1, <2>2
  <1>3. groups \in [1 .. 4 -> Seq(Seq(Rules))]
    OBVIOUS
  <1>4. size \in [mode : Text, value : Int]
    BY <1>1
  <1>5. costs \in [feeBps : Int, slippageBps : Int, startingEquity : Int]
    OBVIOUS
  <1>6. EmptyDraft = [market |-> "known", timeframe |-> "15m", sides |-> {"long", "short"},
                      groups |-> groups, sizing |-> size, risk |-> risk, costs |-> costs,
                      engine |-> "none"]
    BY DEF EmptyDraft
  <1> HIDE DEF risk, groups, size, costs
  <1> QED BY <1>1, <1>2, <1>3, <1>4, <1>5, <1>6 DEF Definitions

\* One group of one rule for each purpose.
LEMMA BothSidesIsDefinition ==
  ASSUME NEW rules, \A k \in 1 .. 4 : rules[k] \in Rules
  PROVE  BothSides(rules) \in Definitions
  <1> DEFINE all == [k \in 1 .. 4 |-> <<<<rules[k]>>>>]
  <1>1. all \in [1 .. 4 -> Seq(Seq(Rules))]
    OBVIOUS
  <1>2. BothSides(rules) = [EmptyDraft EXCEPT !.groups = all]
    BY DEF BothSides
  <1> HIDE DEF all
  <1> QED BY <1>1, <1>2, EmptyDraftIsDefinition DEF Definitions

\* The candidates of each kind are definitions: EMA crossings,
LEMMA EmaVariantIsDefinition ==
  ASSUME NEW s \in Definitions, NEW period \in Int
  PROVE  EmaVariant(s, period) \in Definitions
  <1> DEFINE cross(operator) == Rule(Ema(period), operator, Ema(21))
             rules == <<cross("crosses_above"), cross("crosses_below"),
                        cross("crosses_below"), cross("crosses_above")>>
  <1>1. Ema(period) \in Operands /\ Ema(21) \in Operands
    BY EmaIsOperand
  <1>2. {"crosses_above", "crosses_below"} \subseteq Operators
    BY DEF Operators
  <1>3. cross("crosses_above") \in Rules /\ cross("crosses_below") \in Rules
    BY <1>1, <1>2, RuleBuilt
  <1> HIDE DEF cross
  <1>4. \A k \in 1 .. 4 : rules[k] \in Rules
    BY <1>3
  <1> DEFINE draft == BothSides(rules)
  <1>5. EmaVariant(s, period) = [draft EXCEPT !.market = s.market, !.engine = s.engine]
    BY DEF EmaVariant, cross
  <1>6. draft \in Definitions
    BY <1>4, BothSidesIsDefinition
  <1> HIDE DEF draft
  <1> QED BY <1>5, <1>6 DEF Definitions

\* The first rule for a purpose.
LEMMA FirstIsRule ==
  ASSUME NEW s \in Definitions, NEW k \in 1 .. 4, HasRule(s, k)
  PROVE  FirstRule(s, k) \in Rules
  <1>1. s.groups[k] \in Seq(Seq(Rules)) /\ s.groups[k] # <<>>
    BY DEF Definitions, HasRule
  <1>2. s.groups[k][1] \in Seq(Rules) /\ s.groups[k][1] # <<>>
    BY <1>1 DEF HasRule
  <1>3. s.groups[k][1][1] \in Rules
    BY <1>2
  <1> QED BY <1>3 DEF FirstRule

\* One group of the first rule against another operand.
LEMMA AgainstIsFine ==
  ASSUME NEW s \in Definitions, NEW k \in 1 .. 4, HasRule(s, k), NEW right \in Operands
  PROVE  Against(s, k, right) \in Seq(Seq(Rules))
  <1> DEFINE old == FirstRule(s, k)
             rule == [old EXCEPT !.operands[2] = right]
  <1>1. old \in Rules
    BY FirstIsRule
  <1> HIDE DEF old
  <1>2. rule \in Rules
    BY <1>1 DEF Rules
  <1> HIDE DEF rule
  <1>3. <<<<rule>>>> \in Seq(Seq(Rules))
    BY <1>2
  <1> QED BY <1>3 DEF Against, rule, old

\* Indicators that are built of text and known parameters.
LEMMA IndicatorBuilt ==
  ASSUME NEW kind \in Text, NEW output \in Text, NEW params \in Params
  PROVE  Indicator(kind, output, params) \in Operands
  <1>1. "none" \in Text
    BY DEF Text
  <1> QED BY <1>1 DEF Indicator, Operands

\* Records of known parameters.
LEMMA ParamsBuilt ==
  ASSUME NEW n \in Int
  PROVE  [period |-> n] \in Params /\ [lookback |-> n] \in Params
         /\ [period |-> n, stdDev |-> 20] \in Params
  <1>1. {"period", "lookback", "stdDev"} \subseteq ToSet(ParamNames)
    BY DEF ToSet, ParamNames
  <1>2. /\ {"period"} \in SUBSET ToSet(ParamNames) /\ {"lookback"} \in SUBSET ToSet(ParamNames)
        /\ {"period", "stdDev"} \in SUBSET ToSet(ParamNames)
    BY <1>1
  <1>3. /\ [period |-> n] \in [{"period"} -> Int] /\ [lookback |-> n] \in [{"lookback"} -> Int]
        /\ [period |-> n, stdDev |-> 20] \in [{"period", "stdDev"} -> Int]
    OBVIOUS
  <1> QED BY <1>2, <1>3 DEF Params

\* A definition whose rules for entering and leaving long are others.
LongWith(s, entry, exit) ==
  [Sided(s, "long") EXCEPT !.timeframe = "15m", !.groups[1] = entry, !.groups[3] = exit]

\* It is still a definition.
LEMMA LongIsDefinition ==
  ASSUME NEW s \in Definitions, NEW entry \in Seq(Seq(Rules)), NEW exit \in Seq(Seq(Rules))
  PROVE  LongWith(s, entry, exit) \in Definitions
  <1> DEFINE t == Sided(s, "long")
             X == Seq(Seq(Rules))
             one == [t.groups EXCEPT ![1] = entry]
             all == [one EXCEPT ![3] = exit]
  <1>1. t \in Definitions
    BY SidedIsDefinition
  <1> HIDE DEF t
  <1>2. t.groups \in [1 .. 4 -> X] /\ entry \in X /\ exit \in X
    BY <1>1 DEF Definitions
  <1>3. LongWith(s, entry, exit) = [t EXCEPT !.timeframe = "15m", !.groups = all]
    BY <1>1 DEF Definitions, LongWith, t
  <1> HIDE DEF X
  <1>4. one \in [1 .. 4 -> X]
    BY <1>2
  <1> HIDE DEF one
  <1>5. all \in [1 .. 4 -> X]
    BY <1>2, <1>4
  <1> HIDE DEF all
  <1>6. "15m" \in Text
    BY DEF Text, Timeframes
  <1>7. [t EXCEPT !.timeframe = "15m", !.groups = all] \in Definitions
    BY <1>1, <1>5, <1>6 DEF Definitions, X
  <1> QED BY <1>3, <1>7

\* the RSI's,
LEMMA RsiVariantIsDefinition ==
  ASSUME NEW s \in Definitions, NEW period \in Int
  PROVE  RsiVariant(s, period) \in Definitions
  <1> DEFINE params == [period |-> 10 * period]
             left(k) == FirstRule(s, k).operands[1]
             rsi(k) == [left(k) EXCEPT !.indicator = "rsi", !.output = "value", !.params = params]
             fits == \A k \in {1, 3} : HasRule(s, k) /\ left(k).type = "indicator_output"
             entry == <<<<Rule(rsi(1), "<=", Constant(30))>>>>
             exit == <<<<Rule(rsi(3), ">=", Constant(55))>>>>
  <1>1. CASE fits
    <2>1. params \in Params
      <3>1. 10 * period \in Int
        OBVIOUS
      <3> QED BY <3>1, ParamsBuilt
    <2> HIDE DEF params
    <2>2. ASSUME NEW k \in {1, 3} PROVE rsi(k) \in Operands
      <3>1. FirstRule(s, k) \in Rules
        BY <1>1, FirstIsRule
      <3>2. left(k) \in Operands /\ left(k).type = "indicator_output"
        BY <1>1, <3>1 DEF Rules
      <3> HIDE DEF left
      <3>3. left(k) \in IndicatorOperands
        BY <3>2, IndicatorsAre DEF IsIndicator
      <3>4. {"rsi", "value"} \subseteq Text
        BY DEF Text
      <3>5. rsi(k) \in IndicatorOperands
        BY <2>1, <3>3, <3>4 DEF IndicatorOperands
      <3> HIDE DEF rsi
      <3> QED BY <3>5 DEF IndicatorOperands, Operands
    <2> HIDE DEF rsi
    <2>3. Constant(30) \in Operands /\ Constant(55) \in Operands
      BY DEF Constant, Operands
    <2>4. "<=" \in Operators /\ ">=" \in Operators
      BY DEF Operators
    <2>5. Rule(rsi(1), "<=", Constant(30)) \in Rules /\ Rule(rsi(3), ">=", Constant(55)) \in Rules
      BY <2>2, <2>3, <2>4, RuleBuilt
    <2>6. entry \in Seq(Seq(Rules)) /\ exit \in Seq(Seq(Rules))
      BY <2>5
    <2>7. RsiVariant(s, period) = LongWith(s, entry, exit)
      BY <1>1 DEF RsiVariant, LongWith, rsi, params
    <2> HIDE DEF entry, exit
    <2> QED BY <2>6, <2>7, LongIsDefinition
  <1>2. CASE ~fits
    BY <1>2 DEF RsiVariant
  <1> QED BY <1>1, <1>2

\* the breakouts,
LEMMA BreakoutVariantIsDefinition ==
  ASSUME NEW s \in Definitions, NEW period \in Int
  PROVE  BreakoutVariant(s, period) \in Definitions
  <1> DEFINE extreme(kind) == Indicator(kind, "value", [lookback |-> 10 * period])
             right == <<extreme("rolling_high"), extreme("rolling_low"), Ema(10), Ema(10)>>
             all == [k \in 1 .. 4 |-> Against(s, k, right[k])]
  <1>1. CASE \A k \in 1 .. 4 : HasRule(s, k)
    <2>1. [lookback |-> 10 * period] \in Params
      <3>1. 10 * period \in Int
        OBVIOUS
      <3> QED BY <3>1, ParamsBuilt
    <2>2. {"rolling_high", "rolling_low", "value"} \subseteq Text
      BY DEF Text
    <2>3. extreme("rolling_high") \in Operands /\ extreme("rolling_low") \in Operands
      BY <2>1, <2>2, IndicatorBuilt
    <2>4. Ema(10) \in Operands
      BY EmaIsOperand
    <2> HIDE DEF extreme
    <2>5. \A k \in 1 .. 4 : right[k] \in Operands
      BY <2>3, <2>4
    <2>6. BreakoutVariant(s, period) = [s EXCEPT !.timeframe = "15m", !.groups = all]
      BY <1>1 DEF BreakoutVariant, extreme
    <2> HIDE DEF right
    <2>7. \A k \in 1 .. 4 : Against(s, k, right[k]) \in Seq(Seq(Rules))
      BY <1>1, <2>5, AgainstIsFine
    <2>8. all \in [1 .. 4 -> Seq(Seq(Rules))]
      BY <2>7
    <2> HIDE DEF all
    <2>9. "15m" \in Text
      BY DEF Text, Timeframes
    <2> QED BY <2>6, <2>8, <2>9 DEF Definitions
  <1>2. CASE \E k \in 1 .. 4 : ~HasRule(s, k)
    BY <1>2 DEF BreakoutVariant
  <1> QED BY <1>1, <1>2

\* and the Bollinger bands'.
LEMMA BollingerVariantIsDefinition ==
  ASSUME NEW s \in Definitions, NEW period \in Int
  PROVE  BollingerVariant(s, period) \in Definitions
  <1> DEFINE params == [period |-> 10 * period, stdDev |-> 20]
             band(output) == Indicator("bollinger", output, params)
             entry == Against(s, 1, band("lower"))
             exit == Against(s, 3, band("middle"))
  <1>1. CASE HasRule(s, 1) /\ HasRule(s, 3)
    <2>1. params \in Params
      <3>1. 10 * period \in Int
        OBVIOUS
      <3> QED BY <3>1, ParamsBuilt
    <2> HIDE DEF params
    <2>2. {"bollinger", "lower", "middle"} \subseteq Text
      BY DEF Text
    <2>3. band("lower") \in Operands /\ band("middle") \in Operands
      BY <2>1, <2>2, IndicatorBuilt
    <2> HIDE DEF band
    <2>4. entry \in Seq(Seq(Rules)) /\ exit \in Seq(Seq(Rules))
      BY <1>1, <2>3, AgainstIsFine
    <2>5. BollingerVariant(s, period) = LongWith(s, entry, exit)
      BY <1>1 DEF BollingerVariant, LongWith, band, params
    <2> HIDE DEF entry, exit
    <2> QED BY <2>4, <2>5, LongIsDefinition
  <1>2. CASE ~(HasRule(s, 1) /\ HasRule(s, 3))
    BY <1>2 DEF BollingerVariant
  <1> QED BY <1>1, <1>2

\* Every candidate is a definition.
LEMMA VariantsAreDefinitions ==
  ASSUME NEW s \in Definitions, NEW t \in Variants(s)
  PROVE  t \in Definitions
  <1> DEFINE OfPeriod(period) == {EmaVariant(s, period), Sided(EmaVariant(s, period), "long"),
                                  RsiVariant(s, period), BreakoutVariant(s, period),
                                  BollingerVariant(s, period)}
  <1>0. PICK side \in {"long", "short", "both"},
             variant \in UNION {OfPeriod(period) : period \in Periods} : t = Sided(variant, side)
    BY DEF Variants
  <1>1. PICK period \in Periods : variant \in OfPeriod(period)
    BY <1>0
  <1>2. period \in Int
    BY EngineInputs
  <1>3. EmaVariant(s, period) \in Definitions
    BY <1>2, EmaVariantIsDefinition
  <1>4. Sided(EmaVariant(s, period), "long") \in Definitions
    BY <1>3, SidedIsDefinition
  <1>5. /\ RsiVariant(s, period) \in Definitions /\ BreakoutVariant(s, period) \in Definitions
        /\ BollingerVariant(s, period) \in Definitions
    BY <1>2, RsiVariantIsDefinition, BreakoutVariantIsDefinition, BollingerVariantIsDefinition
  <1>6. variant \in Definitions
    BY <1>1, <1>3, <1>4, <1>5
  <1> QED BY <1>0, <1>6, SidedIsDefinition

\* The stored draft is always a definition.
DefinitionStored == strategy \in Definitions /\ rounds \in Nat

\* Drafts, candidates and repairs are all definitions.
LEMMA DefinitionAlwaysStored == EngineSpec => []DefinitionStored
  <1>1. EngineInit => DefinitionStored
    BY EngineInputs, DraftsAreDefinitions DEF EngineInit, DefinitionStored
  <1>2. DefinitionStored /\ [EngineNext]_engineVars => DefinitionStored'
    <2> SUFFICES ASSUME DefinitionStored, [EngineNext]_engineVars PROVE DefinitionStored'
      OBVIOUS
    <2>1. CASE TryCandidate
      BY <2>1, VariantsAreDefinitions DEF TryCandidate, DefinitionStored
    <2>2. ASSUME NEW market \in RunMarkets, NEW fixed, Patch(market, fixed)
          PROVE  DefinitionStored'
      <3>1. market \in Text
        BY EngineInputs DEF Text
      <3>2. Repair(strategy, market).strategy \in Definitions
        BY <3>1, RepairKeeps DEF DefinitionStored
      <3> QED BY <2>2, <3>2 DEF Patch, DefinitionStored
    <2>3. CASE Candle
      BY <2>3 DEF Candle, DefinitionStored
    <2>4. CASE Finish
      BY <2>4 DEF Finish, DefinitionStored
    <2>5. CASE UNCHANGED engineVars
      BY <2>5 DEF engineVars, DefinitionStored
    <2> QED BY <2>1, <2>2, <2>3, <2>4, <2>5 DEF EngineNext, RepairOnce, EnforceCompletion
  <1> QED BY <1>1, <1>2, PTL DEF EngineSpec

\* A repair leaves no kind of issue that was not there before, but for entry rules
\* that are missing or ambiguous, whatever the draft, the markets and the candidates:
\* each fix keeps the codes, also when it changes another operand than the one at fault.
THEOREM RepairsBreakNothing == EngineSpec => RepairsAddNoFaults
  <1> DEFINE Clean == rounds' > rounds => Codes(strategy') \subseteq Codes(strategy) \cup Extra
  <1>1. ASSUME DefinitionStored, [EngineNext]_engineVars PROVE Clean
    <2>1. CASE TryCandidate
      BY <1>1, <2>1 DEF TryCandidate, DefinitionStored
    <2>2. ASSUME NEW market \in RunMarkets, NEW fixed, Patch(market, fixed)
          PROVE  Clean
      <3>1. market \in Text
        BY EngineInputs DEF Text
      <3>2. Codes(Repair(strategy, market).strategy) \subseteq Codes(strategy) \cup Extra
        BY <1>1, <3>1, RepairKeeps DEF DefinitionStored
      <3>3. strategy' = Repair(strategy, market).strategy
        BY <2>2 DEF Patch
      <3> QED BY <3>2, <3>3
    <2>3. CASE Candle
      BY <1>1, <2>3 DEF Candle, DefinitionStored
    <2>4. CASE Finish
      BY <1>1, <2>4 DEF Finish, DefinitionStored
    <2>5. CASE UNCHANGED engineVars
      BY <1>1, <2>5 DEF engineVars, DefinitionStored
    <2> QED BY <1>1, <2>1, <2>2, <2>3, <2>4, <2>5 DEF EngineNext, RepairOnce, EnforceCompletion
  <1>2. DefinitionStored /\ [EngineNext]_engineVars => [Clean]_engineVars
    BY <1>1
  <1> HIDE DEF Clean
  <1>3. EngineSpec => [][Clean]_engineVars
    BY <1>2, DefinitionAlwaysStored, PTL DEF EngineSpec
  <1> QED BY <1>3 DEF RepairsAddNoFaults, Clean, Extra

=============================================================================
