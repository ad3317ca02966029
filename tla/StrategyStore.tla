----------------------------- MODULE StrategyStore -----------------------------
(***************************************************************************)
(* StrategyService: the tables of strategies, approvals, automatic         *)
(* executions and executions, for one owner.                               *)
(*                                                                         *)
(* Every operation is synchronous, so it is one action, but for            *)
(* saveExecutionApproval, which recovers a signature in the middle.  A     *)
(* strategy's body is its version: each write stamps updatedAt, so each    *)
(* write has another hash; a save whose body validation refuses changes     *)
(* nothing and is no step.  An archived strategy is a draft that is listed *)
(* elsewhere.  An automatic execution's last executed candle is left *)
(* out: it is written with its last checked one, by the same statement.    *)
(***************************************************************************)
EXTENDS Integers, FiniteSetsExt

CONSTANTS
    Strategies,    \* ids, each used once
    None, Deleted,
    ApprovalTtls,  \* how long the client wants an approval to be valid
    Expiries,      \* when an activation may be set to end; None is never
    MaxVersions,   \* bound on writes
    MaxNonce,      \* bound on the nonces of approvals
    MaxClock       \* bound on time

Statuses == {"active", "inactive", "expired", "needs_reactivation"}
Signals == {"entry", "exit", "none", "short"}

\* The rows of strategy_auto_executions.
AutoRows == [status : Statuses, version : Nat, deadline : Nat,
             expires : Nat \cup {None}, checked : Nat \cup {None},
             signal : Signals \cup {None}]

ASSUME StoreInputs == /\ ApprovalTtls \subseteq Nat
                      /\ Expiries \subseteq Nat \cup {None}

\* No row and a row that is gone are told apart, and neither is a row or a number.
ASSUME Sentinels == None # Deleted /\ None \notin AutoRows \cup Nat

VARIABLES
    strategies,  \* id -> None, Deleted or the row
    versions,    \* rows of strategy_versions
    approvals,   \* rows of strategy_execution_approvals
    autos,       \* id -> None or the row of strategy_auto_executions
    signed,      \* the last message the owner's wallet signed, or None
    saving,      \* the saveExecutionApproval that waits for its signer, or None
    clock

storeVars == <<strategies, versions, approvals, autos, signed, saving, clock>>

\* A database with nothing in it, or with a strategy saved in an earlier life.
StoreInit ==
    /\ strategies \in
           [Strategies -> {None, [status |-> "saved", version |-> 0]}]
    /\ versions = 0
    /\ approvals = {}
    /\ autos = [s \in Strategies |-> None]
    /\ signed = None
    /\ saving = None
    /\ clock = 0

\* getStrategy finds it.
Exists(s) == strategies[s] \notin {None, Deleted}

Active(s) == {a \in approvals : a.strategy = s /\ a.status = "active"}

Restatus(rows, status) ==
    (approvals \ rows) \cup {[a EXCEPT !.status = status] : a \in rows}

\* The update of strategy_auto_executions that ends writeStrategy.
Outdated(row) ==
    IF row = None \/ row.status \in {"inactive", "expired"} THEN row
    ELSE [row EXCEPT !.status = "needs_reactivation"]

\* writeStrategy: the row, a version, and no approval or activation of the old
\* body survives.
WriteStrategy(s, status) ==
    /\ versions < MaxVersions
    /\ versions' = versions + 1
    /\ strategies' = [strategies EXCEPT ![s] =
           [status |-> status, version |-> versions + 1]]
    /\ approvals' = Restatus(Active(s), "superseded")
    /\ autos' = [autos EXCEPT ![s] = Outdated(@)]
    /\ UNCHANGED <<signed, saving, clock>>

CreateDraft(s) == strategies[s] = None /\ WriteStrategy(s, "draft")

\* A copy of a built-in template is a draft like another.
CloneTemplate(s) == strategies[s] = None /\ WriteStrategy(s, "draft")

\* The status the client sends is not taken over.
UpdateDraft(s) == Exists(s) /\ WriteStrategy(s, "draft")

SaveStrategy(s) == Exists(s) /\ WriteStrategy(s, "saved")

\* deleteStrategy, in one database transaction.
DeleteStrategy(s) ==
    /\ Exists(s)
    /\ strategies' = [strategies EXCEPT ![s] = Deleted]
    /\ approvals' = {a \in approvals : a.strategy # s}
    /\ autos' = [autos EXCEPT ![s] = None]
    /\ UNCHANGED <<versions, signed, saving, clock>>

-----------------------------------------------------------------------------
(* Approvals. *)

\* nextApprovalNonce looks at the rows there are.
NextApprovalNonce == Max({-1} \cup {a.nonce : a \in approvals}) + 1

Saved(s) == Exists(s) /\ strategies[s].status = "saved"

\* createExecutionIntent, signed by the wallet at once.
CreateExecutionIntent(s, ttl) ==
    /\ Saved(s)
    /\ NextApprovalNonce <= MaxNonce
    /\ signed' = [strategy |-> s, version |-> strategies[s].version,
                  nonce |-> NextApprovalNonce, deadline |-> clock + ttl]
    /\ UNCHANGED <<strategies, versions, approvals, autos, saving, clock>>

\* saveExecutionApproval checks the message against the strategy.  The client may
\* send it again ...
BeginSaveApproval ==
    /\ saving = None
    /\ signed # None
    /\ Saved(signed.strategy)
    /\ signed.version = strategies[signed.strategy].version
    /\ saving' = signed
    /\ UNCHANGED <<strategies, versions, approvals, autos, signed, clock>>

Approval(m, status) == [strategy |-> m.strategy, version |-> m.version,
                        nonce |-> m.nonce, deadline |-> m.deadline,
                        status |-> status]

\* Mutant: the older approval stays.
MutNewApprovals(m) == approvals \cup {Approval(m, "active")}
NewApprovals(m) ==
    Restatus(Active(m.strategy), "superseded") \cup {Approval(m, "active")}

\* ... and stores it when the signer is known, whatever happened meanwhile.
EndSaveApproval ==
    /\ saving # None
    /\ saving' = None
    /\ approvals' = IF saving.deadline > clock THEN NewApprovals(saving)
                    ELSE approvals
    /\ UNCHANGED <<strategies, versions, autos, signed, clock>>

Usable(a) ==
    /\ Exists(a.strategy)
    /\ a.version = strategies[a.strategy].version
    /\ a.deadline > clock

\* getExecutionApproval: what it returns, None where it throws.
ExecutionApproval(s) ==
    LET usable == {a \in Active(s) : Usable(a)}
    IN  IF usable = {} THEN None ELSE CHOOSE a \in usable : TRUE

-----------------------------------------------------------------------------
(* Automatic execution. *)

\* getAutoExecutionState: the stored row as the strategy and the clock leave it;
\* the method writes it back.
AutoState(s) ==
    LET row == autos[s]
    IN  IF row = None THEN None
        ELSE IF row.version # strategies[s].version \/ row.deadline <= clock
        THEN [row EXCEPT !.status = "needs_reactivation"]
        ELSE IF row.expires # None /\ row.expires <= clock
        THEN [row EXCEPT !.status = "expired"]
        ELSE row

ActivateAutoExecution(s, expires) ==
    LET approval == ExecutionApproval(s)
    IN  /\ Saved(s)
        /\ expires # None => expires > clock
        /\ approval # None
        /\ autos' = [autos EXCEPT ![s] =
               [status |-> "active", version |-> strategies[s].version,
                deadline |-> approval.deadline, expires |-> expires,
                checked |-> IF @ = None THEN None ELSE @.checked,
                signal |-> IF @ = None THEN None ELSE @.signal]]
        /\ UNCHANGED <<strategies, versions, approvals, signed, saving, clock>>

\* The row is set to inactive and read back, which may make it need reactivation.
DeactivateAutoExecution(s) ==
    /\ Exists(s)
    /\ autos[s] # None
    /\ autos' = [autos EXCEPT ![s].status =
           IF AutoState(s).status \in {"expired", "needs_reactivation"}
           THEN AutoState(s).status ELSE "inactive"]
    /\ UNCHANGED <<strategies, versions, approvals, signed, saving, clock>>

\* getStrategyDashboard and the history read every automatic state, and with it
\* write it.
ReadDashboard ==
    /\ \E s \in Strategies : Exists(s) /\ autos[s] # AutoState(s)
    /\ autos' = [s \in Strategies |->
           IF Exists(s) THEN AutoState(s) ELSE autos[s]]
    /\ UNCHANGED <<strategies, versions, approvals, signed, saving, clock>>

Tick ==
    /\ clock < MaxClock
    /\ clock' = clock + 1
    /\ UNCHANGED <<strategies, versions, approvals, autos, signed, saving>>

\* writeStrategy is four statements and no transaction: a stop in between leaves
\* the approvals and the activation of the old body as they were.
StopInWrite(s) ==
    /\ Exists(s)
    /\ versions < MaxVersions
    /\ versions' = versions + 1
    /\ strategies' = [strategies EXCEPT ![s].version = versions + 1,
                                        ![s].status = "draft"]
    /\ saving' = None
    /\ UNCHANGED <<approvals, autos, signed, clock>>

StopStore == saving' = None /\ UNCHANGED <<strategies, versions, approvals, autos,
                                           signed, clock>>

StoreNext ==
    \/ \E s \in Strategies :
           \/ CreateDraft(s)
           \/ CloneTemplate(s)
           \/ UpdateDraft(s)
           \/ SaveStrategy(s)
           \/ \E ttl \in ApprovalTtls : CreateExecutionIntent(s, ttl)
           \/ \E expires \in Expiries : ActivateAutoExecution(s, expires)
           \/ DeactivateAutoExecution(s)
    \/ BeginSaveApproval
    \/ EndSaveApproval
    \/ ReadDashboard
    \/ Tick

-----------------------------------------------------------------------------
\* The store never holds two active approvals for a strategy
\* (strategyService.ts:575: the older row is superseded before the new one is
\* inserted, after an await during which anything may have been written).
OneActiveApproval == \A s \in Strategies : Cardinality(Active(s)) <= 1
=============================================================================
