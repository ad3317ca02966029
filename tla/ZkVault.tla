------------------------------- MODULE ZkVault -------------------------------
(***************************************************************************)
(* Deposits into DarkVaultV2 and withdrawals from it by zero-knowledge     *)
(* proofs: VaultService and ZkProofService between their HTTP routes, the  *)
(* two contracts and the clock.                                            *)
(*                                                                         *)
(* A deposit is named by its place in the vault's event log; the name also *)
(* stands for its transaction, for the commitment of its note and for the  *)
(* nullifier of that note, all of which are hashes of data drawn once per  *)
(* deposit.  A Merkle root is the list of its leaves, a valid proof is a   *)
(* pair of a note and a root that lists it.  One token is enough: every    *)
(* record carries its own, and no handler mixes two.                       *)
(*                                                                         *)
(* A handler is split where it awaits the node, the prover or the first    *)
(* load of the hash; what lies between is one step.  Every step flushes    *)
(* what it changed, so a restart only loses the calls in flight.           *)
(***************************************************************************)
EXTENDS Integers, Sequences, SequencesExt, FiniteSetsExt

CONSTANTS
    Users,
    Amounts,
    Slots,        \* requests served at one time
    LockWindow,   \* ZK_NOTE_LOCK_WINDOW_MS, 5 minutes in the code
    MaxDeposits,  \* bound on deposits
    MaxClock      \* bound on time

ASSUME ZkInputs == /\ Amounts \subseteq Nat
                   /\ LockWindow \in Nat \ {0}
                   /\ MaxDeposits \in Nat
                   /\ MaxClock \in Nat
\* Wallet addresses are 20 bytes; one process serves the requests.
ASSUME FiniteActors == IsFiniteSet(Users) /\ IsFiniteSet(Slots)

VARIABLES
    balances,   \* AppState.balances
    notes,      \* AppState.zkNotes, in the order of the Merkle leaves
    credited,   \* AppState.processedDeposits
    processed,  \* AppState.processedWithdrawals
    calls,      \* requests waiting for the node or for the prover
    packages,   \* the withdrawal packages answered so far
    debits,     \* history: how often each withdrawal was debited
    deposits,   \* the vault's Deposit events
    roots,      \* DarkStateAnchor.knownRoots
    spent,      \* DarkVaultV2.nullifierUsed
    custody,    \* tokens in the vault
    clock

ledger == <<balances, notes, credited, processed>>
chain == <<deposits, roots, spent, custody>>
vars == <<balances, notes, credited, processed, calls, packages, debits,
          deposits, roots, spent, custody, clock>>

Deposits == 1 .. MaxDeposits

Note == [deposit : Deposits, status : {"unspent", "pending", "spent"},
         nullified : BOOLEAN, since : 0 .. MaxClock]

Entry == [user : Users, amount : Amounts]

Leaves(list) == [i \in DOMAIN list |-> list[i].deposit]

Package == [deposit : Deposits, root : Seq(Deposits)]

NoCall == [at |-> "none"]

DepositSync == [at : {"receipt"}, deposit : Deposits]
                 \cup [at : {"draft", "anchored"}, deposit : Deposits,
                       root : Seq(Deposits)]
WithdrawalSync == [at : {"withdrawal"}, deposit : Deposits]
Proving == [at : {"chosen"}, index : Deposits]
             \cup [at : {"hashed", "known"}, index : Deposits,
                   root : Seq(Deposits)]
Call == {NoCall} \cup DepositSync \cup WithdrawalSync \cup Proving

\* The note with its changing fields set to these.
Label(note, status, nullified, since) ==
    [deposit |-> note.deposit, status |-> status, nullified |-> nullified,
     since |-> since]

Owner(note) == deposits[note.deposit].user
Worth(note) == deposits[note.deposit].amount

-----------------------------------------------------------------------------
Init ==
    /\ balances = [u \in Users |-> 0]
    /\ notes = << >>
    /\ credited = {}
    /\ processed = {}
    /\ calls = [c \in Slots |-> NoCall]
    /\ packages = {}
    /\ debits = [d \in Deposits |-> 0]
    /\ deposits = << >>
    /\ roots = {}
    /\ spent = {}
    /\ custody = 0
    /\ clock = 0

Goto(c, call) == calls' = [calls EXCEPT ![c] = call]

(* VaultService.syncDeposit. *)

RequestDeposit(c, d) ==
    /\ calls[c] = NoCall
    /\ d \notin credited
    /\ Goto(c, [at |-> "receipt", deposit |-> d])
    /\ UNCHANGED <<ledger, packages, debits, chain, clock>>

NewNote(d) ==
    [deposit |-> d, status |-> "unspent", nullified |-> FALSE, since |-> 0]

\* The root to anchor is that of a copy of the state, taken here.
DraftDeposit(c) ==
    LET d == calls[c].deposit
    IN  /\ calls[c].at = "receipt"
        /\ Goto(c, IF d \in credited
                   THEN NoCall
                   ELSE [at |-> "draft", deposit |-> d,
                         root |-> Append(Leaves(notes), d)])
        /\ UNCHANGED <<ledger, packages, debits, chain, clock>>

AnchorBatch(c) ==
    /\ calls[c].at = "draft"
    /\ roots' = roots \cup {calls[c].root}
    /\ Goto(c, [calls[c] EXCEPT !.at = "anchored"])
    /\ UNCHANGED <<ledger, packages, debits, deposits, spent, custody, clock>>

\* Mutant: the check made before the root was anchored is enough.
MutIsNew(d) == TRUE
IsNew(d) == d \notin credited

CommitDeposit(c) ==
    LET d == calls[c].deposit
    IN  /\ calls[c].at = "anchored"
        /\ IF IsNew(d)
           THEN /\ balances' = [balances EXCEPT ![deposits[d].user] =
                                    @ + deposits[d].amount]
                /\ credited' = credited \cup {d}
                /\ notes' = Append(notes, NewNote(d))
           ELSE UNCHANGED <<balances, credited, notes>>
        /\ Goto(c, NoCall)
        /\ UNCHANGED <<processed, packages, debits, chain, clock>>

(* zkState: note locks. *)

Unlocked(note) == Label(note, "unspent", FALSE, 0)

HasExpired(note) ==
    note.status = "pending" /\ clock - note.since >= LockWindow

Released == [i \in DOMAIN notes |->
                IF HasExpired(notes[i]) THEN Unlocked(notes[i]) ELSE notes[i]]

ReleaseExpiredLocks ==
    /\ \E i \in DOMAIN notes : HasExpired(notes[i])
    /\ notes' = Released
    /\ UNCHANGED <<balances, credited, processed, calls, packages, debits,
                   chain, clock>>

\* i is the first note of this list with this owner, amount and status.
Matches(note, u, amount, status) ==
    Owner(note) = u /\ Worth(note) = amount /\ note.status = status

IsFirst(list, i, u, amount, status) ==
    /\ Matches(list[i], u, amount, status)
    /\ \A j \in DOMAIN list : j < i => ~Matches(list[j], u, amount, status)

(* ZkProofService.prepareWithdrawalPackage, after the check of its route. *)

Locked(note) == Label(note, "pending", note.nullified, clock)

PrepareWithdrawalPackage(c, u, amount) ==
    /\ calls[c] = NoCall
    /\ balances[u] >= amount
    /\ \E i \in DOMAIN notes :
           /\ IsFirst(Released, i, u, amount, "unspent")
           /\ notes' = [Released EXCEPT ![i] = Locked(@)]
           /\ Goto(c, [at |-> "chosen", index |-> i])
    /\ UNCHANGED <<balances, credited, processed, packages, debits, chain,
                   clock>>

\* Mutant: the nullifier is stored whatever became of the note.
MutStillPending(note) == TRUE
StillPending(note) == note.status = "pending"

Nullified(note) == Label(note, note.status, TRUE, note.since)

SetNullifier(c) ==
    LET i == calls[c].index
    IN  /\ calls[c].at = "chosen"
        /\ StillPending(notes[i])
        /\ notes' = [notes EXCEPT ![i] = Nullified(@)]
        /\ Goto(c, [at |-> "hashed", index |-> i, root |-> Leaves(notes)])
        /\ UNCHANGED <<balances, credited, processed, packages, debits, chain,
                       clock>>

IsKnownRoot(root) == root \in roots

EnsureKnownRoot(c) ==
    /\ calls[c].at = "hashed"
    /\ IsKnownRoot(calls[c].root)
    /\ Goto(c, [calls[c] EXCEPT !.at = "known"])
    /\ UNCHANGED <<ledger, packages, debits, chain, clock>>

GenerateProof(c) ==
    /\ calls[c].at = "known"
    /\ packages' = packages \cup {[deposit |-> notes[calls[c].index].deposit,
                                   root |-> calls[c].root]}
    /\ Goto(c, NoCall)
    /\ UNCHANGED <<ledger, debits, chain, clock>>

Cancel(i) == notes' = [notes EXCEPT ![i] = Unlocked(@)]

\* The route without a nullifier.
CancelFirst(u, amount) ==
    \E i \in DOMAIN notes : IsFirst(notes, i, u, amount, "pending") /\ Cancel(i)

NonePending(u, amount) ==
    \A i \in DOMAIN notes : ~Matches(notes[i], u, amount, "pending")

\* A lock lost to a release, an unknown root, a node or a prover that fails:
\* the note to release is looked up again, by owner and amount alone.
PackageFails(c) ==
    LET note == notes[calls[c].index]
    IN  /\ \/ calls[c].at = "chosen" /\ ~StillPending(note)
           \/ calls[c].at \in {"hashed", "known"}
        /\ \/ CancelFirst(Owner(note), Worth(note))
           \/ NonePending(Owner(note), Worth(note)) /\ UNCHANGED notes
        /\ Goto(c, NoCall)
        /\ UNCHANGED <<balances, credited, processed, packages, debits, chain,
                       clock>>

\* The route with a nullifier releases the note it names.
CancelNullified ==
    \E i \in DOMAIN notes :
        notes[i].status = "pending" /\ notes[i].nullified /\ Cancel(i)

CancelPendingWithdrawal(u, amount) ==
    /\ CancelFirst(u, amount) \/ CancelNullified
    /\ UNCHANGED <<balances, credited, processed, calls, packages, debits,
                   chain, clock>>

(* VaultService.syncWithdrawal. *)

RequestWithdrawal(c, d) ==
    /\ calls[c] = NoCall
    /\ d \in spent \ processed
    /\ Goto(c, [at |-> "withdrawal", deposit |-> d])
    /\ UNCHANGED <<ledger, packages, debits, chain, clock>>

\* Mutant: the withdrawal is not remembered.
MutProcess(d) == processed
Process(d) == processed \cup {d}

Covers(u, amount) == balances[u] >= amount

Spend(note) == Label(note, "spent", FALSE, 0)

CommitWithdrawal(c) ==
    LET d == calls[c].deposit
        u == deposits[d].user
        amount == deposits[d].amount
    IN  /\ calls[c].at = "withdrawal"
        /\ Covers(u, amount)
        /\ balances' = [balances EXCEPT ![u] = @ - amount]
        /\ notes' = [i \in DOMAIN notes |->
                        IF notes[i].deposit = d /\ notes[i].nullified
                        THEN Spend(notes[i]) ELSE notes[i]]
        /\ processed' = Process(d)
        /\ debits' = [debits EXCEPT ![d] = @ + 1]
        /\ Goto(c, NoCall)
        /\ UNCHANGED <<credited, packages, chain, clock>>

\* The node does not answer, or the balance no longer covers the withdrawal.
SyncFails(c) ==
    /\ calls[c].at \in {"receipt", "draft", "anchored", "withdrawal"}
    /\ Goto(c, NoCall)
    /\ UNCHANGED <<ledger, packages, debits, chain, clock>>

Restart ==
    /\ calls' = [c \in Slots |-> NoCall]
    /\ UNCHANGED <<ledger, packages, debits, chain, clock>>

\* Orders and swaps move balances between users through the other services.
Trade(u, v, amount) ==
    /\ u # v
    /\ balances[u] >= amount
    /\ balances' = [balances EXCEPT ![u] = @ - amount, ![v] = @ + amount]
    /\ UNCHANGED <<notes, credited, processed, calls, packages, debits, chain,
                   clock>>

(* DarkVaultV2 and time. *)

Deposit(u, amount) ==
    /\ Len(deposits) < MaxDeposits
    /\ deposits' = Append(deposits, [user |-> u, amount |-> amount])
    /\ custody' = custody + amount
    /\ UNCHANGED <<ledger, calls, packages, debits, roots, spent, clock>>

Withdraw(package) ==
    LET amount == deposits[package.deposit].amount
    IN  /\ package.root \in roots
        /\ package.deposit \notin spent
        /\ custody >= amount
        /\ spent' = spent \cup {package.deposit}
        /\ custody' = custody - amount
        /\ UNCHANGED <<ledger, calls, packages, debits, deposits, roots, clock>>

PassTime ==
    /\ clock < MaxClock
    /\ clock' = clock + 1
    /\ UNCHANGED <<ledger, calls, packages, debits, chain>>

Next ==
    \/ \E c \in Slots :
           \/ \E d \in DOMAIN deposits : RequestDeposit(c, d)
           \/ DraftDeposit(c)
           \/ AnchorBatch(c)
           \/ CommitDeposit(c)
           \/ \E u \in Users, a \in Amounts : PrepareWithdrawalPackage(c, u, a)
           \/ SetNullifier(c)
           \/ EnsureKnownRoot(c)
           \/ GenerateProof(c)
           \/ PackageFails(c)
           \/ \E d \in spent : RequestWithdrawal(c, d)
           \/ CommitWithdrawal(c)
           \/ SyncFails(c)
    \/ \E u \in Users, a \in Amounts : CancelPendingWithdrawal(u, a)
    \/ ReleaseExpiredLocks
    \/ Restart
    \/ \E u, v \in Users, a \in Amounts : Trade(u, v, a)
    \/ \E u \in Users, a \in Amounts : Deposit(u, a)
    \/ \E p \in packages : Withdraw(p)
    \/ PassTime

Spec == Init /\ [][Next]_vars

-----------------------------------------------------------------------------
(* Properties. *)

\* Every variable has its type; no sync takes a balance below zero.
TypeOK ==
    /\ balances \in [Users -> Nat]
    /\ notes \in Seq(Note)
    /\ credited \in SUBSET Deposits
    /\ processed \in SUBSET Deposits
    /\ calls \in [Slots -> Call]
    /\ packages \in SUBSET Package
    /\ debits \in [Deposits -> Nat]
    /\ deposits \in Seq(Entry)
    /\ roots \in SUBSET Seq(Deposits)
    /\ spent \in SUBSET Deposits
    /\ custody \in Nat
    /\ clock \in 0 .. MaxClock

\* However the syncs of one deposit overlap, fail and are retried, it is
\* credited once and listed as one note.  A note waits for a nullifier only
\* while it is locked, and is spent only by a withdrawal that was processed.
NotesMatchDeposits ==
    /\ {notes[i].deposit : i \in DOMAIN notes} = credited
    /\ Len(notes) = Cardinality(credited)
    /\ \A i \in DOMAIN notes :
           /\ notes[i].nullified => notes[i].status = "pending"
           /\ notes[i].status = "spent" => notes[i].deposit \in processed

\* A package that was answered keeps verifying on chain: its root is known and
\* lists the note, whatever the matcher does later (other deposits, released
\* locks, other packages for the same note).
PackagesVerify ==
    \A p \in packages :
        /\ p.root \in roots
        /\ \E i \in DOMAIN p.root : p.root[i] = p.deposit

\* The syncs of one withdrawal that wait for its receipt.
InFlight(d) ==
    {c \in Slots : calls[c] = [at |-> "withdrawal", deposit |-> d]}

\* A withdrawal is debited only once the chain has paid it, and what was
\* processed is not asked for again.  syncWithdrawal does not look a second time
\* after its await, so a withdrawal may be debited more than once; but no more
\* often than syncs of it were under way together.
DebitsBounded ==
    \A d \in Deposits :
        /\ debits[d] > 0 <=> d \in processed
        /\ processed \subseteq spent
        /\ d \in processed =>
               debits[d] + Cardinality(InFlight(d)) <= Cardinality(Slots)

Worths(set) == SumFunction([d \in set |-> deposits[d].amount])
Owed == SumFunction(balances)
Undebited ==
    SumFunction([d \in spent |-> deposits[d].amount * (1 - debits[d])])

\* The vault holds every deposit whose note was not spent, so no package is
\* refused for lack of tokens; and the ledger owes what the vault holds, except
\* for deposits it has not been told of and withdrawals paid but not debited
\* exactly once: no other step separates the two.
LedgerBacked ==
    /\ custody = Worths(DOMAIN deposits \ spent)
    /\ Owed + Worths(DOMAIN deposits \ credited) = custody + Undebited

\* A note keeps its place in the tree, so that a path computed for it stays
\* valid, and what is spent is never locked, released or spent again.
NotesArePermanent ==
    [][/\ IsPrefix(Leaves(notes), Leaves(notes'))
       /\ \A i \in DOMAIN notes :
              notes[i].status = "spent" => notes'[i] = notes[i]]_vars

\* docs/darkvault-privacy.md: on a sync the matcher "marks the note as spent".
SyncMarksSpent ==
    \A i \in DOMAIN notes :
        notes[i].deposit \in processed => notes[i].status = "spent"
=============================================================================
