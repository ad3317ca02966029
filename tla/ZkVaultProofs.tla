---------------------------- MODULE ZkVaultProofs ----------------------------
(***************************************************************************)
(* What ZkVault guarantees for every set of users and amounts, any number  *)
(* of requests at a time and every bound: one note per deposit, packages   *)
(* that keep verifying, notes that keep their place and their end, debits  *)
(* no more than the syncs that overlapped, and a ledger that owes what the *)
(* vault holds but for amounts that have a name.                           *)
(*                                                                         *)
(* The inductive invariant adds to these what a request remembers across   *)
(* an await: a sync knows a deposit that exists, a package the index of a  *)
(* note whose leaf its root holds at that index, and a root that was       *)
(* checked is known.  Two lemmas carry the argument: a step that only      *)
(* relabels notes (Relabelling) and the step that appends one (Listing).   *)
(***************************************************************************)
EXTENDS ZkVault, SumFacts

Bounded == /\ Len(deposits) <= MaxDeposits
           /\ credited \subseteq DOMAIN deposits
           /\ spent \subseteq DOMAIN deposits
           /\ packages \subseteq [deposit : DOMAIN deposits, root : Seq(Deposits)]

Syncing(call) == call.at \in {"receipt", "draft", "anchored", "withdrawal"}
Packing(call) == call.at \in {"chosen", "hashed", "known"}
Rooted(call) == call.at \in {"hashed", "known"}

\* What a request remembers is still true.
Follows(call) ==
    /\ Syncing(call) => call.deposit \in DOMAIN deposits
    /\ call.at = "withdrawal" => call.deposit \in spent
    /\ Packing(call) => call.index \in DOMAIN notes
    /\ Rooted(call) => /\ call.index \in DOMAIN call.root
                       /\ call.root[call.index] = notes[call.index].deposit
    /\ call.at = "known" => call.root \in roots

CallsFollow == \A c \in Slots : Follows(calls[c])

IndInv == /\ TypeOK
          /\ Bounded
          /\ CallsFollow
          /\ NotesMatchDeposits
          /\ PackagesVerify

WellFormed(note) == /\ note.nullified => note.status = "pending"
                    /\ note.status = "spent" => note.deposit \in processed

WellLabelled == \A i \in DOMAIN notes : WellFormed(notes[i])

\* new is list with other labels on its notes; what is spent stays as it is.
Relabels(list, new) ==
    /\ new \in Seq(Note)
    /\ Len(new) = Len(list)
    /\ \A i \in DOMAIN list :
           /\ new[i].deposit = list[i].deposit
           /\ list[i].status = "spent" => new[i] = list[i]

\* Nothing exists at the start.
LEMMA Starts == Init => IndInv
  <1> SUFFICES ASSUME Init PROVE IndInv
    OBVIOUS
  <1>1. TypeOK
    BY ZkInputs DEF Init, TypeOK, Deposits, Note, Package, Call
  <1>2. Bounded /\ PackagesVerify
    BY ZkInputs DEF Init, Bounded, PackagesVerify
  <1>3. CallsFollow
    BY DEF Init, CallsFollow, Follows, NoCall, Syncing, Packing, Rooted
  <1>4. NotesMatchDeposits
    BY FS_EmptySet DEF Init, NotesMatchDeposits
  <1> QED BY <1>1, <1>2, <1>3, <1>4 DEF IndInv

\* Relabelled notes are the same leaves, and as well formed as their labels.
LEMMA Relabelling ==
  ASSUME IndInv, Relabels(notes, notes'), credited' = credited,
         WellLabelled'
  PROVE  /\ notes' \in Seq(Note)
         /\ NotesMatchDeposits'
         /\ Leaves(notes') = Leaves(notes)
         /\ DOMAIN notes' = DOMAIN notes
         /\ \A i \in DOMAIN notes : notes'[i].deposit = notes[i].deposit
  <1>1. notes \in Seq(Note) /\ notes' \in Seq(Note) /\ Len(notes') = Len(notes)
    BY DEF IndInv, TypeOK, Relabels
  <1>2. DOMAIN notes' = DOMAIN notes
    BY <1>1
  <1>3. \A i \in DOMAIN notes : notes'[i].deposit = notes[i].deposit
    BY DEF Relabels
  <1>4. Leaves(notes') = Leaves(notes)
    BY <1>2, <1>3 DEF Leaves
  <1>5. {notes'[i].deposit : i \in DOMAIN notes'}
          = {notes[i].deposit : i \in DOMAIN notes}
    BY <1>2, <1>3
  <1>6. NotesMatchDeposits'
    BY <1>1, <1>2, <1>5 DEF IndInv, NotesMatchDeposits, WellLabelled, WellFormed
  <1> QED BY <1>1, <1>2, <1>3, <1>4, <1>6

\* The leaves of a list are as many as its notes.
LEMMA LeavesType ==
  ASSUME NEW s \in Seq(Note)
  PROVE  Leaves(s) \in Seq(Deposits) /\ Len(Leaves(s)) = Len(s)
  <1>1. \A i \in 1 .. Len(s) : s[i].deposit \in Deposits
    <2>1. \A note \in Note : note.deposit \in Deposits
      BY DEF Note
    <2>2. \A i \in 1 .. Len(s) : s[i] \in Note
      OBVIOUS
    <2> QED BY <2>1, <2>2
  <1>2. Leaves(s) = [i \in 1 .. Len(s) |-> s[i].deposit] /\ Len(s) \in Nat
    BY DEF Leaves
  <1>3. Leaves(s) \in [1 .. Len(s) -> Deposits]
    BY <1>1, <1>2
  <1>4. Leaves(s) \in Seq(Deposits) /\ DOMAIN Leaves(s) = 1 .. Len(s)
    BY <1>2, <1>3
  <1> QED BY <1>2, <1>4

\* A new note at the end: the leaves grow, no other note changes.
LEMMA Listing ==
  ASSUME IndInv, NEW d \in Deposits, d \notin credited,
         notes' = Append(notes, NewNote(d)), credited' = credited \cup {d},
         processed' = processed
  PROVE  /\ notes' \in Seq(Note)
         /\ NotesMatchDeposits'
         /\ Leaves(notes') = Append(Leaves(notes), d)
         /\ DOMAIN notes \subseteq DOMAIN notes'
         /\ \A i \in DOMAIN notes : notes'[i] = notes[i]
  <1> DEFINE n == NewNote(d)
  <1>1. /\ n \in Note /\ n.deposit = d /\ n.status = "unspent"
        /\ n.nullified = FALSE
    BY ZkInputs DEF NewNote, Note
  <1> HIDE DEF n
  <1>2. notes \in Seq(Note) /\ notes' = Append(notes, n)
    BY DEF IndInv, TypeOK, n
  <1>3. /\ notes' \in Seq(Note) /\ Len(notes') = Len(notes) + 1
        /\ \A i \in DOMAIN notes : notes'[i] = notes[i]
        /\ notes'[Len(notes) + 1] = n
        /\ DOMAIN notes = 1 .. Len(notes)
        /\ DOMAIN notes' = 1 .. (Len(notes) + 1)
        /\ Len(notes) \in Nat
    BY <1>1, <1>2
  <1>4. DOMAIN notes' = DOMAIN notes \cup {Len(notes) + 1}
    BY <1>3
  <1>5. Leaves(notes') = Append(Leaves(notes), d)
    <2>1. /\ Leaves(notes) \in Seq(Deposits) /\ Len(Leaves(notes)) = Len(notes)
          /\ Leaves(notes') \in Seq(Deposits)
          /\ Len(Leaves(notes')) = Len(notes) + 1
      BY <1>2, <1>3, LeavesType
    <2>2. \A i \in 1 .. Len(notes) : Leaves(notes')[i] = Leaves(notes)[i]
      BY <1>3 DEF Leaves
    <2>3. Leaves(notes')[Len(notes) + 1] = d
      BY <1>1, <1>3 DEF Leaves
    <2> QED BY <2>1, <2>2, <2>3, <1>3
  <1>6. {notes'[i].deposit : i \in DOMAIN notes'}
          = {notes[i].deposit : i \in DOMAIN notes} \cup {d}
    BY <1>1, <1>3, <1>4
  <1>7. /\ {notes[i].deposit : i \in DOMAIN notes} = credited
        /\ Len(notes) = Cardinality(credited)
        /\ WellLabelled
    BY DEF IndInv, NotesMatchDeposits, WellLabelled, WellFormed
  <1>8. IsFiniteSet(credited)
    <2>1. IsFiniteSet(Deposits) /\ credited \subseteq Deposits
      BY FS_Interval, ZkInputs DEF IndInv, TypeOK, Deposits
    <2> QED BY <2>1, FS_Subset
  <1>9. Len(notes') = Cardinality(credited')
    <2>1. Cardinality(credited \cup {d}) = Cardinality(credited) + 1
      BY <1>8, FS_AddElement
    <2> QED BY <2>1, <1>3, <1>7
  <1>10. WellLabelled'
    <2> SUFFICES ASSUME NEW i \in DOMAIN notes' PROVE WellFormed(notes[i])'
      BY DEF WellLabelled
    <2>1. CASE i \in DOMAIN notes
      <3>1. notes'[i] = notes[i] /\ WellFormed(notes[i])
        BY <2>1, <1>3, <1>7 DEF WellLabelled
      <3> QED BY <3>1 DEF WellFormed
    <2>2. CASE i = Len(notes) + 1
      BY <2>2, <1>1, <1>3 DEF WellFormed
    <2> QED BY <2>1, <2>2, <1>4
  <1>11. NotesMatchDeposits'
    BY <1>6, <1>7, <1>9, <1>10
       DEF NotesMatchDeposits, WellLabelled, WellFormed
  <1> QED BY <1>3, <1>4, <1>5, <1>11

\* Requests stay right when nothing they rely on is lost.
LEMMA Following ==
  ASSUME CallsFollow,
         DOMAIN deposits \subseteq DOMAIN deposits', spent \subseteq spent',
         roots \subseteq roots', DOMAIN notes \subseteq DOMAIN notes',
         \A i \in DOMAIN notes : notes'[i].deposit = notes[i].deposit,
         \A c \in Slots : calls'[c] = calls[c] \/ Follows(calls[c])'
  PROVE  CallsFollow'
  <1> SUFFICES ASSUME NEW c \in Slots, calls'[c] = calls[c]
               PROVE  Follows(calls[c])'
    BY DEF CallsFollow
  <1> QED BY DEF CallsFollow, Follows, Syncing, Packing, Rooted

\* A request is what its stage says.
LEMMA Shapes ==
  ASSUME NEW call \in Call
  PROVE  /\ call.at = "receipt" => call \in [at : {"receipt"}, deposit : Deposits]
         /\ call.at \in {"draft", "anchored"} =>
               call \in [at : {"draft", "anchored"}, deposit : Deposits,
                        root : Seq(Deposits)]
         /\ call.at = "withdrawal" => call \in WithdrawalSync
         /\ call.at = "chosen" => call \in [at : {"chosen"}, index : Deposits]
         /\ Rooted(call) => call \in [at : {"hashed", "known"}, index : Deposits,
                                     root : Seq(Deposits)]
  BY DEF Call, DepositSync, WithdrawalSync, Proving, NoCall, Rooted

\* An idle slot follows, and is a request.
LEMMA Idle == NoCall \in Call /\ \A c \in Slots : calls'[c] = NoCall => Follows(calls[c])'
  BY DEF NoCall, Call, Follows, Syncing, Packing, Rooted

\* Steps of a deposit sync that leave the ledger alone.
LEMMA Depositing ==
  ASSUME IndInv, NEW c \in Slots,
         \/ \E d \in DOMAIN deposits : RequestDeposit(c, d)
         \/ DraftDeposit(c)
         \/ AnchorBatch(c)
  PROVE  IndInv'
  <1>1. /\ UNCHANGED <<ledger, packages, debits, deposits, spent, custody, clock>>
        /\ roots \subseteq roots'
    BY DEF RequestDeposit, DraftDeposit, AnchorBatch, chain
  <1>2. /\ calls \in [Slots -> Call] /\ calls[c] \in Call /\ Follows(calls[c])
        /\ notes \in Seq(Note) /\ DOMAIN deposits \subseteq Deposits
    BY ZkInputs DEF IndInv, TypeOK, CallsFollow, Bounded, Deposits
  <1>3. \E call \in Call : /\ calls' = [calls EXCEPT ![c] = call]
                           /\ Syncing(call) => call.deposit \in DOMAIN deposits
                           /\ call.at \in {"none", "receipt", "draft", "anchored"}
                           /\ roots' \subseteq Seq(Deposits)
    <2>1. CASE \E d \in DOMAIN deposits : RequestDeposit(c, d)
      <3> PICK d \in DOMAIN deposits : RequestDeposit(c, d)
        BY <2>1
      <3> DEFINE call == [at |-> "receipt", deposit |-> d]
      <3>1. call \in Call
        BY <1>2 DEF Call, DepositSync
      <3> QED BY <3>1, <1>2 DEF RequestDeposit, Goto, chain, IndInv, TypeOK
    <2>2. CASE DraftDeposit(c)
      <3> DEFINE d == calls[c].deposit
                 call == [at |-> "draft", deposit |-> d,
                          root |-> Append(Leaves(notes), d)]
      <3>1. d \in DOMAIN deposits
        BY <2>2, <1>2 DEF DraftDeposit, Follows, Syncing
      <3>2. Leaves(notes) \in Seq(Deposits)
        BY <1>2, LeavesType
      <3>3. call \in Call
        BY <3>1, <3>2, <1>2 DEF Call, DepositSync
      <3> HIDE DEF call
      <3>4. calls' = [calls EXCEPT ![c] = NoCall] \/ calls' = [calls EXCEPT ![c] = call]
        BY <2>2 DEF DraftDeposit, Goto, call
      <3>5. call.at = "draft" /\ call.deposit = d
        BY DEF call
      <3>6. roots' \subseteq Seq(Deposits)
        BY <2>2 DEF DraftDeposit, chain, IndInv, TypeOK
      <3>7. NoCall.at = "none" /\ ~Syncing(NoCall)
        BY DEF NoCall, Syncing
      <3> QED BY <3>1, <3>3, <3>4, <3>5, <3>6, <3>7, Idle
    <2>3. CASE AnchorBatch(c)
      <3> DEFINE call == [calls[c] EXCEPT !.at = "anchored"]
      <3>1. /\ calls[c].at = "draft" /\ calls' = [calls EXCEPT ![c] = call]
            /\ roots' = roots \cup {calls[c].root}
        BY <2>3 DEF AnchorBatch, Goto
      <3>2. calls[c] \in [at : {"draft", "anchored"}, deposit : Deposits,
                          root : Seq(Deposits)]
        BY <3>1, <1>2, Shapes
      <3>3. /\ call \in [at : {"draft", "anchored"}, deposit : Deposits,
                         root : Seq(Deposits)]
            /\ call.at = "anchored" /\ call.deposit = calls[c].deposit
        BY <3>2
      <3>4. call.deposit \in DOMAIN deposits
        BY <3>1, <3>3, <1>2 DEF Follows, Syncing
      <3> HIDE DEF call
      <3>5. call \in Call
        BY <3>3 DEF Call, DepositSync
      <3>6. roots' \subseteq Seq(Deposits)
        BY <3>1, <3>2 DEF IndInv, TypeOK
      <3> QED BY <3>1, <3>3, <3>4, <3>5, <3>6
    <2> QED BY <2>1, <2>2, <2>3
  <1> PICK call \in Call : /\ calls' = [calls EXCEPT ![c] = call]
                           /\ Syncing(call) => call.deposit \in DOMAIN deposits
                           /\ call.at \in {"none", "receipt", "draft", "anchored"}
                           /\ roots' \subseteq Seq(Deposits)
    BY <1>3
  <1>4. /\ calls' \in [Slots -> Call] /\ calls'[c] = call
        /\ \A e \in Slots \ {c} : calls'[e] = calls[e]
    BY <1>2
  <1>5. CallsFollow'
    <2>1. Follows(calls[c])'
      BY <1>1, <1>4 DEF Follows, Syncing, Packing, Rooted
    <2>2. notes' = notes /\ spent' = spent /\ deposits' = deposits
      BY <1>1 DEF ledger
    <2> QED BY <1>1, <1>4, <2>1, <2>2, Following DEF IndInv
  <1>6. TypeOK'
    BY <1>1, <1>4 DEF IndInv, TypeOK, ledger
  <1>7. Bounded' /\ NotesMatchDeposits' /\ PackagesVerify'
    BY <1>1 DEF IndInv, Bounded, NotesMatchDeposits, PackagesVerify, ledger
  <1> QED BY <1>5, <1>6, <1>7 DEF IndInv

\* A package passes the check of its root and is answered.
LEMMA Packaging ==
  ASSUME IndInv, NEW c \in Slots, EnsureKnownRoot(c) \/ GenerateProof(c)
  PROVE  IndInv'
  <1>1. UNCHANGED <<ledger, debits, chain, clock>>
    BY DEF EnsureKnownRoot, GenerateProof
  <1>2. /\ calls \in [Slots -> Call] /\ calls[c] \in Call /\ Follows(calls[c])
        /\ notes \in Seq(Note) /\ DOMAIN deposits \subseteq Deposits
    BY ZkInputs DEF IndInv, TypeOK, CallsFollow, Bounded, Deposits
  <1>3. CASE EnsureKnownRoot(c)
    <2> DEFINE call == [calls[c] EXCEPT !.at = "known"]
    <2>1. /\ calls[c].at = "hashed" /\ calls[c].root \in roots
          /\ calls' = [calls EXCEPT ![c] = call] /\ packages' = packages
      BY <1>3 DEF EnsureKnownRoot, IsKnownRoot, Goto
    <2>2. calls[c] \in [at : {"hashed", "known"}, index : Deposits,
                        root : Seq(Deposits)]
      BY <2>1, <1>2, Shapes DEF Rooted
    <2>3. /\ call \in [at : {"hashed", "known"}, index : Deposits,
                       root : Seq(Deposits)]
          /\ call.at = "known" /\ call.index = calls[c].index
          /\ call.root = calls[c].root
      BY <2>2
    <2> HIDE DEF call
    <2>4. call \in Call
      BY <2>3 DEF Call, Proving
    <2>5. /\ calls' \in [Slots -> Call] /\ calls'[c] = call
          /\ \A e \in Slots \ {c} : calls'[e] = calls[e]
      BY <1>2, <2>1, <2>4
    <2>6. /\ notes' = notes /\ spent' = spent /\ deposits' = deposits
          /\ roots' = roots
      BY <1>1 DEF ledger, chain
    <2>7. Follows(calls[c])'
      BY <1>2, <2>1, <2>3, <2>5, <2>6 DEF Follows, Syncing, Packing, Rooted
    <2>8. CallsFollow'
      BY <2>5, <2>6, <2>7, Following DEF IndInv
    <2> QED BY <1>1, <2>1, <2>5, <2>8
            DEF IndInv, TypeOK, Bounded, NotesMatchDeposits, PackagesVerify,
                ledger, chain
  <1>4. CASE GenerateProof(c)
    <2> DEFINE i == calls[c].index
               p == [deposit |-> notes[i].deposit, root |-> calls[c].root]
    <2>1. /\ calls[c].at = "known" /\ calls' = [calls EXCEPT ![c] = NoCall]
          /\ packages' = packages \cup {p}
      BY <1>4 DEF GenerateProof, Goto
    <2>2. /\ calls[c].root \in Seq(Deposits) /\ i \in DOMAIN notes
          /\ i \in DOMAIN calls[c].root /\ calls[c].root[i] = notes[i].deposit
          /\ calls[c].root \in roots
      BY <2>1, <1>2, Shapes DEF Follows, Packing, Rooted
    <2>3. notes[i].deposit \in DOMAIN deposits
      BY <2>2 DEF IndInv, NotesMatchDeposits, Bounded
    <2>4. p \in [deposit : DOMAIN deposits, root : Seq(Deposits)] /\ p \in Package
      BY <2>2, <2>3, <1>2 DEF Package
    <2>5. p.root \in roots /\ \E j \in DOMAIN p.root : p.root[j] = p.deposit
      BY <2>2
    <2> HIDE DEF p
    <2>6. /\ calls' \in [Slots -> Call] /\ calls'[c] = NoCall
          /\ \A e \in Slots \ {c} : calls'[e] = calls[e]
      BY <1>2, <2>1, Idle
    <2>7. /\ notes' = notes /\ spent' = spent /\ deposits' = deposits
          /\ roots' = roots
      BY <1>1 DEF ledger, chain
    <2>8. CallsFollow'
      BY <2>6, <2>7, Idle, Following DEF IndInv
    <2>9. Bounded' /\ NotesMatchDeposits'
      BY <1>1, <2>1, <2>4
         DEF IndInv, Bounded, NotesMatchDeposits, ledger, chain
    <2>10. PackagesVerify'
      BY <2>1, <2>5, <2>7 DEF IndInv, PackagesVerify
    <2>11. TypeOK'
      BY <1>1, <2>1, <2>4, <2>6 DEF IndInv, TypeOK, ledger, chain
    <2> QED BY <2>8, <2>9, <2>10, <2>11 DEF IndInv
  <1> QED BY <1>3, <1>4

\* Requests that begin to wait for a withdrawal, fail or are lost in a restart.
LEMMA Dropping ==
  ASSUME IndInv,
         \/ \E c \in Slots, d \in spent : RequestWithdrawal(c, d)
         \/ \E c \in Slots : SyncFails(c)
         \/ Restart
  PROVE  IndInv'
  <1>1. UNCHANGED <<ledger, packages, debits, chain, clock>>
    BY DEF RequestWithdrawal, SyncFails, Restart
  <1>2. /\ calls \in [Slots -> Call] /\ spent \subseteq DOMAIN deposits
        /\ spent \subseteq Deposits
    BY DEF IndInv, TypeOK, Bounded
  <1>3. /\ notes' = notes /\ spent' = spent /\ deposits' = deposits
        /\ roots' = roots
    BY <1>1 DEF ledger, chain
  <1>4. calls' \in [Slots -> Call] /\ CallsFollow'
    <2>1. CASE \E c \in Slots, d \in spent : RequestWithdrawal(c, d)
      <3> PICK c \in Slots, d \in spent : RequestWithdrawal(c, d)
        BY <2>1
      <3> DEFINE call == [at |-> "withdrawal", deposit |-> d]
      <3>1. call \in Call /\ call.at = "withdrawal" /\ call.deposit = d
        BY <1>2 DEF Call, WithdrawalSync
      <3>2. calls' = [calls EXCEPT ![c] = call]
        BY DEF RequestWithdrawal, Goto
      <3> HIDE DEF call
      <3>3. /\ calls' \in [Slots -> Call] /\ calls'[c] = call
            /\ \A e \in Slots \ {c} : calls'[e] = calls[e]
        BY <1>2, <3>1, <3>2
      <3>4. Follows(calls[c])'
        BY <1>2, <1>3, <3>1, <3>3 DEF Follows, Syncing, Packing, Rooted
      <3> QED BY <1>3, <3>3, <3>4, Following DEF IndInv
    <2>2. CASE (\E c \in Slots : SyncFails(c)) \/ Restart
      <3>1. /\ calls' \in [Slots -> Call]
            /\ \A e \in Slots : calls'[e] = calls[e] \/ calls'[e] = NoCall
        BY <2>2, <1>2, Idle DEF SyncFails, Restart, Goto
      <3> QED BY <1>3, <3>1, Idle, Following DEF IndInv
    <2> QED BY <2>1, <2>2
  <1> QED BY <1>1, <1>4
          DEF IndInv, TypeOK, Bounded, NotesMatchDeposits, PackagesVerify,
              ledger, chain

\* The chain, time and the other services.
LEMMA Outside ==
  ASSUME IndInv,
         \/ \E u, v \in Users, a \in Amounts : Trade(u, v, a)
         \/ \E u \in Users, a \in Amounts : Deposit(u, a)
         \/ \E p \in packages : Withdraw(p)
         \/ PassTime
  PROVE  IndInv'
  <1>1. /\ UNCHANGED <<notes, credited, processed, calls, packages, debits, roots>>
        /\ UNCHANGED <<deposits, spent, custody>> \/ UNCHANGED <<balances, clock>>
    BY DEF Trade, Deposit, Withdraw, PassTime, ledger, chain
  <1>2. /\ balances' \in [Users -> Nat] /\ clock' \in 0 .. MaxClock
    <2>1. CASE \E u, v \in Users, a \in Amounts : Trade(u, v, a)
      <3> PICK u \in Users, v \in Users, a \in Amounts : Trade(u, v, a)
        BY <2>1
      <3>1. /\ a \in Nat /\ balances \in [Users -> Nat] /\ balances[u] - a \in Nat
            /\ balances[v] + a \in Nat
            /\ clock' = clock /\ clock \in 0 .. MaxClock
        BY ZkInputs DEF IndInv, TypeOK, Trade
      <3>2. balances' = [balances EXCEPT ![u] = balances[u] - a,
                                         ![v] = balances[v] + a]
        BY <3>1 DEF Trade
      <3> QED BY <3>1, <3>2
    <2>2. CASE UNCHANGED balances
      <3>1. balances' \in [Users -> Nat]
        BY <2>2 DEF IndInv, TypeOK
      <3>2. clock \in 0 .. MaxClock
        BY DEF IndInv, TypeOK
      <3>3. clock' = clock \/ (clock < MaxClock /\ clock' = clock + 1)
        BY DEF Trade, Deposit, Withdraw, PassTime
      <3> QED BY <3>1, <3>2, <3>3, ZkInputs
    <2> QED BY <2>1, <2>2 DEF Deposit, Withdraw, PassTime, ledger
  <1>3. /\ deposits' \in Seq(Entry)
        /\ Len(deposits') <= MaxDeposits
        /\ DOMAIN deposits \subseteq DOMAIN deposits'
        /\ spent \subseteq spent' /\ spent' \subseteq DOMAIN deposits
        /\ custody' \in Nat
    <2>1. /\ deposits \in Seq(Entry)
          /\ Len(deposits) <= MaxDeposits /\ spent \subseteq DOMAIN deposits
          /\ custody \in Nat
          /\ \A p \in packages : p.deposit \in DOMAIN deposits
      BY DEF IndInv, TypeOK, Bounded
    <2>2. CASE \E u \in Users, a \in Amounts : Deposit(u, a)
      <3> PICK u \in Users, a \in Amounts : Deposit(u, a)
        BY <2>2
      <3> DEFINE entry == [user |-> u, amount |-> a]
      <3>1. entry \in Entry /\ a \in Nat
        BY ZkInputs DEF Entry
      <3>2. /\ Len(deposits) < MaxDeposits /\ deposits' = Append(deposits, entry)
            /\ custody' = custody + a /\ spent' = spent
        BY DEF Deposit
      <3> HIDE DEF entry
      <3>3. /\ deposits' \in Seq(Entry)
            /\ Len(deposits') = Len(deposits) + 1 /\ Len(deposits) \in Nat
            /\ DOMAIN deposits = 1 .. Len(deposits)
            /\ DOMAIN deposits' = 1 .. Len(deposits')
        BY <2>1, <3>1, <3>2
      <3> QED BY <2>1, <3>1, <3>2, <3>3, ZkInputs
    <2>3. CASE \E p \in packages : Withdraw(p)
      <3> PICK p \in packages : Withdraw(p)
        BY <2>3
      <3> DEFINE a == deposits[p.deposit].amount
      <3>1. a \in Nat /\ p.deposit \in DOMAIN deposits
        <4>1. \A e \in Entry : e.amount \in Nat
          BY ZkInputs DEF Entry
        <4>2. p.deposit \in DOMAIN deposits
          BY <2>1
        <4>3. deposits[p.deposit] \in Entry
          <5>1. deposits \in Seq(Entry)
            BY <2>1
          <5>2. \A j \in 1 .. Len(deposits) : deposits[j] \in Entry
            BY <5>1
          <5> QED BY <4>2, <5>1, <5>2
        <4> QED BY <4>1, <4>2, <4>3
      <3>2. /\ custody >= a /\ custody' = custody - a /\ deposits' = deposits
            /\ spent' = spent \cup {p.deposit}
        BY DEF Withdraw
      <3> HIDE DEF a
      <3>3. custody' \in Nat
        BY <2>1, <3>1, <3>2
      <3> QED BY <2>1, <3>1, <3>2, <3>3
    <2>4. CASE UNCHANGED <<deposits, spent, custody>>
      BY <2>1, <2>4
    <2> QED BY <2>2, <2>3, <2>4 DEF Trade, PassTime, chain
  <1>4. TypeOK'
    <2>1. DOMAIN deposits \subseteq Deposits
      BY ZkInputs DEF IndInv, TypeOK, Bounded, Deposits
    <2>2. spent' \in SUBSET Deposits
      BY <1>3, <2>1
    <2> QED BY <1>1, <1>2, <1>3, <2>2 DEF IndInv, TypeOK
  <1>5. Bounded'
    BY <1>1, <1>3 DEF IndInv, Bounded
  <1>6. CallsFollow'
    BY <1>1, <1>3, Following DEF IndInv
  <1>7. NotesMatchDeposits' /\ PackagesVerify'
    BY <1>1 DEF IndInv, NotesMatchDeposits, PackagesVerify
  <1> QED BY <1>4, <1>5, <1>6, <1>7 DEF IndInv

\* What the four labels do to a note.
LEMMA Labels ==
  ASSUME NEW note \in Note, clock \in 0 .. MaxClock
  PROVE  /\ Unlocked(note) \in Note /\ Unlocked(note).deposit = note.deposit
         /\ Unlocked(note).status = "unspent" /\ Unlocked(note).nullified = FALSE
         /\ Locked(note) \in Note /\ Locked(note).deposit = note.deposit
         /\ Locked(note).status = "pending"
         /\ Spend(note) \in Note /\ Spend(note).deposit = note.deposit
         /\ Spend(note).status = "spent" /\ Spend(note).nullified = FALSE
         /\ Nullified(note) \in Note /\ Nullified(note).deposit = note.deposit
         /\ Nullified(note).status = note.status
  <1>1. /\ note.deposit \in Deposits /\ note.nullified \in BOOLEAN
        /\ note.status \in {"unspent", "pending", "spent"}
        /\ note.since \in 0 .. MaxClock /\ 0 \in 0 .. MaxClock
    BY ZkInputs DEF Note
  <1> QED BY <1>1 DEF Note, Label, Unlocked, Locked, Spend, Nullified

\* A step that relabels notes and moves on at most one request.
LEMMA RelabelStep ==
  ASSUME IndInv, Relabels(notes, notes'), WellLabelled',
         balances' \in [Users -> Nat], processed' \in SUBSET Deposits,
         debits' \in [Deposits -> Nat],
         UNCHANGED <<credited, packages, chain, clock>>,
         calls' \in [Slots -> Call],
         \A c \in Slots : calls'[c] = calls[c] \/ Follows(calls[c])'
  PROVE  IndInv'
  <1>1. /\ notes' \in Seq(Note) /\ NotesMatchDeposits'
        /\ DOMAIN notes' = DOMAIN notes
        /\ \A i \in DOMAIN notes : notes'[i].deposit = notes[i].deposit
    BY Relabelling
  <1>2. /\ UNCHANGED <<credited, packages, deposits, roots, spent, custody, clock>>
    BY DEF chain
  <1>3. TypeOK'
    BY <1>1, <1>2 DEF IndInv, TypeOK
  <1>4. Bounded' /\ PackagesVerify'
    BY <1>2 DEF IndInv, Bounded, PackagesVerify
  <1>5. CallsFollow'
    BY <1>1, <1>2, Following DEF IndInv
  <1> QED BY <1>1, <1>3, <1>4, <1>5 DEF IndInv

\* One note that is not spent gets another label.
LEMMA OneLabel ==
  ASSUME NEW list \in Seq(Note), NEW i \in DOMAIN list, list[i].status # "spent",
         NEW note \in Note, note.deposit = list[i].deposit
  PROVE  /\ Relabels(list, [list EXCEPT ![i] = note])
         /\ [list EXCEPT ![i] = note][i] = note
         /\ \A j \in DOMAIN list : j # i => [list EXCEPT ![i] = note][j] = list[j]
  <1> DEFINE new == [list EXCEPT ![i] = note]
  <1>1. new \in Seq(Note) /\ Len(new) = Len(list)
    OBVIOUS
  <1>2. new[i] = note /\ \A j \in DOMAIN list : j # i => new[j] = list[j]
    OBVIOUS
  <1> HIDE DEF new
  <1>3. Relabels(list, new)
    BY <1>1, <1>2 DEF Relabels
  <1> QED BY <1>2, <1>3 DEF new

\* The release of expired locks, at any time and in front of a package.
LEMMA Releasing ==
  ASSUME IndInv
  PROVE  /\ Relabels(notes, Released)
         /\ \A i \in DOMAIN notes : WellFormed(Released[i])
         /\ \A i \in DOMAIN notes :
               Released[i].status = "unspent" =>
                  notes[i].status # "spent" /\ Released[i].nullified = FALSE
  <1>1. notes \in Seq(Note) /\ clock \in 0 .. MaxClock
    BY DEF IndInv, TypeOK
  <1>2. /\ \A i \in DOMAIN notes : notes[i] \in Note
        /\ \A i \in DOMAIN notes : WellFormed(notes[i])
        /\ DOMAIN notes = 1 .. Len(notes) /\ Len(notes) \in Nat
    <2>1. \A i \in 1 .. Len(notes) : notes[i] \in Note
      BY <1>1
    <2> QED BY <1>1, <2>1 DEF IndInv, NotesMatchDeposits, WellFormed
  <1>3. \A i \in DOMAIN notes :
           \/ Released[i] = notes[i]
           \/ Released[i] = Unlocked(notes[i]) /\ notes[i].status = "pending"
    BY DEF Released, HasExpired
  <1>4. \A i \in DOMAIN notes :
           /\ Released[i] \in Note
           /\ Released[i].deposit = notes[i].deposit
           /\ notes[i].status = "spent" => Released[i] = notes[i]
           /\ WellFormed(Released[i])
           /\ Released[i].status = "unspent" =>
                  notes[i].status # "spent" /\ Released[i].nullified = FALSE
    <2> SUFFICES ASSUME NEW i \in DOMAIN notes
                 PROVE  /\ Released[i] \in Note
                        /\ Released[i].deposit = notes[i].deposit
                        /\ notes[i].status = "spent" => Released[i] = notes[i]
                        /\ WellFormed(Released[i])
                        /\ Released[i].status = "unspent" =>
                              /\ notes[i].status # "spent"
                              /\ Released[i].nullified = FALSE
      OBVIOUS
    <2>1. notes[i] \in Note /\ WellFormed(notes[i])
      BY <1>2
    <2>2. CASE Released[i] = notes[i]
      <3>1. notes[i].nullified \in BOOLEAN
        BY <2>1 DEF Note
      <3> QED BY <2>1, <2>2, <3>1 DEF WellFormed
    <2>3. CASE Released[i] = Unlocked(notes[i]) /\ notes[i].status = "pending"
      <3>1. /\ Unlocked(notes[i]) \in Note
            /\ Unlocked(notes[i]).deposit = notes[i].deposit
            /\ Unlocked(notes[i]).status = "unspent"
            /\ Unlocked(notes[i]).nullified = FALSE
        BY <1>1, <2>1, Labels
      <3> QED BY <2>3, <3>1 DEF WellFormed
    <2> QED BY <1>3, <2>2, <2>3
  <1>5. Released = [i \in 1 .. Len(notes) |-> Released[i]]
    BY <1>2 DEF Released
  <1>6. Released \in Seq(Note) /\ Len(Released) = Len(notes)
    <2> DEFINE r == Released
    <2>1. r = [i \in 1 .. Len(notes) |-> r[i]]
      BY <1>5
    <2>2. \A i \in 1 .. Len(notes) : r[i] \in Note
      BY <1>2, <1>4
    <2> HIDE DEF r
    <2>3. r \in [1 .. Len(notes) -> Note]
      BY <2>1, <2>2
    <2>4. r \in Seq(Note) /\ Len(r) = Len(notes)
      BY <1>2, <2>1, <2>3
    <2> QED BY <2>4 DEF r
  <1> QED BY <1>4, <1>6 DEF Relabels

\* Relabelling composes.
LEMMA RelabelTwice ==
  ASSUME NEW list, NEW mid, NEW new, DOMAIN mid = DOMAIN list,
         Relabels(list, mid), Relabels(mid, new)
  PROVE  Relabels(list, new)
  BY DEF Relabels

\* One note that is not spent is relabelled, in the released list or in notes,
\* and requests move on.
OneLabelled(list, i, note) ==
    /\ Relabels(notes, list)
    /\ \A j \in DOMAIN notes : WellFormed(list[j])
    /\ list[i].status # "spent"
    /\ note \in Note
    /\ note.deposit = list[i].deposit
    /\ note.status # "spent"
    /\ note.nullified => note.status = "pending"
    /\ notes' = [list EXCEPT ![i] = note]
    /\ UNCHANGED <<balances, credited, processed, packages, debits, chain, clock>>
    /\ calls' \in [Slots -> Call]
    /\ \A c \in Slots : calls'[c] = calls[c] \/ Follows(calls[c])'

\* Such a step keeps the invariant and relabels the notes.
LEMMA OneLabelStep ==
  ASSUME IndInv, NEW list, NEW i \in DOMAIN notes, NEW note,
         OneLabelled(list, i, note)
  PROVE  IndInv' /\ Relabels(notes, notes')
  <1> USE DEF OneLabelled
  <1>1. /\ notes \in Seq(Note) /\ list \in Seq(Note) /\ Len(list) = Len(notes)
    BY DEF IndInv, TypeOK, Relabels
  <1>2. DOMAIN list = DOMAIN notes
    BY <1>1
  <1>3. /\ Relabels(list, notes') /\ notes'[i] = note
        /\ \A j \in DOMAIN list : j # i => notes'[j] = list[j]
    BY <1>1, <1>2, OneLabel
  <1>4. Relabels(notes, notes')
    BY <1>2, <1>3, RelabelTwice
  <1>5. DOMAIN notes' = DOMAIN notes
    <2>1. notes' \in Seq(Note) /\ Len(notes') = Len(notes)
      BY <1>1, <1>4 DEF Relabels
    <2> QED BY <1>1, <2>1
  <1>6. WellLabelled'
    <2> SUFFICES ASSUME NEW j \in DOMAIN notes PROVE WellFormed(notes[j])'
      BY <1>5 DEF WellLabelled
    <2>1. CASE j = i
      BY <2>1, <1>3 DEF WellFormed
    <2>2. CASE j # i
      <3>1. notes'[j] = list[j] /\ WellFormed(list[j])
        BY <2>2, <1>2, <1>3
      <3> QED BY <3>1 DEF WellFormed
    <2> QED BY <2>1, <2>2
  <1> QED BY <1>4, <1>6, RelabelStep DEF IndInv, TypeOK

\* The list itself is a relabelling that releases nothing.
LEMMA SameList ==
  ASSUME IndInv
  PROVE  /\ Relabels(notes, notes)
         /\ \A j \in DOMAIN notes : WellFormed(notes[j])
         /\ \A j \in DOMAIN notes : notes[j] \in Note
         /\ clock \in 0 .. MaxClock
  <1>1. notes \in Seq(Note)
    BY DEF IndInv, TypeOK
  <1>2. \A j \in 1 .. Len(notes) : notes[j] \in Note
    BY <1>1
  <1> QED BY <1>1, <1>2 DEF Relabels, IndInv, NotesMatchDeposits, WellFormed, TypeOK

\* A package chooses its note: expired locks are released, one is locked.
LEMMA Preparing ==
  ASSUME IndInv, NEW c \in Slots, NEW u \in Users, NEW a \in Amounts,
         PrepareWithdrawalPackage(c, u, a)
  PROVE  IndInv' /\ Relabels(notes, notes')
  <1> PICK i \in DOMAIN notes :
              /\ IsFirst(Released, i, u, a, "unspent")
              /\ notes' = [Released EXCEPT ![i] = Locked(Released[i])]
              /\ calls' = [calls EXCEPT ![c] = [at |-> "chosen", index |-> i]]
    BY DEF PrepareWithdrawalPackage, Goto
  <1> DEFINE call == [at |-> "chosen", index |-> i]
             note == Locked(Released[i])
  <1>1. /\ Released[i].status = "unspent" /\ notes[i].status # "spent"
        /\ Released[i].status # "spent" /\ Released[i].nullified = FALSE
    BY Releasing DEF IsFirst, Matches
  <1>2. /\ Relabels(notes, Released)
        /\ \A j \in DOMAIN notes : WellFormed(Released[j])
        /\ notes \in Seq(Note) /\ Released \in Seq(Note)
        /\ Len(Released) = Len(notes) /\ clock \in 0 .. MaxClock
    BY Releasing DEF IndInv, TypeOK, Relabels
  <1>3. Released[i] \in Note
    <2> DEFINE r == Released
    <2>1. r \in Seq(Note) /\ i \in 1 .. Len(r)
      BY <1>2
    <2> HIDE DEF r
    <2>2. r[i] \in Note
      BY <2>1
    <2> QED BY <2>2 DEF r
  <1>4. /\ note \in Note /\ note.deposit = Released[i].deposit
        /\ note.status = "pending"
    BY <1>2, <1>3, Labels
  <1>5. /\ i \in Deposits /\ call.at = "chosen" /\ call.index = i
    <2>1. /\ Len(notes) = Cardinality(credited) /\ credited \subseteq Deposits
      BY DEF IndInv, NotesMatchDeposits, TypeOK
    <2>2. Cardinality(credited) <= MaxDeposits
      <3>1. IsFiniteSet(Deposits) /\ Cardinality(Deposits) = MaxDeposits
        <4>1. /\ IsFiniteSet(1 .. MaxDeposits)
              /\ Cardinality(1 .. MaxDeposits) =
                    IF 1 > MaxDeposits THEN 0 ELSE MaxDeposits - 1 + 1
          BY FS_Interval, ZkInputs
        <4> QED BY <4>1, ZkInputs DEF Deposits
      <3>2. Cardinality(credited) <= Cardinality(Deposits)
        BY <2>1, <3>1, FS_Subset
      <3> QED BY <3>1, <3>2
    <2>3. i \in 1 .. Len(notes) /\ Len(notes) \in Nat
      BY <1>2
    <2> QED BY <2>1, <2>2, <2>3, ZkInputs DEF Deposits
  <1>6. call \in Call
    BY <1>5 DEF Call, Proving
  <1>7. DOMAIN notes' = DOMAIN notes
    BY <1>2
  <1>8. UNCHANGED <<balances, credited, processed, packages, debits, chain, clock>>
    BY DEF PrepareWithdrawalPackage
  <1>9. /\ calls \in [Slots -> Call] /\ calls' = [calls EXCEPT ![c] = call]
        /\ notes' = [Released EXCEPT ![i] = note]
    BY DEF IndInv, TypeOK
  <1> HIDE DEF call, note
  <1>10. /\ calls' \in [Slots -> Call] /\ calls'[c] = call
         /\ \A e \in Slots \ {c} : calls'[e] = calls[e]
    BY <1>6, <1>9
  <1>11. Follows(calls[c])'
    BY <1>5, <1>7, <1>10 DEF Follows, Syncing, Packing, Rooted
  <1>12. \A e \in Slots : calls'[e] = calls[e] \/ Follows(calls[e])'
    BY <1>10, <1>11
  <1>13. /\ note.status # "spent" /\ (note.nullified => note.status = "pending")
         /\ note.deposit = Released[i].deposit /\ note \in Note
    BY <1>4
  <1>14. Released[i].status # "spent" /\ calls' \in [Slots -> Call]
    BY <1>1, <1>10
  <1>15. OneLabelled(Released, i, note)
    BY <1>2, <1>8, <1>9, <1>12, <1>13, <1>14 DEF OneLabelled
  <1> QED BY <1>15, OneLabelStep

\* A package stores the nullifier of its note.
LEMMA Nullifying ==
  ASSUME IndInv, NEW c \in Slots, SetNullifier(c)
  PROVE  IndInv' /\ Relabels(notes, notes')
  <1> DEFINE i == calls[c].index
             call == [at |-> "hashed", index |-> i, root |-> Leaves(notes)]
             note == Nullified(notes[i])
  <1>1. /\ calls[c].at = "chosen" /\ notes[i].status = "pending"
        /\ notes' = [notes EXCEPT ![i] = note]
        /\ calls' = [calls EXCEPT ![c] = call]
        /\ UNCHANGED <<balances, credited, processed, packages, debits, chain, clock>>
    BY DEF SetNullifier, StillPending, Goto
  <1>2. calls \in [Slots -> Call] /\ Follows(calls[c]) /\ notes \in Seq(Note)
    BY DEF IndInv, TypeOK, CallsFollow
  <1>3. i \in DOMAIN notes /\ i \in Deposits
    <2>1. i \in DOMAIN notes
      BY <1>1, <1>2 DEF Follows, Packing
    <2>2. calls[c] \in [at : {"chosen"}, index : Deposits]
      BY <1>1, <1>2, Shapes
    <2> QED BY <2>1, <2>2
  <1>4. /\ note \in Note /\ note.deposit = notes[i].deposit
        /\ note.status = "pending"
    BY <1>1, <1>3, SameList, Labels
  <1>5. Leaves(notes) \in Seq(Deposits) /\ DOMAIN Leaves(notes) = DOMAIN notes
    BY <1>2, LeavesType DEF Leaves
  <1>6. /\ call \in Call /\ call.at = "hashed" /\ call.index = i
        /\ call.root = Leaves(notes)
    BY <1>3, <1>5 DEF Call, Proving
  <1>7. call.root[i] = note.deposit
    BY <1>3, <1>4, <1>6 DEF Leaves
  <1>8. i \in DOMAIN call.root
    BY <1>3, <1>5, <1>6
  <1> HIDE DEF call, note, i
  <1>9. /\ calls' \in [Slots -> Call] /\ calls'[c] = call
        /\ \A e \in Slots \ {c} : calls'[e] = calls[e]
        /\ DOMAIN notes' = DOMAIN notes /\ notes'[i] = note
    BY <1>1, <1>2, <1>3, <1>6
  <1>10. Follows(calls[c])'
    BY <1>3, <1>6, <1>7, <1>8, <1>9 DEF Follows, Syncing, Packing, Rooted
  <1>11. OneLabelled(notes, i, note)
    <2>1. \A e \in Slots : calls'[e] = calls[e] \/ Follows(calls[e])'
      BY <1>9, <1>10
    <2> QED BY <1>1, <1>4, <1>9, <2>1, SameList DEF OneLabelled
  <1> QED BY <1>3, <1>11, OneLabelStep

\* A lock is given up, by its owner or by a package that failed.
LEMMA Cancelling ==
  ASSUME IndInv,
         \/ \E u \in Users, a \in Amounts : CancelPendingWithdrawal(u, a)
         \/ \E c \in Slots : PackageFails(c)
  PROVE  IndInv' /\ Relabels(notes, notes')
  <1>1. /\ UNCHANGED <<balances, credited, processed, packages, debits, chain, clock>>
        /\ calls' \in [Slots -> Call]
        /\ \A e \in Slots : calls'[e] = calls[e] \/ calls'[e] = NoCall
    <2>1. calls \in [Slots -> Call]
      BY DEF IndInv, TypeOK
    <2> QED BY <2>1, Idle DEF CancelPendingWithdrawal, PackageFails, Goto
  <1>2. \A e \in Slots : calls'[e] = calls[e] \/ Follows(calls[e])'
    BY <1>1, Idle
  <1>3. \/ UNCHANGED notes
        \/ \E i \in DOMAIN notes : /\ notes[i].status = "pending"
                                  /\ notes' = [notes EXCEPT ![i] = Unlocked(notes[i])]
    BY DEF CancelPendingWithdrawal, PackageFails, CancelFirst, CancelNullified,
           IsFirst, Matches, Cancel
  <1>4. CASE UNCHANGED notes
    <2>1. Relabels(notes, notes') /\ WellLabelled'
      BY <1>1, <1>4, SameList DEF WellLabelled, WellFormed
    <2> QED BY <1>1, <1>2, <2>1, RelabelStep DEF IndInv, TypeOK
  <1>5. CASE \E i \in DOMAIN notes :
                /\ notes[i].status = "pending"
                /\ notes' = [notes EXCEPT ![i] = Unlocked(notes[i])]
    <2> PICK i \in DOMAIN notes :
                /\ notes[i].status = "pending"
                /\ notes' = [notes EXCEPT ![i] = Unlocked(notes[i])]
      BY <1>5
    <2> DEFINE note == Unlocked(notes[i])
    <2>1. /\ note \in Note /\ note.deposit = notes[i].deposit
          /\ note.status = "unspent" /\ note.nullified = FALSE
      BY SameList, Labels
    <2>2. notes' = [notes EXCEPT ![i] = note]
      OBVIOUS
    <2> HIDE DEF note
    <2>3. OneLabelled(notes, i, note)
      BY <1>1, <1>2, <2>1, <2>2, SameList DEF OneLabelled
    <2> QED BY <2>3, OneLabelStep
  <1> QED BY <1>3, <1>4, <1>5

\* Expired locks go back.
LEMMA Expiring ==
  ASSUME IndInv, ReleaseExpiredLocks
  PROVE  IndInv' /\ Relabels(notes, notes')
  <1>1. /\ notes' = Released
        /\ UNCHANGED <<balances, credited, processed, calls, packages, debits,
                       chain, clock>>
    BY DEF ReleaseExpiredLocks
  <1>2. Relabels(notes, notes')
    BY <1>1, Releasing
  <1>3. DOMAIN notes' = DOMAIN notes
    BY <1>1 DEF Released
  <1>4. WellLabelled'
    <2>1. \A i \in DOMAIN notes : WellFormed(Released[i])
      BY Releasing
    <2> QED BY <1>1, <1>3, <2>1 DEF WellLabelled, WellFormed
  <1> QED BY <1>1, <1>2, <1>4, RelabelStep DEF IndInv, TypeOK

\* A withdrawal is debited and the note that waits for it is spent.
LEMMA Withdrawing ==
  ASSUME IndInv, NEW c \in Slots, CommitWithdrawal(c)
  PROVE  IndInv' /\ Relabels(notes, notes')
  <1> DEFINE d == calls[c].deposit
             u == deposits[d].user
             amount == deposits[d].amount
  <1>1. /\ calls[c].at = "withdrawal" /\ balances[u] >= amount
        /\ balances' = [balances EXCEPT ![u] = balances[u] - amount]
        /\ processed' = processed \cup {d}
        /\ debits' = [debits EXCEPT ![d] = debits[d] + 1]
        /\ calls' = [calls EXCEPT ![c] = NoCall]
        /\ UNCHANGED <<credited, packages, chain, clock>>
    BY DEF CommitWithdrawal, Covers, Process, Goto
  <1>2. /\ notes' = [i \in DOMAIN notes |->
                        IF notes[i].deposit = d /\ notes[i].nullified
                        THEN Spend(notes[i]) ELSE notes[i]]
    BY DEF CommitWithdrawal
  <1>3. /\ calls \in [Slots -> Call] /\ Follows(calls[c]) /\ notes \in Seq(Note)
        /\ deposits \in Seq(Entry) /\ DOMAIN deposits \subseteq Deposits
    BY ZkInputs DEF IndInv, TypeOK, CallsFollow, Bounded, Deposits
  <1>4. d \in DOMAIN deposits /\ d \in Deposits
    BY <1>1, <1>3 DEF Follows, Syncing
  <1>5. u \in Users /\ amount \in Nat
    <2>1. \A j \in 1 .. Len(deposits) : deposits[j] \in Entry
      BY <1>3
    <2>2. deposits[d] \in Entry
      BY <1>3, <1>4, <2>1
    <2>3. \A e \in Entry : e.user \in Users /\ e.amount \in Nat
      BY ZkInputs DEF Entry
    <2> QED BY <2>2, <2>3
  <1> HIDE DEF d, u, amount
  <1>6. /\ balances' \in [Users -> Nat] /\ processed' \in SUBSET Deposits
        /\ debits' \in [Deposits -> Nat] /\ calls' \in [Slots -> Call]
        /\ \A e \in Slots : calls'[e] = calls[e] \/ calls'[e] = NoCall
    <2>1. balances[u] - amount \in Nat /\ debits[d] + 1 \in Nat
      BY <1>1, <1>4, <1>5 DEF IndInv, TypeOK
    <2> QED BY <1>1, <1>3, <1>4, <1>5, <2>1, Idle DEF IndInv, TypeOK
  <1>7. \A i \in DOMAIN notes :
           /\ notes'[i] \in Note /\ notes'[i].deposit = notes[i].deposit
           /\ notes[i].status = "spent" => notes'[i] = notes[i]
           /\ WellFormed(notes[i])'
    <2> SUFFICES ASSUME NEW i \in DOMAIN notes
                 PROVE  /\ notes'[i] \in Note
                        /\ notes'[i].deposit = notes[i].deposit
                        /\ notes[i].status = "spent" => notes'[i] = notes[i]
                        /\ WellFormed(notes[i])'
      OBVIOUS
    <2>1. notes[i] \in Note /\ WellFormed(notes[i])
      BY SameList
    <2>2. CASE notes[i].deposit = d /\ notes[i].nullified
      <3>1. /\ Spend(notes[i]) \in Note
            /\ Spend(notes[i]).deposit = notes[i].deposit
            /\ Spend(notes[i]).status = "spent"
            /\ Spend(notes[i]).nullified = FALSE
        BY <2>1, SameList, Labels
      <3>2. notes'[i] = Spend(notes[i]) /\ notes[i].status = "pending"
        BY <1>2, <2>1, <2>2 DEF WellFormed
      <3> QED BY <1>1, <2>2, <3>1, <3>2 DEF WellFormed
    <2>3. CASE ~(notes[i].deposit = d /\ notes[i].nullified)
      <3>1. notes'[i] = notes[i]
        BY <1>2, <2>3
      <3> QED BY <1>1, <2>1, <3>1 DEF WellFormed
    <2> QED BY <2>2, <2>3
  <1>8. notes' \in Seq(Note) /\ Len(notes') = Len(notes) /\ DOMAIN notes' = DOMAIN notes
    <2>1. DOMAIN notes = 1 .. Len(notes) /\ Len(notes) \in Nat
      BY <1>3
    <2>2. DOMAIN notes' = 1 .. Len(notes)
      BY <1>2, <2>1
    <2>3. notes' = [i \in 1 .. Len(notes) |-> notes'[i]]
      BY <1>2, <2>1
    <2>4. \A i \in 1 .. Len(notes) : notes'[i] \in Note
      BY <1>7, <2>1
    <2>5. notes' \in [1 .. Len(notes) -> Note]
      BY <2>3, <2>4
    <2> QED BY <2>1, <2>2, <2>5
  <1>9. Relabels(notes, notes') /\ WellLabelled'
    BY <1>7, <1>8 DEF Relabels, WellLabelled
  <1>10. \A e \in Slots : calls'[e] = calls[e] \/ Follows(calls[e])'
    BY <1>6, Idle
  <1> QED BY <1>1, <1>6, <1>9, <1>10, RelabelStep

\* A deposit is credited and listed, unless that happened meanwhile.
LEMMA Crediting ==
  ASSUME IndInv, NEW c \in Slots, CommitDeposit(c)
  PROVE  IndInv'
  <1> DEFINE d == calls[c].deposit
             u == deposits[d].user
             amount == deposits[d].amount
  <1>1. /\ calls[c].at = "anchored"
        /\ calls' = [calls EXCEPT ![c] = NoCall]
        /\ UNCHANGED <<processed, packages, debits, deposits, roots, spent,
                       custody, clock>>
        /\ \/ UNCHANGED <<balances, credited, notes>>
           \/ /\ d \notin credited
              /\ balances' = [balances EXCEPT ![u] = balances[u] + amount]
              /\ credited' = credited \cup {d}
              /\ notes' = Append(notes, NewNote(d))
    BY DEF CommitDeposit, IsNew, Goto, chain
  <1>2. /\ calls \in [Slots -> Call] /\ Follows(calls[c])
        /\ deposits \in Seq(Entry) /\ DOMAIN deposits \subseteq Deposits
    BY ZkInputs DEF IndInv, TypeOK, CallsFollow, Bounded, Deposits
  <1>3. d \in DOMAIN deposits /\ d \in Deposits
    BY <1>1, <1>2 DEF Follows, Syncing
  <1>4. u \in Users /\ amount \in Nat
    <2>1. \A j \in 1 .. Len(deposits) : deposits[j] \in Entry
      BY <1>2
    <2>2. deposits[d] \in Entry
      BY <1>2, <1>3, <2>1
    <2>3. \A e \in Entry : e.user \in Users /\ e.amount \in Nat
      BY ZkInputs DEF Entry
    <2> QED BY <2>2, <2>3
  <1> HIDE DEF d, u, amount
  <1>5. /\ balances' \in [Users -> Nat] /\ credited' \subseteq DOMAIN deposits
    <2>1. balances[u] + amount \in Nat
      BY <1>4 DEF IndInv, TypeOK
    <2> QED BY <1>1, <1>3, <1>4, <2>1 DEF IndInv, TypeOK, Bounded
  <1>6. /\ notes' \in Seq(Note) /\ NotesMatchDeposits'
        /\ DOMAIN notes \subseteq DOMAIN notes'
        /\ \A i \in DOMAIN notes : notes'[i] = notes[i]
    <2>1. CASE UNCHANGED <<balances, credited, notes>>
      BY <1>1, <2>1 DEF IndInv, TypeOK, NotesMatchDeposits
    <2>2. CASE /\ d \notin credited /\ credited' = credited \cup {d}
               /\ notes' = Append(notes, NewNote(d))
      BY <1>1, <1>3, <2>2, Listing
    <2> QED BY <1>1, <2>1, <2>2
  <1>7. /\ calls' \in [Slots -> Call]
        /\ \A e \in Slots : calls'[e] = calls[e] \/ Follows(calls[e])'
    BY <1>1, <1>2, Idle
  <1>8. CallsFollow'
    BY <1>1, <1>6, <1>7, Following DEF IndInv
  <1>9. TypeOK'
    <2>1. credited' \in SUBSET Deposits
      BY <1>2, <1>5
    <2> QED BY <1>1, <1>5, <1>6, <1>7, <2>1 DEF IndInv, TypeOK
  <1>10. Bounded' /\ PackagesVerify'
    BY <1>1, <1>5 DEF IndInv, Bounded, PackagesVerify
  <1> QED BY <1>6, <1>8, <1>9, <1>10 DEF IndInv

\* Every step keeps the invariant, and relabels the notes or lists a new one.
LEMMA Steps ==
  ASSUME IndInv, [Next]_vars
  PROVE  /\ IndInv'
         /\ \/ Relabels(notes, notes')
            \/ \E c \in Slots : CommitDeposit(c)
  <1>1. CASE UNCHANGED vars
    <2>1. IndInv'
      BY <1>1 DEF vars, IndInv, TypeOK, Bounded, CallsFollow, Follows,
                  NotesMatchDeposits, PackagesVerify, Syncing, Packing, Rooted
    <2>2. notes' = notes
      BY <1>1 DEF vars
    <2> QED BY <2>1, <2>2, SameList
  <1>2. CASE \E c \in Slots : \/ \E d \in DOMAIN deposits : RequestDeposit(c, d)
                             \/ DraftDeposit(c)
                             \/ AnchorBatch(c)
    <2>1. notes' = notes
      BY <1>2 DEF RequestDeposit, DraftDeposit, AnchorBatch, ledger
    <2> QED BY <1>2, <2>1, Depositing, SameList
  <1>3. CASE \E c \in Slots : CommitDeposit(c)
    BY <1>3, Crediting
  <1>4. CASE \E c \in Slots, u \in Users, a \in Amounts :
                PrepareWithdrawalPackage(c, u, a)
    BY <1>4, Preparing
  <1>5. CASE \E c \in Slots : SetNullifier(c)
    BY <1>5, Nullifying
  <1>6. CASE \E c \in Slots : EnsureKnownRoot(c) \/ GenerateProof(c)
    <2>1. notes' = notes
      BY <1>6 DEF EnsureKnownRoot, GenerateProof, ledger
    <2> QED BY <1>6, <2>1, Packaging, SameList
  <1>7. CASE \/ \E u \in Users, a \in Amounts : CancelPendingWithdrawal(u, a)
             \/ \E c \in Slots : PackageFails(c)
    BY <1>7, Cancelling
  <1>8. CASE \/ \E c \in Slots, d \in spent : RequestWithdrawal(c, d)
             \/ \E c \in Slots : SyncFails(c)
             \/ Restart
    <2>1. notes' = notes
      BY <1>8 DEF RequestWithdrawal, SyncFails, Restart, ledger
    <2> QED BY <1>8, <2>1, Dropping, SameList
  <1>9. CASE \E c \in Slots : CommitWithdrawal(c)
    BY <1>9, Withdrawing
  <1>10. CASE ReleaseExpiredLocks
    BY <1>10, Expiring
  <1>11. CASE \/ \E u, v \in Users, a \in Amounts : Trade(u, v, a)
              \/ \E u \in Users, a \in Amounts : Deposit(u, a)
              \/ \E p \in packages : Withdraw(p)
              \/ PassTime
    <2>1. notes' = notes
      BY <1>11 DEF Trade, Deposit, Withdraw, PassTime, ledger
    <2> QED BY <1>11, <2>1, Outside, SameList
  <1> QED BY <1>1, <1>2, <1>3, <1>4, <1>5, <1>6, <1>7, <1>8, <1>9, <1>10, <1>11
          DEF Next

\* IndInv holds in every reachable state.
THEOREM Invariance == Spec => []IndInv
  <1>1. Init => IndInv
    BY Starts
  <1>2. IndInv /\ [Next]_vars => IndInv'
    BY Steps
  <1> QED BY <1>1, <1>2, PTL DEF Spec

\* Every variable of the zero-knowledge vault has its type; no sync debits a
\* balance below zero.
THEOREM TypeCorrect == Spec => []TypeOK
  <1>1. IndInv => TypeOK
    BY DEF IndInv
  <1> QED BY <1>1, Invariance, PTL

\* A deposit is credited once and is one note, however its syncs overlap.
THEOREM OneNoteEach == Spec => []NotesMatchDeposits
  <1>1. IndInv => NotesMatchDeposits
    BY DEF IndInv
  <1> QED BY <1>1, Invariance, PTL

\* An answered package has a root that is known and lists its note.
THEOREM PackagesStayValid == Spec => []PackagesVerify
  <1>1. IndInv => PackagesVerify
    BY DEF IndInv
  <1> QED BY <1>1, Invariance, PTL

\* Notes keep their place, and what is spent stays as it is.
THEOREM Permanence == Spec => NotesArePermanent
  <1>1. ASSUME IndInv, [Next]_vars
        PROVE  [/\ IsPrefix(Leaves(notes), Leaves(notes'))
                /\ \A i \in DOMAIN notes :
                      notes[i].status = "spent" => notes'[i] = notes[i]]_vars
    <2>1. notes \in Seq(Note)
      BY <1>1 DEF IndInv, TypeOK
    <2> DEFINE old == Leaves(notes)
               new == Leaves(notes')
    <2>2. old \in Seq(Deposits)
      BY <2>1, LeavesType
    <2>3. CASE Relabels(notes, notes')
      <3>1. /\ Len(notes') = Len(notes) /\ notes' \in Seq(Note)
            /\ \A i \in DOMAIN notes :
                  /\ notes'[i].deposit = notes[i].deposit
                  /\ notes[i].status = "spent" => notes'[i] = notes[i]
        BY <2>3 DEF Relabels
      <3>2. DOMAIN notes' = DOMAIN notes
        BY <2>1, <3>1
      <3>3. new = old
        BY <3>1, <3>2 DEF Leaves
      <3> HIDE DEF old, new
      <3>4. IsPrefix(old, new)
        BY <2>2, <3>3 DEF IsPrefix
      <3> QED BY <3>1, <3>4 DEF old, new
    <2>4. CASE \E c \in Slots : CommitDeposit(c)
      <3> PICK c \in Slots : CommitDeposit(c)
        BY <2>4
      <3>1. CASE UNCHANGED notes
        <4> HIDE DEF old
        <4>1. IsPrefix(old, old)
          BY <2>2 DEF IsPrefix
        <4> QED BY <3>1, <4>1 DEF old
      <3>2. CASE ~UNCHANGED notes
        <4> DEFINE d == calls[c].deposit
        <4>1. /\ calls[c].at = "anchored" /\ d \notin credited
              /\ notes' = Append(notes, NewNote(d))
              /\ credited' = credited \cup {d} /\ processed' = processed
          BY <3>2 DEF CommitDeposit, IsNew
        <4>2. d \in Deposits
          <5>1. calls[c] \in Call
            BY <1>1 DEF IndInv, TypeOK
          <5> QED BY <4>1, <5>1, Shapes
        <4> HIDE DEF d
        <4>3. /\ new = Append(old, d)
              /\ \A i \in DOMAIN notes : notes'[i] = notes[i]
          BY <1>1, <4>1, <4>2, Listing
        <4> HIDE DEF old, new
        <4>4. IsPrefix(old, new)
          BY <2>2, <4>2, <4>3 DEF IsPrefix
        <4> QED BY <4>3, <4>4 DEF old, new
      <3> QED BY <3>1, <3>2
    <2> QED BY <1>1, <2>3, <2>4, Steps
  <1>2. IndInv /\ [Next]_vars =>
           [/\ IsPrefix(Leaves(notes), Leaves(notes'))
            /\ \A i \in DOMAIN notes :
                  notes[i].status = "spent" => notes'[i] = notes[i]]_vars
    BY <1>1
  <1> QED BY <1>2, Invariance, PTL DEF Spec, NotesArePermanent

-----------------------------------------------------------------------------
(* Debits: the syncs of a withdrawal that are under way can only become     *)
(* fewer once it is processed, and each commit trades one for a debit.      *)

\* Fewer syncs of a withdrawal are under way after a step that starts none.
LEMMA FlightsShrink ==
  ASSUME NEW d, InFlight(d)' \subseteq InFlight(d)
  PROVE  /\ Cardinality(InFlight(d)') \in Nat /\ Cardinality(InFlight(d)) \in Nat
         /\ Cardinality(InFlight(d)') <= Cardinality(InFlight(d))
         /\ IsFiniteSet(InFlight(d)) /\ IsFiniteSet(InFlight(d)')
         /\ Cardinality(InFlight(d)) <= Cardinality(Slots)
         /\ Cardinality(Slots) \in Nat
  <1>1. IsFiniteSet(Slots) /\ InFlight(d) \subseteq Slots
    BY FiniteActors DEF InFlight
  <1>2. IsFiniteSet(InFlight(d)) /\ Cardinality(InFlight(d)) <= Cardinality(Slots)
    BY <1>1, FS_Subset
  <1>3. IsFiniteSet(InFlight(d)') /\ Cardinality(InFlight(d)') <= Cardinality(InFlight(d))
    BY <1>2, FS_Subset
  <1> QED BY <1>1, <1>2, <1>3, FS_CardinalityType

\* A step that debits and processes nothing and starts no sync of a withdrawal
\* already processed.
LEMMA DebitsKept ==
  ASSUME IndInv, DebitsBounded, UNCHANGED <<debits, processed>>,
         spent \subseteq spent',
         \A d \in processed : InFlight(d)' \subseteq InFlight(d)
  PROVE  DebitsBounded'
  <1> SUFFICES ASSUME NEW d \in Deposits
               PROVE  /\ debits'[d] > 0 <=> d \in processed'
                      /\ processed' \subseteq spent'
                      /\ d \in processed' =>
                            debits'[d] + Cardinality(InFlight(d)') <= Cardinality(Slots)
    BY DEF DebitsBounded
  <1>1. /\ debits[d] > 0 <=> d \in processed
        /\ processed \subseteq spent
        /\ d \in processed =>
              debits[d] + Cardinality(InFlight(d)) <= Cardinality(Slots)
        /\ debits[d] \in Nat
    BY DEF DebitsBounded, IndInv, TypeOK
  <1>2. d \in processed => /\ Cardinality(InFlight(d)') \in Nat
                           /\ Cardinality(InFlight(d)) \in Nat
                           /\ Cardinality(Slots) \in Nat
                           /\ Cardinality(InFlight(d)') <= Cardinality(InFlight(d))
    BY FlightsShrink
  <1> QED BY <1>1, <1>2

\* The commit of a withdrawal debits it once and ends one of its syncs.
LEMMA DebitsCommitted ==
  ASSUME IndInv, DebitsBounded, NEW c \in Slots, CommitWithdrawal(c)
  PROVE  DebitsBounded'
  <1> DEFINE x == calls[c].deposit
  <1>1. /\ calls[c].at = "withdrawal"
        /\ processed' = processed \cup {x} /\ spent' = spent
        /\ debits' = [debits EXCEPT ![x] = debits[x] + 1]
        /\ calls' = [calls EXCEPT ![c] = NoCall]
    BY DEF CommitWithdrawal, Process, Goto, chain
  <1>2. calls \in [Slots -> Call] /\ debits \in [Deposits -> Nat] /\ Follows(calls[c])
    BY DEF IndInv, TypeOK, CallsFollow
  <1>3. calls[c] \in WithdrawalSync
    BY <1>1, <1>2, Shapes
  <1>4. x \in Deposits /\ calls[c] = [at |-> "withdrawal", deposit |-> x]
    BY <1>3 DEF WithdrawalSync
  <1>5. x \in spent
    BY <1>1, <1>2 DEF Follows
  <1> HIDE DEF x
  <1>6. ASSUME NEW d PROVE InFlight(d)' = InFlight(d) \ {c}
    <2>1. calls'[c] = NoCall /\ \A e \in Slots \ {c} : calls'[e] = calls[e]
      BY <1>1, <1>2
    <2> QED BY <2>1 DEF InFlight, NoCall
  <1>7. c \in InFlight(x) /\ \A d : d # x => c \notin InFlight(d)
    BY <1>4 DEF InFlight
  <1> SUFFICES ASSUME NEW d \in Deposits
               PROVE  /\ debits'[d] > 0 <=> d \in processed'
                      /\ processed' \subseteq spent'
                      /\ d \in processed' =>
                            debits'[d] + Cardinality(InFlight(d)') <= Cardinality(Slots)
    BY DEF DebitsBounded
  <1>8. /\ debits[d] > 0 <=> d \in processed
        /\ processed \subseteq spent
        /\ d \in processed =>
              debits[d] + Cardinality(InFlight(d)) <= Cardinality(Slots)
        /\ debits[d] \in Nat
    BY <1>2 DEF DebitsBounded
  <1>9. /\ Cardinality(InFlight(d)') \in Nat /\ Cardinality(InFlight(d)) \in Nat
        /\ Cardinality(Slots) \in Nat
        /\ Cardinality(InFlight(d)') <= Cardinality(InFlight(d))
        /\ Cardinality(InFlight(d)) <= Cardinality(Slots)
        /\ IsFiniteSet(InFlight(d))
    BY <1>6, FlightsShrink
  <1>10. CASE d # x
    <2>1. debits'[d] = debits[d] /\ (d \in processed' <=> d \in processed)
      BY <1>1, <1>2, <1>10
    <2> QED BY <2>1, <1>1, <1>5, <1>8, <1>9
  <1>11. CASE d = x
    <2>1. debits'[d] = debits[d] + 1 /\ d \in processed'
      BY <1>1, <1>2, <1>11
    <2>2. Cardinality(InFlight(d)') = Cardinality(InFlight(d)) - 1
      BY <1>6, <1>7, <1>9, <1>11, FS_RemoveElement
    <2>3. debits[d] = 0 \/ d \in processed
      BY <1>8
    <2> QED BY <2>1, <2>2, <2>3, <1>1, <1>5, <1>8, <1>9
  <1> QED BY <1>10, <1>11

\* The steps that leave the ledger, the vault and the debits alone and send no
\* call to wait for a withdrawal.
Quiet == /\ UNCHANGED <<balances, credited, processed, debits, deposits, spent,
                        custody>>
         /\ \A e \in Slots : calls'[e] = calls[e] \/ calls'[e].at # "withdrawal"

\* Those steps are quiet.
LEMMA QuietSteps ==
  ASSUME IndInv,
         \/ \E c \in Slots :
               \/ \E d \in DOMAIN deposits : RequestDeposit(c, d)
               \/ DraftDeposit(c) \/ AnchorBatch(c)
               \/ \E u \in Users, a \in Amounts : PrepareWithdrawalPackage(c, u, a)
               \/ SetNullifier(c) \/ EnsureKnownRoot(c) \/ GenerateProof(c)
               \/ PackageFails(c) \/ SyncFails(c)
         \/ \E u \in Users, a \in Amounts : CancelPendingWithdrawal(u, a)
         \/ ReleaseExpiredLocks
         \/ Restart
         \/ PassTime
         \/ UNCHANGED vars
  PROVE  Quiet
  <1>1. calls \in [Slots -> Call]
    BY DEF IndInv, TypeOK
  <1>2. ASSUME NEW c \in Slots, NEW call, call.at # "withdrawal",
               calls' = [calls EXCEPT ![c] = call]
        PROVE  \A e \in Slots : calls'[e] = calls[e] \/ calls'[e].at # "withdrawal"
    BY <1>1, <1>2
  <1>3. NoCall.at # "withdrawal"
    BY DEF NoCall
  <1>4. ASSUME NEW c \in Slots, NEW d \in DOMAIN deposits, RequestDeposit(c, d)
        PROVE  Quiet
    BY <1>2, <1>4 DEF RequestDeposit, Goto, Quiet, ledger, chain
  <1>5. ASSUME NEW c \in Slots, DraftDeposit(c) PROVE Quiet
    <2> DEFINE d == calls[c].deposit
               call == [at |-> "draft", deposit |-> d,
                        root |-> Append(Leaves(notes), d)]
    <2>1. \/ calls' = [calls EXCEPT ![c] = NoCall]
          \/ calls' = [calls EXCEPT ![c] = call]
      BY <1>5 DEF DraftDeposit, Goto
    <2>2. call.at # "withdrawal"
      OBVIOUS
    <2> HIDE DEF call
    <2>3. \A e \in Slots : calls'[e] = calls[e] \/ calls'[e].at # "withdrawal"
      BY <1>2, <1>3, <2>1, <2>2
    <2> QED BY <1>5, <2>3 DEF DraftDeposit, Quiet, ledger, chain
  <1>6. ASSUME NEW c \in Slots, AnchorBatch(c) PROVE Quiet
    <2> DEFINE call == [calls[c] EXCEPT !.at = "anchored"]
    <2>1. calls' = [calls EXCEPT ![c] = call] /\ calls[c].at = "draft"
      BY <1>6 DEF AnchorBatch, Goto
    <2>2. calls[c] \in [at : {"draft", "anchored"}, deposit : Deposits,
                        root : Seq(Deposits)]
      BY <1>1, <2>1, Shapes
    <2>3. call.at # "withdrawal"
      BY <2>2
    <2> HIDE DEF call
    <2>4. \A e \in Slots : calls'[e] = calls[e] \/ calls'[e].at # "withdrawal"
      BY <1>2, <2>1, <2>3
    <2> QED BY <1>6, <2>4 DEF AnchorBatch, Quiet, ledger
  <1>7. ASSUME NEW c \in Slots, NEW u \in Users, NEW a \in Amounts,
               PrepareWithdrawalPackage(c, u, a)
        PROVE  Quiet
    <2>1. PICK i \in DOMAIN notes : calls' = [calls EXCEPT ![c] = [at |-> "chosen", index |-> i]]
      BY <1>7 DEF PrepareWithdrawalPackage, Goto
    <2>2. \A e \in Slots : calls'[e] = calls[e] \/ calls'[e].at # "withdrawal"
      BY <1>2, <2>1
    <2> QED BY <1>7, <2>2 DEF PrepareWithdrawalPackage, Quiet, chain
  <1>8. ASSUME NEW c \in Slots, SetNullifier(c) PROVE Quiet
    BY <1>2, <1>8 DEF SetNullifier, Goto, Quiet, chain
  <1>9. ASSUME NEW c \in Slots, EnsureKnownRoot(c) PROVE Quiet
    <2> DEFINE call == [calls[c] EXCEPT !.at = "known"]
    <2>1. calls' = [calls EXCEPT ![c] = call] /\ calls[c].at = "hashed"
      BY <1>9 DEF EnsureKnownRoot, Goto
    <2>2. calls[c] \in [at : {"hashed", "known"}, index : Deposits,
                        root : Seq(Deposits)]
      BY <1>1, <2>1, Shapes DEF Rooted
    <2>3. call.at # "withdrawal"
      BY <2>2
    <2> HIDE DEF call
    <2>4. \A e \in Slots : calls'[e] = calls[e] \/ calls'[e].at # "withdrawal"
      BY <1>2, <2>1, <2>3
    <2> QED BY <1>9, <2>4 DEF EnsureKnownRoot, Quiet, ledger, chain
  <1>10. ASSUME NEW c \in Slots, GenerateProof(c) \/ PackageFails(c) \/ SyncFails(c)
         PROVE  Quiet
    <2>1. calls' = [calls EXCEPT ![c] = NoCall]
      BY <1>10 DEF GenerateProof, PackageFails, SyncFails, Goto
    <2>2. \A e \in Slots : calls'[e] = calls[e] \/ calls'[e].at # "withdrawal"
      BY <1>2, <1>3, <2>1
    <2> QED BY <1>10, <2>2 DEF GenerateProof, PackageFails, SyncFails, Quiet,
                               ledger, chain
  <1>11. CASE Restart
    BY <1>3, <1>11 DEF Restart, Quiet, ledger, chain
  <1>12. CASE \/ \E u \in Users, a \in Amounts : CancelPendingWithdrawal(u, a)
              \/ ReleaseExpiredLocks \/ PassTime \/ UNCHANGED vars
    BY <1>12 DEF CancelPendingWithdrawal, ReleaseExpiredLocks, PassTime, vars, Quiet,
                 ledger, chain
  <1> QED BY <1>4, <1>5, <1>6, <1>7, <1>8, <1>9, <1>10, <1>11, <1>12

\* Every step keeps the debits within the syncs that were under way.
LEMMA DebitsStep == IndInv /\ DebitsBounded /\ [Next]_vars => DebitsBounded'
  <1> SUFFICES ASSUME IndInv, DebitsBounded, [Next]_vars PROVE DebitsBounded'
    OBVIOUS
  <1>1. calls \in [Slots -> Call]
    BY DEF IndInv, TypeOK
  <1>2. ASSUME Quiet PROVE DebitsBounded'
    <2>1. UNCHANGED <<debits, processed, spent>>
      BY <1>2 DEF Quiet
    <2>2. ASSUME NEW d PROVE InFlight(d)' \subseteq InFlight(d)
      BY <1>2 DEF Quiet, InFlight
    <2> QED BY <2>1, <2>2, DebitsKept
  <1>3. ASSUME NEW c \in Slots, NEW d \in spent, RequestWithdrawal(c, d)
        PROVE  DebitsBounded'
    <2>1. /\ UNCHANGED <<debits, processed, spent>> /\ d \notin processed
          /\ calls' = [calls EXCEPT ![c] = [at |-> "withdrawal", deposit |-> d]]
      BY <1>3 DEF RequestWithdrawal, Goto, ledger, chain
    <2>2. ASSUME NEW e \in processed PROVE InFlight(e)' \subseteq InFlight(e)
      <3>1. e # d
        BY <2>1
      <3> QED BY <3>1, <2>1, <1>1 DEF InFlight
    <2> QED BY <2>1, <2>2, DebitsKept
  <1>4. ASSUME NEW c \in Slots, CommitDeposit(c) PROVE DebitsBounded'
    <2>1. /\ UNCHANGED <<debits, processed, spent>>
          /\ calls' = [calls EXCEPT ![c] = NoCall]
      BY <1>4 DEF CommitDeposit, Goto, chain
    <2>2. ASSUME NEW e PROVE InFlight(e)' \subseteq InFlight(e)
      BY <2>1, <1>1 DEF InFlight, NoCall
    <2> QED BY <2>1, <2>2, DebitsKept
  <1>5. CASE \/ \E u, v \in Users, a \in Amounts : Trade(u, v, a)
             \/ \E u \in Users, a \in Amounts : Deposit(u, a)
             \/ \E p \in packages : Withdraw(p)
    <2>1. /\ UNCHANGED <<debits, processed, calls>>
          /\ spent \subseteq spent'
      BY <1>5 DEF Trade, Deposit, Withdraw, ledger, chain
    <2>2. ASSUME NEW e PROVE InFlight(e)' \subseteq InFlight(e)
      BY <2>1 DEF InFlight
    <2> QED BY <2>1, <2>2, DebitsKept
  <1>6. ASSUME NEW c \in Slots, CommitWithdrawal(c) PROVE DebitsBounded'
    BY <1>6, DebitsCommitted
  <1> QED BY <1>2, <1>3, <1>4, <1>5, <1>6, QuietSteps DEF Next

\* Nothing is debited at the start.
LEMMA DebitsStart == Init => DebitsBounded
  BY DEF Init, DebitsBounded

\* A withdrawal is debited only once the vault has paid it, and no more often
\* than syncs of it were under way together.
THEOREM DebitsStayBounded == Spec => []DebitsBounded
  BY DebitsStart, DebitsStep, Invariance, PTL DEF Spec

-----------------------------------------------------------------------------
(* The ledger and the vault: sums over the deposits.                        *)

\* A list of deposits holds deposits.
LEMMA EntriesTyped ==
  ASSUME NEW deps \in Seq(Entry)
  PROVE  \A i \in DOMAIN deps : deps[i] \in Entry
  OBVIOUS

\* A deposit names its user and a whole amount.
LEMMA EntryTypes ==
  ASSUME NEW r \in Entry
  PROVE  r.user \in Users /\ r.amount \in Nat /\ r.amount \in Int
  <1>1. r.user \in Users /\ r.amount \in Amounts
    BY DEF Entry
  <1>2. \A a \in Amounts : a \in Nat
    BY ZkInputs
  <1>3. r.amount \in Nat
    BY <1>1, <1>2
  <1>4. \A n \in Nat : n \in Int
    OBVIOUS
  <1> QED BY <1>1, <1>3, <1>4

GiftOf(deps) == [d \in DOMAIN deps |-> deps[d].amount]
NetOf(deps, debs) == [d \in DOMAIN deps |-> deps[d].amount * (1 - debs[d])]
WorthOf(deps, set) == SumFunction([d \in set |-> deps[d].amount])
Net(deps, debs, set) == SumFunction([d \in set |-> deps[d].amount * (1 - debs[d])])

\* A product of integers is one, and one debit more takes the amount once more.
LEMMA Product ==
  ASSUME NEW a \in Int, NEW k \in Int
  PROVE  /\ a * (1 - k) \in Int
         /\ a * (1 - (k + 1)) = a * (1 - k) - a
         /\ k = 0 => a * (1 - k) = a
  OBVIOUS

\* The worth of some deposits is a sum over one function.
LEMMA WorthIsSum ==
  ASSUME NEW deps \in Seq(Entry), NEW S \in SUBSET DOMAIN deps
  PROVE  /\ WorthOf(deps, S) = SumFunctionOnSet(GiftOf(deps), S)
         /\ IsFiniteSet(S)
         /\ \A i \in S : GiftOf(deps)[i] = deps[i].amount /\ GiftOf(deps)[i] \in Int
         /\ WorthOf(deps, S) \in Int
  <1> DEFINE f == [i \in S |-> deps[i].amount]
             g == GiftOf(deps)
  <1>1. DOMAIN deps = 1 .. Len(deps) /\ Len(deps) \in Nat
    OBVIOUS
  <1>2. IsFiniteSet(DOMAIN deps)
    BY <1>1, FS_Interval
  <1>3. IsFiniteSet(S)
    BY <1>2, FS_Subset
  <1>4. \A i \in S : deps[i] \in Entry
    BY EntriesTyped
  <1>5. \A i \in S : deps[i].amount \in Int
    BY <1>4, EntryTypes
  <1>6. \A i \in S : g[i] = deps[i].amount
    BY DEF GiftOf
  <1>7. S = DOMAIN f /\ WorthOf(deps, S) = SumFunction(f)
    BY DEF WorthOf
  <1>8. \A i \in S : f[i] = g[i] /\ g[i] \in Int
    BY <1>5, <1>6
  <1> HIDE DEF f, g
  <1>9. SumFunctionOnSet(f, S) = SumFunctionOnSet(g, S)
    BY <1>3, <1>8, SumAgree
  <1>10. SumFunctionOnSet(g, S) \in Int
    BY <1>3, <1>8, SumInt
  <1>11. WorthOf(deps, S) = SumFunctionOnSet(g, S)
    BY <1>7, <1>9, SumOfFunction
  <1> QED BY <1>3, <1>6, <1>8, <1>10, <1>11 DEF g

\* Without one of them it is its amount less.
LEMMA WorthWithout ==
  ASSUME NEW deps \in Seq(Entry), NEW S \in SUBSET DOMAIN deps, NEW d \in S
  PROVE  WorthOf(deps, S \ {d}) = WorthOf(deps, S) - deps[d].amount
  <1> DEFINE g == GiftOf(deps)
             T == S \ {d}
  <1>1. /\ WorthOf(deps, S) = SumFunctionOnSet(g, S) /\ IsFiniteSet(S)
        /\ \A i \in S : g[i] = deps[i].amount /\ g[i] \in Int
    BY WorthIsSum
  <1>2. T \in SUBSET DOMAIN deps
    OBVIOUS
  <1>3. WorthOf(deps, T) = SumFunctionOnSet(g, T) /\ WorthOf(deps, T) \in Int
    BY <1>2, WorthIsSum
  <1>4. \A i \in S : g[i] \in Int
    BY <1>1
  <1> HIDE DEF g
  <1>5. SumFunctionOnSet(g, S) = g[d] + SumFunctionOnSet(g, S \ {d})
    BY <1>1, <1>4, SumWithout
  <1> QED BY <1>1, <1>3, <1>5

\* A new deposit adds its amount.
LEMMA WorthAppended ==
  ASSUME NEW deps \in Seq(Entry), NEW S \in SUBSET DOMAIN deps, NEW r \in Entry
  PROVE  /\ WorthOf(Append(deps, r), S \cup {Len(deps) + 1}) = WorthOf(deps, S) + r.amount
         /\ S \cup {Len(deps) + 1} \in SUBSET DOMAIN Append(deps, r)
  <1> DEFINE more == Append(deps, r)
             n == Len(deps) + 1
             T == S \cup {n}
             f == GiftOf(deps)
             g == GiftOf(more)
  <1>1. /\ more \in Seq(Entry) /\ n \in Nat /\ n \notin DOMAIN deps
        /\ DOMAIN more = DOMAIN deps \cup {n} /\ more[n] = r
        /\ \A i \in DOMAIN deps : more[i] = deps[i]
    OBVIOUS
  <1> HIDE DEF n, more
  <1>2. T \in SUBSET DOMAIN more /\ n \notin S
    BY <1>1
  <1>3. /\ WorthOf(deps, S) = SumFunctionOnSet(f, S) /\ IsFiniteSet(S)
        /\ \A i \in S : f[i] = deps[i].amount /\ f[i] \in Int
    BY WorthIsSum
  <1>4. /\ WorthOf(more, T) = SumFunctionOnSet(g, T)
        /\ \A i \in T : g[i] = more[i].amount /\ g[i] \in Int
    BY <1>1, <1>2, WorthIsSum
  <1>5. \A i \in S : f[i] = g[i] /\ g[i] \in Int
    BY <1>1, <1>3, <1>4
  <1>6. g[n] = r.amount /\ g[n] \in Int
    BY <1>1, <1>4
  <1>7. \A i \in S : g[i] \in Int
    BY <1>5
  <1>8. \A i \in S : f[i] = g[i]
    BY <1>5
  <1> HIDE DEF f, g
  <1>9. SumFunctionOnSet(g, S \cup {n}) = SumFunctionOnSet(g, S) + g[n]
    BY <1>2, <1>3, <1>6, <1>7, SumWith
  <1>10. SumFunctionOnSet(f, S) = SumFunctionOnSet(g, S)
    BY <1>3, <1>8, SumAgree
  <1> QED BY <1>2, <1>3, <1>4, <1>6, <1>9, <1>10 DEF more, n

\* The net of some deposits over their debits is a sum over one function.
LEMMA NetIsSum ==
  ASSUME NEW deps \in Seq(Entry), NEW debs \in [Deposits -> Nat],
         DOMAIN deps \subseteq Deposits, NEW S \in SUBSET DOMAIN deps
  PROVE  /\ Net(deps, debs, S) = SumFunctionOnSet(NetOf(deps, debs), S)
         /\ IsFiniteSet(S)
         /\ \A i \in DOMAIN deps : /\ NetOf(deps, debs)[i] = deps[i].amount * (1 - debs[i])
                                   /\ NetOf(deps, debs)[i] \in Int
         /\ Net(deps, debs, S) \in Int
  <1> DEFINE f == [i \in S |-> deps[i].amount * (1 - debs[i])]
             g == NetOf(deps, debs)
  <1>1. IsFiniteSet(S)
    BY WorthIsSum
  <1>2. \A i \in DOMAIN deps : g[i] = deps[i].amount * (1 - debs[i])
    BY DEF NetOf
  <1>3. \A i \in DOMAIN deps : g[i] \in Int
    <2> TAKE i \in DOMAIN deps
    <2>1. deps[i] \in Entry /\ debs[i] \in Int
      BY EntriesTyped
    <2>2. deps[i].amount \in Int
      BY <2>1, EntryTypes
    <2>3. deps[i].amount * (1 - debs[i]) \in Int
      BY <2>1, <2>2, Product
    <2> QED BY <2>3, <1>2
  <1>4. S = DOMAIN f /\ Net(deps, debs, S) = SumFunction(f)
    BY DEF Net
  <1>5. \A i \in S : f[i] = g[i]
    BY <1>2
  <1>6. \A i \in S : g[i] \in Int
    BY <1>3
  <1> HIDE DEF f, g
  <1>7. SumFunctionOnSet(f, S) = SumFunctionOnSet(g, S)
    BY <1>1, <1>5, SumAgree
  <1>8. SumFunctionOnSet(g, S) \in Int
    BY <1>1, <1>6, SumInt
  <1>9. Net(deps, debs, S) = SumFunctionOnSet(g, S)
    BY <1>4, <1>7, SumOfFunction
  <1> QED BY <1>1, <1>2, <1>3, <1>8, <1>9 DEF g

\* A spent deposit that is not debited yet counts in full.
LEMMA NetSpent ==
  ASSUME NEW deps \in Seq(Entry), NEW debs \in [Deposits -> Nat],
         DOMAIN deps \subseteq Deposits, NEW S \in SUBSET DOMAIN deps,
         NEW d \in DOMAIN deps \ S, debs[d] = 0
  PROVE  Net(deps, debs, S \cup {d}) = Net(deps, debs, S) + deps[d].amount
  <1> DEFINE g == NetOf(deps, debs)
             T == S \cup {d}
  <1>1. T \in SUBSET DOMAIN deps
    OBVIOUS
  <1>2. /\ Net(deps, debs, S) = SumFunctionOnSet(g, S) /\ IsFiniteSet(S)
        /\ \A i \in DOMAIN deps : /\ g[i] = deps[i].amount * (1 - debs[i])
                                  /\ g[i] \in Int
    BY NetIsSum
  <1>3. Net(deps, debs, T) = SumFunctionOnSet(g, T)
    BY <1>1, NetIsSum
  <1>4. g[d] = deps[d].amount
    <2>1. deps[d] \in Entry
      BY EntriesTyped
    <2>2. deps[d].amount \in Int
      BY <2>1, EntryTypes
    <2>3. deps[d].amount * (1 - debs[d]) = deps[d].amount
      BY <2>2, Product
    <2> QED BY <2>3, <1>2
  <1>5. g[d] \in Int /\ \A i \in S : g[i] \in Int
    BY <1>2
  <1> HIDE DEF g
  <1>6. SumFunctionOnSet(g, S \cup {d}) = SumFunctionOnSet(g, S) + g[d]
    BY <1>2, <1>5, SumWith
  <1> QED BY <1>2, <1>3, <1>4, <1>6

\* more counts one debit of d more than debs.
OneMore(debs, more, d) ==
    /\ more[d] = debs[d] + 1
    /\ \A i \in Deposits : i # d => more[i] = debs[i]

\* One debit more of a spent deposit takes its amount away.
LEMMA NetDebited ==
  ASSUME NEW deps \in Seq(Entry), NEW debs \in [Deposits -> Nat],
         DOMAIN deps \subseteq Deposits, NEW S \in SUBSET DOMAIN deps,
         NEW d \in S, NEW more \in [Deposits -> Nat], OneMore(debs, more, d)
  PROVE  Net(deps, more, S) = Net(deps, debs, S) - deps[d].amount
  <1> DEFINE f == NetOf(deps, debs)
             g == NetOf(deps, more)
  <1>1. /\ more \in [Deposits -> Nat] /\ more[d] = debs[d] + 1
        /\ \A i \in S : i # d => more[i] = debs[i]
        /\ debs[d] \in Int
    BY DEF OneMore
  <1>2. /\ Net(deps, debs, S) = SumFunctionOnSet(f, S) /\ IsFiniteSet(S)
        /\ Net(deps, debs, S) \in Int
        /\ \A i \in DOMAIN deps : /\ f[i] = deps[i].amount * (1 - debs[i])
                                  /\ f[i] \in Int
    BY NetIsSum
  <1>3. /\ Net(deps, more, S) = SumFunctionOnSet(g, S)
        /\ \A i \in DOMAIN deps : /\ g[i] = deps[i].amount * (1 - more[i])
                                  /\ g[i] \in Int
    BY <1>1, NetIsSum
  <1>4. deps[d].amount \in Int
    <2>1. deps[d] \in Entry
      BY EntriesTyped
    <2> QED BY <2>1, EntryTypes
  <1>5. g[d] = f[d] - deps[d].amount
    <2>1. deps[d].amount * (1 - (debs[d] + 1))
             = deps[d].amount * (1 - debs[d]) - deps[d].amount
      BY <1>1, <1>4, Product
    <2>2. f[d] = deps[d].amount * (1 - debs[d])
      BY <1>2
    <2>3. g[d] = deps[d].amount * (1 - (debs[d] + 1))
      BY <1>1, <1>3
    <2> QED BY <2>1, <2>2, <2>3
  <1>6. \A i \in S : i # d => g[i] = f[i]
    BY <1>1, <1>2, <1>3
  <1>7. g[d] \in Int /\ f[d] \in Int
    BY <1>2, <1>3
  <1>8. \A i \in S : f[i] \in Int
    BY <1>2
  <1> HIDE DEF f, g
  <1>9. SumFunctionOnSet(g, S) = SumFunctionOnSet(f, S) + (g[d] - f[d])
    BY <1>2, <1>6, <1>7, <1>8, SumChange
  <1>10. Net(deps, more, S) = Net(deps, debs, S) + (g[d] - f[d])
    BY <1>2, <1>3, <1>9
  <1>11. Net(deps, debs, S) \in Int
    BY <1>2
  <1> QED BY <1>1, <1>4, <1>5, <1>7, <1>10, <1>11

\* A new deposit is not spent: the net of the spent ones stays.
LEMMA NetAppended ==
  ASSUME NEW deps \in Seq(Entry), NEW debs \in [Deposits -> Nat],
         NEW S \in SUBSET DOMAIN deps, NEW r \in Entry
  PROVE  Net(Append(deps, r), debs, S) = Net(deps, debs, S)
  <1>1. \A i \in S : Append(deps, r)[i] = deps[i]
    OBVIOUS
  <1> QED BY <1>1 DEF Net

\* Balances that change for one user change what is owed by as much.
LEMMA OwedChanges ==
  ASSUME NEW bal \in [Users -> Nat], NEW u \in Users, NEW d \in Int,
         bal[u] + d \in Nat
  PROVE  /\ SumFunction([bal EXCEPT ![u] = bal[u] + d]) = SumFunction(bal) + d
         /\ SumFunction(bal) \in Int
  <1> DEFINE new == [bal EXCEPT ![u] = bal[u] + d]
  <1>1. /\ Users = DOMAIN bal /\ Users = DOMAIN new /\ new[u] = bal[u] + d
        /\ \A v \in Users : v # u => new[v] = bal[v]
        /\ new[u] \in Int /\ bal[u] \in Int
    OBVIOUS
  <1>2. \A v \in Users : bal[v] \in Int
    OBVIOUS
  <1>3. IsFiniteSet(Users)
    BY FiniteActors
  <1> HIDE DEF new
  <1>4. SumFunctionOnSet(new, Users) = SumFunctionOnSet(bal, Users) + (new[u] - bal[u])
    BY <1>1, <1>2, <1>3, SumChange
  <1>5. SumFunctionOnSet(bal, Users) \in Int
    BY <1>2, <1>3, SumInt
  <1>6. SumFunction(new) = SumFunctionOnSet(new, Users)
        /\ SumFunction(bal) = SumFunctionOnSet(bal, Users)
    BY <1>1, SumOfFunction
  <1> QED BY <1>1, <1>4, <1>5, <1>6 DEF new

\* new has a of u's balance with v.
Moved(bal, new, u, v, a) ==
    /\ new[u] = bal[u] - a
    /\ new[v] = bal[v] + a
    /\ \A w \in Users : w # u /\ w # v => new[w] = bal[w]

\* A trade leaves what is owed as it is.
LEMMA OwedMoves ==
  ASSUME NEW bal \in [Users -> Nat], NEW u \in Users, NEW v \in Users, u # v,
         NEW a \in Int, NEW new \in [Users -> Int], Moved(bal, new, u, v, a)
  PROVE  SumFunction(new) = SumFunction(bal)
  <1>1. /\ Users = DOMAIN bal /\ Users = DOMAIN new
        /\ new[u] = bal[u] - a /\ new[v] = bal[v] + a
        /\ \A w \in Users : w # u /\ w # v => new[w] = bal[w]
    BY DEF Moved
  <1>2. bal[u] \in Int /\ bal[v] \in Int /\ new[u] \in Int /\ new[v] \in Int
    OBVIOUS
  <1>3. \A w \in Users : bal[w] \in Int
    OBVIOUS
  <1>4. IsFiniteSet(Users)
    BY FiniteActors
  <1>5. SumFunctionOnSet(new, Users)
          = SumFunctionOnSet(bal, Users) + (new[u] - bal[u]) + (new[v] - bal[v])
    BY <1>1, <1>2, <1>3, <1>4, SumChangeTwo
  <1>6. SumFunctionOnSet(bal, Users) \in Int
    BY <1>3, <1>4, SumInt
  <1>7. SumFunction(new) = SumFunctionOnSet(new, Users)
        /\ SumFunction(bal) = SumFunctionOnSet(bal, Users)
    BY <1>1, SumOfFunction
  <1> QED BY <1>1, <1>2, <1>5, <1>6, <1>7

\* The two sides of the ledger's books as those sums, all of them whole numbers.
LEMMA Books ==
  ASSUME IndInv
  PROVE  /\ deposits \in Seq(Entry) /\ balances \in [Users -> Nat]
         /\ debits \in [Deposits -> Nat] /\ DOMAIN deposits \subseteq Deposits
         /\ spent \in SUBSET DOMAIN deposits /\ credited \subseteq DOMAIN deposits
         /\ custody \in Int
         /\ Worths(DOMAIN deposits \ spent) = WorthOf(deposits, DOMAIN deposits \ spent)
         /\ Worths(DOMAIN deposits \ credited)
               = WorthOf(deposits, DOMAIN deposits \ credited)
         /\ Undebited = Net(deposits, debits, spent)
         /\ WorthOf(deposits, DOMAIN deposits \ spent) \in Int
         /\ WorthOf(deposits, DOMAIN deposits \ credited) \in Int
         /\ Undebited \in Int /\ Owed \in Int
  <1>1. /\ deposits \in Seq(Entry) /\ balances \in [Users -> Nat]
        /\ debits \in [Deposits -> Nat] /\ custody \in Int
    BY DEF IndInv, TypeOK
  <1>2. DOMAIN deposits \subseteq Deposits
    BY <1>1, ZkInputs DEF IndInv, Bounded, Deposits
  <1>3. spent \in SUBSET DOMAIN deposits /\ credited \subseteq DOMAIN deposits
    BY DEF IndInv, Bounded
  <1>4. /\ Worths(DOMAIN deposits \ spent) = WorthOf(deposits, DOMAIN deposits \ spent)
        /\ Worths(DOMAIN deposits \ credited)
              = WorthOf(deposits, DOMAIN deposits \ credited)
    BY DEF Worths, WorthOf
  <1>5. Undebited = Net(deposits, debits, spent)
    BY DEF Undebited, Net
  <1>6. /\ WorthOf(deposits, DOMAIN deposits \ spent) \in Int
        /\ WorthOf(deposits, DOMAIN deposits \ credited) \in Int
    BY <1>1, WorthIsSum
  <1>7. Undebited \in Int
    BY <1>1, <1>2, <1>3, <1>5, NetIsSum
  <1>8. Owed \in Int
    <2>1. Users = DOMAIN balances /\ \A u \in Users : balances[u] \in Int
      BY <1>1
    <2>2. IsFiniteSet(Users)
      BY FiniteActors
    <2>3. SumFunctionOnSet(balances, Users) \in Int
      BY <2>1, <2>2, SumInt
    <2> QED BY <2>1, <2>3, SumOfFunction DEF Owed
  <1> QED BY <1>1, <1>2, <1>3, <1>4, <1>5, <1>6, <1>7, <1>8

\* Initially there is nothing to balance.
LEMMA LedgerStarts == Init => LedgerBacked
  <1> SUFFICES ASSUME Init PROVE LedgerBacked
    OBVIOUS
  <1>1. /\ deposits = << >> /\ spent = {} /\ credited = {} /\ custody = 0
        /\ balances = [u \in Users |-> 0]
    BY DEF Init
  <1>2. IndInv
    BY Starts
  <1>3. \A f : SumFunctionOnSet(f, {}) = 0
    BY SumEmpty
  <1>4. DOMAIN deposits \ spent = {} /\ DOMAIN deposits \ credited = {}
        /\ {} \in SUBSET DOMAIN deposits
    BY <1>1
  <1>5. WorthOf(deposits, {}) = 0
    <2>1. WorthOf(deposits, {}) = SumFunctionOnSet(GiftOf(deposits), {})
      BY <1>2, <1>4, Books, WorthIsSum
    <2> QED BY <2>1, <1>3
  <1>6. Undebited = 0
    <2>1. Net(deposits, debits, spent) = SumFunctionOnSet(NetOf(deposits, debits), spent)
      BY <1>2, Books, NetIsSum
    <2> QED BY <2>1, <1>1, <1>2, <1>3, Books
  <1>7. Owed = 0
    <2>1. Users = DOMAIN balances /\ \A u \in Users : balances[u] = 0
      BY <1>1
    <2>2. SumFunctionOnSet(balances, Users) = 0
      BY <2>1, FiniteActors, SumZero
    <2> QED BY <2>1, <2>2, SumOfFunction DEF Owed
  <1>8. Worths(DOMAIN deposits \ spent) = 0 /\ Worths(DOMAIN deposits \ credited) = 0
    BY <1>2, <1>4, <1>5, Books
  <1> QED BY <1>1, <1>6, <1>7, <1>8 DEF LedgerBacked

\* Quiet steps touch neither side.
LEMMA QuietBacked == ASSUME LedgerBacked, Quiet PROVE LedgerBacked'
  BY DEF Quiet, LedgerBacked, Owed, Worths, Undebited

\* The first sync of a deposit that commits tells the ledger of it.
LEMMA CreditBacked ==
  ASSUME IndInv, IndInv', LedgerBacked, NEW c \in Slots, CommitDeposit(c)
  PROVE  LedgerBacked'
  <1> DEFINE d == calls[c].deposit
             u == deposits[d].user
             a == deposits[d].amount
             S == DOMAIN deposits \ credited
             T == DOMAIN deposits \ credited'
  <1>1. UNCHANGED <<debits, deposits, spent, custody>> /\ calls[c].at = "anchored"
    BY DEF CommitDeposit, chain
  <1>2. CASE UNCHANGED <<balances, credited>>
    BY <1>1, <1>2 DEF LedgerBacked, Owed, Worths, Undebited
  <1>3. CASE ~UNCHANGED <<balances, credited>>
    <2>1. /\ d \notin credited /\ credited' = credited \cup {d}
          /\ balances' = [balances EXCEPT ![u] = balances[u] + a]
      BY <1>3 DEF CommitDeposit, IsNew
    <2>2. d \in DOMAIN deposits
      BY <1>1 DEF IndInv, CallsFollow, Follows, Syncing
    <2>3. deposits[d] \in Entry
      BY <2>2, Books, EntriesTyped
    <2>4. u \in Users /\ a \in Nat /\ a \in Int
      BY <2>3, EntryTypes
    <2>5. d \in S /\ T = S \ {d}
      BY <2>1, <2>2
    <2>6. WorthOf(deposits, S \ {d}) = WorthOf(deposits, S) - a
      BY <2>5, Books, WorthWithout
    <2>7. balances[u] + a \in Nat
      <3>1. balances[u] \in Nat
        BY <2>4, Books
      <3> QED BY <2>4, <3>1
    <2> HIDE DEF a, u
    <2>8. Owed' = Owed + a /\ Owed \in Int
      BY <2>1, <2>4, <2>7, Books, OwedChanges DEF Owed
    <2>9. Worths(DOMAIN deposits \ credited)' = Worths(DOMAIN deposits \ credited) - a
      <3>1. Worths(DOMAIN deposits \ credited)' = WorthOf(deposits, T)
        BY <1>1 DEF Worths, WorthOf
      <3> QED BY <3>1, <2>5, <2>6, Books
    <2>10. Undebited' = Undebited
      BY <1>1 DEF Undebited
    <2>11. Worths(DOMAIN deposits \ spent)' = Worths(DOMAIN deposits \ spent)
      BY <1>1 DEF Worths
    <2>12. Worths(DOMAIN deposits \ credited) \in Int
      BY Books
    <2>13. /\ Owed + Worths(DOMAIN deposits \ credited) = custody + Undebited
           /\ custody = Worths(DOMAIN deposits \ spent)
      BY DEF LedgerBacked
    <2>14. Owed' + Worths(DOMAIN deposits \ credited)' = custody' + Undebited'
      BY <1>1, <2>4, <2>8, <2>9, <2>10, <2>12, <2>13
    <2>15. custody' = Worths(DOMAIN deposits \ spent)'
      BY <1>1, <2>11, <2>13
    <2> QED BY <2>14, <2>15 DEF LedgerBacked
  <1> QED BY <1>2, <1>3

\* A debit takes an amount from the ledger and one more from the net of the
\* spent deposits.
LEMMA DebitBacked ==
  ASSUME IndInv, LedgerBacked, NEW c \in Slots, CommitWithdrawal(c)
  PROVE  LedgerBacked'
  <1> DEFINE d == calls[c].deposit
             u == deposits[d].user
             a == deposits[d].amount
  <1>1. /\ UNCHANGED <<credited, deposits, spent, custody>>
        /\ calls[c].at = "withdrawal" /\ balances[u] >= a
        /\ balances' = [balances EXCEPT ![u] = balances[u] - a]
        /\ debits' = [debits EXCEPT ![d] = debits[d] + 1]
    BY DEF CommitWithdrawal, Covers, chain
  <1>2. d \in spent
    BY <1>1 DEF IndInv, CallsFollow, Follows
  <1>3. d \in DOMAIN deposits
    BY <1>2, Books
  <1>4. deposits[d] \in Entry
    BY <1>3, Books, EntriesTyped
  <1>5. u \in Users /\ a \in Nat /\ a \in Int
    BY <1>4, EntryTypes
  <1>6. Net(deposits, debits', spent) = Net(deposits, debits, spent) - a
    <2>1. /\ deposits \in Seq(Entry) /\ debits \in [Deposits -> Nat]
          /\ DOMAIN deposits \subseteq Deposits /\ spent \in SUBSET DOMAIN deposits
      BY Books
    <2>2. debits' = [debits EXCEPT ![d] = debits[d] + 1] /\ d \in Deposits
      BY <1>1, <1>3, <2>1
    <2> HIDE DEF d
    <2>3. debits' \in [Deposits -> Nat] /\ OneMore(debits, debits', d)
      BY <2>1, <2>2 DEF OneMore
    <2> QED BY <1>2, <2>1, <2>3, NetDebited
  <1> DEFINE e == -a
  <1>7. e \in Int /\ balances[u] + e \in Nat
        /\ balances' = [balances EXCEPT ![u] = balances[u] + e]
    <2>1. balances[u] \in Nat
      BY <1>5, Books
    <2>2. balances[u] >= a /\ balances' = [balances EXCEPT ![u] = balances[u] - a]
      BY <1>1
    <2> HIDE DEF a, u
    <2>3. e \in Int /\ balances[u] + e = balances[u] - a /\ balances[u] - a \in Nat
      BY <1>5, <2>1, <2>2
    <2> HIDE DEF e
    <2> QED BY <2>2, <2>3
  <1> HIDE DEF e, u
  <1>8. Owed' = Owed + e /\ Owed \in Int
    BY <1>5, <1>7, Books, OwedChanges DEF Owed
  <1>9. Undebited' = Undebited - a
    <2>1. Undebited' = Net(deposits, debits', spent)
      BY <1>1 DEF Undebited, Net
    <2> QED BY <2>1, <1>6, Books
  <1>10. /\ Worths(DOMAIN deposits \ spent)' = Worths(DOMAIN deposits \ spent)
         /\ Worths(DOMAIN deposits \ credited)' = Worths(DOMAIN deposits \ credited)
    BY <1>1 DEF Worths
  <1>11. /\ Owed + Worths(DOMAIN deposits \ credited) = custody + Undebited
         /\ custody = Worths(DOMAIN deposits \ spent)
    BY DEF LedgerBacked
  <1>12. /\ Worths(DOMAIN deposits \ credited) \in Int /\ Undebited \in Int
         /\ custody \in Int
    BY Books
  <1> HIDE DEF a
  <1>13. Owed' = Owed - a
    BY <1>5, <1>8 DEF e
  <1>14. Owed' + Worths(DOMAIN deposits \ credited)' = custody' + Undebited'
    BY <1>1, <1>5, <1>8, <1>9, <1>10, <1>11, <1>12, <1>13
  <1>15. custody' = Worths(DOMAIN deposits \ spent)'
    BY <1>1, <1>10, <1>11
  <1> QED BY <1>14, <1>15 DEF LedgerBacked

\* A trade moves an amount between two users.
LEMMA TradeBacked ==
  ASSUME IndInv, LedgerBacked, NEW u \in Users, NEW v \in Users, NEW a \in Amounts,
         Trade(u, v, a)
  PROVE  LedgerBacked'
  <1>1. /\ u # v /\ UNCHANGED <<credited, debits, deposits, spent, custody>>
        /\ balances' = [balances EXCEPT ![u] = @ - a, ![v] = @ + a]
    BY DEF Trade, chain
  <1>2. a \in Int
    BY ZkInputs
  <1>3. balances \in [Users -> Nat]
    BY Books
  <1>4. balances' = [balances EXCEPT ![u] = balances[u] - a, ![v] = balances[v] + a]
    BY <1>1, <1>3
  <1>5. Owed' = Owed
    <2>1. u # v
      BY <1>1
    <2>2. balances' \in [Users -> Int] /\ Moved(balances, balances', u, v, a)
      BY <1>2, <1>3, <1>4, <2>1 DEF Moved
    <2>3. SumFunction(balances') = SumFunction(balances)
      BY <1>2, <1>3, <2>1, <2>2, OwedMoves
    <2> QED BY <2>3 DEF Owed
  <1> QED BY <1>1, <1>5 DEF LedgerBacked, Worths, Undebited

\* A deposit is custody, unspent and not yet credited.
LEMMA DepositBacked ==
  ASSUME IndInv, LedgerBacked, NEW u \in Users, NEW a \in Amounts, Deposit(u, a)
  PROVE  LedgerBacked'
  <1> DEFINE r == [user |-> u, amount |-> a]
             n == Len(deposits) + 1
             more == Append(deposits, r)
             S == DOMAIN deposits \ spent
             T == DOMAIN deposits \ credited
  <1>1. /\ deposits' = more /\ custody' = custody + a
        /\ UNCHANGED <<balances, credited, debits, spent>>
    BY DEF Deposit, ledger
  <1>2. a \in Nat /\ a \in Int
    BY ZkInputs
  <1>3. r \in Entry /\ r.amount = a
    BY DEF Entry
  <1>4. deposits \in Seq(Entry)
    BY Books
  <1> HIDE DEF r
  <1>5. /\ DOMAIN more = DOMAIN deposits \cup {n} /\ n \notin DOMAIN deposits
    BY <1>3, <1>4
  <1>6. DOMAIN more \ spent = S \cup {n} /\ DOMAIN more \ credited = T \cup {n}
    BY <1>5, Books
  <1>7. WorthOf(more, S \cup {n}) = WorthOf(deposits, S) + a
    BY <1>3, <1>4, WorthAppended
  <1>8. WorthOf(more, T \cup {n}) = WorthOf(deposits, T) + a
    BY <1>3, <1>4, WorthAppended
  <1>9. Net(more, debits, spent) = Net(deposits, debits, spent)
    BY <1>3, Books, NetAppended
  <1> HIDE DEF more, n
  <1>10. Worths(DOMAIN deposits \ spent)' = Worths(DOMAIN deposits \ spent) + a
    <2>1. Worths(DOMAIN deposits \ spent)' = WorthOf(more, DOMAIN more \ spent)
      BY <1>1 DEF Worths, WorthOf
    <2> QED BY <2>1, <1>6, <1>7, Books
  <1>11. Worths(DOMAIN deposits \ credited)' = Worths(DOMAIN deposits \ credited) + a
    <2>1. Worths(DOMAIN deposits \ credited)' = WorthOf(more, DOMAIN more \ credited)
      BY <1>1 DEF Worths, WorthOf
    <2> QED BY <2>1, <1>6, <1>8, Books
  <1>12. Undebited' = Undebited
    <2>1. Undebited' = Net(more, debits, spent)
      BY <1>1 DEF Undebited, Net
    <2> QED BY <2>1, <1>9, Books
  <1>13. Owed' = Owed
    BY <1>1 DEF Owed
  <1>14. /\ Owed + Worths(DOMAIN deposits \ credited) = custody + Undebited
         /\ custody = Worths(DOMAIN deposits \ spent)
    BY DEF LedgerBacked
  <1>15. /\ Worths(DOMAIN deposits \ credited) \in Int /\ Undebited \in Int
         /\ custody \in Int /\ Owed \in Int
    BY Books
  <1>16. custody' = custody + a
    BY <1>1
  <1>17. Owed' + Worths(DOMAIN deposits \ credited)' = custody' + Undebited'
    BY <1>2, <1>11, <1>12, <1>13, <1>14, <1>15, <1>16
  <1>18. custody' = Worths(DOMAIN deposits \ spent)'
    BY <1>10, <1>14, <1>16
  <1> QED BY <1>17, <1>18 DEF LedgerBacked

\* What the vault pays leaves custody and is spent, and has not been debited.
LEMMA PaymentBacked ==
  ASSUME IndInv, DebitsBounded, LedgerBacked, NEW p \in packages, Withdraw(p)
  PROVE  LedgerBacked'
  <1> DEFINE d == p.deposit
             a == deposits[d].amount
             S == DOMAIN deposits \ spent
  <1>1. /\ d \notin spent /\ spent' = spent \cup {d} /\ custody' = custody - a
        /\ UNCHANGED <<balances, credited, debits, deposits>>
    BY DEF Withdraw, ledger
  <1>2. d \in DOMAIN deposits
    BY DEF IndInv, Bounded
  <1>3. deposits[d] \in Entry
    BY <1>2, Books, EntriesTyped
  <1>4. a \in Int
    BY <1>3, EntryTypes
  <1>5. debits[d] = 0
    <2>1. d \in Deposits /\ debits[d] \in Nat
      BY <1>2, Books
    <2>2. d \notin processed
      BY <1>1, <2>1 DEF DebitsBounded
    <2> QED BY <2>1, <2>2 DEF DebitsBounded
  <1>6. d \in DOMAIN deposits \ spent
    BY <1>1, <1>2
  <1>7. Net(deposits, debits, spent \cup {d}) = Net(deposits, debits, spent) + a
    <2>1. /\ deposits \in Seq(Entry) /\ debits \in [Deposits -> Nat]
          /\ DOMAIN deposits \subseteq Deposits /\ spent \in SUBSET DOMAIN deposits
      BY Books
    <2> HIDE DEF d
    <2> QED BY <1>5, <1>6, <2>1, NetSpent
  <1>8. WorthOf(deposits, S \ {d}) = WorthOf(deposits, S) - a
    BY <1>6, Books, WorthWithout
  <1> HIDE DEF a, d
  <1>9. DOMAIN deposits \ spent' = S \ {d}
    BY <1>1
  <1>10. Worths(DOMAIN deposits \ spent)' = Worths(DOMAIN deposits \ spent) - a
    <2>1. Worths(DOMAIN deposits \ spent)' = WorthOf(deposits, S \ {d})
      BY <1>1, <1>9 DEF Worths, WorthOf
    <2> QED BY <2>1, <1>8, Books
  <1>11. Undebited' = Undebited + a
    <2>1. Undebited' = Net(deposits, debits, spent \cup {d})
      BY <1>1 DEF Undebited, Net
    <2> QED BY <2>1, <1>7, Books
  <1>12. /\ Owed' = Owed
         /\ Worths(DOMAIN deposits \ credited)' = Worths(DOMAIN deposits \ credited)
    BY <1>1 DEF Owed, Worths
  <1>13. /\ Owed + Worths(DOMAIN deposits \ credited) = custody + Undebited
         /\ custody = Worths(DOMAIN deposits \ spent)
    BY DEF LedgerBacked
  <1>14. /\ Worths(DOMAIN deposits \ credited) \in Int /\ Undebited \in Int
         /\ custody \in Int /\ Owed \in Int
    BY Books
  <1>15. custody' = custody - a
    BY <1>1
  <1>16. Owed' + Worths(DOMAIN deposits \ credited)' = custody' + Undebited'
    BY <1>4, <1>11, <1>12, <1>13, <1>14, <1>15
  <1>17. custody' = Worths(DOMAIN deposits \ spent)'
    BY <1>10, <1>13, <1>15
  <1> QED BY <1>16, <1>17 DEF LedgerBacked

\* Every step keeps the two sides together.
LEMMA LedgerStep ==
  IndInv /\ DebitsBounded /\ LedgerBacked /\ [Next]_vars => LedgerBacked'
  <1> SUFFICES ASSUME IndInv, DebitsBounded, LedgerBacked, [Next]_vars
               PROVE  LedgerBacked'
    OBVIOUS
  <1>1. IndInv'
    BY Steps
  <1>2. ASSUME Quiet PROVE LedgerBacked'
    BY <1>2, QuietBacked
  <1>3. CASE \E c \in Slots, d \in spent : RequestWithdrawal(c, d)
    BY <1>3 DEF RequestWithdrawal, ledger, chain, LedgerBacked, Owed, Worths, Undebited
  <1>4. ASSUME NEW c \in Slots, CommitDeposit(c) PROVE LedgerBacked'
    BY <1>1, <1>4, CreditBacked
  <1>5. ASSUME NEW c \in Slots, CommitWithdrawal(c) PROVE LedgerBacked'
    BY <1>5, DebitBacked
  <1>6. CASE \E u, v \in Users, a \in Amounts : Trade(u, v, a)
    BY <1>6, TradeBacked
  <1>7. CASE \E u \in Users, a \in Amounts : Deposit(u, a)
    BY <1>7, DepositBacked
  <1>8. CASE \E p \in packages : Withdraw(p)
    BY <1>8, PaymentBacked
  <1> QED BY <1>2, <1>3, <1>4, <1>5, <1>6, <1>7, <1>8, QuietSteps DEF Next

\* The vault holds every deposit whose note was not spent, and the ledger owes
\* what the vault holds up to the deposits it has not been told of and the
\* withdrawals that were not debited exactly once.
THEOREM LedgerStaysBacked == Spec => []LedgerBacked
  BY LedgerStarts, LedgerStep, DebitsStayBounded, Invariance, PTL DEF Spec
=============================================================================
