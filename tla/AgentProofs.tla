------------------------------ MODULE AgentProofs ------------------------------
(***************************************************************************)
(* The strategy agent, for any number of drafts, calls, candidates,        *)
(* failures and edits, and of sessions, requests and readers.              *)
(*                                                                         *)
(* A run: what it answers with, what it reports of it, and what an         *)
(* optimization leaves.  The three have one inductive invariant.  OwnInv   *)
(* says where the run has a draft of its own, and that the trace shows it; *)
(* FreshInv that wherever the run is not between a write and the           *)
(* validation that follows it, a good report is of what is stored; BestInv *)
(* that a positive result ends the loop that found it.                     *)
(*                                                                         *)
(* The sessions: how many are stored, that answers have their questions,   *)
(* and what makes a session forget its strategy.  SizeInv counts the       *)
(* requests that may bring a deleted session back, AskedInv says which     *)
(* requests have asked, and AloneInv that whoever holds a session alone    *)
(* holds the strategy it was told of.                                      *)
(***************************************************************************)
EXTENDS AgentRun, AgentSessions, SumFacts

-----------------------------------------------------------------------------
(* Types. *)

DraftType == [valid : SUBSET BOOLEAN, pnl : SUBSET Int, kind : Kinds]

\* Where a run may be.
Places == Calls \cup {"start", "plan", "propose", "next", "loop", "list", "ensure", "mend",
                      "apply", "mended", "correct", "fix", "fixed", "finish", "answered",
                      "failed", "timedOut"}

RunType == [stage : Fast \cup Loops, at : Places, draft : Nat, left : Int,
            best : SUBSET Int, tools : Int, claim : Nat, valid : BOOLEAN, answer : Nat]

TraceType == [used : BOOLEAN, seen : Nat, check : {"none", "ok", "bad", "lost"},
              report : {"none", "ok", "bad"}, bad : BOOLEAN, tested : BOOLEAN]

TypeInv ==
  /\ drafts \in Seq(DraftType) /\ Len(drafts) >= 1
  /\ input.strategy \in {NoDraft, 1} /\ input.session \in {NoDraft, 1}
  /\ run \in RunType /\ run.draft <= Len(drafts) /\ run.claim <= Len(drafts)
  /\ trace \in TraceType /\ trace.seen <= Len(drafts)
  /\ edits \in Nat /\ loose \in BOOLEAN

\* Where a fast path has no draft yet, and where it has written one and not yet
\* validated it.
NotYet == {"start", "capabilities", "analysis", "templates", "plan", "clone", "compile",
           "create", "load"}
Dirty == {"align", "validate", "recheck", "verify", "check"}

\* What the enforcement does once it knows of a validation that failed.
Repairing == {"mend", "apply", "mended", "correct", "fix", "fixed"}

\* Where it does something to the strategy it has found.
Sure == {"ensure", "finish"}

\* The run's own draft is the one the trace shows last.
OwnInv ==
  /\ run.stage \in Loops => run.draft = NoDraft
  /\ run.stage \in Fast =>
        /\ run.at \in NotYet => run.draft = NoDraft
        /\ run.at \notin NotYet \cup {"inspect", "answered", "failed"} => run.draft # NoDraft
        /\ run.draft # NoDraft => trace.seen = run.draft
        /\ run.at = "load" => Active # NoDraft
        /\ run.at = "inspect" /\ run.draft = NoDraft => run.stage = "fast" /\ Active # NoDraft
  /\ run.at # "answered" => run.answer = NoDraft
  /\ run.at = "answered" =>
        /\ run.draft \in {NoDraft, run.answer}
        /\ run.answer \in {NoDraft, trace.seen} \/ trace.seen = NoDraft

\* A good report is of the stored draft.
Fresh == trace.report = "ok" /\ ~loose =>
            trace.seen # NoDraft /\ drafts[trace.seen].valid = {TRUE}

FreshInv ==
  /\ run.stage \in Fast /\ run.at \notin Dirty \cup {"failed"} => Fresh
  /\ run.stage \in Loops => Fresh
  /\ run.stage \in Loops /\ run.at \in Repairing =>
        trace.seen # NoDraft /\ (loose \/ trace.report # "ok")
  /\ run.stage \in Loops /\ run.at \in Sure => Target # NoDraft
  /\ run.at \notin Repairing \cup {"finish", "answered", "failed"}
        /\ trace.check \in {"ok", "bad"} => trace.report = trace.check
  /\ run.stage = "fast" /\ run.draft = NoDraft => trace.report = "none"

\* A positive result, when rules run the draft, is the last one.
BestInv ==
  /\ run.best # {} =>
        /\ run.stage \in Fast /\ run.draft # NoDraft
        /\ run.at \in {"next", "rebuild", "try", "check", "score", "answered", "failed"}
  /\ \A p \in run.best : edits = 0 /\ p > 0 /\ ~Engine =>
        /\ run.at \in {"next", "answered", "failed"} /\ run.left = 0
        /\ drafts[run.draft].pnl = {p}

AgentInv == TypeInv /\ OwnInv /\ FreshInv /\ BestInv
-----------------------------------------------------------------------------
(* Drafts. *)

\* A draft that nothing is known of.
LEMMA UnseenDraft ==
  ASSUME NEW kinds \in SUBSET Kinds, NEW b \in Unseen(kinds)
  PROVE  b \in DraftType /\ b.valid = {} /\ b.pnl = {} /\ b.kind \in kinds
  BY DEF Unseen, DraftType

\* A draft is stored in place of another.
LEMMA StoreDraft ==
  ASSUME NEW ds \in Seq(DraftType), NEW d \in 1 .. Len(ds), NEW b \in DraftType
  PROVE  /\ [ds EXCEPT ![d] = b] \in Seq(DraftType)
         /\ Len([ds EXCEPT ![d] = b]) = Len(ds)
         /\ [ds EXCEPT ![d] = b][d] = b
         /\ \A e \in 1 .. Len(ds) : e # d => [ds EXCEPT ![d] = b][e] = ds[e]
  OBVIOUS

\* A draft is one more.
LEMMA AddDraft ==
  ASSUME NEW ds \in Seq(DraftType), NEW b \in DraftType
  PROVE  /\ Append(ds, b) \in Seq(DraftType) /\ Len(Append(ds, b)) = Len(ds) + 1
         /\ Append(ds, b)[Len(ds) + 1] = b
         /\ \A e \in 1 .. Len(ds) : Append(ds, b)[e] = ds[e]
  OBVIOUS

\* A kind of a stored draft.
LEMMA DraftKind ==
  ASSUME TypeInv, NEW d \in 1 .. Len(drafts)
  PROVE  /\ drafts[d] \in DraftType /\ drafts[d].kind \in Kinds
         /\ drafts[d].valid \in SUBSET BOOLEAN
  <1>1. drafts[d] \in DraftType
    BY DEF TypeInv
  <1> QED BY <1>1 DEF DraftType
-----------------------------------------------------------------------------
(* Runs and traces. *)

\* A run that goes to another place.
LEMMA Moved ==
  ASSUME run \in RunType, NEW p \in Places
  PROVE  /\ [run EXCEPT !.at = p] \in RunType
         /\ \A d \in Nat : [run EXCEPT !.at = p, !.draft = d] \in RunType
         /\ \A d \in Nat : [run EXCEPT !.at = p, !.answer = d] \in RunType
         /\ \A d \in Nat : [run EXCEPT !.at = p, !.claim = d] \in RunType
         /\ \A n \in Int : [run EXCEPT !.at = p, !.left = n] \in RunType
         /\ \A ok \in BOOLEAN : [run EXCEPT !.at = p, !.valid = ok] \in RunType
         /\ \A ok \in BOOLEAN : [run EXCEPT !.valid = ok, !.at = p] \in RunType
  BY DEF RunType

\* A run that goes to another path.
LEMMA Redirected ==
  ASSUME run \in RunType, NEW st \in Fast \cup Loops, NEW p \in Places
  PROVE  /\ [run EXCEPT !.stage = st, !.at = p] \in RunType
         /\ \A n \in Int : [run EXCEPT !.stage = st, !.tools = n] \in RunType
         /\ \A n \in Int : [run EXCEPT !.tools = n] \in RunType
         /\ \A n \in Int : [run EXCEPT !.stage = st, !.at = p, !.tools = n] \in RunType
  BY DEF RunType

\* The types of what an entry of the trace adds.
LEMMA Traced ==
  ASSUME trace \in TraceType
  PROVE  /\ \A d \in Nat : Saw(d) \in TraceType /\ Saw(d).seen = d
                           /\ Saw(d).report = trace.report /\ Saw(d).check = trace.check
         /\ Used \in TraceType /\ Used.seen = trace.seen
         /\ Used.report = trace.report /\ Used.check = trace.check
         /\ Tested \in TraceType /\ Tested.seen = trace.seen
         /\ Tested.report = trace.report /\ Tested.check = trace.check
  BY DEF TraceType, Saw, Used, Tested

\* A validation in the trace.
LEMMA TracedCheck ==
  ASSUME trace \in TraceType, NEW ok \in BOOLEAN
  PROVE  /\ Checked(ok) \in TraceType /\ Checked(ok).seen = trace.seen
         /\ Checked(ok).check = (IF ok THEN "ok" ELSE "bad")
         /\ Checked(ok).report = (IF ok THEN "ok" ELSE "bad")
         /\ [Checked(ok) EXCEPT !.report = trace.report] \in TraceType
  BY DEF TraceType, Checked

\* A call in the trace that threw.
LEMMA TracedThrow ==
  ASSUME trace \in TraceType, NEW tool
  PROVE  /\ Threw(tool) \in TraceType /\ Threw(tool).seen = trace.seen
         /\ Threw(tool).report = trace.report /\ Threw(tool).check \in {trace.check, "lost"}
  BY DEF TraceType, Threw

\* What the request asks for does not change.
LEMMA SameRequest == ASSUME UNCHANGED input PROVE Active' = Active
  BY DEF Active, NewGoal, Has

\* The types of the next state from those of its parts.
LEMMA TypesFrom ==
  ASSUME TypeInv, UNCHANGED <<input, edits>>, drafts' \in Seq(DraftType),
         Len(drafts') \in Nat, Len(drafts) <= Len(drafts'),
         run' \in RunType, run'.draft <= Len(drafts'), run'.claim <= Len(drafts'),
         trace' \in TraceType, trace'.seen <= Len(drafts'), loose' \in BOOLEAN
  PROVE  TypeInv'
  BY DEF TypeInv
-----------------------------------------------------------------------------
(* The fast paths. *)

\* A call that reads, on its way to a draft, to a filter, or to a candidate.
ReadsOn(place, next) ==
  \/ /\ place \in {"capabilities", "analysis", "templates", "compile"}
     /\ next \in {"analysis", "templates", "plan", "create"}
  \/ place \in {"survey", "refine", "study"} /\ next \in {"refine", "amend", "baseline"}
  \/ place = "rebuild" /\ next = "try"

\* A call that reads moves the run on and leaves the drafts and the report alone.
LEMMA ReadKeeps ==
  ASSUME AgentInv, NEW place, NEW next, ReadsOn(place, next),
         Reads(Fast, place, next) \/ Reads({"fast"}, place, next)
  PROVE  AgentInv'
  <1>1. /\ run.stage \in Fast /\ run.at = place /\ run' = [run EXCEPT !.at = next]
        /\ trace' = Used /\ UNCHANGED <<drafts, input, failures, edits, loose>>
    BY DEF Reads, At, To, Fast
  <1>2. next \in Places
    BY DEF ReadsOn, Places, Calls
  <1>3. TypeInv'
    BY <1>1, <1>2, Moved, Traced, TypesFrom DEF AgentInv, TypeInv, RunType
  <1>4. OwnInv'
    BY <1>1, Traced, SameRequest
       DEF AgentInv, TypeInv, RunType, ReadsOn, OwnInv, NotYet, Fast, Loops
  <1>5. FreshInv'
    BY <1>1, Traced
       DEF AgentInv, TypeInv, RunType, ReadsOn, FreshInv, Fresh, Dirty, Repairing, Fast, Loops
  <1>6. BestInv'
    BY <1>1 DEF AgentInv, TypeInv, RunType, ReadsOn, BestInv, Engine, Fast
  <1> QED BY <1>3, <1>4, <1>5, <1>6 DEF AgentInv

\* The drafts after a step that changes one of them.
OneChanged(d) ==
  /\ drafts' \in Seq(DraftType) /\ Len(drafts') \in Nat /\ Len(drafts') = Len(drafts)
  /\ \A e \in 1 .. Len(drafts) : e # d => drafts'[e] = drafts[e]

\* A draft takes the place of another.
LEMMA Stored ==
  ASSUME TypeInv, NEW d \in 1 .. Len(drafts), NEW b \in DraftType,
         drafts' = [drafts EXCEPT ![d] = b]
  PROVE  OneChanged(d) /\ drafts'[d] = b
  BY StoreDraft DEF TypeInv, OneChanged

\* A call that stores a draft.
LEMMA WriteFacts ==
  ASSUME TypeInv, NEW d \in 1 .. Len(drafts), NEW kinds \in SUBSET Kinds, Writes(d, kinds)
  PROVE  /\ OneChanged(d) /\ drafts'[d].valid = {} /\ drafts'[d].kind \in kinds
         /\ trace' \in TraceType /\ trace'.seen = d /\ trace'.report = trace.report
         /\ trace'.check = trace.check
         /\ UNCHANGED <<input, failures, edits, loose>>
  <1>1. PICK b \in Unseen(kinds) : drafts' = [drafts EXCEPT ![d] = b]
    BY DEF Writes
  <1>2. b \in DraftType /\ b.valid = {} /\ b.kind \in kinds
    BY UnseenDraft
  <1>3. OneChanged(d) /\ drafts'[d] = b
    BY <1>1, <1>2, Stored
  <1>4. trace' = Saw(d) /\ UNCHANGED <<input, failures, edits, loose>>
    BY DEF Writes
  <1> QED BY <1>2, <1>3, <1>4, Traced DEF TypeInv

\* A draft whose validation is known.
LEMMA JudgeDraft ==
  ASSUME TypeInv, NEW d \in 1 .. Len(drafts), NEW ok \in BOOLEAN,
         drafts' = [drafts EXCEPT ![d].valid = {ok}]
  PROVE  /\ OneChanged(d) /\ drafts'[d].valid = {ok} /\ drafts'[d].kind = drafts[d].kind
         /\ drafts'[d].pnl = drafts[d].pnl
  <1> DEFINE b == [drafts[d] EXCEPT !.valid = {ok}]
  <1>1. drafts[d] \in DraftType
    BY DraftKind
  <1>2. b \in DraftType /\ b.valid = {ok} /\ b.kind = drafts[d].kind /\ b.pnl = drafts[d].pnl
    BY <1>1 DEF DraftType
  <1>3. drafts' = [drafts EXCEPT ![d] = b]
    OBVIOUS
  <1> HIDE DEF b
  <1>4. OneChanged(d) /\ drafts'[d] = b
    BY <1>2, <1>3, Stored
  <1> QED BY <1>2, <1>4

\* A validation.
LEMMA ValidateFacts ==
  ASSUME TypeInv, NEW d \in 1 .. Len(drafts), NEW ok, Validates(d, ok)
  PROVE  /\ ok \in BOOLEAN
         /\ OneChanged(d) /\ drafts'[d].valid = {ok} /\ drafts'[d].kind = drafts[d].kind
         /\ drafts'[d].pnl = drafts[d].pnl
         /\ trace' \in TraceType /\ trace'.seen = trace.seen
         /\ trace'.check = (IF ok THEN "ok" ELSE "bad")
         /\ trace'.report = (IF ok THEN "ok" ELSE "bad")
         /\ loose' = (d # trace.seen) /\ UNCHANGED <<input, failures, edits>>
  <1>1. ok \in BOOLEAN
    BY DraftKind DEF Validates, Verdicts
  <1>2. /\ drafts' = [drafts EXCEPT ![d].valid = {ok}] /\ trace' = Checked(ok)
        /\ loose' = (d # trace.seen) /\ UNCHANGED <<input, failures, edits>>
    BY DEF Validates
  <1> QED BY <1>1, <1>2, JudgeDraft, TracedCheck DEF TypeInv

\* A backtest, of a valid draft.
LEMMA BacktestFacts ==
  ASSUME TypeInv, NEW d \in 1 .. Len(drafts), Backtests(d)
  PROVE  /\ OneChanged(d) /\ drafts'[d].valid = {TRUE} /\ drafts'[d].kind = drafts[d].kind
         /\ drafts'[d].pnl = drafts[d].pnl
         /\ trace' \in TraceType /\ trace'.seen = trace.seen
         /\ trace'.check = trace.check /\ trace'.report = trace.report
         /\ UNCHANGED <<input, failures, edits, loose>>
  <1>1. /\ drafts' = [drafts EXCEPT ![d].valid = {TRUE}] /\ trace' = Tested
        /\ UNCHANGED <<input, failures, edits, loose>>
    BY DEF Backtests
  <1> QED BY <1>1, JudgeDraft, Traced DEF TypeInv

\* Where a fast path writes its draft, validates it and tests it, it has one.
LEMMA OwnDraft ==
  ASSUME AgentInv, run.stage \in Fast,
         run.at \notin NotYet \cup {"inspect", "answered", "failed"}
  PROVE  run.draft \in 1 .. Len(drafts) /\ trace.seen = run.draft
  BY DEF AgentInv, TypeInv, RunType, OwnInv, NoDraft

\* A write of a fast path, and where it goes then.
LEMMA FastWriteKeeps ==
  ASSUME AgentInv, run.stage \in Fast, NEW next, NEW kinds \in SUBSET Kinds,
         <<run.at, next>> \in {<<"align", "validate">>, <<"repair", "recheck">>,
                               <<"amend", "verify">>, <<"try", "check">>},
         To(next), Writes(run.draft, kinds),
         run.at = "try" /\ Engine => kinds = {"engine"}
  PROVE  AgentInv'
  <1> DEFINE d == run.draft
  <1>1. d \in 1 .. Len(drafts) /\ trace.seen = d
    BY OwnDraft DEF NotYet
  <1>2. /\ OneChanged(d) /\ drafts'[d].valid = {} /\ drafts'[d].kind \in kinds
        /\ trace' \in TraceType /\ trace'.seen = d /\ trace'.report = trace.report
        /\ trace'.check = trace.check
        /\ UNCHANGED <<input, failures, edits, loose>>
    BY <1>1, WriteFacts DEF AgentInv
  <1>3. next \in Places /\ run' = [run EXCEPT !.at = next]
    BY DEF Places, Calls, To
  <1>4. TypeInv'
    BY <1>1, <1>2, <1>3, Moved, TypesFrom DEF AgentInv, TypeInv, RunType, OneChanged
  <1>5. OwnInv'
    BY <1>1, <1>2, <1>3, SameRequest
       DEF AgentInv, TypeInv, RunType, OwnInv, NotYet, Fast, Loops, NoDraft
  <1>6. FreshInv'
    BY <1>1, <1>2, <1>3
       DEF AgentInv, TypeInv, RunType, FreshInv, Fresh, Dirty, Repairing, Fast, Loops, NoDraft
  <1>7. BestInv'
    BY <1>1, <1>2, <1>3 DEF AgentInv, TypeInv, RunType, BestInv, Engine, Fast
  <1> QED BY <1>4, <1>5, <1>6, <1>7 DEF AgentInv

\* A validation of a fast path, and where it goes then.
LEMMA FastCheckKeeps ==
  ASSUME AgentInv, run.stage \in Fast, NEW ok, Validates(run.draft, ok),
         \/ /\ run.at \in {"validate", "recheck", "verify"}
            /\ Answer \/ \E next \in {"backtest", "repair", "measure"} : To(next)
         \/ run.at = "check" /\ \E next \in {"score", "next"} : To(next)
  PROVE  AgentInv'
  <1> DEFINE d == run.draft
  <1>1. d \in 1 .. Len(drafts) /\ trace.seen = d
    BY OwnDraft DEF NotYet
  <1>2. /\ ok \in BOOLEAN
        /\ OneChanged(d) /\ drafts'[d].valid = {ok} /\ drafts'[d].kind = drafts[d].kind
        /\ trace' \in TraceType /\ trace'.seen = d
        /\ trace'.check = (IF ok THEN "ok" ELSE "bad")
        /\ trace'.report = (IF ok THEN "ok" ELSE "bad")
        /\ loose' = FALSE /\ UNCHANGED <<input, failures, edits>>
    <2>1. TypeInv /\ Validates(d, ok)
      BY DEF AgentInv
    <2>2. /\ ok \in BOOLEAN
          /\ OneChanged(d) /\ drafts'[d].valid = {ok} /\ drafts'[d].kind = drafts[d].kind
          /\ trace' \in TraceType /\ trace'.seen = trace.seen
          /\ trace'.check = (IF ok THEN "ok" ELSE "bad")
          /\ trace'.report = (IF ok THEN "ok" ELSE "bad")
          /\ loose' = (d # trace.seen) /\ UNCHANGED <<input, failures, edits>>
      BY <1>1, <2>1, ValidateFacts
    <2>3. loose' = FALSE
      BY <1>1, <2>2
    <2> QED BY <1>1, <2>2, <2>3
  <1>3. PICK next \in {"backtest", "repair", "measure", "score", "next", "answered"} :
          /\ run.at = "check" <=> next \in {"score", "next"}
          /\ IF next = "answered" THEN run' = [run EXCEPT !.at = next, !.answer = d]
             ELSE run' = [run EXCEPT !.at = next]
    BY <1>2 DEF Answer, To
  <1>4. next \in Places
    BY DEF Places, Calls
  <1>5. d \in Nat /\ run \in RunType
    BY <1>1 DEF AgentInv, TypeInv
  <1>6. run' \in RunType
    BY <1>3, <1>4, <1>5, Moved
  <1>7. /\ run'.stage = run.stage /\ run'.at = next /\ run'.draft = d
        /\ run'.claim = run.claim /\ run'.left = run.left /\ run'.best = run.best
        /\ run'.answer = IF next = "answered" THEN d ELSE run.answer
    BY <1>3, <1>5 DEF RunType
  <1>8. TypeInv'
    BY <1>1, <1>2, <1>6, <1>7, TypesFrom DEF AgentInv, TypeInv, OneChanged
  <1>9. OwnInv'
    BY <1>1, <1>2, <1>3, <1>7, SameRequest
       DEF AgentInv, OwnInv, NotYet, Fast, Loops, NoDraft
  <1>10. FreshInv'
    <2>1. trace'.report = "ok" => drafts'[d].valid = {TRUE}
      BY <1>2
    <2>2. trace'.check = trace'.report
      BY <1>2
    <2>3. d # NoDraft /\ trace'.seen = d
      BY <1>1, <1>2 DEF NoDraft
    <2>4. run'.stage \in Fast /\ run'.stage \notin Loops
      BY <1>7 DEF Fast, Loops
    <2> QED BY <1>7, <2>1, <2>2, <2>3, <2>4 DEF FreshInv, Fresh
  <1>11. BestInv'
    BY <1>1, <1>2, <1>3, <1>7 DEF AgentInv, BestInv, Engine, Fast
  <1> QED BY <1>8, <1>9, <1>10, <1>11 DEF AgentInv

\* A backtest of a fast path, and where it goes then.
LEMMA FastBacktestKeeps ==
  ASSUME AgentInv, run.stage \in Fast, Backtests(run.draft),
         \/ run.at \in {"backtest", "measure"} /\ (Answer \/ To("inspect"))
         \/ run.at = "baseline" /\ To("propose")
  PROVE  AgentInv'
  <1> DEFINE d == run.draft
  <1>1. d \in 1 .. Len(drafts) /\ trace.seen = d
    BY OwnDraft DEF NotYet
  <1>2. /\ OneChanged(d) /\ drafts'[d].valid = {TRUE} /\ drafts'[d].kind = drafts[d].kind
        /\ trace' \in TraceType /\ trace'.seen = d
        /\ trace'.check = trace.check /\ trace'.report = trace.report
        /\ UNCHANGED <<input, failures, edits, loose>>
    BY <1>1, BacktestFacts DEF AgentInv
  <1>3. PICK next \in {"inspect", "propose", "answered"} :
          IF next = "answered" THEN run' = [run EXCEPT !.at = next, !.answer = d]
          ELSE run' = [run EXCEPT !.at = next]
    BY <1>2 DEF Answer, To
  <1>4. next \in Places
    BY DEF Places, Calls
  <1>5. d \in Nat /\ run \in RunType
    BY <1>1 DEF AgentInv, TypeInv
  <1>6. run' \in RunType
    BY <1>3, <1>4, <1>5, Moved
  <1>7. /\ run'.stage = run.stage /\ run'.at = next /\ run'.draft = d
        /\ run'.claim = run.claim /\ run'.left = run.left /\ run'.best = run.best
        /\ run'.answer = IF next = "answered" THEN d ELSE run.answer
    BY <1>3, <1>5 DEF RunType
  <1>8. TypeInv'
    BY <1>1, <1>2, <1>6, <1>7, TypesFrom DEF AgentInv, TypeInv, OneChanged
  <1>9. OwnInv'
    BY <1>1, <1>2, <1>3, <1>7, SameRequest
       DEF AgentInv, OwnInv, NotYet, Fast, Loops, NoDraft
  <1>10. FreshInv'
    BY <1>1, <1>2, <1>3, <1>7
       DEF AgentInv, FreshInv, Fresh, Dirty, Repairing, Fast, Loops, NoDraft
  <1>11. run.best = {}
    BY DEF AgentInv, BestInv
  <1>12. BestInv'
    BY <1>7, <1>11 DEF BestInv
  <1> QED BY <1>8, <1>9, <1>10, <1>12 DEF AgentInv

\* The run goes to another place, of this path or another.
LEMMA GotoFacts ==
  ASSUME run \in RunType, NEW st \in Fast \cup Loops, NEW p \in Places,
         run' = [run EXCEPT !.stage = st, !.at = p]
  PROVE  /\ run' \in RunType /\ run'.stage = st /\ run'.at = p
         /\ run'.draft = run.draft /\ run'.claim = run.claim /\ run'.left = run.left
         /\ run'.best = run.best /\ run'.answer = run.answer
  BY DEF RunType

\* The run goes to another place of its path.
LEMMA ToFacts ==
  ASSUME run \in RunType, NEW p \in Places, To(p)
  PROVE  /\ run' \in RunType /\ run'.stage = run.stage /\ run'.at = p
         /\ run'.draft = run.draft /\ run'.claim = run.claim /\ run'.left = run.left
         /\ run'.best = run.best /\ run'.answer = run.answer
  BY DEF RunType, To

\* The run answers.
LEMMA AnswerFacts ==
  ASSUME run \in RunType, NEW d \in Nat, run' = [run EXCEPT !.at = "answered", !.answer = d]
  PROVE  /\ run' \in RunType /\ run'.stage = run.stage /\ run'.at = "answered"
         /\ run'.draft = run.draft /\ run'.claim = run.claim /\ run'.left = run.left
         /\ run'.best = run.best /\ run'.answer = d
  <1>1. "answered" \in Places
    BY DEF Places
  <1> QED BY <1>1 DEF RunType

\* The choice of a path, where nothing has been done yet.
LEMMA ChooseKeeps ==
  ASSUME AgentInv, ChoosePath
  PROVE  AgentInv'
  <1>1. /\ run.stage = "fast" /\ run.at = "start"
        /\ UNCHANGED <<drafts, input, trace, failures, edits, loose>>
    BY DEF ChoosePath, At
  <1>2. PICK st \in Fast \cup Loops, p \in {"answered", "capabilities", "load", "inspect", "loop"} :
          /\ run' = [run EXCEPT !.stage = st, !.at = p]
          /\ p = "loop" <=> st \in Loops
          /\ p \in {"answered", "capabilities", "load", "inspect"} => st = "fast"
          /\ p \in {"load", "inspect"} => Active # NoDraft
    BY DEF ChoosePath, Goto, AfterModification, Modifies, Optimizes, General, Fast, Loops
  <1>3. p \in Places /\ run \in RunType
    BY DEF Places, Calls, AgentInv, TypeInv
  <1>4. /\ run' \in RunType /\ run'.stage = st /\ run'.at = p
        /\ run'.draft = run.draft /\ run'.claim = run.claim /\ run'.left = run.left
        /\ run'.best = run.best /\ run'.answer = run.answer
    BY <1>2, <1>3, GotoFacts
  <1>5. TypeInv'
    BY <1>1, <1>4, TypesFrom DEF AgentInv, TypeInv
  <1>6. run.draft = NoDraft /\ run.best = {} /\ trace.report = "none" /\ run.answer = NoDraft
    BY <1>1 DEF AgentInv, OwnInv, BestInv, FreshInv, NotYet, Fast
  <1>7. OwnInv'
    BY <1>1, <1>2, <1>4, <1>6, SameRequest DEF OwnInv, NotYet, Fast, Loops
  <1>8. FreshInv'
    BY <1>1, <1>2, <1>4, <1>6
       DEF AgentInv, FreshInv, Fresh, Dirty, Repairing, Sure, Fast, Loops
  <1>9. BestInv'
    BY <1>4, <1>6 DEF BestInv
  <1> QED BY <1>5, <1>7, <1>8, <1>9 DEF AgentInv

\* A step on the way to a draft that calls nothing.
LEMMA PlanKeeps ==
  ASSUME AgentInv, PlanCreation
  PROVE  AgentInv'
  <1>1. /\ run.stage \in Fast /\ run.at = "plan"
        /\ UNCHANGED <<drafts, input, trace, failures, edits, loose>>
    BY DEF PlanCreation, At
  <1>2. PICK p \in {"clone", "compile"} : To(p)
    BY DEF PlanCreation
  <1>3. p \in Places /\ run \in RunType
    BY DEF Places, Calls, AgentInv, TypeInv
  <1>4. /\ run' \in RunType /\ run'.stage = run.stage /\ run'.at = p
        /\ run'.draft = run.draft /\ run'.claim = run.claim /\ run'.left = run.left
        /\ run'.best = run.best /\ run'.answer = run.answer
    BY <1>2, <1>3, ToFacts
  <1>5. TypeInv'
    BY <1>1, <1>4, TypesFrom DEF AgentInv, TypeInv
  <1>6. OwnInv'
    BY <1>1, <1>2, <1>4, SameRequest DEF AgentInv, OwnInv, NotYet, Fast, Loops
  <1>7. FreshInv'
    BY <1>1, <1>2, <1>4 DEF AgentInv, FreshInv, Fresh, Dirty, Repairing, Fast, Loops
  <1>8. BestInv'
    BY <1>1, <1>4 DEF AgentInv, BestInv
  <1> QED BY <1>5, <1>6, <1>7, <1>8 DEF AgentInv

\* The run's own draft.
LEMMA CreateKeeps ==
  ASSUME AgentInv, CreateDraft
  PROVE  AgentInv'
  <1> DEFINE n == Len(drafts) + 1
  <1>1. /\ run.stage \in Fast /\ run.at \in {"clone", "create"}
        /\ trace' = Saw(Len(drafts')) /\ run' = [run EXCEPT !.at = "align", !.draft = Len(drafts')]
        /\ UNCHANGED <<input, failures, edits, loose>>
    BY DEF CreateDraft
  <1>2. PICK b \in DraftType : drafts' = Append(drafts, b)
    BY UnseenDraft DEF CreateDraft, Scripted, Kinds
  <1>3. /\ drafts' \in Seq(DraftType) /\ Len(drafts') = n /\ n \in Nat /\ Len(drafts) <= n
        /\ n # NoDraft
    BY <1>2, AddDraft DEF AgentInv, TypeInv, NoDraft
  <1> HIDE DEF n
  <1>4. trace' \in TraceType /\ trace'.seen = n /\ trace'.report = trace.report
        /\ trace'.check = trace.check
    BY <1>1, <1>3, Traced DEF AgentInv, TypeInv
  <1>5. "align" \in Places /\ run \in RunType
    BY DEF Places, Calls, AgentInv, TypeInv
  <1>6. run' \in RunType
    BY <1>1, <1>3, <1>5, Moved
  <1>7. /\ run'.stage = run.stage /\ run'.at = "align" /\ run'.draft = n
        /\ run'.claim = run.claim /\ run'.best = run.best /\ run'.answer = run.answer
    BY <1>1, <1>3, <1>5 DEF RunType
  <1>8. TypeInv'
    <2>1. run.claim <= n
      BY <1>3 DEF AgentInv, TypeInv, RunType
    <2> QED BY <1>1, <1>3, <1>4, <1>6, <1>7, <2>1, TypesFrom DEF AgentInv, TypeInv
  <1>9. OwnInv'
    BY <1>1, <1>3, <1>4, <1>7, SameRequest DEF AgentInv, OwnInv, NotYet, Fast, Loops
  <1>10. FreshInv'
    BY <1>1, <1>3, <1>4, <1>7 DEF AgentInv, FreshInv, Dirty, Repairing, Fast, Loops
  <1>11. BestInv'
    BY <1>1, <1>7 DEF AgentInv, BestInv
  <1> QED BY <1>8, <1>9, <1>10, <1>11 DEF AgentInv

\* The strategy that is to be modified, or another path.
LEMMA LoadKeeps ==
  ASSUME AgentInv, LoadStrategy
  PROVE  AgentInv'
  <1>1. /\ run.stage = "fast" /\ run.at = "load" /\ trace' = Saw(Active)
        /\ UNCHANGED <<drafts, input, failures, edits, loose>>
    BY DEF LoadStrategy, At
  <1>2. /\ Active # NoDraft /\ run.draft = NoDraft /\ run.best = {} /\ run.answer = NoDraft
        /\ trace.report = "none" /\ run \in RunType
    BY <1>1 DEF AgentInv, OwnInv, BestInv, FreshInv, NotYet, Fast, TypeInv
  <1>3. Active \in Nat /\ Active <= Len(drafts)
    BY <1>2 DEF AgentInv, TypeInv, Active, NoDraft
  <1>4. trace' \in TraceType /\ trace'.seen = Active /\ trace'.report = trace.report
        /\ trace'.check = trace.check
    BY <1>1, <1>3, Traced DEF AgentInv, TypeInv
  <1>5. CASE run' = [run EXCEPT !.at = "survey", !.draft = Active]
    <2>1. "survey" \in Places
      BY DEF Places, Calls
    <2>2. run' \in RunType
      BY <1>2, <1>3, <1>5, <2>1, Moved
    <2>3. /\ run'.stage = run.stage /\ run'.at = "survey" /\ run'.draft = Active
          /\ run'.claim = run.claim /\ run'.best = run.best /\ run'.answer = run.answer
      BY <1>2, <1>5 DEF RunType
    <2>4. TypeInv'
      BY <1>1, <1>3, <1>4, <2>2, <2>3, TypesFrom DEF AgentInv, TypeInv
    <2>5. OwnInv'
      BY <1>1, <1>2, <1>4, <2>3, SameRequest DEF AgentInv, OwnInv, NotYet, Fast, Loops
    <2>6. FreshInv'
      BY <1>1, <1>2, <1>4, <2>3 DEF AgentInv, FreshInv, Fresh, Dirty, Repairing, Fast, Loops
    <2>7. BestInv'
      BY <1>2, <2>3 DEF BestInv
    <2> QED BY <2>4, <2>5, <2>6, <2>7 DEF AgentInv
  <1>6. CASE Goto(AfterModification)
    <2>1. PICK st \in Fast \cup Loops, p \in {"inspect", "loop"} :
            /\ run' = [run EXCEPT !.stage = st, !.at = p]
            /\ p = "loop" <=> st \in Loops
            /\ p = "inspect" => st = "fast"
      BY <1>6 DEF Goto, AfterModification, General, Fast, Loops
    <2>2. p \in Places
      BY DEF Places, Calls
    <2>3. /\ run' \in RunType /\ run'.stage = st /\ run'.at = p
          /\ run'.draft = run.draft /\ run'.claim = run.claim /\ run'.left = run.left
          /\ run'.best = run.best /\ run'.answer = run.answer
      BY <1>2, <2>1, <2>2, GotoFacts
    <2>4. TypeInv'
      BY <1>1, <1>3, <1>4, <2>3, TypesFrom DEF AgentInv, TypeInv
    <2>5. OwnInv'
      BY <1>1, <1>2, <1>4, <2>1, <2>3, SameRequest DEF OwnInv, NotYet, Fast, Loops
    <2>6. FreshInv'
      BY <1>1, <1>2, <1>4, <2>1, <2>3
         DEF AgentInv, FreshInv, Fresh, Dirty, Repairing, Sure, Fast, Loops
    <2>7. BestInv'
      BY <1>2, <2>3 DEF BestInv
    <2> QED BY <2>4, <2>5, <2>6, <2>7 DEF AgentInv
  <1> QED BY <1>5, <1>6 DEF LoadStrategy

\* The strategy that is to be optimized, or who asked for it goes on.
LEMMA InspectKeeps ==
  ASSUME AgentInv, InspectStrategy
  PROVE  AgentInv'
  <1> DEFINE d == IF run.draft = NoDraft THEN Active ELSE run.draft
  <1>1. /\ run.stage \in Fast /\ run.at = "inspect" /\ trace' = Saw(d)
        /\ UNCHANGED <<drafts, input, failures, edits, loose>>
    BY DEF InspectStrategy, At
  <1>2. /\ run.draft = NoDraft => run.stage = "fast" /\ Active # NoDraft /\ trace.report = "none"
        /\ run.draft # NoDraft => trace.seen = run.draft
        /\ run.best = {} /\ run.answer = NoDraft /\ run \in RunType
    BY <1>1 DEF AgentInv, OwnInv, BestInv, FreshInv, TypeInv
  <1>3. d \in Nat /\ d <= Len(drafts) /\ d # NoDraft
    BY <1>2 DEF AgentInv, TypeInv, Active, NoDraft, RunType
  <1>4. run.draft # NoDraft => d = run.draft
    OBVIOUS
  <1>5. \/ run' = [run EXCEPT !.at = "study", !.draft = d]
        \/ Declined
    BY DEF InspectStrategy
  <1> HIDE DEF d
  <1>6. trace' \in TraceType /\ trace'.seen = d /\ trace'.report = trace.report
        /\ trace'.check = trace.check
    BY <1>1, <1>3, Traced DEF AgentInv, TypeInv
  <1>7. CASE run' = [run EXCEPT !.at = "study", !.draft = d]
    <2>1. "study" \in Places
      BY DEF Places, Calls
    <2>2. run' \in RunType
      BY <1>2, <1>3, <1>7, <2>1, Moved
    <2>3. /\ run'.stage = run.stage /\ run'.at = "study" /\ run'.draft = d
          /\ run'.claim = run.claim /\ run'.best = run.best /\ run'.answer = run.answer
      BY <1>2, <1>7 DEF RunType
    <2>4. TypeInv'
      BY <1>1, <1>3, <1>6, <2>2, <2>3, TypesFrom DEF AgentInv, TypeInv
    <2>5. OwnInv'
      BY <1>1, <1>2, <1>3, <1>6, <2>3, SameRequest DEF AgentInv, OwnInv, NotYet, Fast, Loops
    <2>6. FreshInv'
      BY <1>1, <1>2, <1>3, <1>4, <1>6, <2>3
         DEF AgentInv, FreshInv, Fresh, Dirty, Repairing, Fast, Loops
    <2>7. BestInv'
      BY <1>2, <2>3 DEF BestInv
    <2> QED BY <2>4, <2>5, <2>6, <2>7 DEF AgentInv
  <1>8. CASE run.draft # NoDraft /\ run' = [run EXCEPT !.at = "answered", !.answer = d]
    <2>1. /\ run' \in RunType /\ run'.stage = run.stage /\ run'.at = "answered"
          /\ run'.draft = run.draft /\ run'.claim = run.claim /\ run'.left = run.left
          /\ run'.best = run.best /\ run'.answer = d
      BY <1>2, <1>3, <1>8, AnswerFacts
    <2>2. TypeInv'
      BY <1>1, <1>3, <1>6, <2>1, TypesFrom DEF AgentInv, TypeInv
    <2>3. OwnInv'
      BY <1>1, <1>3, <1>4, <1>6, <1>8, <2>1, SameRequest
         DEF AgentInv, OwnInv, NotYet, Fast, Loops
    <2>4. FreshInv'
      BY <1>1, <1>2, <1>3, <1>4, <1>6, <1>8, <2>1
         DEF AgentInv, FreshInv, Fresh, Dirty, Repairing, Fast, Loops
    <2>5. BestInv'
      BY <1>2, <2>1 DEF BestInv
    <2> QED BY <2>2, <2>3, <2>4, <2>5 DEF AgentInv
  <1>9. CASE run.draft = NoDraft /\ \E st \in Loops : run' = [run EXCEPT !.stage = st, !.at = "loop"]
    <2>1. PICK st \in Loops : run' = [run EXCEPT !.stage = st, !.at = "loop"]
      BY <1>9
    <2>2. "loop" \in Places
      BY DEF Places
    <2>3. /\ run' \in RunType /\ run'.stage = st /\ run'.at = "loop"
          /\ run'.draft = run.draft /\ run'.claim = run.claim /\ run'.left = run.left
          /\ run'.best = run.best /\ run'.answer = run.answer
      BY <1>2, <2>1, <2>2, GotoFacts
    <2>4. TypeInv'
      BY <1>1, <1>3, <1>6, <2>3, TypesFrom DEF AgentInv, TypeInv
    <2>5. OwnInv'
      BY <1>1, <1>2, <1>6, <1>9, <2>1, <2>3, SameRequest DEF OwnInv, NotYet, Fast, Loops
    <2>6. FreshInv'
      BY <1>1, <1>2, <1>6, <1>9, <2>1, <2>3
         DEF AgentInv, FreshInv, Fresh, Dirty, Repairing, Sure, Fast, Loops
    <2>7. BestInv'
      BY <1>2, <2>3 DEF BestInv
    <2> QED BY <2>4, <2>5, <2>6, <2>7 DEF AgentInv
  <1>10. Declined => \/ run.draft # NoDraft /\ run' = [run EXCEPT !.at = "answered", !.answer = d]
                     \/ run.draft = NoDraft
                        /\ \E st \in Loops : run' = [run EXCEPT !.stage = st, !.at = "loop"]
    BY <1>6 DEF Declined, Answer, Goto, General, Loops
  <1> QED BY <1>5, <1>7, <1>8, <1>9, <1>10

\* The plan of an optimization.
LEMMA ProposeKeeps ==
  ASSUME AgentInv, ProposeCandidates
  PROVE  AgentInv'
  <1>1. /\ run.stage \in Fast /\ run.at = "propose"
        /\ UNCHANGED <<drafts, input, trace, failures, edits, loose>>
    BY DEF ProposeCandidates, At
  <1>2. PICK n \in Int : run' = [run EXCEPT !.at = "next", !.left = n]
    <2>1. PICK n \in 1 .. MaxCandidates : run' = [run EXCEPT !.at = "next", !.left = n]
      BY DEF ProposeCandidates
    <2>2. n \in Int
      BY RunInputs
    <2> QED BY <2>1, <2>2
  <1>3. "next" \in Places /\ run \in RunType
    BY DEF Places, AgentInv, TypeInv
  <1>4. run' \in RunType
    BY <1>2, <1>3, Moved
  <1>5. /\ run'.stage = run.stage /\ run'.at = "next" /\ run'.draft = run.draft
        /\ run'.claim = run.claim /\ run'.best = run.best /\ run'.answer = run.answer
    BY <1>2, <1>3 DEF RunType
  <1>6. TypeInv'
    BY <1>1, <1>4, <1>5, TypesFrom DEF AgentInv, TypeInv
  <1>7. OwnInv'
    BY <1>1, <1>5, SameRequest DEF AgentInv, OwnInv, NotYet, Fast, Loops
  <1>8. FreshInv'
    BY <1>1, <1>5 DEF AgentInv, FreshInv, Fresh, Dirty, Repairing, Fast, Loops
  <1>9. BestInv'
    BY <1>1, <1>5 DEF AgentInv, BestInv
  <1> QED BY <1>6, <1>7, <1>8, <1>9 DEF AgentInv

\* The loop over the candidates goes on, or ends with the draft it leaves.
LEMMA NextCandidateKeeps ==
  ASSUME AgentInv, NextCandidate
  PROVE  AgentInv'
  <1>1. /\ run.stage \in Fast /\ run.at = "next"
        /\ UNCHANGED <<drafts, input, trace, failures, edits, loose>>
    BY DEF NextCandidate, At
  <1>2. run.draft \in 1 .. Len(drafts) /\ trace.seen = run.draft /\ run.draft # NoDraft
        /\ run \in RunType
    BY <1>1, OwnDraft DEF NotYet, NoDraft, AgentInv, TypeInv
  <1>3. CASE run.left = 0
    <2>1. run' = [run EXCEPT !.at = "answered", !.answer = trace.seen] /\ trace.seen \in Nat
      BY <1>2, <1>3 DEF NextCandidate
    <2>2. /\ run' \in RunType /\ run'.stage = run.stage /\ run'.at = "answered"
          /\ run'.draft = run.draft /\ run'.claim = run.claim /\ run'.left = run.left
          /\ run'.best = run.best /\ run'.answer = trace.seen
      BY <1>2, <2>1, AnswerFacts
    <2>3. TypeInv'
      BY <1>1, <2>2, TypesFrom DEF AgentInv, TypeInv
    <2>4. OwnInv'
      BY <1>1, <1>2, <2>2, SameRequest DEF AgentInv, OwnInv, NotYet, Fast, Loops
    <2>5. FreshInv'
      BY <1>1, <1>2, <2>2 DEF AgentInv, FreshInv, Fresh, Dirty, Repairing, Fast, Loops
    <2>6. BestInv'
      BY <1>1, <2>2 DEF AgentInv, BestInv, Engine
    <2> QED BY <2>3, <2>4, <2>5, <2>6 DEF AgentInv
  <1>4. CASE run.left # 0
    <2>1. PICK p \in {"rebuild", "try"} : run' = [run EXCEPT !.at = p, !.left = run.left - 1]
      BY <1>4 DEF NextCandidate
    <2>2. p \in Places /\ run.left - 1 \in Int
      BY <1>2 DEF Places, Calls, RunType
    <2>3. run' \in RunType
      BY <1>2, <2>1, <2>2, Moved
    <2>4. /\ run'.stage = run.stage /\ run'.at = p /\ run'.draft = run.draft
          /\ run'.claim = run.claim /\ run'.best = run.best /\ run'.answer = run.answer
      BY <1>2, <2>1 DEF RunType
    <2>5. TypeInv'
      BY <1>1, <2>3, <2>4, TypesFrom DEF AgentInv, TypeInv
    <2>6. OwnInv'
      BY <1>1, <2>4, SameRequest DEF AgentInv, OwnInv, NotYet, Fast, Loops
    <2>7. FreshInv'
      BY <1>1, <1>2, <2>4 DEF AgentInv, FreshInv, Fresh, Dirty, Repairing, Fast, Loops
    <2>8. BestInv'
      BY <1>1, <1>4, <2>4 DEF AgentInv, BestInv, Engine
    <2> QED BY <2>5, <2>6, <2>7, <2>8 DEF AgentInv
  <1> QED BY <1>3, <1>4

\* A candidate's score: a positive one ends the loop when rules run the draft.
LEMMA ScoreKeeps ==
  ASSUME AgentInv, ScoreCandidate
  PROVE  AgentInv'
  <1> DEFINE d == run.draft
  <1>1. /\ run.stage \in Fast /\ run.at = "score" /\ trace' = Tested
        /\ UNCHANGED <<input, failures, edits, loose>>
    BY DEF ScoreCandidate, At
  <1>2. PICK pnl \in Pnls :
          /\ drafts' = [drafts EXCEPT ![d].valid = {TRUE}, ![d].pnl = {pnl}]
          /\ run' = [run EXCEPT !.at = "next", !.left = LeftAfter(pnl),
                                !.best = IF Better(pnl) THEN {pnl} ELSE run.best]
    BY DEF ScoreCandidate
  <1>3. d \in 1 .. Len(drafts) /\ trace.seen = d /\ d # NoDraft /\ run \in RunType
    BY <1>1, OwnDraft DEF NotYet, NoDraft, AgentInv, TypeInv
  <1>4. pnl \in Int /\ "next" \in Places
    BY RunInputs DEF Places
  <1>5. OneChanged(d) /\ drafts'[d].valid = {TRUE} /\ drafts'[d].pnl = {pnl}
        /\ drafts'[d].kind = drafts[d].kind
    <2> DEFINE b == [drafts[d] EXCEPT !.valid = {TRUE}, !.pnl = {pnl}]
    <2>1. drafts[d] \in DraftType
      BY <1>3, DraftKind DEF AgentInv
    <2>2. b \in DraftType /\ b.valid = {TRUE} /\ b.pnl = {pnl} /\ b.kind = drafts[d].kind
      BY <1>4, <2>1 DEF DraftType
    <2>3. drafts' = [drafts EXCEPT ![d] = b]
      BY <1>2, <1>3 DEF AgentInv, TypeInv
    <2> HIDE DEF b
    <2>4. OneChanged(d) /\ drafts'[d] = b
      BY <1>3, <2>2, <2>3, Stored DEF AgentInv
    <2> QED BY <2>2, <2>4
  <1>6. trace' \in TraceType /\ trace'.seen = d /\ trace'.report = trace.report
        /\ trace'.check = trace.check
    BY <1>1, <1>3, Traced DEF AgentInv, TypeInv
  <1> DEFINE left == LeftAfter(pnl)
             best == IF Better(pnl) THEN {pnl} ELSE run.best
  <1>7. left \in Int /\ best \in SUBSET Int
    BY <1>3, <1>4 DEF LeftAfter, RunType
  <1>8. run' = [run EXCEPT !.at = "next", !.left = left, !.best = best]
    BY <1>2
  <1>9. \A p \in best : edits = 0 /\ p > 0 /\ ~Engine => p = pnl /\ left = 0
    BY <1>1, <1>4 DEF AgentInv, BestInv, Better, LeftAfter
  <1> HIDE DEF left, best
  <1>10. /\ run' \in RunType /\ run'.stage = run.stage /\ run'.at = "next" /\ run'.draft = d
         /\ run'.left = left /\ run'.best = best
         /\ run'.claim = run.claim /\ run'.answer = run.answer
    BY <1>3, <1>4, <1>7, <1>8 DEF RunType
  <1>11. TypeInv'
    BY <1>1, <1>3, <1>5, <1>6, <1>10, TypesFrom DEF AgentInv, TypeInv, OneChanged
  <1>12. OwnInv'
    BY <1>1, <1>3, <1>6, <1>10, SameRequest DEF AgentInv, OwnInv, NotYet, Fast, Loops
  <1>13. FreshInv'
    BY <1>1, <1>3, <1>5, <1>6, <1>10
       DEF AgentInv, FreshInv, Fresh, Dirty, Repairing, Fast, Loops
  <1>14. BestInv'
    BY <1>1, <1>3, <1>5, <1>9, <1>10 DEF BestInv, Engine
  <1> QED BY <1>11, <1>12, <1>13, <1>14 DEF AgentInv

\* A call of a fast path that throws.
LEMMA CallThrowsKeeps ==
  ASSUME AgentInv, CallThrows
  PROVE  AgentInv'
  <1> DEFINE d == run.draft
  <1>1. /\ run.stage \in Fast /\ run.at \in Calls
        /\ drafts' = IF Refused THEN [drafts EXCEPT ![d].valid = {FALSE}] ELSE drafts
        /\ UNCHANGED <<input, edits, loose>>
    BY DEF CallThrows
  <1>2. PICK tool : trace' = Threw(tool)
    BY DEF CallThrows
  <1>3. PICK next : /\ To(next)
                    /\ \/ next = "failed"
                       \/ run.at = "analysis" /\ next = "templates"
                       \/ run.at = "survey" /\ next = "refine"
                       \/ run.at = "study" /\ next = "baseline"
                       \/ run.at = "baseline" /\ next = "propose"
    <2>1. To(IF run.at \in DOMAIN After THEN After[run.at] ELSE "failed")
      BY DEF CallThrows
    <2>2. DOMAIN After = {"analysis", "survey", "study", "baseline"}
          /\ After["analysis"] = "templates" /\ After["survey"] = "refine"
          /\ After["study"] = "baseline" /\ After["baseline"] = "propose"
      BY DEF After
    <2> QED BY <2>1, <2>2
  <1>4. next \in Places /\ run \in RunType
    BY <1>3 DEF Places, Calls, AgentInv, TypeInv
  <1>5. /\ run' \in RunType /\ run'.stage = run.stage /\ run'.at = next
        /\ run'.draft = d /\ run'.claim = run.claim /\ run'.left = run.left
        /\ run'.best = run.best /\ run'.answer = run.answer
    BY <1>3, <1>4, ToFacts
  <1>6. trace' \in TraceType /\ trace'.seen = trace.seen /\ trace'.report = trace.report
        /\ trace'.check \in {trace.check, "lost"}
    BY <1>2, TracedThrow DEF AgentInv, TypeInv
  <1>7. Refused => /\ run.at \in {"backtest", "measure", "baseline", "score"}
                   /\ d \in 1 .. Len(drafts) /\ trace.seen = d
    BY <1>1, OwnDraft DEF Refused, NotYet
  <1>8. Refused => /\ OneChanged(d) /\ drafts'[d].kind = drafts[d].kind
                   /\ drafts[d].valid # {TRUE}
    BY <1>1, <1>7, JudgeDraft DEF AgentInv, Refused, Verdicts
  <1>9. /\ drafts' \in Seq(DraftType) /\ Len(drafts') \in Nat /\ Len(drafts') = Len(drafts)
        /\ run.draft # NoDraft => drafts'[d].kind = drafts[d].kind
    <2>1. CASE Refused
      BY <1>8, <2>1 DEF OneChanged
    <2>2. CASE ~Refused
      <3>1. drafts' = drafts
        BY <1>1, <2>2
      <3> QED BY <3>1 DEF AgentInv, TypeInv
    <2> QED BY <2>1, <2>2
  <1>10. TypeInv'
    BY <1>1, <1>5, <1>6, <1>9, TypesFrom DEF AgentInv, TypeInv
  <1>11. OwnInv'
    BY <1>1, <1>3, <1>5, <1>6, SameRequest DEF AgentInv, OwnInv, NotYet, Fast, Loops, Calls
  <1>12. Fresh /\ run.stage \in Fast => Fresh'
    BY <1>1, <1>6, <1>7, <1>8 DEF Fresh
  <1>13. FreshInv'
    BY <1>1, <1>3, <1>5, <1>6, <1>12 DEF AgentInv, FreshInv, Dirty, Repairing, Fast, Loops, Calls
  <1>14. BestInv'
    BY <1>1, <1>3, <1>5, <1>9 DEF AgentInv, BestInv, Engine, Calls
  <1> QED BY <1>10, <1>11, <1>13, <1>14 DEF AgentInv
-----------------------------------------------------------------------------
(* The model's loops and the enforcement. *)

\* In the loops the run has no draft of its own and no result: a step of theirs
\* keeps the invariant when a good report stays fresh, only a run that the trace
\* gives a strategy is repaired, and the report follows the last validation.
LEMMA LoopKeeps ==
  ASSUME AgentInv, TypeInv', run.stage \in Loops,
         run'.stage \in Loops \/ (run'.stage = "emergency" /\ run'.at = "capabilities"),
         run'.draft = run.draft, run'.best = run.best,
         run'.at = "answered" =>
           run'.answer \in {NoDraft, trace'.seen} \/ trace'.seen = NoDraft,
         run'.at # "answered" => run'.answer = NoDraft,
         Fresh',
         run'.at \in Repairing => trace'.seen # NoDraft /\ (loose' \/ trace'.report # "ok"),
         run'.at \in Sure => Target' # NoDraft,
         run'.at \notin Repairing \cup {"finish", "answered", "failed"}
           /\ trace'.check \in {"ok", "bad"} => trace'.report = trace'.check
  PROVE  AgentInv'
  <1>1. run.draft = NoDraft /\ run.best = {}
    BY DEF AgentInv, OwnInv, BestInv, Fast, Loops
  <1>2. run'.stage \in Loops \/ run'.stage = "emergency"
    OBVIOUS
  <1>3. OwnInv'
    BY <1>1, <1>2 DEF OwnInv, NotYet, Fast, Loops
  <1>4. FreshInv'
    BY <1>1, <1>2 DEF FreshInv, Repairing, Sure, Fast, Loops
  <1>5. BestInv'
    BY <1>1 DEF BestInv
  <1> QED BY <1>3, <1>4, <1>5 DEF AgentInv

\* What the invariant says of the loops.
LEMMA LoopFacts ==
  ASSUME AgentInv, run.stage \in Loops
  PROVE  /\ TypeInv /\ run \in RunType /\ trace \in TraceType /\ loose \in BOOLEAN
         /\ drafts \in Seq(DraftType) /\ Len(drafts) \in Nat /\ Fresh
         /\ run.claim \in 0 .. Len(drafts) /\ trace.seen \in 0 .. Len(drafts)
         /\ run.draft \in Nat /\ run.draft <= Len(drafts)
         /\ run.at # "answered" => run.answer = NoDraft
  BY DEF AgentInv, TypeInv, OwnInv, FreshInv, RunType, TraceType, NoDraft

\* One more call of the model.
LEMMA CallingFacts ==
  ASSUME AgentInv, Calling
  PROVE  /\ run.stage \in Loops /\ run.at = "loop" /\ run' \in RunType
         /\ run'.stage = run.stage /\ run'.at = "loop" /\ run'.draft = run.draft
         /\ run'.claim = run.claim /\ run'.best = run.best /\ run'.answer = NoDraft
         /\ trace.check \in {"ok", "bad"} => trace.report = trace.check
  <1>1. run.stage \in Loops /\ run.at = "loop" /\ run' = [run EXCEPT !.tools = @ + 1]
    BY DEF Calling, At
  <1>2. run \in RunType /\ run.answer = NoDraft
    BY <1>1, LoopFacts
  <1>3. /\ run' \in RunType /\ run'.stage = run.stage /\ run'.at = run.at
        /\ run'.draft = run.draft /\ run'.claim = run.claim
        /\ run'.best = run.best /\ run'.answer = run.answer
    BY <1>1, <1>2 DEF RunType
  <1>4. trace.check \in {"ok", "bad"} => trace.report = trace.check
    BY <1>1 DEF AgentInv, FreshInv, Repairing
  <1> QED BY <1>1, <1>2, <1>3, <1>4

\* A call of the model keeps the invariant when the report stays fresh and
\* follows the last validation.
LEMMA CallingKeeps ==
  ASSUME AgentInv, Calling, UNCHANGED <<input, failures, edits>>,
         drafts' \in Seq(DraftType), Len(drafts') \in Nat, Len(drafts) <= Len(drafts'),
         trace' \in TraceType, trace'.seen <= Len(drafts'), loose' \in BOOLEAN, Fresh',
         trace'.check \in {"ok", "bad"} => trace'.report = trace'.check
  PROVE  AgentInv'
  <1>1. /\ run.stage \in Loops /\ run.at = "loop" /\ run' \in RunType
        /\ run'.stage = run.stage /\ run'.at = "loop" /\ run'.draft = run.draft
        /\ run'.claim = run.claim /\ run'.best = run.best /\ run'.answer = NoDraft
    BY CallingFacts
  <1>2. TypeInv /\ run.draft <= Len(drafts') /\ run.claim <= Len(drafts')
    BY <1>1, LoopFacts
  <1>3. TypeInv'
    BY <1>1, <1>2, TypesFrom
  <1>4. run'.at \notin Repairing /\ run'.at # "answered" /\ run'.at \notin Sure
    BY <1>1 DEF Repairing, Sure
  <1> QED BY <1>1, <1>3, <1>4, LoopKeeps

\* The model looks around, or makes a decision that leads to no call.
LEMMA LooksKeeps ==
  ASSUME AgentInv, ModelLooks \/ Misstep
  PROVE  AgentInv'
  <1>1. Calling /\ UNCHANGED <<drafts, input, failures, edits, loose>>
        /\ (trace' = Used \/ trace' = trace)
    BY DEF ModelLooks, Misstep
  <1>2. /\ run.stage \in Loops
        /\ trace.check \in {"ok", "bad"} => trace.report = trace.check
    BY <1>1, CallingFacts
  <1>3. trace' \in TraceType /\ trace'.seen = trace.seen /\ trace'.report = trace.report
        /\ trace'.check = trace.check
    BY <1>1, <1>2, LoopFacts, Traced
  <1>4. Fresh'
    BY <1>1, <1>2, <1>3, LoopFacts DEF Fresh
  <1> QED BY <1>1, <1>2, <1>3, <1>4, LoopFacts, CallingKeeps

\* The model adds a draft: what an older validation said is loose from then on.
LEMMA ModelCreatesKeeps ==
  ASSUME AgentInv, ModelCreates
  PROVE  AgentInv'
  <1>1. Calling /\ trace' = Saw(Len(drafts')) /\ loose' = TRUE
        /\ UNCHANGED <<input, failures, edits>>
    BY DEF ModelCreates
  <1>2. /\ run.stage \in Loops
        /\ trace.check \in {"ok", "bad"} => trace.report = trace.check
    BY <1>1, CallingFacts
  <1>3. PICK b \in DraftType : drafts' = Append(drafts, b)
    BY UnseenDraft DEF ModelCreates, Kinds
  <1>4. drafts' \in Seq(DraftType) /\ Len(drafts') \in Nat /\ Len(drafts) <= Len(drafts')
    BY <1>2, <1>3, LoopFacts, AddDraft
  <1>5. trace' \in TraceType /\ trace'.seen = Len(drafts') /\ trace'.report = trace.report
        /\ trace'.check = trace.check
    BY <1>1, <1>2, <1>4, LoopFacts, Traced
  <1>6. Fresh'
    BY <1>1 DEF Fresh
  <1> QED BY <1>1, <1>2, <1>4, <1>5, <1>6, CallingKeeps

\* The model writes over a draft: again the older validation is loose.
LEMMA ModelUpdatesKeeps ==
  ASSUME AgentInv, NEW d \in DOMAIN drafts, ModelUpdates(d)
  PROVE  AgentInv'
  <1>1. Calling /\ trace' = Saw(d) /\ loose' = TRUE /\ UNCHANGED <<input, failures, edits>>
    BY DEF ModelUpdates
  <1>2. /\ run.stage \in Loops
        /\ trace.check \in {"ok", "bad"} => trace.report = trace.check
    BY <1>1, CallingFacts
  <1>3. d \in 1 .. Len(drafts) /\ TypeInv
    BY <1>2, LoopFacts
  <1>4. PICK b \in DraftType : drafts' = [drafts EXCEPT ![d] = b]
    <2>1. {drafts[d].kind} \in SUBSET Kinds
      BY <1>3, DraftKind
    <2>2. PICK b \in Unseen({drafts[d].kind}) : drafts' = [drafts EXCEPT ![d] = b]
      BY DEF ModelUpdates
    <2> QED BY <2>1, <2>2, UnseenDraft
  <1>5. OneChanged(d)
    BY <1>3, <1>4, Stored
  <1>6. trace' \in TraceType /\ trace'.seen = d /\ trace'.report = trace.report
        /\ trace'.check = trace.check
    BY <1>1, <1>3, Traced DEF TypeInv
  <1>7. Fresh'
    BY <1>1 DEF Fresh
  <1> QED BY <1>1, <1>2, <1>3, <1>5, <1>6, <1>7, CallingKeeps DEF OneChanged

\* The model looks at a draft: an older validation is loose unless it is the same
\* draft that the trace showed before.
LEMMA ModelLoadsKeeps ==
  ASSUME AgentInv, NEW d \in DOMAIN drafts, ModelLoads(d)
  PROVE  AgentInv'
  <1>1. Calling /\ trace' = Saw(d) /\ loose' = (loose \/ (d # trace.seen))
        /\ UNCHANGED <<drafts, input, failures, edits>>
    BY DEF ModelLoads
  <1>2. /\ run.stage \in Loops
        /\ trace.check \in {"ok", "bad"} => trace.report = trace.check
    BY <1>1, CallingFacts
  <1>3. d \in 1 .. Len(drafts) /\ TypeInv
    BY <1>2, LoopFacts
  <1>4. trace' \in TraceType /\ trace'.seen = d /\ trace'.report = trace.report
        /\ trace'.check = trace.check
    BY <1>1, <1>3, Traced DEF TypeInv
  <1>5. Fresh'
    BY <1>1, <1>2, <1>4, LoopFacts DEF Fresh
  <1>6. loose' \in BOOLEAN
    BY <1>1, <1>2, LoopFacts
  <1> QED BY <1>1, <1>2, <1>3, <1>4, <1>5, <1>6, LoopFacts, CallingKeeps

\* The model validates a draft, which may not be the one the trace shows.
LEMMA ModelValidatesKeeps ==
  ASSUME AgentInv, NEW d \in DOMAIN drafts, ModelValidates(d)
  PROVE  AgentInv'
  <1>1. PICK ok \in BOOLEAN : Calling /\ Validates(d, ok)
    BY DEF ModelValidates
  <1>2. run.stage \in Loops
    BY <1>1, CallingFacts
  <1>3. d \in 1 .. Len(drafts) /\ TypeInv /\ trace.seen <= Len(drafts)
    BY <1>2, LoopFacts
  <1>4. /\ ok \in BOOLEAN
        /\ OneChanged(d) /\ drafts'[d].valid = {ok}
        /\ trace' \in TraceType /\ trace'.seen = trace.seen
        /\ trace'.check = (IF ok THEN "ok" ELSE "bad")
        /\ trace'.report = (IF ok THEN "ok" ELSE "bad")
        /\ loose' = (d # trace.seen) /\ UNCHANGED <<input, failures, edits>>
    BY <1>1, <1>3, ValidateFacts
  <1>5. Fresh'
    <2>1. trace'.report = "ok" => drafts'[d].valid = {TRUE}
      BY <1>4
    <2>2. ~loose' => trace'.seen = d
      BY <1>4
    <2>3. d # NoDraft
      BY <1>3 DEF NoDraft
    <2> QED BY <2>1, <2>2, <2>3 DEF Fresh
  <1>6. loose' \in BOOLEAN /\ trace'.report = trace'.check
    BY <1>4
  <1> QED BY <1>1, <1>3, <1>4, <1>5, <1>6, CallingKeeps DEF OneChanged

\* A backtest of the model's spoils no good report: it only runs a valid draft.
LEMMA ModelBacktestsKeeps ==
  ASSUME AgentInv, NEW d \in DOMAIN drafts, ModelBacktests(d)
  PROVE  AgentInv'
  <1>1. Calling /\ Backtests(d)
    BY DEF ModelBacktests
  <1>2. /\ run.stage \in Loops
        /\ trace.check \in {"ok", "bad"} => trace.report = trace.check
    BY <1>1, CallingFacts
  <1>3. d \in 1 .. Len(drafts) /\ TypeInv /\ Fresh /\ trace.seen \in 0 .. Len(drafts)
        /\ loose \in BOOLEAN
    BY <1>2, LoopFacts
  <1>4. /\ OneChanged(d) /\ drafts'[d].valid = {TRUE}
        /\ trace' \in TraceType /\ trace'.seen = trace.seen
        /\ trace'.check = trace.check /\ trace'.report = trace.report
        /\ UNCHANGED <<input, failures, edits, loose>>
    BY <1>1, <1>3, BacktestFacts
  <1>5. \A e \in 1 .. Len(drafts) : drafts[e].valid = {TRUE} => drafts'[e].valid = {TRUE}
    BY <1>4 DEF OneChanged
  <1>6. trace.seen # NoDraft => trace.seen \in 1 .. Len(drafts)
    BY <1>3 DEF NoDraft
  <1>7. Fresh'
    BY <1>3, <1>4, <1>5, <1>6 DEF Fresh
  <1> QED BY <1>1, <1>2, <1>3, <1>4, <1>7, CallingKeeps DEF OneChanged

\* A step of a loop that changes no more of the drafts than their contents.
LEMMA OnwardKeeps ==
  ASSUME AgentInv, run.stage \in Loops, UNCHANGED <<input, edits>>,
         drafts' \in Seq(DraftType), Len(drafts') = Len(drafts),
         trace' \in TraceType, trace'.seen = trace.seen, loose' \in BOOLEAN, Fresh',
         run' \in RunType, run'.draft = run.draft, run'.best = run.best,
         run'.claim \in 0 .. Len(drafts),
         run'.stage \in Loops \/ (run'.stage = "emergency" /\ run'.at = "capabilities"),
         run'.at = "answered" =>
           run'.answer \in {NoDraft, trace'.seen} \/ trace'.seen = NoDraft,
         run'.at # "answered" => run'.answer = NoDraft,
         run'.at \in Repairing => trace.seen # NoDraft /\ (loose' \/ trace'.report # "ok"),
         run'.at \in Sure => Target # NoDraft /\ run'.claim = run.claim,
         run'.at \notin Repairing \cup {"finish", "answered", "failed"}
           /\ trace'.check \in {"ok", "bad"} => trace'.report = trace'.check
  PROVE  AgentInv'
  <1>1. /\ TypeInv /\ Len(drafts) \in Nat /\ trace.seen <= Len(drafts)
        /\ run.draft <= Len(drafts)
    BY LoopFacts
  <1>2. /\ Len(drafts') \in Nat /\ Len(drafts) <= Len(drafts') /\ run'.draft <= Len(drafts')
        /\ run'.claim <= Len(drafts') /\ trace'.seen <= Len(drafts')
    BY <1>1
  <1>3. TypeInv'
    BY <1>1, <1>2, TypesFrom
  <1>4. run'.at \in Sure => Target' # NoDraft
    BY DEF Target
  <1> QED BY <1>3, <1>4, LoopKeeps

\* A step of a loop that changes the run alone.
LEMMA QuietKeeps ==
  ASSUME AgentInv, run.stage \in Loops, UNCHANGED <<drafts, input, trace, edits, loose>>,
         run' \in RunType, run'.draft = run.draft, run'.best = run.best,
         run'.claim \in 0 .. Len(drafts),
         run'.stage \in Loops \/ (run'.stage = "emergency" /\ run'.at = "capabilities"),
         run'.at = "answered" =>
           run'.answer \in {NoDraft, trace.seen} \/ trace.seen = NoDraft,
         run'.at # "answered" => run'.answer = NoDraft,
         run'.at \in Repairing =>
           run.at \in Repairing \/ (trace.seen # NoDraft /\ (loose \/ trace.report # "ok")),
         run'.at \in Sure => Target # NoDraft /\ run'.claim = run.claim,
         \/ run'.at \in Repairing \cup {"finish", "answered", "failed"}
         \/ run.at \notin Repairing \cup {"finish", "answered", "failed"}
  PROVE  AgentInv'
  <1>1. /\ drafts \in Seq(DraftType) /\ trace \in TraceType /\ loose \in BOOLEAN /\ Fresh
    BY LoopFacts
  <1>2. /\ run.at \in Repairing => trace.seen # NoDraft /\ (loose \/ trace.report # "ok")
        /\ run.at \notin Repairing \cup {"finish", "answered", "failed"}
             /\ trace.check \in {"ok", "bad"} => trace.report = trace.check
    BY DEF AgentInv, FreshInv
  <1>3. Fresh'
    BY <1>1 DEF Fresh
  <1>4. run'.at \in Repairing => trace.seen # NoDraft /\ (loose' \/ trace'.report # "ok")
    BY <1>2
  <1>5. run'.at \notin Repairing \cup {"finish", "answered", "failed"}
          /\ trace'.check \in {"ok", "bad"} => trace'.report = trace'.check
    BY <1>2
  <1> QED BY <1>1, <1>3, <1>4, <1>5, OnwardKeeps

\* What the enforcement does to the run.
LEMMA EnforcedFacts ==
  ASSUME run \in RunType, NEW p \in Places, NEW n \in Int, NEW ok \in BOOLEAN,
         \/ run' = [run EXCEPT !.at = p]
         \/ run' = [run EXCEPT !.at = p, !.left = n]
         \/ run' = [run EXCEPT !.at = p, !.valid = ok]
         \/ run' = [run EXCEPT !.valid = ok, !.at = p]
  PROVE  /\ run' \in RunType /\ run'.stage = run.stage /\ run'.at = p
         /\ run'.draft = run.draft /\ run'.claim = run.claim
         /\ run'.best = run.best /\ run'.answer = run.answer
  BY DEF RunType

\* The JSON loop takes over.
LEMMA FallbackFacts ==
  ASSUME run \in RunType, NEW p \in Places,
         \/ p = run.at /\ run' = [run EXCEPT !.stage = "fallback", !.tools = 0]
         \/ run' = [run EXCEPT !.stage = "fallback", !.at = p, !.tools = 0]
  PROVE  /\ run' \in RunType /\ run'.stage = "fallback" /\ run'.at = p
         /\ run'.draft = run.draft /\ run'.claim = run.claim
         /\ run'.best = run.best /\ run'.answer = run.answer
  <1>1. "fallback" \in Fast \cup Loops /\ 0 \in Int
    BY DEF Fast, Loops
  <1> QED BY <1>1 DEF RunType

\* A tool or the model throws.
LEMMA LoopThrowsKeeps ==
  ASSUME AgentInv, NEW tool \in {"validate", "other", "model"}, LoopThrows(tool)
  PROVE  AgentInv'
  <1>1. /\ run.stage \in Loops /\ run.at = "loop" /\ UNCHANGED <<drafts, input, edits, loose>>
        /\ trace' = trace \/ trace' = Threw(tool)
    BY DEF LoopThrows, At
  <1>2. /\ run \in RunType /\ trace \in TraceType /\ loose \in BOOLEAN /\ Fresh
        /\ run.claim \in 0 .. Len(drafts) /\ run.answer = NoDraft /\ drafts \in Seq(DraftType)
    BY <1>1, LoopFacts
  <1>3. /\ trace' \in TraceType /\ trace'.seen = trace.seen /\ trace'.report = trace.report
        /\ trace'.check \in {trace.check, "lost"}
    BY <1>1, <1>2, TracedThrow
  <1>4. /\ run' \in RunType /\ run'.draft = run.draft /\ run'.claim = run.claim
        /\ run'.best = run.best /\ run'.answer = NoDraft
        /\ run'.at \in {"loop", "capabilities", "timedOut"}
        /\ run'.stage \in Loops \/ (run'.stage = "emergency" /\ run'.at = "capabilities")
    <2>1. {"loop", "capabilities", "timedOut"} \subseteq Places
      BY DEF Places, Calls
    <2>2. CASE UNCHANGED run
      BY <1>1, <1>2, <2>2
    <2>3. CASE run' = [run EXCEPT !.stage = "fallback", !.tools = 0]
      <3>1. /\ run' \in RunType /\ run'.stage = "fallback" /\ run'.at = "loop"
            /\ run'.draft = run.draft /\ run'.claim = run.claim
            /\ run'.best = run.best /\ run'.answer = run.answer
        BY <1>1, <1>2, <2>1, <2>3, FallbackFacts
      <3> QED BY <1>2, <3>1 DEF Loops
    <2>4. CASE Goto(Emergency)
      <3>1. PICK st \in {"emergency", "fallback"}, p \in {"capabilities", "timedOut"} :
              /\ run' = [run EXCEPT !.stage = st, !.at = p]
              /\ st = "emergency" => p = "capabilities"
        BY <2>4 DEF Goto, Emergency
      <3>2. st \in Fast \cup Loops /\ p \in Places
        BY <2>1 DEF Fast, Loops
      <3>3. /\ run' \in RunType /\ run'.stage = st /\ run'.at = p
            /\ run'.draft = run.draft /\ run'.claim = run.claim
            /\ run'.best = run.best /\ run'.answer = run.answer
        BY <1>2, <3>1, <3>2, GotoFacts
      <3> QED BY <1>2, <3>1, <3>3 DEF Loops
    <2> QED BY <2>2, <2>3, <2>4 DEF LoopThrows
  <1>5. Fresh'
    BY <1>1, <1>2, <1>3 DEF Fresh
  <1>6. trace.check \in {"ok", "bad"} => trace.report = trace.check
    BY <1>1 DEF AgentInv, FreshInv, Repairing
  <1>7. run'.at \notin Repairing /\ run'.at # "answered" /\ run'.at \notin Sure
    BY <1>4 DEF Repairing, Sure
  <1>8. trace'.check \in {"ok", "bad"} => trace'.report = trace'.check
    BY <1>3, <1>6
  <1> QED BY <1>1, <1>2, <1>3, <1>4, <1>5, <1>7, <1>8, OnwardKeeps

\* The model is done.
LEMMA LoopEndsKeeps ==
  ASSUME AgentInv, LoopEnds
  PROVE  AgentInv'
  <1>1. /\ run.stage \in Loops /\ run.at = "loop"
        /\ UNCHANGED <<drafts, input, trace, failures, edits, loose>>
    BY DEF LoopEnds, At
  <1>2. run \in RunType /\ run.claim \in 0 .. Len(drafts) /\ run.answer = NoDraft
        /\ Len(drafts) \in Nat
    BY <1>1, LoopFacts
  <1>3. {"loop", "list"} \subseteq Places
    BY DEF Places
  <1>4. /\ run' \in RunType /\ run'.stage \in Loops /\ run'.at \in {"loop", "list"}
        /\ run'.draft = run.draft /\ run'.best = run.best /\ run'.answer = NoDraft
        /\ run'.claim \in 0 .. Len(drafts)
    <2>1. CASE run' = [run EXCEPT !.stage = "fallback", !.tools = 0]
      <3>1. /\ run' \in RunType /\ run'.stage = "fallback" /\ run'.at = "loop"
            /\ run'.draft = run.draft /\ run'.claim = run.claim
            /\ run'.best = run.best /\ run'.answer = run.answer
        BY <1>1, <1>2, <1>3, <2>1, FallbackFacts
      <3> QED BY <1>2, <3>1 DEF Loops
    <2>2. CASE \E d \in 0 .. Len(drafts) : run' = [run EXCEPT !.at = "list", !.claim = d]
      <3>1. PICK d \in 0 .. Len(drafts) : run' = [run EXCEPT !.at = "list", !.claim = d]
        BY <2>2
      <3>2. d \in Nat /\ "list" \in Places
        BY <1>2, <1>3
      <3>3. run' \in RunType
        BY <1>2, <3>1, <3>2, Moved
      <3> QED BY <1>1, <1>2, <3>1, <3>3 DEF RunType
    <2>3. \/ run' = [run EXCEPT !.stage = "fallback", !.tools = 0]
          \/ run' = [run EXCEPT !.at = "list", !.claim = NoDraft]
          \/ \E d \in 0 .. Len(drafts) : run' = [run EXCEPT !.at = "list", !.claim = d]
      BY DEF LoopEnds
    <2>4. NoDraft \in 0 .. Len(drafts)
      BY <1>2 DEF NoDraft
    <2> QED BY <2>1, <2>2, <2>3, <2>4
  <1>5. run.at \notin Repairing \cup {"finish", "answered", "failed"} /\ run'.at \notin Repairing
        /\ run'.at # "answered" /\ run'.at \notin Sure
    BY <1>1, <1>4 DEF Repairing, Sure
  <1> QED BY <1>1, <1>4, <1>5, QuietKeeps

\* The enforcement lists the capabilities, or cannot.
LEMMA ListKeeps ==
  ASSUME AgentInv, ListForEnforcement \/ ListThrows
  PROVE  AgentInv'
  <1>1. /\ run.stage \in Loops /\ run.at = "list"
        /\ UNCHANGED <<drafts, input, trace, edits, loose>>
    BY DEF ListForEnforcement, ListThrows, At
  <1>2. run \in RunType /\ run.claim \in 0 .. Len(drafts) /\ run.answer = NoDraft
    BY <1>1, LoopFacts
  <1>3. {"answered", "ensure", "loop", "failed"} \subseteq Places
    BY DEF Places
  <1>4. /\ run' \in RunType /\ run'.stage \in Loops
        /\ run'.at \in {"answered", "ensure", "loop", "failed"}
        /\ run'.draft = run.draft /\ run'.claim = run.claim
        /\ run'.best = run.best /\ run'.answer = NoDraft
        /\ run'.at = "ensure" => Target # NoDraft
    <2>1. CASE \E p \in {"answered", "ensure", "failed"} :
                 To(p) /\ (p = "ensure" => Target # NoDraft)
      <3>1. PICK p \in {"answered", "ensure", "failed"} :
              To(p) /\ (p = "ensure" => Target # NoDraft)
        BY <2>1
      <3>2. /\ run' \in RunType /\ run'.stage = run.stage /\ run'.at = p
            /\ run'.draft = run.draft /\ run'.claim = run.claim /\ run'.left = run.left
            /\ run'.best = run.best /\ run'.answer = run.answer
        BY <1>2, <1>3, <3>1, ToFacts
      <3> QED BY <1>1, <1>2, <3>1, <3>2
    <2>2. CASE run' = [run EXCEPT !.stage = "fallback", !.at = "loop", !.tools = 0]
      <3>1. /\ run' \in RunType /\ run'.stage = "fallback" /\ run'.at = "loop"
            /\ run'.draft = run.draft /\ run'.claim = run.claim
            /\ run'.best = run.best /\ run'.answer = run.answer
        BY <1>2, <1>3, <2>2, FallbackFacts
      <3> QED BY <1>2, <3>1 DEF Loops
    <2> QED BY <2>1, <2>2 DEF ListForEnforcement, ListThrows, To
  <1>5. run.at \notin Repairing \cup {"finish", "answered", "failed"} /\ run'.at \notin Repairing
    BY <1>1, <1>4 DEF Repairing
  <1>6. run'.claim \in 0 .. Len(drafts)
    BY <1>2, <1>4
  <1>7. run'.at \in Sure => Target # NoDraft /\ run'.claim = run.claim
    BY <1>4 DEF Sure
  <1> QED BY <1>1, <1>4, <1>5, <1>6, <1>7, QuietKeeps

\* The strategy that the enforcement works on.
LEMMA TargetFacts ==
  ASSUME AgentInv, run.stage \in Loops, run.at \in Sure \cup Repairing
  PROVE  /\ Target \in 1 .. Len(drafts) /\ Target # NoDraft /\ run.answer = NoDraft
         /\ Target = trace.seen \/ trace.seen = NoDraft
         /\ run.at \in Repairing => /\ Target = trace.seen
                                    /\ loose \/ trace.report # "ok"
  <1>1. /\ run.claim \in 0 .. Len(drafts) /\ trace.seen \in 0 .. Len(drafts)
        /\ Len(drafts) \in Nat /\ run.answer = NoDraft
    BY LoopFacts DEF Sure, Repairing
  <1>2. /\ run.at \in Repairing => trace.seen # NoDraft /\ (loose \/ trace.report # "ok")
        /\ run.at \in Sure => Target # NoDraft
    BY DEF AgentInv, FreshInv
  <1> QED BY <1>1, <1>2 DEF Target, NoDraft

\* A validation after a repair.
LEMMA RevalidateFacts ==
  ASSUME TypeInv, NEW d \in 1 .. Len(drafts), NEW ok, Revalidates(d, ok), d = trace.seen
  PROVE  /\ ok \in BOOLEAN /\ OneChanged(d) /\ drafts'[d].valid = {ok}
         /\ trace' \in TraceType /\ trace'.seen = trace.seen
         /\ ok => loose' = FALSE
         /\ ~ok => trace'.report = trace.report /\ loose' = loose
         /\ UNCHANGED <<input, edits>>
  <1>1. ok \in BOOLEAN
    BY DraftKind DEF Revalidates, Verdicts
  <1>2. /\ drafts' = [drafts EXCEPT ![d].valid = {ok}]
        /\ trace' = [Checked(ok) EXCEPT !.report = IF ok THEN @ ELSE trace.report]
        /\ loose' = IF ok THEN d # trace.seen ELSE loose
        /\ UNCHANGED <<input, edits>>
    BY DEF Revalidates
  <1>3. /\ Checked(ok) \in TraceType /\ Checked(ok).seen = trace.seen
    BY <1>1, TracedCheck DEF TypeInv
  <1>4. /\ trace' \in TraceType /\ trace'.seen = trace.seen
        /\ ~ok => trace'.report = trace.report
    <2>1. trace.report \in {"none", "ok", "bad"}
      BY DEF TypeInv, TraceType
    <2> QED BY <1>2, <1>3, <2>1 DEF TraceType
  <1> QED BY <1>1, <1>2, <1>4, JudgeDraft

\* The last validation counts, or a new one.
LEMMA EnsureKeeps ==
  ASSUME AgentInv, EnsureValidation
  PROVE  AgentInv'
  <1>1. run.stage \in Loops /\ run.at = "ensure"
    BY DEF EnsureValidation, At
  <1>2. /\ TypeInv /\ run \in RunType /\ run.claim \in 0 .. Len(drafts)
        /\ Len(drafts) \in Nat
    BY <1>1, LoopFacts
  <1>3. /\ Target \in 1 .. Len(drafts) /\ Target # NoDraft /\ run.answer = NoDraft
        /\ Target = trace.seen \/ trace.seen = NoDraft
    BY <1>1, TargetFacts DEF Sure
  <1>4. ASSUME NEW ok \in BOOLEAN, Judged(ok)
        PROVE  /\ run' \in RunType /\ run'.stage = run.stage /\ run'.at \in {"mend", "finish"}
               /\ run'.draft = run.draft /\ run'.claim = run.claim
               /\ run'.best = run.best /\ run'.answer = run.answer
               /\ run'.at = "mend" => ~ok /\ trace'.seen # NoDraft
    <2>1. PICK p \in {"mend", "finish"} :
            run' = [run EXCEPT !.valid = ok, !.at = p] /\ (p = "mend" => ~ok /\ trace'.seen # NoDraft)
      BY <1>4 DEF Judged
    <2>2. p \in Places /\ 0 \in Int
      BY DEF Places
    <2>3. /\ run' \in RunType /\ run'.stage = run.stage /\ run'.at = p
          /\ run'.draft = run.draft /\ run'.claim = run.claim
          /\ run'.best = run.best /\ run'.answer = run.answer
      BY <1>2, <2>1, <2>2, EnforcedFacts
    <2> QED BY <2>1, <2>3
  <1>5. ASSUME trace.check \in {"ok", "bad"}, Judged(trace.check = "ok"),
               UNCHANGED <<drafts, input, trace, failures, edits, loose>>
        PROVE  AgentInv'
    <2>1. trace.report = trace.check
      BY <1>1, <1>5 DEF AgentInv, FreshInv, Repairing
    <2>2. /\ run' \in RunType /\ run'.stage = run.stage /\ run'.at \in {"mend", "finish"}
          /\ run'.draft = run.draft /\ run'.claim = run.claim
          /\ run'.best = run.best /\ run'.answer = run.answer
          /\ run'.at = "mend" => trace.check # "ok" /\ trace.seen # NoDraft
      BY <1>4, <1>5
    <2>3. run'.at \in Repairing \cup {"finish"} /\ run'.at # "answered"
          /\ (run'.at \in Repairing => run'.at = "mend")
      BY <2>2 DEF Repairing
    <2> QED BY <1>1, <1>2, <1>3, <1>5, <2>1, <2>2, <2>3, QuietKeeps
  <1>6. ASSUME NEW ok \in BOOLEAN, Validates(Target, ok), Judged(ok)
        PROVE  AgentInv'
    <2>1. /\ OneChanged(Target) /\ drafts'[Target].valid = {ok}
          /\ trace' \in TraceType /\ trace'.seen = trace.seen
          /\ trace'.report = (IF ok THEN "ok" ELSE "bad")
          /\ loose' = (Target # trace.seen) /\ UNCHANGED <<input, failures, edits>>
      BY <1>2, <1>3, <1>6, ValidateFacts
    <2>2. /\ run' \in RunType /\ run'.stage = run.stage /\ run'.at \in {"mend", "finish"}
          /\ run'.draft = run.draft /\ run'.claim = run.claim
          /\ run'.best = run.best /\ run'.answer = run.answer
          /\ run'.at = "mend" => ~ok /\ trace'.seen # NoDraft
      BY <1>4, <1>6
    <2>3. Fresh'
      <3>1. trace'.report = "ok" => drafts'[Target].valid = {TRUE}
        BY <2>1
      <3>2. ~loose' => trace'.seen = Target
        BY <2>1
      <3> QED BY <1>3, <3>1, <3>2 DEF Fresh
    <2>4. run'.at \in Repairing => trace.seen # NoDraft /\ trace'.report # "ok"
      BY <2>1, <2>2 DEF Repairing
    <2>5. run'.at \in Repairing \cup {"finish"} /\ run'.at # "answered"
      BY <2>2 DEF Repairing
    <2>6. loose' \in BOOLEAN /\ drafts' \in Seq(DraftType) /\ Len(drafts') = Len(drafts)
      BY <2>1 DEF OneChanged
    <2> QED BY <1>1, <1>2, <1>3, <2>1, <2>2, <2>3, <2>4, <2>5, <2>6, OnwardKeeps
  <1> QED BY <1>5, <1>6 DEF EnsureValidation

\* What the enforcement does between its calls.
LEMMA ThinkKeeps ==
  ASSUME AgentInv, Mend \/ AskCorrection
  PROVE  AgentInv'
  <1>1. /\ run.stage \in Loops /\ run.at \in {"mend", "correct"}
        /\ UNCHANGED <<drafts, input, trace, failures, edits, loose>>
    BY DEF Mend, AskCorrection, At
  <1>2. run.at \in Repairing
    BY <1>1 DEF Repairing
  <1>3. /\ run \in RunType /\ run.claim \in 0 .. Len(drafts) /\ Target # NoDraft
        /\ run.answer = NoDraft
    BY <1>1, <1>2, LoopFacts, TargetFacts
  <1>4. run.left - 1 \in Int /\ run.left \in Int /\ MaxCorrections \in Int
    BY <1>3, RunInputs DEF RunType
  <1>5. PICK p \in {"apply", "correct", "finish", "fix"}, n \in Int :
          run' = [run EXCEPT !.at = p] \/ run' = [run EXCEPT !.at = p, !.left = n]
    BY <1>4 DEF Mend, AskCorrection, To
  <1>6. p \in Places /\ TRUE \in BOOLEAN
    BY DEF Places
  <1>7. /\ run' \in RunType /\ run'.stage = run.stage /\ run'.at = p
        /\ run'.draft = run.draft /\ run'.claim = run.claim
        /\ run'.best = run.best /\ run'.answer = run.answer
    BY <1>3, <1>5, <1>6, EnforcedFacts
  <1>8. run'.at \in Repairing \cup {"finish"} /\ run'.at # "answered"
    BY <1>7 DEF Repairing
  <1> QED BY <1>1, <1>2, <1>3, <1>7, <1>8, QuietKeeps

\* A repair is stored.
LEMMA ApplyKeeps ==
  ASSUME AgentInv, ApplyRepair \/ ApplyCorrection
  PROVE  AgentInv'
  <1> DEFINE d == trace.seen
  <1>1. PICK p \in {"mended", "fixed"} :
          /\ run.stage \in Loops /\ run.at \in {"apply", "fix"} /\ To(p)
          /\ Writes(d, {drafts[d].kind})
    BY DEF ApplyRepair, ApplyCorrection, At
  <1>2. run.at \in Repairing
    BY <1>1 DEF Repairing
  <1>3. /\ d \in 1 .. Len(drafts) /\ d # NoDraft /\ run.answer = NoDraft
        /\ loose \/ trace.report # "ok"
    BY <1>1, <1>2, TargetFacts
  <1>4. TypeInv /\ run \in RunType /\ run.claim \in 0 .. Len(drafts) /\ loose \in BOOLEAN
    BY <1>1, LoopFacts
  <1>5. {drafts[d].kind} \in SUBSET Kinds
    BY <1>3, <1>4, DraftKind
  <1>6. /\ OneChanged(d) /\ trace' \in TraceType /\ trace'.seen = d
        /\ trace'.report = trace.report /\ UNCHANGED <<input, failures, edits, loose>>
    BY <1>1, <1>3, <1>4, <1>5, WriteFacts
  <1>7. p \in Places
    BY DEF Places
  <1>8. /\ run' \in RunType /\ run'.stage = run.stage /\ run'.at = p
        /\ run'.draft = run.draft /\ run'.claim = run.claim /\ run'.left = run.left
        /\ run'.best = run.best /\ run'.answer = run.answer
    BY <1>1, <1>4, <1>7, ToFacts
  <1>9. Fresh'
    BY <1>3, <1>6 DEF Fresh
  <1>10. run'.at \in Repairing /\ run'.at \notin Sure /\ run'.at # "answered"
    BY <1>8 DEF Repairing, Sure
  <1> QED BY <1>1, <1>3, <1>4, <1>6, <1>8, <1>9, <1>10, OnwardKeeps DEF OneChanged

\* A repair is validated.
LEMMA CheckKeeps ==
  ASSUME AgentInv, CheckRepair \/ CheckCorrection
  PROVE  AgentInv'
  <1> DEFINE d == Target
  <1>1. run.stage \in Loops /\ run.at \in {"mended", "fixed"}
    BY DEF CheckRepair, CheckCorrection, At
  <1>2. PICK ok \in BOOLEAN :
          /\ Revalidates(d, ok)
          /\ \/ ok /\ run' = [run EXCEPT !.at = "finish", !.valid = TRUE]
             \/ ~ok /\ run' = [run EXCEPT !.at = "correct", !.left = MaxCorrections]
             \/ ~ok /\ run' = [run EXCEPT !.at = "correct"]
    BY DEF CheckRepair, CheckCorrection
  <1>3. run.at \in Repairing
    BY <1>1 DEF Repairing
  <1>4. /\ d \in 1 .. Len(drafts) /\ d # NoDraft /\ run.answer = NoDraft /\ d = trace.seen
        /\ loose \/ trace.report # "ok"
    BY <1>1, <1>3, TargetFacts
  <1>5. TypeInv /\ run \in RunType /\ run.claim \in 0 .. Len(drafts) /\ loose \in BOOLEAN
    BY <1>1, LoopFacts
  <1>6. /\ OneChanged(d) /\ drafts'[d].valid = {ok}
        /\ trace' \in TraceType /\ trace'.seen = trace.seen
        /\ ok => loose' = FALSE
        /\ ~ok => trace'.report = trace.report /\ loose' = loose
        /\ UNCHANGED <<input, edits>>
    BY <1>2, <1>4, <1>5, RevalidateFacts
  <1>7. PICK p \in {"finish", "correct"} :
          /\ p = "correct" <=> ~ok
          /\ \/ run' = [run EXCEPT !.at = p, !.valid = TRUE]
             \/ run' = [run EXCEPT !.at = p, !.left = MaxCorrections]
             \/ run' = [run EXCEPT !.at = p]
    BY <1>2
  <1>8. p \in Places /\ MaxCorrections \in Int
    BY RunInputs DEF Places
  <1>9. /\ run' \in RunType /\ run'.stage = run.stage /\ run'.at = p
        /\ run'.draft = run.draft /\ run'.claim = run.claim
        /\ run'.best = run.best /\ run'.answer = run.answer
    BY <1>5, <1>7, <1>8, EnforcedFacts
  <1>10. Fresh'
    <2>1. ok => drafts'[d].valid = {TRUE}
      BY <1>6
    <2>2. trace'.seen = d
      BY <1>4, <1>6
    <2>3. ~ok => loose' \/ trace'.report # "ok"
      BY <1>4, <1>6
    <2> QED BY <1>4, <2>1, <2>2, <2>3 DEF Fresh
  <1>11. loose' \in BOOLEAN
    BY <1>5, <1>6
  <1>12. run'.at \in Repairing => trace.seen # NoDraft /\ (loose' \/ trace'.report # "ok")
    BY <1>4, <1>6, <1>7, <1>9 DEF Repairing
  <1>13. run'.at \in Repairing \cup {"finish"} /\ run'.at # "answered"
    BY <1>9 DEF Repairing
  <1> QED BY <1>1, <1>4, <1>5, <1>6, <1>9, <1>10, <1>11, <1>12, <1>13, OnwardKeeps
          DEF OneChanged

\* The enforcement is over.
LEMMA FinishKeeps ==
  ASSUME AgentInv, FinishWithBacktest \/ Finish
  PROVE  AgentInv'
  <1> DEFINE d == Target
  <1>1. /\ run.stage \in Loops /\ run.at = "finish" /\ run' = [run EXCEPT !.at = "answered", !.answer = d]
        /\ \/ Backtests(d)
           \/ UNCHANGED <<drafts, input, trace, failures, edits, loose>>
    BY DEF FinishWithBacktest, Finish, At
  <1>2. /\ TypeInv /\ run \in RunType /\ run.claim \in 0 .. Len(drafts) /\ loose \in BOOLEAN
        /\ Fresh /\ trace \in TraceType /\ trace.seen \in 0 .. Len(drafts)
        /\ drafts \in Seq(DraftType)
    BY <1>1, LoopFacts
  <1>3. /\ d \in 1 .. Len(drafts) /\ d # NoDraft /\ (d = trace.seen \/ trace.seen = NoDraft)
    BY <1>1, TargetFacts DEF Sure
  <1>4. /\ drafts' \in Seq(DraftType) /\ Len(drafts') = Len(drafts)
        /\ trace' \in TraceType /\ trace'.seen = trace.seen
        /\ trace'.report = trace.report /\ UNCHANGED <<input, edits, loose>>
        /\ \A e \in 1 .. Len(drafts) : drafts[e].valid = {TRUE} => drafts'[e].valid = {TRUE}
    <2>1. CASE Backtests(d)
      <3>1. /\ OneChanged(d) /\ drafts'[d].valid = {TRUE}
            /\ trace' \in TraceType /\ trace'.seen = trace.seen
            /\ trace'.report = trace.report
            /\ UNCHANGED <<input, failures, edits, loose>>
        BY <1>2, <1>3, <2>1, BacktestFacts
      <3> QED BY <3>1 DEF OneChanged
    <2>2. CASE UNCHANGED <<drafts, input, trace, failures, edits, loose>>
      BY <1>2, <2>2
    <2> QED BY <1>1, <2>1, <2>2
  <1>5. Fresh'
    <2>1. trace.seen # NoDraft => trace.seen \in 1 .. Len(drafts)
      BY <1>2 DEF NoDraft
    <2> QED BY <1>2, <1>4, <2>1 DEF Fresh
  <1>6. d \in Nat
    BY <1>3
  <1> HIDE DEF d
  <1>7. /\ run' \in RunType /\ run'.stage = run.stage /\ run'.at = "answered"
        /\ run'.draft = run.draft /\ run'.claim = run.claim /\ run'.left = run.left
        /\ run'.best = run.best /\ run'.answer = d
    BY <1>1, <1>2, <1>6, AnswerFacts
  <1>8. run'.at \notin Repairing /\ run'.at \notin Sure
    BY <1>7 DEF Repairing, Sure
  <1>9. run'.answer \in {NoDraft, trace'.seen} \/ trace'.seen = NoDraft
    BY <1>3, <1>4, <1>7
  <1> QED BY <1>1, <1>2, <1>4, <1>5, <1>7, <1>8, <1>9, OnwardKeeps

\* A call of the enforcement throws.
LEMMA EnforcementThrowsKeeps ==
  ASSUME AgentInv, EnforcementThrows
  PROVE  AgentInv'
  <1>1. /\ run.stage \in Loops
        /\ run.at \in {"ensure", "apply", "mended", "fix", "fixed", "finish"}
        /\ loose' = (loose \/ run.at = "ensure") /\ UNCHANGED <<drafts, input, edits>>
    BY DEF EnforcementThrows
  <1>2. PICK tool : trace' = Threw(tool)
    BY DEF EnforcementThrows
  <1>3. run.at \in Sure \cup Repairing
    BY <1>1 DEF Sure, Repairing
  <1>4. /\ TypeInv /\ run \in RunType /\ run.claim \in 0 .. Len(drafts) /\ loose \in BOOLEAN
        /\ Fresh /\ trace \in TraceType /\ drafts \in Seq(DraftType)
    BY <1>1, LoopFacts
  <1>5. /\ Target \in 1 .. Len(drafts) /\ Target # NoDraft /\ run.answer = NoDraft
        /\ Target = trace.seen \/ trace.seen = NoDraft
        /\ run.at \in Repairing => /\ Target = trace.seen
                                   /\ loose \/ trace.report # "ok"
    BY <1>1, <1>3, TargetFacts
  <1>6. /\ trace' \in TraceType /\ trace'.seen = trace.seen /\ trace'.report = trace.report
    BY <1>2, <1>4, TracedThrow
  <1>7. Fresh'
    BY <1>1, <1>4, <1>6 DEF Fresh
  <1>8. loose' \in BOOLEAN
    BY <1>1, <1>4
  <1>9. CASE run.at = "finish"
    <2>1. run' = [run EXCEPT !.at = "answered", !.answer = Target] /\ Target \in Nat
      BY <1>5, <1>9 DEF EnforcementThrows
    <2>2. /\ run' \in RunType /\ run'.stage = run.stage /\ run'.at = "answered"
          /\ run'.draft = run.draft /\ run'.claim = run.claim /\ run'.left = run.left
          /\ run'.best = run.best /\ run'.answer = Target
      BY <1>4, <2>1, AnswerFacts
    <2>3. run'.at \notin Repairing /\ run'.at \notin Sure
      BY <2>2 DEF Repairing, Sure
    <2>4. run'.answer \in {NoDraft, trace'.seen} \/ trace'.seen = NoDraft
      BY <1>5, <1>6, <2>2
    <2> QED BY <1>1, <1>4, <1>6, <1>7, <1>8, <2>2, <2>3, <2>4, OnwardKeeps
  <1>10. CASE run.at # "finish"
    <2>1. PICK p \in {"mend", "finish", "correct"} :
            /\ \/ run' = [run EXCEPT !.at = p]
               \/ run' = [run EXCEPT !.valid = FALSE, !.at = p]
            /\ p = "mend" => run.at = "ensure" /\ trace'.seen # NoDraft
            /\ p = "correct" => run.at \in {"fix", "fixed"}
      <3>1. CASE run.at = "ensure"
        BY <3>1 DEF EnforcementThrows, Judged
      <3>2. CASE run.at \in {"fix", "fixed"}
        BY <3>2 DEF EnforcementThrows, To
      <3>3. CASE run.at \in {"apply", "mended"}
        BY <3>3 DEF EnforcementThrows, To
      <3> QED BY <1>1, <1>10, <3>1, <3>2, <3>3
    <2>2. p \in Places /\ 0 \in Int /\ FALSE \in BOOLEAN
      BY DEF Places
    <2>3. /\ run' \in RunType /\ run'.stage = run.stage /\ run'.at = p
          /\ run'.draft = run.draft /\ run'.claim = run.claim
          /\ run'.best = run.best /\ run'.answer = run.answer
      BY <1>4, <2>1, <2>2, EnforcedFacts
    <2>4. run'.at \in Repairing => trace.seen # NoDraft /\ (loose' \/ trace'.report # "ok")
      BY <1>1, <1>5, <1>6, <2>1, <2>3 DEF Repairing
    <2>5. run'.at \in Repairing \cup {"finish"} /\ run'.at # "answered"
      BY <2>3 DEF Repairing
    <2> QED BY <1>1, <1>4, <1>5, <1>6, <1>7, <1>8, <2>3, <2>4, <2>5, OnwardKeeps
  <1> QED BY <1>9, <1>10
-----------------------------------------------------------------------------
(* All the steps. *)

\* The owner's edit.
LEMMA EditKeeps ==
  ASSUME AgentInv, NEW d \in DOMAIN drafts, EditDraft(d)
  PROVE  AgentInv'
  <1>1. /\ run.at # "answered" /\ edits' = edits + 1 /\ loose' = TRUE
        /\ UNCHANGED <<input, run, trace, failures>>
    BY DEF EditDraft, Over
  <1>2. TypeInv /\ d \in 1 .. Len(drafts) /\ edits \in Nat
    BY DEF AgentInv, TypeInv
  <1>3. PICK b \in DraftType : drafts' = [drafts EXCEPT ![d] = b]
    <2>1. {drafts[d].kind} \in SUBSET Kinds
      BY <1>2, DraftKind
    <2>2. PICK b \in Unseen({drafts[d].kind}) : drafts' = [drafts EXCEPT ![d] = b]
      BY DEF EditDraft
    <2> QED BY <2>1, <2>2, UnseenDraft
  <1>4. OneChanged(d)
    BY <1>2, <1>3, Stored
  <1>5. edits' \in Nat /\ edits' # 0
    BY <1>1, <1>2
  <1>6. TypeInv'
    BY <1>1, <1>2, <1>4, <1>5 DEF TypeInv, OneChanged
  <1>7. OwnInv'
    BY <1>1, SameRequest DEF AgentInv, OwnInv
  <1>8. Target' = Target
    BY <1>1 DEF Target
  <1>9. FreshInv'
    BY <1>1, <1>8 DEF AgentInv, FreshInv, Fresh
  <1>10. BestInv'
    BY <1>1, <1>5 DEF AgentInv, BestInv
  <1> QED BY <1>6, <1>7, <1>9, <1>10 DEF AgentInv

\* Every step of the creation path.
LEMMA CreationKeeps == ASSUME AgentInv, Creation PROVE AgentInv'
  <1>1. CASE ListCapabilities \/ AnalyzeMarket \/ ListTemplates \/ Compile
    <2>1. PICK place \in {"capabilities", "analysis", "templates", "compile"},
               next \in {"analysis", "templates", "plan", "create"} : Reads(Fast, place, next)
      BY <1>1 DEF ListCapabilities, AnalyzeMarket, ListTemplates, Compile
    <2>2. ReadsOn(place, next)
      BY DEF ReadsOn
    <2> QED BY <2>1, <2>2, ReadKeeps
  <1>2. CASE AlignDraft
    <2>1. PICK kinds \in SUBSET Kinds : Writes(run.draft, kinds)
      BY <1>2 DEF AlignDraft, EngineBacked, Patched, Kinds
    <2>2. run.stage \in Fast /\ run.at = "align" /\ To("validate")
      BY <1>2 DEF AlignDraft, At
    <2> QED BY <2>1, <2>2, FastWriteKeeps
  <1>3. CASE RepairOnce
    <2>1. run.stage \in Fast /\ run.at = "repair" /\ To("recheck")
          /\ Writes(run.draft, {drafts[run.draft].kind})
      BY <1>3 DEF RepairOnce, At
    <2>2. {drafts[run.draft].kind} \in SUBSET Kinds
      BY <2>1, OwnDraft, DraftKind DEF AgentInv, NotYet
    <2> QED BY <2>1, <2>2, FastWriteKeeps
  <1>4. CASE ValidateDraft \/ Recheck
    <2>1. PICK ok \in BOOLEAN :
            /\ run.stage \in Fast /\ run.at \in {"validate", "recheck"}
            /\ Validates(run.draft, ok)
            /\ Answer \/ To("backtest") \/ To("repair")
      BY <1>4 DEF ValidateDraft, Recheck, AfterCheck, At
    <2> QED BY <2>1, FastCheckKeeps
  <1>5. CASE BacktestDraft
    <2>1. /\ run.stage \in Fast /\ run.at = "backtest" /\ Backtests(run.draft)
          /\ Answer \/ To("inspect")
      BY <1>5 DEF BacktestDraft, At
    <2> QED BY <2>1, FastBacktestKeeps
  <1> QED BY <1>1, <1>2, <1>3, <1>4, <1>5, PlanKeeps, CreateKeeps DEF Creation

\* Every step of the modification path.
LEMMA ModificationKeeps == ASSUME AgentInv, Modification PROVE AgentInv'
  <1>1. CASE SurveyMarket \/ CompileFilter
    <2>1. PICK place \in {"survey", "refine"}, next \in {"refine", "amend"} :
            Reads({"fast"}, place, next)
      BY <1>1 DEF SurveyMarket, CompileFilter
    <2>2. ReadsOn(place, next)
      BY DEF ReadsOn
    <2> QED BY <2>1, <2>2, ReadKeeps
  <1>2. CASE AmendStrategy
    <2>1. run.stage \in Fast /\ run.at = "amend" /\ To("verify")
          /\ Writes(run.draft, EngineBacked)
      BY <1>2 DEF AmendStrategy, At, Fast
    <2>2. EngineBacked \in SUBSET Kinds
      BY DEF EngineBacked, Kinds
    <2> QED BY <2>1, <2>2, FastWriteKeeps
  <1>3. CASE VerifyStrategy
    <2>1. PICK ok \in BOOLEAN :
            /\ run.stage \in Fast /\ run.at = "verify" /\ Validates(run.draft, ok)
            /\ Answer \/ To("measure")
      BY <1>3 DEF VerifyStrategy, At, Fast
    <2> QED BY <2>1, FastCheckKeeps
  <1>4. CASE MeasureStrategy
    <2>1. run.stage \in Fast /\ run.at = "measure" /\ Backtests(run.draft) /\ Answer
      BY <1>4 DEF MeasureStrategy, At, Fast
    <2> QED BY <2>1, FastBacktestKeeps
  <1> QED BY <1>1, <1>2, <1>3, <1>4, LoadKeeps DEF Modification

\* Every step of the optimization path.
LEMMA OptimizationKeeps == ASSUME AgentInv, Optimization PROVE AgentInv'
  <1>1. CASE StudyMarket \/ Rebuild
    <2>1. \/ Reads(Fast, "study", "baseline")
          \/ Reads(Fast, "rebuild", "try")
      BY <1>1 DEF StudyMarket, Rebuild
    <2>2. ReadsOn("study", "baseline") /\ ReadsOn("rebuild", "try")
      BY DEF ReadsOn
    <2> QED BY <2>1, <2>2, ReadKeeps
  <1>2. CASE TryCandidate
    <2>1. run.stage \in Fast /\ run.at = "try" /\ To("check")
          /\ Writes(run.draft, IF Engine THEN Rebuilt ELSE VariantOf(run.draft))
      BY <1>2 DEF TryCandidate, At
    <2>2. VariantOf(run.draft) \in SUBSET Kinds
      BY <2>1, OwnDraft, DraftKind DEF AgentInv, NotYet, VariantOf
    <2>3. Rebuilt \in SUBSET Kinds /\ Rebuilt = {"engine"}
      BY DEF Rebuilt, Kinds
    <2>4. PICK kinds \in SUBSET Kinds : Writes(run.draft, kinds) /\ (Engine => kinds = {"engine"})
      BY <2>1, <2>2, <2>3
    <2> QED BY <2>1, <2>4, FastWriteKeeps
  <1>3. CASE CheckCandidate
    <2>1. PICK ok \in BOOLEAN :
            /\ run.stage \in Fast /\ run.at = "check" /\ Validates(run.draft, ok)
            /\ To("score") \/ To("next")
      BY <1>3 DEF CheckCandidate, At
    <2> QED BY <2>1, FastCheckKeeps
  <1>4. CASE BacktestBaseline
    <2>1. /\ run.stage \in Fast /\ run.at = "baseline" /\ Backtests(run.draft)
          /\ To("propose")
      BY <1>4 DEF BacktestBaseline, At
    <2> QED BY <2>1, FastBacktestKeeps
  <1> QED BY <1>1, <1>2, <1>3, <1>4, InspectKeeps, ProposeKeeps, NextCandidateKeeps,
             ScoreKeeps DEF Optimization

\* Every call of the model, and what ends its loops.
LEMMA ModelCallsKeep == ASSUME AgentInv, ModelCalls PROVE AgentInv'
  BY LooksKeeps, ModelCreatesKeeps, LoopEndsKeeps, ModelUpdatesKeeps, ModelLoadsKeeps,
     ModelValidatesKeeps, ModelBacktestsKeeps, LoopThrowsKeeps DEF ModelCalls

\* Every step of the enforcement.
LEMMA EnforcementKeeps == ASSUME AgentInv, Enforcement PROVE AgentInv'
  BY ListKeeps, EnsureKeeps, ThinkKeeps, ApplyKeeps, CheckKeeps, FinishKeeps,
     EnforcementThrowsKeeps DEF Enforcement

\* The invariant is inductive.
LEMMA AgentStep == ASSUME AgentInv, [Next]_vars PROVE AgentInv'
  <1>1. CASE UNCHANGED vars
    <2>1. UNCHANGED <<drafts, input, run, trace, failures, edits, loose>>
      BY <1>1 DEF vars
    <2>2. Active' = Active /\ Target' = Target
      BY <2>1, SameRequest DEF Target
    <2>3. TypeInv'
      BY <2>1 DEF AgentInv, TypeInv
    <2>4. OwnInv'
      BY <2>1, <2>2 DEF AgentInv, OwnInv
    <2>5. FreshInv'
      BY <2>1, <2>2 DEF AgentInv, FreshInv, Fresh
    <2>6. BestInv'
      BY <2>1 DEF AgentInv, BestInv, Engine
    <2> QED BY <2>3, <2>4, <2>5, <2>6 DEF AgentInv
  <1> QED BY <1>1, ChooseKeeps, CreationKeeps, ModificationKeeps, OptimizationKeeps,
             CallThrowsKeeps, ModelCallsKeep, EnforcementKeeps, EditKeeps DEF Next, Agent

\* A request begins with one stored draft, whose validity nobody knows, and an
\* empty trace.
LEMMA AgentStarts == ASSUME Init PROVE AgentInv
  <1>1. PICK b \in Unseen(Kinds) : drafts = <<b>>
    BY DEF Init
  <1>2. b \in DraftType
    BY UnseenDraft
  <1>3. /\ drafts \in Seq(DraftType) /\ Len(drafts) = 1
    BY <1>1, <1>2
  <1>4. /\ input.strategy \in {NoDraft, 1} /\ input.session \in {NoDraft, 1}
        /\ edits = 0 /\ loose = FALSE
    BY DEF Init
  <1>5. /\ run = [stage |-> "fast", at |-> "start", draft |-> NoDraft, left |-> 0,
                  best |-> {}, tools |-> 0, claim |-> NoDraft, valid |-> FALSE,
                  answer |-> NoDraft]
        /\ trace = [used |-> FALSE, seen |-> NoDraft, check |-> "none",
                    report |-> "none", bad |-> FALSE, tested |-> FALSE]
    BY DEF Init
  <1>6. /\ run \in RunType /\ run.stage = "fast" /\ run.at = "start" /\ run.draft = NoDraft
        /\ run.best = {} /\ run.claim = NoDraft /\ run.answer = NoDraft
    <2>1. "start" \in Places /\ "fast" \in Fast \cup Loops /\ NoDraft \in Nat /\ {} \in SUBSET Int
      BY DEF Places, Fast, NoDraft
    <2> QED BY <1>5, <2>1 DEF RunType
  <1>7. trace \in TraceType /\ trace.seen = NoDraft /\ trace.check = "none"
        /\ trace.report = "none"
    BY <1>5 DEF TraceType, NoDraft
  <1>8. TypeInv
    <2>1. NoDraft <= Len(drafts) /\ Len(drafts) >= 1
      BY <1>3 DEF NoDraft
    <2>2. edits \in Nat /\ loose \in BOOLEAN
      BY <1>4
    <2> QED BY <1>3, <1>4, <1>6, <1>7, <2>1, <2>2 DEF TypeInv
  <1>9. OwnInv
    BY <1>6 DEF OwnInv, NotYet, Fast, Loops
  <1>10. FreshInv
    BY <1>6, <1>7 DEF FreshInv, Fresh, Dirty, Repairing, Sure, Fast, Loops
  <1>11. BestInv
    BY <1>6 DEF BestInv
  <1> QED BY <1>8, <1>9, <1>10, <1>11 DEF AgentInv

-----------------------------------------------------------------------------
(* What a run promises. *)

\* Wherever a run is, its draft, its trace and its result fit together.
THEOREM AgentIsSound == Spec => []AgentInv
  <1>1. Init => AgentInv
    BY AgentStarts
  <1>2. AgentInv /\ [Next]_vars => AgentInv'
    BY AgentStep
  <1> QED BY <1>1, <1>2, PTL DEF Spec

\* A run that answers with a strategy and reports a good validation leaves that
\* strategy valid in the matcher, unless the model, the owner or a validation that
\* threw came between: whatever the fast paths and the enforcement write, they
\* validate before they answer.
THEOREM ReportsAreTrue == Spec => []ReportedValidIsStored
  <1>1. AgentInv => ReportedValidIsStored
    <2>1. SUFFICES ASSUME AgentInv, run.at = "answered", run.answer # NoDraft,
                          trace.report = "ok", ~loose
                   PROVE  drafts[run.answer].valid = {TRUE}
      BY DEF ReportedValidIsStored
    <2>2. run.stage \in Fast \cup Loops
      BY <2>1 DEF AgentInv, TypeInv, RunType
    <2>3. Fresh
      BY <2>1, <2>2 DEF AgentInv, FreshInv, Dirty
    <2>4. run.answer = trace.seen
      BY <2>1, <2>3 DEF AgentInv, OwnInv, Fresh
    <2> QED BY <2>1, <2>3, <2>4 DEF Fresh
  <1> QED BY <1>1, AgentIsSound, PTL

\* The positive result that an optimization of a strategy of rules reports is
\* stored with the strategy it answers with: the first positive candidate is the
\* last one tried.
THEOREM PositivesStay == Spec => []PositiveIsStored
  <1>1. AgentInv => PositiveIsStored
    <2>1. SUFFICES ASSUME AgentInv, NEW p \in run.best, run.at = "answered", p > 0,
                          edits = 0, ~Engine
                   PROVE  drafts[run.answer].pnl = {p}
      BY DEF PositiveIsStored
    <2>2. run.draft # NoDraft /\ drafts[run.draft].pnl = {p}
      BY <2>1 DEF AgentInv, BestInv
    <2>3. run.draft = run.answer
      BY <2>1, <2>2 DEF AgentInv, OwnInv
    <2> QED BY <2>2, <2>3
  <1> QED BY <1>1, AgentIsSound, PTL

\* A run that made or took up a draft answers with that draft, whatever else its
\* trace has shown.
THEOREM OwnDraftsAreAnswered == Spec => []OwnDraftIsAnswered
  <1>1. AgentInv => OwnDraftIsAnswered
    BY DEF AgentInv, OwnInv, OwnDraftIsAnswered
  <1> QED BY <1>1, AgentIsSound, PTL

-----------------------------------------------------------------------------
(* The sessions: types and the inductive invariant. *)

CallType == [session : Sessions, strategy : Strategies, owner : Owners, by : Nat]

SessionTypes ==
  /\ sessions \in [Sessions -> {None} \cup Rows]
  /\ newer \in [Sessions -> SUBSET Sessions]
  /\ idle \subseteq Sessions
  /\ requests \in [Requests -> {None, Done} \cup Held]
  /\ refreshes \subseteq CallType
  /\ reads \in Nat
  /\ told \in [Sessions -> Strategies \cup {None}]
  /\ shared \subseteq Sessions /\ pruned \subseteq Requests
  /\ crowd \in Nat

\* The updates of a set of sessions came one after the other.
Ordered(after, ids) ==
  /\ \A s \in ids : s \notin after[s]
  /\ \A s, t \in ids : s # t => (t \in after[s] <=> s \notin after[t])
  /\ \A s, t, u \in ids : t \in after[s] /\ u \in after[t] => u \in after[s]

\* The requests under way whose session was deleted under them: each of them may
\* bring a session back.
Orphans == {q \in Open : sessions[requests[q].session] = None}

SizeInv == Cardinality(Present) + Cardinality(Orphans) <= MaxSessions + crowd

\* A request at work has asked its question, and so has every answer, unless the
\* session was deleted in between.
AskedInv ==
  /\ \A r \in Open : requests[r].at = "work" =>
        r \in pruned \/ <<"user", r>> \in TurnsOf(requests[r].session)
  /\ AnswersHaveQuestions

\* Of a session that no two callers held at one time, the row and everything
\* that is held of it name the same strategy, and one request or the readers
\* hold it.
AloneInv ==
  \A s \in Sessions \ shared :
    /\ sessions[s] # None => sessions[s].strategy = told[s]
    /\ \A r \in On(s) : requests[r].copy.strategy = told[s]
    /\ \A f \in Read(s) : f.strategy = told[s]
    /\ \A q, r \in On(s) : q = r
    /\ On(s) = {} \/ Read(s) = {}

SessionInv == SessionTypes /\ Ordered(newer, Present) /\ SizeInv /\ AskedInv /\ AloneInv
-----------------------------------------------------------------------------
(* Sessions: the order of the updates, and what a prune leaves. *)

\* One of the sessions of a set that is not empty was updated before the others.
LEMMA Oldest ==
  ASSUME NEW after, NEW ids, IsFiniteSet(ids), ids # {}, Ordered(after, ids)
  PROVE  \E m \in ids : \A t \in ids \ {m} : t \in after[m]
  <1> DEFINE First(T) == \E m \in T : \A t \in T \ {m} : t \in after[m]
             Good == {T \in SUBSET ids : T = {} \/ First(T)}
  <1>1. ASSUME NEW T \in SUBSET ids, \A U \in SUBSET T : U # T => U \in Good
        PROVE  T \in Good
    <2>1. CASE T = {}
      BY <2>1
    <2>2. CASE T # {}
      <3>1. PICK x \in T : TRUE
        BY <2>2
      <3>2. T \ {x} \in Good
        BY <3>1, <1>1
      <3>3. CASE T \ {x} = {}
        <4>1. \A t \in T \ {x} : t \in after[x]
          BY <3>3
        <4> QED BY <4>1
      <3>4. CASE T \ {x} # {}
        <4>1. PICK m \in T \ {x} : \A t \in (T \ {x}) \ {m} : t \in after[m]
          BY <3>2, <3>4
        <4>2. CASE x \in after[m]
          <5>1. \A t \in T \ {m} : t \in after[m]
            BY <4>1, <4>2
          <5> QED BY <5>1
        <4>3. CASE x \notin after[m]
          <5>1. m \in after[x]
            BY <4>1, <4>3 DEF Ordered
          <5>2. \A t \in T \ {x} : t \in after[x]
            BY <4>1, <5>1 DEF Ordered
          <5> QED BY <5>2
        <4> QED BY <4>2, <4>3
      <3> QED BY <3>3, <3>4
    <2> QED BY <2>1, <2>2
  <1>2. \A T \in SUBSET ids : T \in Good
    <2> HIDE DEF Good
    <2> QED BY <1>1, SubsetInduction
  <1> QED BY <1>2

\* A smaller set is ordered as the larger one is.
LEMMA StillOrdered ==
  ASSUME NEW after, NEW ids, Ordered(after, ids), NEW few \in SUBSET ids
  PROVE  Ordered(after, few)
  BY DEF Ordered

\* The sets of sessions are finite, and a prune leaves no more than the limit.
LEMMA FewSurvive ==
  ASSUME SessionTypes, Ordered(newer, Present)
  PROVE  /\ IsFiniteSet(Present) /\ IsFiniteSet(Survivors) /\ Survivors \subseteq Present
         /\ Cardinality(Survivors) \in Nat /\ Cardinality(Survivors) <= MaxSessions
  <1> DEFINE left == Present \ idle
  <1>1. IsFiniteSet(Present) /\ IsFiniteSet(Survivors) /\ Survivors \subseteq left
    <2>1. Present \subseteq Sessions /\ Survivors \subseteq Present /\ Survivors \subseteq left
      BY DEF Present, Survivors
    <2> QED BY <2>1, FS_Subset, SessionInputs
  <1>2. CASE Survivors = {}
    BY <1>1, <1>2, FS_EmptySet, SessionInputs
  <1>3. CASE Survivors # {}
    <2>1. Ordered(newer, Survivors)
      BY <1>1, StillOrdered
    <2>2. PICK m \in Survivors : \A t \in Survivors \ {m} : t \in newer[m]
      BY <1>1, <1>3, <2>1, Oldest
    <2>3. Survivors \ {m} \subseteq newer[m] \cap left
      BY <1>1, <2>2
    <2>4. IsFiniteSet(newer[m] \cap left)
      <3>1. newer[m] \cap left \subseteq Present
        OBVIOUS
      <3> QED BY <3>1, <1>1, FS_Subset
    <2>5. Cardinality(newer[m] \cap left) < MaxSessions
      BY <2>2 DEF Survivors
    <2>6. /\ Cardinality(Survivors \ {m}) = Cardinality(Survivors) - 1
          /\ IsFiniteSet(Survivors \ {m})
      BY <1>1, FS_RemoveElement
    <2>7. Cardinality(Survivors \ {m}) <= Cardinality(newer[m] \cap left)
      BY <2>3, <2>4, FS_Subset
    <2>8. /\ Cardinality(Survivors) \in Nat /\ Cardinality(newer[m] \cap left) \in Nat
      BY <1>1, <2>4, FS_CardinalityType
    <2> QED BY <1>1, <2>5, <2>6, <2>7, <2>8, SessionInputs
  <1> QED BY <1>2, <1>3

\* An update makes a session the newest.
LEMMA TouchOrders ==
  ASSUME newer \in [Sessions -> SUBSET Sessions], NEW ids \in SUBSET Sessions,
         Ordered(newer, ids), NEW s \in Sessions
  PROVE  /\ Touched(ids, s) \in [Sessions -> SUBSET Sessions]
         /\ Ordered(Touched(ids, s), ids \cup {s})
  <1> DEFINE after == Touched(ids, s)
  <1>1. after \in [Sessions -> SUBSET Sessions]
    BY DEF Touched
  <1>2. /\ \A t \in ids \ {s} : after[t] = (newer[t] \cap ids) \cup {s}
        /\ after[s] = {}
    BY DEF Touched
  <1> HIDE DEF after
  <1>3. Ordered(after, ids \cup {s})
    <2>1. \A t \in ids \cup {s} : t \notin after[t]
      BY <1>2 DEF Ordered
    <2>2. ASSUME NEW t \in ids \cup {s}, NEW u \in ids \cup {s}, t # u
          PROVE  u \in after[t] <=> t \notin after[u]
      <3>1. CASE t = s
        BY <3>1, <2>2, <1>2
      <3>2. CASE u = s
        BY <3>2, <2>2, <1>2
      <3>3. CASE t # s /\ u # s
        BY <3>3, <2>2, <1>2 DEF Ordered
      <3> QED BY <3>1, <3>2, <3>3
    <2>3. ASSUME NEW t \in ids \cup {s}, NEW u \in ids \cup {s}, NEW v \in ids \cup {s},
                 u \in after[t], v \in after[u]
          PROVE  v \in after[t]
      <3>1. t # s /\ u # s
        BY <2>3, <1>2
      <3>2. CASE v = s
        BY <3>1, <3>2, <1>2
      <3>3. CASE v # s
        <4>1. u \in newer[t] /\ v \in newer[u] /\ t \in ids /\ u \in ids /\ v \in ids
          BY <3>1, <3>3, <2>3, <1>2
        <4>2. v \in newer[t]
          BY <4>1 DEF Ordered
        <4> QED BY <4>1, <4>2, <3>1, <1>2
      <3> QED BY <3>2, <3>3
    <2> QED BY <2>1, <2>2, <2>3 DEF Ordered
  <1> QED BY <1>1, <1>3 DEF after

\* What is left by a prune is ordered as it was.
LEMMA PruneOrders ==
  ASSUME newer \in [Sessions -> SUBSET Sessions], Ordered(newer, Present),
         newer' = [s \in Sessions |-> IF s \in Survivors THEN newer[s] \cap Survivors ELSE {}]
  PROVE  /\ newer' \in [Sessions -> SUBSET Sessions]
         /\ Ordered(newer', Survivors)
  <1>1. newer' \in [Sessions -> SUBSET Sessions]
    OBVIOUS
  <1>2. Survivors \subseteq Present /\ Present \subseteq Sessions
    BY DEF Survivors, Present
  <1>3. Ordered(newer, Survivors)
    BY <1>2, StillOrdered
  <1>4. \A s \in Survivors : newer'[s] = newer[s] \cap Survivors
    BY <1>2
  <1>5. Ordered(newer', Survivors)
    BY <1>3, <1>4 DEF Ordered
  <1> QED BY <1>1, <1>5
-----------------------------------------------------------------------------
(* Sessions: one lemma for each operation. *)

\* What is held by a request, and of a row.
LEMMA OpenHolds ==
  ASSUME SessionTypes, NEW r \in Open
  PROVE  r \in Requests /\ requests[r] \in Held
  BY DEF SessionTypes, Open

\* Rows are no sentinels, and neither is what requests hold.
LEMMA RowsAreRows ==
  /\ \A row \in Rows : row # None
  /\ \A held \in Held : held # None /\ held # Done
  BY SessionInputs

\* A session's row is written: it is stored from then on, and the newest.
LEMMA Writing ==
  ASSUME SessionTypes, Ordered(newer, Present), NEW s \in Sessions, NEW row \in Rows,
         sessions' = Write(sessions, s, row), newer' = Touched(Present, s)
  PROVE  /\ sessions' \in [Sessions -> {None} \cup Rows]
         /\ newer' \in [Sessions -> SUBSET Sessions]
         /\ sessions'[s] = row /\ \A t \in Sessions \ {s} : sessions'[t] = sessions[t]
         /\ Present' = Present \cup {s}
         /\ Ordered(newer', Present')
  <1>1. sessions' = [sessions EXCEPT ![s] = row]
    BY DEF Write
  <1>2. /\ sessions' \in [Sessions -> {None} \cup Rows]
        /\ sessions'[s] = row /\ \A t \in Sessions \ {s} : sessions'[t] = sessions[t]
    BY <1>1 DEF SessionTypes
  <1>3. row # None
    BY RowsAreRows
  <1>4. Present' = Present \cup {s}
    BY <1>2, <1>3 DEF Present
  <1>5. Present \subseteq Sessions
    BY DEF Present
  <1>6. /\ newer' \in [Sessions -> SUBSET Sessions]
        /\ Ordered(newer', Present \cup {s})
    BY <1>5, TouchOrders DEF SessionTypes
  <1> QED BY <1>2, <1>4, <1>6

\* Sets of requests are finite.
LEMMA FewRequests ==
  /\ IsFiniteSet(Open) /\ Cardinality(Open) \in Nat
  /\ IsFiniteSet(Orphans) /\ Cardinality(Orphans) \in Nat /\ Cardinality(Orphans) <= Cardinality(Open)
  <1>1. Open \subseteq Requests /\ Orphans \subseteq Open
    BY DEF Open, Orphans
  <1> QED BY <1>1, SessionInputs, FS_Subset, FS_CardinalityType

\* A member more is at most one more.
LEMMA OneMore ==
  ASSUME NEW S, NEW x, IsFiniteSet(S)
  PROVE  Cardinality(S \cup {x}) <= Cardinality(S) + 1 /\ Cardinality(S \cup {x}) \in Nat
  <1> DEFINE n == Cardinality(S)
             m == Cardinality(S \cup {x})
  <1>1. n \in Nat /\ m \in Nat
    BY FS_AddElement, FS_CardinalityType
  <1>2. m = IF x \in S THEN n ELSE n + 1
    BY FS_AddElement
  <1> HIDE DEF n, m
  <1>3. m <= n + 1
    BY <1>1, <1>2
  <1> QED BY <1>1, <1>3 DEF n, m

\* No session comes or goes, and no request is orphaned.
LEMMA SameRoom ==
  ASSUME SessionTypes, SizeInv, Present' = Present, Orphans' \subseteq Orphans, crowd' = crowd
  PROVE  SizeInv'
  <1>1. /\ Cardinality(Orphans') <= Cardinality(Orphans) /\ Cardinality(Orphans') \in Nat
        /\ Cardinality(Orphans) \in Nat
    BY FewRequests, FS_Subset, FS_CardinalityType
  <1>2. Cardinality(Present) \in Nat /\ crowd \in Nat
    <2>1. Present \subseteq Sessions
      BY DEF Present
    <2> QED BY <2>1, SessionInputs, FS_Subset, FS_CardinalityType DEF SessionTypes
  <1> QED BY <1>1, <1>2, SessionInputs DEF SizeInv

\* The rows after a prune.
LEMMA KeptRows ==
  ASSUME SessionTypes
  PROVE  /\ Kept \in [Sessions -> {None} \cup Rows]
         /\ \A s \in Survivors : Kept[s] = sessions[s] /\ sessions[s] \in Rows /\ Kept[s] # None
         /\ \A s \in Sessions \ Survivors : Kept[s] = None
         /\ \A s \in Doomed : s \in Sessions /\ Kept[s] = None
  <1>1. Survivors \subseteq Present /\ Present \subseteq Sessions
    BY DEF Survivors, Present
  <1>2. \A s \in Sessions : s \notin Present => sessions[s] = None
    BY DEF Present
  <1>3. \A s \in Present : sessions[s] \in Rows /\ sessions[s] # None
    BY DEF SessionTypes, Present
  <1> QED BY <1>1, <1>2, <1>3 DEF Kept, Doomed, SessionTypes

\* A prune, with the calls that a listing makes for the sessions it lists.
LEMMA SessionPruneKeeps ==
  ASSUME SessionInv, Prune, UNCHANGED <<requests, told>>, reads' \in Nat,
         NEW listed \in SUBSET Survivors,
         refreshes' \subseteq refreshes \cup CallsFor(Kept, listed),
         shared' = shared \cup {s \in listed : On(s) # {}}
  PROVE  SessionInv'
  <1>1. SessionTypes /\ Ordered(newer, Present) /\ SizeInv /\ AskedInv /\ AloneInv
    BY DEF SessionInv
  <1>2. /\ sessions' = Kept
        /\ newer' = [s \in Sessions |-> IF s \in Survivors THEN newer[s] \cap Survivors ELSE {}]
        /\ idle' = {}
        /\ pruned' = pruned \cup {q \in Open : requests[q].session \in Doomed}
        /\ crowd' = Cardinality(Open)
    BY DEF Prune
  <1>3. Open' = Open /\ Survivors \subseteq Sessions
    BY DEF Open, Survivors, Present
  <1>4. Present' = Survivors
    BY <1>1, <1>2, <1>3, KeptRows DEF Present
  <1>5. SessionTypes'
    <2>1. CallsFor(Kept, listed) \subseteq CallType
      <3>1. \A s \in listed : s \in Sessions /\ Kept[s] \in Rows
        BY <1>1, <1>3, KeptRows
      <3> QED BY <3>1, <1>1 DEF CallsFor, CallType, Rows, SessionTypes
    <2>2. refreshes' \subseteq CallType
      BY <2>1, <1>1 DEF SessionTypes
    <2>3. pruned' \subseteq Requests
      BY <1>1, <1>2 DEF SessionTypes, Open
    <2>4. crowd' \in Nat
      BY <1>2, FewRequests
    <2>5. shared' \subseteq Sessions
      BY <1>1, <1>3 DEF SessionTypes
    <2>6. newer' \in [Sessions -> SUBSET Sessions]
      BY <1>1, <1>2, PruneOrders DEF SessionTypes
    <2>7. sessions' \in [Sessions -> {None} \cup Rows]
      BY <1>1, <1>2, KeptRows
    <2>8. requests' \in [Requests -> {None, Done} \cup Held]
          /\ told' \in [Sessions -> Strategies \cup {None}]
      BY <1>1 DEF SessionTypes
    <2> QED BY <2>2, <2>3, <2>4, <2>5, <2>6, <2>7, <2>8, <1>2 DEF SessionTypes
  <1>6. Ordered(newer', Present')
    BY <1>1, <1>2, <1>4, PruneOrders DEF SessionTypes
  <1>7. SizeInv'
    <2>1. Orphans' \subseteq Open
      BY <1>3 DEF Orphans
    <2>2. Cardinality(Orphans') <= Cardinality(Open) /\ Cardinality(Orphans') \in Nat
      BY <2>1, FewRequests, FS_Subset, FS_CardinalityType
    <2> QED BY <2>2, <1>1, <1>2, <1>4, FewSurvive, FewRequests, SessionInputs DEF SizeInv
  <1>8. AskedInv'
    <2>1. \A s \in Sessions : TurnsOf(s)' = {} \/ TurnsOf(s)' = TurnsOf(s)
      BY <1>1, <1>2, <1>3, KeptRows DEF TurnsOf
    <2>2. \A s \in Sessions : s \notin Doomed => TurnsOf(s)' = TurnsOf(s)
      BY <1>2 DEF TurnsOf, Kept
    <2>3. ASSUME NEW r \in Open', requests'[r].at = "work"
          PROVE  r \in pruned' \/ <<"user", r>> \in TurnsOf(requests[r].session)'
      <3>1. requests[r].session \in Sessions /\ requests[r].at = "work" /\ r \in Open
        BY <2>3, <1>1, <1>3, OpenHolds DEF Held
      <3>2. r \in pruned \/ <<"user", r>> \in TurnsOf(requests[r].session)
        BY <1>1, <3>1 DEF AskedInv
      <3>3. CASE requests[r].session \in Doomed
        BY <3>1, <3>3, <1>2
      <3>4. CASE requests[r].session \notin Doomed
        BY <3>1, <3>2, <3>4, <2>2, <1>2
      <3> QED BY <3>3, <3>4
    <2>4. AnswersHaveQuestions'
      BY <1>1, <1>2, <2>1 DEF AskedInv, AnswersHaveQuestions
    <2> QED BY <2>3, <2>4 DEF AskedInv
  <1>9. AloneInv'
    <2>1. SUFFICES ASSUME NEW s \in Sessions, s \notin shared'
                   PROVE  /\ sessions'[s] # None => sessions'[s].strategy = told'[s]
                          /\ \A r \in On(s)' : requests'[r].copy.strategy = told'[s]
                          /\ \A f \in Read(s)' : f.strategy = told'[s]
                          /\ \A q, r \in On(s)' : q = r
                          /\ On(s)' = {} \/ Read(s)' = {}
      BY DEF AloneInv
    <2>2. /\ sessions[s] # None => sessions[s].strategy = told[s]
          /\ \A r \in On(s) : requests[r].copy.strategy = told[s]
          /\ \A f \in Read(s) : f.strategy = told[s]
          /\ \A q, r \in On(s) : q = r
          /\ On(s) = {} \/ Read(s) = {}
      BY <1>1, <2>1 DEF AloneInv
    <2>3. On(s)' = On(s)
      BY <1>3 DEF On
    <2>4. sessions'[s] # None => sessions'[s] = sessions[s]
      BY <1>2, <1>1, KeptRows
    <2>5. ASSUME NEW f \in Read(s)', f \notin Read(s)
          PROVE  s \in listed /\ f.strategy = told[s]
      <3>1. f \in CallsFor(Kept, listed) /\ f.session = s
        BY <2>5 DEF Read
      <3>2. PICK t \in listed : f.session = t /\ f.strategy = Kept[t].strategy
        BY <3>1 DEF CallsFor
      <3>3. Kept[s] = sessions[s] /\ sessions[s] # None
        BY <3>1, <3>2, <1>1, KeptRows
      <3> QED BY <3>1, <3>2, <3>3, <2>2
    <2>6. s \in listed => On(s) = {}
      BY <2>1
    <2> QED BY <2>2, <2>3, <2>4, <2>5, <2>6
  <1> QED BY <1>5, <1>6, <1>7, <1>8, <1>9 DEF SessionInv

\* A caller who is refused has pruned.
LEMMA SessionRefuseKeeps ==
  ASSUME SessionInv, NEW s, NEW owner, RefuseStart(s, owner)
  PROVE  SessionInv'
  <1>1. Prune /\ UNCHANGED <<requests, told>> /\ refreshes' = refreshes /\ shared' = shared
        /\ reads' = reads
    BY DEF RefuseStart
  <1>2. reads' \in Nat
    BY <1>1 DEF SessionInv, SessionTypes
  <1>3. {} \in SUBSET Survivors /\ refreshes' \subseteq refreshes \cup CallsFor(Kept, {})
        /\ shared' = shared \cup {t \in {} : On(t) # {}}
    BY <1>1
  <1> QED BY <1>1, <1>2, <1>3, SessionPruneKeeps

\* A listing prunes once more when it ends.
LEMMA SessionAgainKeeps ==
  ASSUME SessionInv, NEW n, ListAgain(n)
  PROVE  SessionInv'
  <1>1. Prune /\ UNCHANGED <<requests, told>> /\ refreshes' = refreshes /\ shared' = shared
        /\ reads' = reads
    BY DEF ListAgain
  <1>2. reads' \in Nat
    BY <1>1 DEF SessionInv, SessionTypes
  <1>3. {} \in SUBSET Survivors /\ refreshes' \subseteq refreshes \cup CallsFor(Kept, {})
        /\ shared' = shared \cup {t \in {} : On(t) # {}}
    BY <1>1
  <1> QED BY <1>1, <1>2, <1>3, SessionPruneKeeps

\* A listing asks for the strategies of the owner's sessions.
LEMMA SessionListKeeps ==
  ASSUME SessionInv, NEW owner, ListSessions(owner)
  PROVE  SessionInv'
  <1> DEFINE listed == {s \in Survivors : sessions[s].owner = owner}
  <1>1. /\ Prune /\ UNCHANGED <<requests, told>> /\ reads' = reads + 1
        /\ refreshes' = refreshes \cup CallsFor(Kept, listed)
        /\ shared' = shared \cup {s \in listed : On(s) # {}}
    BY DEF ListSessions
  <1>2. reads' \in Nat
    BY <1>1 DEF SessionInv, SessionTypes
  <1>3. listed \in SUBSET Survivors
    OBVIOUS
  <1> HIDE DEF listed
  <1> QED BY <1>1, <1>2, <1>3, SessionPruneKeeps

\* A reader asks for the strategy of one session.
LEMMA SessionGetKeeps ==
  ASSUME SessionInv, NEW s \in Sessions, GetSession(s)
  PROVE  SessionInv'
  <1>1. SessionTypes /\ Ordered(newer, Present) /\ SizeInv /\ AskedInv /\ AloneInv
    BY DEF SessionInv
  <1>2. /\ sessions[s] # None /\ reads' = reads + 1
        /\ refreshes' = refreshes \cup CallsFor(sessions, {s})
        /\ shared' = (IF On(s) # {} THEN shared \cup {s} ELSE shared)
        /\ UNCHANGED <<sessions, newer, idle, requests, told, pruned, crowd>>
    BY DEF GetSession, storeVars
  <1>3. Open' = Open /\ Present' = Present
    BY <1>2 DEF Open, Present
  <1>4. SessionTypes'
    <2>1. sessions[s] \in Rows
      BY <1>1, <1>2 DEF SessionTypes
    <2>2. CallsFor(sessions, {s}) \subseteq CallType
      BY <2>1, <1>1 DEF CallsFor, CallType, Rows, SessionTypes
    <2> QED BY <2>2, <1>1, <1>2 DEF SessionTypes
  <1>5. Ordered(newer', Present')
    BY <1>1, <1>2, <1>3
  <1>6. SizeInv'
    <2>1. Orphans' = Orphans
      BY <1>2, <1>3 DEF Orphans
    <2> QED BY <2>1, <1>1, <1>2, <1>3 DEF SizeInv
  <1>7. AskedInv'
    <2>1. \A t : TurnsOf(t)' = TurnsOf(t)
      BY <1>2 DEF TurnsOf
    <2> QED BY <2>1, <1>1, <1>2, <1>3 DEF AskedInv, AnswersHaveQuestions
  <1>8. AloneInv'
    <2>1. SUFFICES ASSUME NEW t \in Sessions, t \notin shared'
                   PROVE  /\ sessions'[t] # None => sessions'[t].strategy = told'[t]
                          /\ \A r \in On(t)' : requests'[r].copy.strategy = told'[t]
                          /\ \A f \in Read(t)' : f.strategy = told'[t]
                          /\ \A q, r \in On(t)' : q = r
                          /\ On(t)' = {} \/ Read(t)' = {}
      BY DEF AloneInv
    <2>2. /\ sessions[t] # None => sessions[t].strategy = told[t]
          /\ \A r \in On(t) : requests[r].copy.strategy = told[t]
          /\ \A f \in Read(t) : f.strategy = told[t]
          /\ \A q, r \in On(t) : q = r
          /\ On(t) = {} \/ Read(t) = {}
      BY <1>1, <1>2, <2>1 DEF AloneInv
    <2>3. On(t)' = On(t)
      BY <1>2, <1>3 DEF On
    <2>4. ASSUME NEW f \in Read(t)', f \notin Read(t)
          PROVE  s = t /\ f.strategy = told[t]
      <3>1. f \in CallsFor(sessions, {s}) /\ f.session = t
        BY <2>4, <1>2 DEF Read
      <3>2. f.session = s /\ f.strategy = sessions[s].strategy
        BY <3>1 DEF CallsFor
      <3> QED BY <3>1, <3>2, <1>2, <2>2
    <2>5. s = t => On(t) = {}
      BY <1>2, <2>1
    <2> QED BY <1>2, <2>2, <2>3, <2>4, <2>5
  <1> QED BY <1>4, <1>5, <1>6, <1>7, <1>8 DEF SessionInv

\* A call for a reader is answered: the row names the strategy that was asked for.
LEMMA SessionRefreshKeeps ==
  ASSUME SessionInv, NEW f, Refresh(f)
  PROVE  SessionInv'
  <1> DEFINE s == f.session
             row == [sessions[s] EXCEPT !.strategy = f.strategy]
  <1>1. SessionTypes /\ Ordered(newer, Present) /\ SizeInv /\ AskedInv /\ AloneInv
    BY DEF SessionInv
  <1>2. /\ f \in refreshes /\ refreshes' = refreshes \ {f} /\ sessions[s] # None
        /\ sessions' = Write(sessions, s, row) /\ newer' = Touched(Present, s)
        /\ idle' = idle \ {s}
        /\ UNCHANGED <<requests, reads, told, shared, pruned, crowd>>
    BY DEF Refresh, history
  <1>3. s \in Sessions /\ f.strategy \in Strategies
    BY <1>1, <1>2 DEF SessionTypes, CallType
  <1>4. /\ sessions[s] \in Rows /\ row \in Rows /\ row.strategy = f.strategy
        /\ row.turns = sessions[s].turns
    BY <1>1, <1>2, <1>3 DEF SessionTypes, Rows
  <1> HIDE DEF row
  <1>5. /\ sessions' \in [Sessions -> {None} \cup Rows]
        /\ newer' \in [Sessions -> SUBSET Sessions]
        /\ sessions'[s] = row /\ \A t \in Sessions \ {s} : sessions'[t] = sessions[t]
        /\ Present' = Present \cup {s}
        /\ Ordered(newer', Present')
    <2> HIDE DEF s
    <2> QED BY <1>1, <1>2, <1>3, <1>4, Writing
  <1> HIDE DEF s
  <1>6. Open' = Open /\ Present' = Present
    BY <1>2, <1>3, <1>5 DEF Open, Present
  <1>7. row # None
    BY <1>4, RowsAreRows
  <1>8. SessionTypes'
    BY <1>1, <1>2, <1>5 DEF SessionTypes
  <1>9. SizeInv'
    <2>1. Orphans' \subseteq Orphans
      <3>1. \A q \in Open : requests[q].session \in Sessions
        BY <1>1, OpenHolds DEF Held
      <3> QED BY <3>1, <1>2, <1>5, <1>6, <1>7 DEF Orphans
    <2> QED BY <2>1, <1>1, <1>2, <1>6, SameRoom
  <1>10. AskedInv'
    <2>1. \A t \in Sessions : TurnsOf(t)' = TurnsOf(t)
      BY <1>2, <1>4, <1>5, <1>7 DEF TurnsOf
    <2>2. \A q \in Open : requests[q].session \in Sessions
      BY <1>1, OpenHolds DEF Held
    <2> QED BY <2>1, <2>2, <1>1, <1>2, <1>6 DEF AskedInv, AnswersHaveQuestions
  <1>11. AloneInv'
    <2>1. SUFFICES ASSUME NEW t \in Sessions, t \notin shared'
                   PROVE  /\ sessions'[t] # None => sessions'[t].strategy = told'[t]
                          /\ \A r \in On(t)' : requests'[r].copy.strategy = told'[t]
                          /\ \A g \in Read(t)' : g.strategy = told'[t]
                          /\ \A q, r \in On(t)' : q = r
                          /\ On(t)' = {} \/ Read(t)' = {}
      BY DEF AloneInv
    <2>2. /\ sessions[t] # None => sessions[t].strategy = told[t]
          /\ \A r \in On(t) : requests[r].copy.strategy = told[t]
          /\ \A g \in Read(t) : g.strategy = told[t]
          /\ \A q, r \in On(t) : q = r
          /\ On(t) = {} \/ Read(t) = {}
      BY <1>1, <1>2, <2>1 DEF AloneInv
    <2>3. On(t)' = On(t) /\ Read(t)' \subseteq Read(t)
      BY <1>2, <1>6 DEF On, Read
    <2>4. CASE t = s
      <3>1. f \in Read(t)
        BY <2>4, <1>2 DEF Read, s
      <3>2. sessions'[t].strategy = told[t]
        BY <2>4, <3>1, <2>2, <1>4, <1>5
      <3> QED BY <3>2, <2>2, <2>3, <1>2
    <2>5. CASE t # s
      BY <2>5, <2>2, <2>3, <1>2, <1>5
    <2> QED BY <2>4, <2>5
  <1> QED BY <1>5, <1>8, <1>9, <1>10, <1>11 DEF SessionInv

\* A call for a reader fails, a call of a request throws, and a night passes: no
\* row is written.
LEMMA SessionRestKeeps ==
  ASSUME SessionInv, UNCHANGED <<sessions, newer, told, shared, pruned, crowd, reads>>,
         idle' \subseteq Sessions, refreshes' \subseteq refreshes,
         \/ requests' = requests
         \/ \E r \in Requests : requests' = [requests EXCEPT ![r] = Done]
  PROVE  SessionInv'
  <1>1. SessionTypes /\ Ordered(newer, Present) /\ SizeInv /\ AskedInv /\ AloneInv
    BY DEF SessionInv
  <1>2. SessionTypes'
    BY <1>1 DEF SessionTypes
  <1>3. Open' \subseteq Open /\ \A r \in Open' : requests'[r] = requests[r]
    BY <1>1 DEF Open, SessionTypes
  <1>4. Present' = Present
    BY DEF Present
  <1>5. SizeInv'
    <2>1. Orphans' \subseteq Orphans
      BY <1>3 DEF Orphans
    <2> QED BY <2>1, <1>1, <1>4, SameRoom
  <1>6. AskedInv'
    <2>1. \A t : TurnsOf(t)' = TurnsOf(t)
      BY DEF TurnsOf
    <2> QED BY <2>1, <1>1, <1>3 DEF AskedInv, AnswersHaveQuestions
  <1>7. AloneInv'
    <2>1. \A t \in Sessions : On(t)' \subseteq On(t) /\ Read(t)' \subseteq Read(t)
      BY <1>3 DEF On, Read
    <2>2. \A t \in Sessions : \A r \in On(t)' : requests'[r] = requests[r]
      BY <1>3 DEF On
    <2>3. SUFFICES ASSUME NEW t \in Sessions, t \notin shared
                   PROVE  /\ sessions[t] # None => sessions[t].strategy = told[t]
                          /\ \A r \in On(t)' : requests'[r].copy.strategy = told[t]
                          /\ \A g \in Read(t)' : g.strategy = told[t]
                          /\ \A q, r \in On(t)' : q = r
                          /\ On(t)' = {} \/ Read(t)' = {}
      BY DEF AloneInv
    <2>4. /\ sessions[t] # None => sessions[t].strategy = told[t]
          /\ \A r \in On(t) : requests[r].copy.strategy = told[t]
          /\ \A g \in Read(t) : g.strategy = told[t]
          /\ \A q, r \in On(t) : q = r
          /\ On(t) = {} \/ Read(t) = {}
      BY <1>1, <2>3 DEF AloneInv
    <2> QED BY <2>1, <2>2, <2>4
  <1> QED BY <1>1, <1>2, <1>4, <1>5, <1>6, <1>7 DEF SessionInv

\* A request writes its session's row, with turns added to it, and then works or
\* is answered.  A row that is gone comes back only at the end of a run.
LEMMA SessionWriteKeeps ==
  ASSUME SessionInv, NEW r \in Open, NEW s, s = requests[r].session,
         NEW row \in Rows, NEW after,
         \/ after = Done
         \/ sessions[s] # None /\ after = [requests[r] EXCEPT !.at = "work"],
         requests' = [requests EXCEPT ![r] = after],
         sessions' = Write(sessions, s, row), newer' = Touched(Present, s),
         idle' = idle \ {s},
         UNCHANGED <<refreshes, reads, shared, pruned, crowd>>,
         NEW new \in Strategies \cup {None}, told' = [told EXCEPT ![s] = Or(new, @)],
         row.strategy = Or(new, requests[r].copy.strategy),
         after # Done => new = None,
         TurnsOf(s) \subseteq row.turns, row.turns \subseteq TurnsOf(s) \cup {<<"user", r>>, <<"assistant", r>>},
         after # Done => <<"user", r>> \in row.turns,
         <<"assistant", r>> \in row.turns /\ <<"user", r>> \notin row.turns => r \in pruned
  PROVE  SessionInv'
  <1>1. SessionTypes /\ Ordered(newer, Present) /\ SizeInv /\ AskedInv /\ AloneInv
    BY DEF SessionInv
  <1>2. r \in Requests /\ requests[r] \in Held /\ s \in Sessions
    BY <1>1, OpenHolds DEF Held
  <1>3. /\ sessions' \in [Sessions -> {None} \cup Rows]
        /\ newer' \in [Sessions -> SUBSET Sessions]
        /\ sessions'[s] = row /\ \A t \in Sessions \ {s} : sessions'[t] = sessions[t]
        /\ Present' = Present \cup {s}
        /\ Ordered(newer', Present')
    BY <1>1, <1>2, Writing
  <1>4. row # None
    BY RowsAreRows
  <1>5. /\ after \in {Done} \cup Held
        /\ after # Done => after \in Held /\ after.session = s /\ after.at = "work"
                           /\ after.copy = requests[r].copy
    BY <1>2, RowsAreRows DEF Held
  <1>6. requests' \in [Requests -> {None, Done} \cup Held]
        /\ requests'[r] = after /\ \A q \in Requests \ {r} : requests'[q] = requests[q]
    BY <1>1, <1>2, <1>5 DEF SessionTypes
  <1>7. /\ Open' = IF after = Done THEN Open \ {r} ELSE Open
        /\ \A q \in Open' \ {r} : q \in Open /\ q \in Requests /\ requests'[q] = requests[q]
    BY <1>2, <1>5, <1>6, RowsAreRows DEF Open
  <1>8. told' \in [Sessions -> Strategies \cup {None}]
        /\ told'[s] = Or(new, told[s]) /\ \A t \in Sessions \ {s} : told'[t] = told[t]
    BY <1>1, <1>2 DEF SessionTypes, Or
  <1>9. SessionTypes'
    BY <1>1, <1>3, <1>6, <1>8 DEF SessionTypes
  <1>10. \A q \in Open : requests[q].session \in Sessions
    BY <1>1, OpenHolds DEF Held
  <1>11. Orphans' \subseteq Orphans
    <2>1. ASSUME NEW q \in Open', sessions'[requests'[q].session] = None
          PROVE  q \in Orphans
      <3>1. q # r
        BY <2>1, <1>3, <1>4, <1>5, <1>6, <1>7
      <3>2. q \in Open /\ requests'[q] = requests[q]
        BY <2>1, <3>1, <1>7
      <3>3. requests[q].session # s
        BY <2>1, <3>2, <1>3, <1>4
      <3> QED BY <2>1, <3>2, <3>3, <1>3, <1>10 DEF Orphans
    <2> QED BY <2>1 DEF Orphans
  <1>12. SizeInv'
    <2>1. CASE sessions[s] # None
      <3>1. Present' = Present
        BY <2>1, <1>2, <1>3 DEF Present
      <3> QED BY <3>1, <1>1, <1>11, SameRoom
    <2>2. CASE sessions[s] = None
      <3>1. after = Done /\ r \in Orphans
        BY <2>2, <1>5 DEF Orphans
      <3>2. r \notin Orphans'
        BY <3>1, <1>7 DEF Orphans
      <3>3. Orphans' \subseteq Orphans \ {r}
        BY <3>2, <1>11
      <3>4. /\ Cardinality(Orphans \ {r}) = Cardinality(Orphans) - 1
            /\ IsFiniteSet(Orphans \ {r}) /\ Cardinality(Orphans) \in Nat
        BY <3>1, FewRequests, FS_RemoveElement
      <3>5. Cardinality(Orphans') <= Cardinality(Orphans \ {r}) /\ Cardinality(Orphans') \in Nat
        BY <3>3, <3>4, FS_Subset, FS_CardinalityType
      <3>6. IsFiniteSet(Present) /\ Cardinality(Present) \in Nat
        BY <1>1, FewSurvive, FS_CardinalityType
      <3>7. Cardinality(Present') <= Cardinality(Present) + 1 /\ Cardinality(Present') \in Nat
        <4>1. /\ Cardinality(Present \cup {s}) <= Cardinality(Present) + 1
              /\ Cardinality(Present \cup {s}) \in Nat
          BY <3>6, OneMore
        <4> QED BY <4>1, <1>3
      <3> QED BY <1>1, <3>4, <3>5, <3>6, <3>7, SessionInputs DEF SizeInv, SessionTypes
    <2> QED BY <2>1, <2>2
  <1>13. AskedInv'
    <2>1. TurnsOf(s)' = row.turns /\ \A t \in Sessions \ {s} : TurnsOf(t)' = TurnsOf(t)
      BY <1>2, <1>3, <1>4 DEF TurnsOf
    <2>2. \A t \in Sessions : TurnsOf(t) \subseteq TurnsOf(t)'
      BY <2>1
    <2>3. ASSUME NEW q \in Open', requests'[q].at = "work",
                 NEW t, t = requests'[q].session
          PROVE  q \in pruned' \/ <<"user", q>> \in TurnsOf(t)'
      <3>1. CASE q = r
        <4>1. t = s /\ after # Done
          BY <2>3, <3>1, <1>5, <1>6, <1>7
        <4> QED BY <4>1, <3>1, <2>1
      <3>2. CASE q # r
        <4>1. q \in Open /\ requests[q].at = "work" /\ t = requests[q].session /\ t \in Sessions
          BY <2>3, <3>2, <1>7, <1>10
        <4>2. q \in pruned \/ <<"user", q>> \in TurnsOf(t)
          BY <4>1, <1>1 DEF AskedInv
        <4> QED BY <4>1, <4>2, <2>2
      <3> QED BY <3>1, <3>2
    <2>4. \A q \in Open' : requests'[q].at = "work" =>
             q \in pruned' \/ <<"user", q>> \in TurnsOf(requests[q].session)'
      BY <2>3 DEF TurnsOf
    <2>5. AnswersHaveQuestions'
      <3>1. SUFFICES ASSUME NEW t \in Sessions, NEW q \in Requests,
                            <<"assistant", q>> \in TurnsOf(t)', <<"user", q>> \notin TurnsOf(t)'
                     PROVE  q \in pruned
        BY DEF AnswersHaveQuestions
      <3>2. CASE t = s /\ q = r
        BY <3>1, <3>2, <2>1
      <3>3. CASE ~(t = s /\ q = r)
        <4>1. <<"assistant", q>> \in TurnsOf(t) /\ <<"user", q>> \notin TurnsOf(t)
          BY <3>1, <3>3, <2>1, <2>2
        <4> QED BY <4>1, <1>1 DEF AskedInv, AnswersHaveQuestions
      <3> QED BY <3>2, <3>3
    <2> QED BY <2>4, <2>5 DEF AskedInv
  <1>14. AloneInv'
    <2>1. SUFFICES ASSUME NEW t \in Sessions, t \notin shared
                   PROVE  /\ sessions'[t] # None => sessions'[t].strategy = told'[t]
                          /\ \A q \in On(t)' : requests'[q].copy.strategy = told'[t]
                          /\ \A g \in Read(t)' : g.strategy = told'[t]
                          /\ \A p, q \in On(t)' : p = q
                          /\ On(t)' = {} \/ Read(t)' = {}
      BY DEF AloneInv
    <2>2. /\ sessions[t] # None => sessions[t].strategy = told[t]
          /\ \A q \in On(t) : requests[q].copy.strategy = told[t]
          /\ \A g \in Read(t) : g.strategy = told[t]
          /\ \A p, q \in On(t) : p = q
          /\ On(t) = {} \/ Read(t) = {}
      BY <1>1, <2>1 DEF AloneInv
    <2>3. On(t)' \subseteq On(t) /\ Read(t)' = Read(t)
      BY <1>5, <1>6, <1>7 DEF On, Read
    <2>4. \A q \in On(t)' : requests'[q].copy = requests[q].copy
      BY <1>5, <1>6, <1>7 DEF On
    <2>5. CASE t = s
      <3>1. r \in On(t)
        BY <2>5 DEF On
      <3>2. requests[r].copy.strategy = told[t] /\ Read(t) = {} /\ On(t) = {r}
        BY <3>1, <2>2
      <3>3. sessions'[t].strategy = told'[t]
        BY <2>5, <3>2, <1>3, <1>8 DEF Or
      <3>4. CASE after = Done
        <4>1. On(t)' = {}
          BY <3>2, <3>4, <2>3, <1>7 DEF On
        <4> QED BY <4>1, <3>2, <3>3, <2>3
      <3>5. CASE after # Done
        <4>1. told'[t] = told[t]
          BY <3>5, <2>5, <1>8 DEF Or
        <4> QED BY <4>1, <3>2, <3>3, <2>2, <2>3, <2>4
      <3> QED BY <3>4, <3>5
    <2>6. CASE t # s
      BY <2>6, <2>2, <2>3, <2>4, <1>3, <1>8
    <2> QED BY <2>5, <2>6
  <1> QED BY <1>3, <1>9, <1>12, <1>13, <1>14 DEF SessionInv

\* The question is written.
LEMMA SessionAskKeeps ==
  ASSUME SessionInv, NEW r \in Open, Ask(r)
  PROVE  SessionInv'
  <1> DEFINE s == requests[r].session
             row == [sessions[s] EXCEPT !.strategy = requests[r].copy.strategy,
                                        !.turns = @ \cup {<<"user", r>>}]
             after == [requests[r] EXCEPT !.at = "work"]
  <1>1. /\ sessions[s] # None
        /\ sessions' = Write(sessions, s, row) /\ newer' = Touched(Present, s)
        /\ idle' = idle \ {s}
        /\ requests' = [requests EXCEPT ![r] = after]
        /\ UNCHANGED <<refreshes, reads, told, shared, pruned, crowd>>
    BY DEF Ask, AddTurn, history
  <1>2. SessionTypes
    BY DEF SessionInv
  <1>3. r \in Requests /\ requests[r] \in Held /\ s \in Sessions
    BY <1>2, OpenHolds DEF Held
  <1>4. sessions[s] \in Rows /\ TurnsOf(s) = sessions[s].turns
    BY <1>1, <1>2, <1>3 DEF SessionTypes, TurnsOf
  <1>5. /\ row \in Rows /\ row.strategy = requests[r].copy.strategy
        /\ row.turns = TurnsOf(s) \cup {<<"user", r>>}
    <2> DEFINE base == sessions[s]
               name == requests[r].copy.strategy
               turns == base.turns \cup {<<"user", r>>}
    <2>1. name \in Strategies \cup {None}
      BY <1>3 DEF Rows, Held
    <2>2. turns \in SUBSET ({"user", "assistant"} \X Requests)
      BY <1>3, <1>4 DEF Rows
    <2>3. row = [base EXCEPT !.strategy = name, !.turns = turns] /\ base \in Rows
          /\ turns = TurnsOf(s) \cup {<<"user", r>>}
      BY <1>4
    <2> HIDE DEF base, name, turns, row
    <2>4. row \in Rows /\ row.strategy = name /\ row.turns = turns
      BY <2>1, <2>2, <2>3 DEF Rows
    <2> QED BY <2>3, <2>4 DEF name
  <1>6. told' = [told EXCEPT ![s] = Or(None, @)]
    BY <1>1, <1>2 DEF Or, SessionTypes
  <1>7. Or(None, requests[r].copy.strategy) = requests[r].copy.strategy
    BY DEF Or
  <1>8. <<"assistant", r>> \in row.turns /\ <<"user", r>> \notin row.turns => r \in pruned
    BY <1>5
  <1> HIDE DEF row, after
  <1>9. after = [requests[r] EXCEPT !.at = "work"] /\ s = requests[r].session
    BY DEF after
  <1> HIDE DEF s
  <1> QED BY <1>1, <1>5, <1>6, <1>7, <1>8, <1>9, SessionWriteKeeps

\* A plan is answered.
LEMMA SessionPlanKeeps ==
  ASSUME SessionInv, NEW r \in Open, AnswerPlan(r)
  PROVE  SessionInv'
  <1> DEFINE s == requests[r].session
             row == [sessions[s] EXCEPT !.strategy = requests[r].copy.strategy,
                                        !.turns = @ \cup {<<"assistant", r>>}]
  <1>1. /\ sessions[s] # None /\ requests[r].at = "work"
        /\ sessions' = Write(sessions, s, row) /\ newer' = Touched(Present, s)
        /\ idle' = idle \ {s}
        /\ requests' = [requests EXCEPT ![r] = Done]
        /\ UNCHANGED <<refreshes, reads, told, shared, pruned, crowd>>
    BY DEF AnswerPlan, AddTurn, history
  <1>2. SessionTypes /\ AskedInv
    BY DEF SessionInv
  <1>3. r \in Requests /\ requests[r] \in Held /\ s \in Sessions
    BY <1>2, OpenHolds DEF Held
  <1>4. sessions[s] \in Rows /\ TurnsOf(s) = sessions[s].turns
    BY <1>1, <1>2, <1>3 DEF SessionTypes, TurnsOf
  <1>5. /\ row \in Rows /\ row.strategy = requests[r].copy.strategy
        /\ row.turns = TurnsOf(s) \cup {<<"assistant", r>>}
    <2> DEFINE base == sessions[s]
               name == requests[r].copy.strategy
               turns == base.turns \cup {<<"assistant", r>>}
    <2>1. name \in Strategies \cup {None}
      BY <1>3 DEF Rows, Held
    <2>2. turns \in SUBSET ({"user", "assistant"} \X Requests)
      BY <1>3, <1>4 DEF Rows
    <2>3. row = [base EXCEPT !.strategy = name, !.turns = turns] /\ base \in Rows
          /\ turns = TurnsOf(s) \cup {<<"assistant", r>>}
      BY <1>4
    <2> HIDE DEF base, name, turns, row
    <2>4. row \in Rows /\ row.strategy = name /\ row.turns = turns
      BY <2>1, <2>2, <2>3 DEF Rows
    <2> QED BY <2>3, <2>4 DEF name
  <1>6. told' = [told EXCEPT ![s] = Or(None, @)]
    BY <1>1, <1>2 DEF Or, SessionTypes
  <1>7. Or(None, requests[r].copy.strategy) = requests[r].copy.strategy
    BY DEF Or
  <1>8. <<"assistant", r>> \in row.turns /\ <<"user", r>> \notin row.turns => r \in pruned
    <2>1. r \in pruned \/ <<"user", r>> \in TurnsOf(s)
      BY <1>1, <1>2 DEF AskedInv
    <2> QED BY <2>1, <1>5
  <1> HIDE DEF row
  <1>9. s = requests[r].session
    OBVIOUS
  <1> HIDE DEF s
  <1> QED BY <1>1, <1>5, <1>6, <1>7, <1>8, <1>9, SessionWriteKeeps

\* A question about the agent is answered at once.
LEMMA SessionHelpKeeps ==
  ASSUME SessionInv, NEW r \in Open, AnswerHelp(r)
  PROVE  SessionInv'
  <1> DEFINE s == requests[r].session
             row == [requests[r].copy EXCEPT
                       !.turns = TurnsOf(s) \cup {<<"user", r>>, <<"assistant", r>>}]
  <1>1. /\ sessions[s] # None
        /\ sessions' = Write(sessions, s, row) /\ newer' = Touched(Present, s)
        /\ idle' = idle \ {s}
        /\ requests' = [requests EXCEPT ![r] = Done]
        /\ UNCHANGED <<refreshes, reads, told, shared, pruned, crowd>>
    BY DEF AnswerHelp, history
  <1>2. SessionTypes
    BY DEF SessionInv
  <1>3. r \in Requests /\ requests[r] \in Held /\ s \in Sessions /\ requests[r].copy \in Rows
    BY <1>2, OpenHolds DEF Held
  <1>4. sessions[s] \in Rows /\ TurnsOf(s) = sessions[s].turns
    BY <1>1, <1>2, <1>3 DEF SessionTypes, TurnsOf
  <1>5. /\ row \in Rows /\ row.strategy = requests[r].copy.strategy
        /\ row.turns = TurnsOf(s) \cup {<<"user", r>>, <<"assistant", r>>}
    BY <1>3, <1>4 DEF Rows
  <1>6. told' = [told EXCEPT ![s] = Or(None, @)]
    BY <1>1, <1>2 DEF Or, SessionTypes
  <1>7. Or(None, requests[r].copy.strategy) = requests[r].copy.strategy
    BY DEF Or
  <1>8. <<"assistant", r>> \in row.turns /\ <<"user", r>> \notin row.turns => r \in pruned
    BY <1>5
  <1> HIDE DEF row
  <1>9. s = requests[r].session
    OBVIOUS
  <1> HIDE DEF s
  <1> QED BY <1>1, <1>5, <1>6, <1>7, <1>8, <1>9, SessionWriteKeeps

\* A run ends.
LEMMA SessionFinishKeeps ==
  ASSUME SessionInv, NEW r \in Open, NEW made \in Strategies \cup {None}, FinishRun(r, made)
  PROVE  SessionInv'
  <1> DEFINE s == requests[r].session
             copy == Result(requests[r].copy, made)
             row == [copy EXCEPT !.turns = TurnsOf(s) \cup {<<"assistant", r>>}]
  <1>1. /\ requests[r].at = "work"
        /\ sessions' = Write(sessions, s, row) /\ newer' = Touched(Present, s)
        /\ idle' = idle \ {s}
        /\ requests' = [requests EXCEPT ![r] = Done]
        /\ told' = [told EXCEPT ![s] = Or(made, @)]
        /\ UNCHANGED <<refreshes, reads, shared, pruned, crowd>>
    BY DEF FinishRun
  <1>2. SessionTypes /\ AskedInv
    BY DEF SessionInv
  <1>3. r \in Requests /\ requests[r] \in Held /\ s \in Sessions /\ requests[r].copy \in Rows
    BY <1>2, OpenHolds DEF Held
  <1>4. TurnsOf(s) \in SUBSET ({"user", "assistant"} \X Requests)
    BY <1>2, <1>3 DEF SessionTypes, TurnsOf, Rows
  <1>5. copy \in Rows /\ copy.strategy = Or(made, requests[r].copy.strategy)
    BY <1>3 DEF Result, Or, Rows
  <1> HIDE DEF copy
  <1>6. /\ row \in Rows /\ row.strategy = Or(made, requests[r].copy.strategy)
        /\ row.turns = TurnsOf(s) \cup {<<"assistant", r>>}
    BY <1>3, <1>4, <1>5 DEF Rows
  <1>7. <<"assistant", r>> \in row.turns /\ <<"user", r>> \notin row.turns => r \in pruned
    <2>1. r \in pruned \/ <<"user", r>> \in TurnsOf(s)
      BY <1>1, <1>2 DEF AskedInv
    <2> QED BY <2>1, <1>6
  <1> HIDE DEF row
  <1>8. s = requests[r].session
    OBVIOUS
  <1> HIDE DEF s
  <1> QED BY <1>1, <1>6, <1>7, <1>8, SessionWriteKeeps

\* A request begins: a prune, and its session's row updated or made.
LEMMA SessionStartKeeps ==
  ASSUME SessionInv, NEW r \in Requests, NEW kind \in {"run", "plan"}, NEW s \in Sessions,
         NEW owner \in Owners, NEW named \in Strategies \cup {None},
         Start(r, kind, s, owner, named)
  PROVE  SessionInv'
  <1> DEFINE row == Opened(s, owner, named)
             held == [kind |-> kind, session |-> s, at |-> "sync", copy |-> [row EXCEPT !.turns = {}]]
  <1>1. SessionTypes /\ Ordered(newer, Present) /\ SizeInv /\ AskedInv /\ AloneInv
    BY DEF SessionInv
  <1>2. /\ requests[r] = None
        /\ sessions' = Write(Kept, s, row) /\ newer' = Touched(Survivors, s) /\ idle' = {}
        /\ requests' = [requests EXCEPT ![r] = held]
        /\ told' = [told EXCEPT ![s] = Opened(s, owner, Or(named,
                        IF Kept[s] = None THEN None ELSE @)).strategy]
        /\ shared' = (IF On(s) # {} \/ Read(s) # {} THEN shared \cup {s} ELSE shared)
        /\ pruned' = pruned \cup {q \in Open : requests[q].session \in Doomed}
        /\ crowd' = Cardinality(Open) + 1
        /\ UNCHANGED <<refreshes, reads>>
    BY DEF Start
  <1>3. /\ Survivors \subseteq Present /\ Present \subseteq Sessions
        /\ Kept \in [Sessions -> {None} \cup Rows]
    BY <1>1, KeptRows DEF Survivors, Present
  <1>4. /\ row \in Rows
        /\ Kept[s] = None => row.strategy = named /\ row.turns = {}
        /\ Kept[s] # None => row.strategy = Or(named, Kept[s].strategy) /\ row.turns = Kept[s].turns
    <2>1. CASE Kept[s] = None
      BY <2>1 DEF Opened, Rows
    <2>2. CASE Kept[s] # None
      <3>1. Kept[s] \in Rows /\ row = [Kept[s] EXCEPT !.strategy = Or(named, Kept[s].strategy)]
        BY <2>2, <1>3 DEF Opened
      <3>2. Or(named, Kept[s].strategy) \in Strategies \cup {None}
        BY <3>1 DEF Or, Rows
      <3> HIDE DEF row
      <3> QED BY <2>2, <3>1, <3>2 DEF Rows
    <2> QED BY <2>1, <2>2
  <1>5. Kept[s] = None => Opened(s, owner, Or(named, None)).strategy = named
    BY DEF Opened, Or
  <1>6. Kept[s] # None => \A n : Opened(s, owner, n).strategy = Or(n, Kept[s].strategy)
    <2>1. SUFFICES ASSUME Kept[s] # None, NEW n
                   PROVE  Opened(s, owner, n).strategy = Or(n, Kept[s].strategy)
      OBVIOUS
    <2>2. Kept[s] \in Rows /\ Opened(s, owner, n) = [Kept[s] EXCEPT !.strategy = Or(n, Kept[s].strategy)]
      BY <2>1, <1>3 DEF Opened
    <2> QED BY <2>2 DEF Rows
  <1> HIDE DEF row
  <1>7. held \in Held /\ held.session = s /\ held.copy.strategy = row.strategy /\ held.at = "sync"
    <2>1. [row EXCEPT !.turns = {}] \in Rows /\ [row EXCEPT !.turns = {}].strategy = row.strategy
      BY <1>4 DEF Rows
    <2> QED BY <2>1 DEF Held
  <1> HIDE DEF held
  <1>8. row # None /\ held # None /\ held # Done
    BY <1>4, <1>7, RowsAreRows
  <1>9. /\ sessions' \in [Sessions -> {None} \cup Rows]
        /\ sessions'[s] = row /\ \A t \in Sessions \ {s} : sessions'[t] = Kept[t]
    BY <1>2, <1>3, <1>4 DEF Write
  <1>10. Present' = Survivors \cup {s}
    <2>1. \A t \in Sessions : sessions'[t] # None <=> t \in Survivors \cup {s}
      BY <1>1, <1>8, <1>9, KeptRows
    <2> QED BY <2>1, <1>3 DEF Present
  <1>11. /\ requests' \in [Requests -> {None, Done} \cup Held]
         /\ requests'[r] = held /\ \A q \in Requests \ {r} : requests'[q] = requests[q]
    BY <1>1, <1>2, <1>7 DEF SessionTypes
  <1>12. Open' = Open \cup {r} /\ r \notin Open
    BY <1>2, <1>8, <1>11 DEF Open
  <1>13. \A q \in Open : q \in Requests /\ q # r /\ requests'[q] = requests[q] /\ requests[q].session \in Sessions
    BY <1>1, <1>11, <1>12, OpenHolds DEF Held
  <1>14. told' \in [Sessions -> Strategies \cup {None}]
         /\ told'[s] = (IF Kept[s] = None THEN named ELSE Or(Or(named, told[s]), Kept[s].strategy))
         /\ \A t \in Sessions \ {s} : told'[t] = told[t]
    <2> DEFINE new == IF Kept[s] = None THEN named ELSE Or(Or(named, told[s]), Kept[s].strategy)
    <2>1. Opened(s, owner, Or(named, IF Kept[s] = None THEN None ELSE told[s])).strategy = new
      <3>1. CASE Kept[s] = None
        BY <3>1, <1>5
      <3>2. CASE Kept[s] # None
        BY <3>2, <1>6
      <3> QED BY <3>1, <3>2
    <2>2. new \in Strategies \cup {None}
      <3>1. told[s] \in Strategies \cup {None}
        BY <1>1 DEF SessionTypes
      <3>2. Kept[s] # None => Kept[s].strategy \in Strategies \cup {None}
        BY <1>3 DEF Rows
      <3> QED BY <3>1, <3>2 DEF Or
    <2>3. told' = [told EXCEPT ![s] = new]
      BY <1>2, <2>1
    <2> HIDE DEF new
    <2>4. told' \in [Sessions -> Strategies \cup {None}]
          /\ told'[s] = new /\ \A t \in Sessions \ {s} : told'[t] = told[t]
      BY <1>1, <2>2, <2>3 DEF SessionTypes
    <2> QED BY <2>4 DEF new
  <1>15. newer' \in [Sessions -> SUBSET Sessions] /\ Ordered(newer', Present')
    <2>1. Ordered(newer, Survivors)
      BY <1>1, <1>3, StillOrdered
    <2> QED BY <2>1, <1>1, <1>2, <1>3, <1>10, TouchOrders DEF SessionTypes
  <1>16. SessionTypes'
    <2>1. crowd' \in Nat
      BY <1>2, FewRequests
    <2>2. pruned' \subseteq Requests /\ shared' \subseteq Sessions
      BY <1>1, <1>2 DEF SessionTypes, Open
    <2> QED BY <2>1, <2>2, <1>1, <1>2, <1>9, <1>11, <1>14, <1>15 DEF SessionTypes
  <1>17. SizeInv'
    <2>1. Orphans' \subseteq Open
      BY <1>7, <1>8, <1>9, <1>11, <1>12 DEF Orphans
    <2>2. Cardinality(Orphans') <= Cardinality(Open) /\ Cardinality(Orphans') \in Nat
      BY <2>1, FewRequests, FS_Subset, FS_CardinalityType
    <2>3. /\ IsFiniteSet(Survivors) /\ Cardinality(Survivors) \in Nat
          /\ Cardinality(Survivors) <= MaxSessions
      BY <1>1, FewSurvive
    <2>4. Cardinality(Present') <= Cardinality(Survivors) + 1 /\ Cardinality(Present') \in Nat
      BY <2>3, <1>10, OneMore
    <2> QED BY <2>2, <2>3, <2>4, <1>2, FewRequests, SessionInputs DEF SizeInv
  <1>18. AskedInv'
    <2>1. \A t \in Sessions : t \notin Doomed => TurnsOf(t)' = TurnsOf(t)
      <3>1. SUFFICES ASSUME NEW t \in Sessions, t \notin Doomed
                     PROVE  TurnsOf(t)' = TurnsOf(t)
        OBVIOUS
      <3>2. Kept[t] = sessions[t]
        BY <3>1 DEF Kept
      <3> QED BY <3>2, <1>4, <1>8, <1>9 DEF TurnsOf
    <2>2. \A t \in Sessions : TurnsOf(t)' = {} \/ TurnsOf(t)' = TurnsOf(t)
      <3>1. \A t \in Doomed : t \in Sessions /\ Kept[t] = None
        BY <1>1, KeptRows
      <3> QED BY <2>1, <3>1, <1>4, <1>8, <1>9 DEF TurnsOf
    <2>3. ASSUME NEW q \in Open', requests'[q].at = "work",
                 NEW t, t = requests'[q].session
          PROVE  q \in pruned' \/ <<"user", q>> \in TurnsOf(t)'
      <3>1. q \in Open
        BY <2>3, <1>7, <1>11, <1>12
      <3>2. requests[q].at = "work" /\ t = requests[q].session /\ t \in Sessions
        BY <2>3, <3>1, <1>13
      <3>3. q \in pruned \/ <<"user", q>> \in TurnsOf(t)
        BY <3>1, <3>2, <1>1 DEF AskedInv
      <3>4. CASE t \in Doomed
        BY <3>1, <3>2, <3>4, <1>2
      <3>5. CASE t \notin Doomed
        BY <3>2, <3>3, <3>5, <2>1, <1>2
      <3> QED BY <3>4, <3>5
    <2>4. \A q \in Open' : requests'[q].at = "work" =>
             q \in pruned' \/ <<"user", q>> \in TurnsOf(requests[q].session)'
      BY <2>3 DEF TurnsOf
    <2>5. AnswersHaveQuestions'
      BY <1>1, <1>2, <2>2 DEF AskedInv, AnswersHaveQuestions
    <2> QED BY <2>4, <2>5 DEF AskedInv
  <1>19. AloneInv'
    <2>1. SUFFICES ASSUME NEW t \in Sessions, t \notin shared'
                   PROVE  /\ sessions'[t] # None => sessions'[t].strategy = told'[t]
                          /\ \A q \in On(t)' : requests'[q].copy.strategy = told'[t]
                          /\ \A g \in Read(t)' : g.strategy = told'[t]
                          /\ \A p, q \in On(t)' : p = q
                          /\ On(t)' = {} \/ Read(t)' = {}
      BY DEF AloneInv
    <2>2. t \notin shared
      BY <2>1, <1>2
    <2>3. /\ sessions[t] # None => sessions[t].strategy = told[t]
          /\ \A q \in On(t) : requests[q].copy.strategy = told[t]
          /\ \A g \in Read(t) : g.strategy = told[t]
          /\ \A p, q \in On(t) : p = q
          /\ On(t) = {} \/ Read(t) = {}
      BY <1>1, <2>2 DEF AloneInv
    <2>4. Read(t)' = Read(t)
      BY <1>2 DEF Read
    <2>5. Kept[t] # None => Kept[t] = sessions[t]
      BY <1>1, KeptRows
    <2>6. CASE t = s
      <3>1. On(t) = {} /\ Read(t) = {}
        BY <2>1, <2>6, <1>2
      <3>2. On(t)' = {r}
        BY <2>6, <3>1, <1>7, <1>11, <1>12, <1>13 DEF On
      <3>3. row.strategy = told'[t]
        BY <2>3, <2>5, <2>6, <1>4, <1>14 DEF Or
      <3>4. sessions'[t].strategy = told'[t] /\ requests'[r].copy.strategy = told'[t]
        BY <2>6, <3>3, <1>7, <1>9, <1>11
      <3> QED BY <3>1, <3>2, <3>4, <2>4
    <2>7. CASE t # s
      <3>1. On(t)' = On(t) /\ \A q \in On(t) : requests'[q] = requests[q]
        BY <2>7, <1>7, <1>11, <1>12, <1>13 DEF On
      <3>2. told'[t] = told[t] /\ sessions'[t] = Kept[t]
        BY <2>7, <1>9, <1>14
      <3> QED BY <3>1, <3>2, <2>3, <2>4, <2>5
    <2> QED BY <2>6, <2>7
  <1> QED BY <1>15, <1>16, <1>17, <1>18, <1>19 DEF SessionInv

-----------------------------------------------------------------------------
(* Sessions: the theorems. *)

\* The sessions have their types, their order, and the three parts of the
\* invariant, in whatever order requests and readers come.
THEOREM SessionsAreSound == SessionsSpec => []SessionInv
  <1>1. SessionsInit => SessionInv
    <2> SUFFICES ASSUME SessionsInit PROVE SessionInv
      OBVIOUS
    <2> USE DEF SessionsInit
    <2>1. SessionTypes
      BY DEF SessionTypes
    <2>2. Present = {} /\ Open = {} /\ Orphans = {}
      BY DEF Present, Open, Orphans
    <2>3. Ordered(newer, Present)
      BY <2>2 DEF Ordered
    <2>4. SizeInv
      <3>1. Cardinality(Present) = 0 /\ Cardinality(Orphans) = 0
        BY <2>2, FS_EmptySet
      <3> QED BY <3>1, SessionInputs DEF SizeInv
    <2>5. AskedInv
      BY <2>2 DEF AskedInv, AnswersHaveQuestions, TurnsOf
    <2>6. AloneInv
      BY <2>2 DEF AloneInv, On, Read
    <2> QED BY <2>1, <2>3, <2>4, <2>5, <2>6 DEF SessionInv
  <1>2. SessionInv /\ [SessionsNext]_sessionVars => SessionInv'
    <2> SUFFICES ASSUME SessionInv, [SessionsNext]_sessionVars
                 PROVE  SessionInv'
      OBVIOUS
    <2>1. CASE \E r \in Requests, s \in Sessions, owner \in Owners,
                  named \in Strategies \cup {None} :
                   Start(r, "run", s, owner, named) \/ Start(r, "plan", s, owner, named)
      BY <2>1, SessionStartKeeps
    <2>2. CASE \E s \in Sessions, owner \in Owners : RefuseStart(s, owner)
      BY <2>2, SessionRefuseKeeps
    <2>3. CASE \E r \in Open : Ask(r) \/ AnswerHelp(r) \/ AnswerPlan(r)
      BY <2>3, SessionAskKeeps, SessionHelpKeeps, SessionPlanKeeps
    <2>4. CASE \E r \in Open : \E made \in Strategies \cup {None} : FinishRun(r, made)
      BY <2>4, SessionFinishKeeps
    <2>5. CASE \E r \in Open : Fail(r)
      <3>1. PICK r \in Open : Fail(r)
        BY <2>5
      <3>2. r \in Requests /\ requests' = [requests EXCEPT ![r] = Done]
        BY <3>1 DEF Fail, Open
      <3>3. UNCHANGED <<sessions, newer, idle, told, shared, pruned, crowd, reads, refreshes>>
        BY <3>1 DEF Fail, storeVars, history
      <3> QED BY <3>2, <3>3, SessionRestKeeps DEF SessionInv, SessionTypes
    <2>6. CASE \E s \in Sessions : GetSession(s)
      BY <2>6, SessionGetKeeps
    <2>7. CASE \E owner \in Owners : ListSessions(owner)
      BY <2>7, SessionListKeeps
    <2>8. CASE \E n \in lists : ListAgain(n)
      BY <2>8, SessionAgainKeeps
    <2>9. CASE \E f \in refreshes : Refresh(f)
      BY <2>9, SessionRefreshKeeps
    <2>10. CASE \E f \in refreshes : RefreshFails(f)
      <3>1. UNCHANGED <<sessions, newer, idle, requests, told, shared, pruned, crowd, reads>>
            /\ refreshes' \subseteq refreshes
        BY <2>10 DEF RefreshFails, storeVars, history
      <3> QED BY <3>1, SessionRestKeeps DEF SessionInv, SessionTypes
    <2>11. CASE NightPasses
      <3>1. UNCHANGED <<sessions, newer, requests, told, shared, pruned, crowd, reads, refreshes>>
            /\ idle' = Present /\ Present \subseteq Sessions
        BY <2>11 DEF NightPasses, history, Present
      <3> QED BY <3>1, SessionRestKeeps
    <2>12. CASE UNCHANGED sessionVars
      <3>1. UNCHANGED <<sessions, newer, idle, requests, told, shared, pruned, crowd, reads, refreshes>>
        BY <2>12 DEF sessionVars, storeVars, history
      <3> QED BY <3>1, SessionRestKeeps DEF SessionInv, SessionTypes
    <2> QED BY <2>1, <2>2, <2>3, <2>4, <2>5, <2>6, <2>7, <2>8, <2>9, <2>10, <2>11, <2>12
            DEF SessionsNext
  <1> QED BY <1>1, <1>2, PTL DEF SessionsSpec

\* However many requests write sessions back that were pruned under them, the table
\* holds no more than the limit and the requests that were under way at the last
\* pruning.
THEOREM TableStaysSmall == SessionsSpec => []StoreBounded
  <1>1. SessionInv => StoreBounded
    <2> SUFFICES ASSUME SessionInv PROVE StoreBounded
      OBVIOUS
    <2>1. SessionTypes /\ Ordered(newer, Present) /\ SizeInv
      BY DEF SessionInv
    <2>2. Cardinality(Present) \in Nat
      BY <2>1, FewSurvive, FS_CardinalityType
    <2> QED BY <2>1, <2>2, FewRequests, SessionInputs DEF SizeInv, StoreBounded, SessionTypes
  <1> QED BY <1>1, SessionsAreSound, PTL

\* An answer without its question is that of a request whose session was deleted
\* while it ran.
THEOREM HistoriesAreWhole == SessionsSpec => []AnswersHaveQuestions
  <1>1. SessionInv => AnswersHaveQuestions
    BY DEF SessionInv, AskedInv
  <1> QED BY <1>1, SessionsAreSound, PTL

\* A session that no two callers held at one time names the strategy it was last
\* told of.
THEOREM NobodyForgetsAlone == SessionsSpec => []ForgetsNeedOverlap
  <1>1. SessionInv => ForgetsNeedOverlap
    BY DEF SessionInv, AloneInv, ForgetsNeedOverlap
  <1> QED BY <1>1, SessionsAreSound, PTL
===============================================================================
