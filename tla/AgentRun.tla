------------------------------- MODULE AgentRun -------------------------------
(***************************************************************************)
(* One run of the strategy agent for one goal: the fast paths that create, *)
(* modify and optimize a strategy, the agent that calls tools by itself,   *)
(* the loop of JSON decisions, and the enforcement that ends both.         *)
(*                                                                         *)
(* Every call of the matcher or of the model is a step that succeeds or    *)
(* throws.  Drafts are numbered in the order they are made; the first one  *)
(* was there before.  Of a draft it matters whether it validates, what an  *)
(* optimization scored it, and how it is classified.  The goal's words are   *)
(* the features the code looks for in them.                                *)
(*                                                                         *)
(* validate_strategy_draft answers with the validation alone, and so the   *)
(* repairs of the JSON loop, which need the strategy in that answer, are   *)
(* never reached: they are left out.                                       *)
(***************************************************************************)
EXTENDS Integers, Sequences

CONSTANTS
    Goals,          \* sets of features
    ForceFallback,  \* the deployment skips the native agent
    Pnls,           \* what backtests may earn
    MaxCandidates,  \* candidates of an optimization plan that are tried
    MaxTools,       \* bound on what the model calls in one loop, maxSteps
    MaxCorrections, \* maxAttempts of the LLM correction
    MaxFailures,    \* bound on calls that throw
    MaxEdits        \* bound on what the owner edits meanwhile

ASSUME RunInputs == /\ Pnls \subseteq Int
                    /\ {MaxCandidates, MaxTools, MaxCorrections} \subseteq Nat

\* Rules of a known shape, an engine, or neither: classifyBasicStrategy and
\* inferEngineKindFromScript.
Kinds == {"rules", "engine", "odd"}
NoDraft == 0

\* What a draft is worth shows when it is first validated or backtested as it is
\* stored; before that any answer may come.
Unseen(kinds) == [valid : {{}}, pnl : {{}}, kind : kinds]

VARIABLES
    drafts,    \* the owner's drafts, as the matcher stores them
    input,     \* the request and what its session knows
    run,       \* where the run is
    trace,     \* what the code reads from the tool trace
    failures,
    edits,
    loose      \* history: the model or the owner touched the drafts since the
               \* last validation, or it was of another draft than the trace's,
               \* or the enforcement's own one threw

vars == <<drafts, input, run, trace, failures, edits, loose>>

Has(feature) == feature \in input.goal
NewGoal == Has("fresh") \/ Has("analysis")

\* activeInput.strategyId
Active == IF (NewGoal /\ ~Has("optimize")) \/ input.strategy # NoDraft
          THEN input.strategy ELSE input.session

Init ==
    /\ \E b \in Unseen(Kinds) : drafts = <<b>>
    /\ input \in [goal : Goals, strategy : {NoDraft, 1}, session : {NoDraft, 1}]
    /\ run = [stage |-> "fast", at |-> "start", draft |-> NoDraft, left |-> 0,
              best |-> {}, tools |-> 0, claim |-> NoDraft, valid |-> FALSE,
              answer |-> NoDraft]
    /\ trace = [used |-> FALSE, seen |-> NoDraft, check |-> "none",
                report |-> "none", bad |-> FALSE, tested |-> FALSE]
    /\ failures = 0
    /\ edits = 0
    /\ loose = FALSE

-----------------------------------------------------------------------------
(* The trace. *)

\* collectArtifactsFromTrace: an entry whose output has a strategy.
Saw(d) == [trace EXCEPT !.used = TRUE, !.seen = d]

\* Mutant: the first validation in the trace is the one that is reported.
MutChecked(ok) == [trace EXCEPT !.used = TRUE,
                                !.check = IF ok THEN "ok" ELSE "bad",
                                !.report = IF @ # "none" THEN @
                                           ELSE IF ok THEN "ok" ELSE "bad",
                                !.bad = @ \/ ~ok]

\* An entry of validate_strategy_draft with its output.
Checked(ok) == [trace EXCEPT !.used = TRUE,
                             !.check = IF ok THEN "ok" ELSE "bad",
                             !.report = IF ok THEN "ok" ELSE "bad",
                             !.bad = @ \/ ~ok]

Used == [trace EXCEPT !.used = TRUE]
Tested == [trace EXCEPT !.used = TRUE, !.tested = TRUE]

\* The entry of a call that throws has no output.
Threw(tool) == [trace EXCEPT !.used = TRUE,
                             !.check = IF tool = "validate" THEN "lost" ELSE @]

-----------------------------------------------------------------------------
(* Steps. *)

At(stages, place) == run.stage \in stages /\ run.at = place
Fast == {"fast", "emergency"}
Loops == {"native", "fallback"}

To(place) == run' = [run EXCEPT !.at = place]

\* The run answers with the strategy its trace names.
Answer == run' = [run EXCEPT !.at = "answered", !.answer = trace'.seen]

\* A call that reads.
Reads(stages, place, next) ==
    /\ At(stages, place)
    /\ To(next)
    /\ trace' = Used
    /\ UNCHANGED <<drafts, input, failures, edits, loose>>

\* A call that stores a draft in place of the one of the run.
Writes(d, kinds) ==
    /\ \E b \in Unseen(kinds) : drafts' = [drafts EXCEPT ![d] = b]
    /\ trace' = Saw(d)
    /\ UNCHANGED <<input, failures, edits, loose>>

\* The answers that validate_strategy_draft may give for a draft.
Verdicts(d) == IF drafts[d].valid = {} THEN BOOLEAN ELSE drafts[d].valid

\* validate_strategy_draft
Validates(d, ok) ==
    /\ ok \in Verdicts(d)
    /\ drafts' = [drafts EXCEPT ![d].valid = {ok}]
    /\ trace' = Checked(ok)
    /\ loose' = (d # trace.seen)
    /\ UNCHANGED <<input, failures, edits>>

\* After its repairs the enforcement reports a validation only when it is good.
Revalidates(d, ok) ==
    /\ ok \in Verdicts(d)
    /\ drafts' = [drafts EXCEPT ![d].valid = {ok}]
    /\ trace' = [Checked(ok) EXCEPT !.report = IF ok THEN @ ELSE trace.report]
    /\ loose' = IF ok THEN d # trace.seen ELSE loose
    /\ UNCHANGED <<input, failures, edits>>

\* run_strategy_backtest throws for an invalid strategy.
Backtests(d) ==
    /\ TRUE \in Verdicts(d)
    /\ drafts' = [drafts EXCEPT ![d].valid = {TRUE}]
    /\ trace' = Tested
    /\ UNCHANGED <<input, failures, edits, loose>>

-----------------------------------------------------------------------------
(* The choice of a path. *)

Creates(strategy) ==
    /\ Has("market")
    /\ NewGoal \/ Has("basic")
    /\ strategy = NoDraft \/ Has("fresh")

Modifies == Active # NoDraft /\ Has("filter")
Optimizes == Active # NoDraft /\ Has("optimize")

General == IF ForceFallback THEN "fallback" ELSE "native"

\* Where the run goes when no fast path, or none but optimization, is left.
AfterModification == IF Optimizes THEN <<"fast", "inspect">> ELSE <<General, "loop">>

Goto(place) == run' = [run EXCEPT !.stage = place[1], !.at = place[2]]

\* A question about the capabilities is answered at once.
ChoosePath ==
    /\ At({"fast"}, "start")
    /\ Goto(IF Has("question") THEN <<"fast", "answered">>
            ELSE IF Creates(Active) THEN <<"fast", "capabilities">>
            ELSE IF Modifies THEN <<"fast", "load">>
            ELSE AfterModification)
    /\ UNCHANGED <<drafts, input, trace, failures, edits, loose>>

-----------------------------------------------------------------------------
(* The creation fast path. *)

\* What the drafts are that the code builds: a script that an engine runs, a
\* template's rules, the model's patch of either, an engine or rules with other
\* parameters.
Scripted == {"engine"}
EngineBacked == {"engine"}
Patched == {"rules", "odd"}
Rebuilt == {"engine"}
VariantOf(d) == {drafts[d].kind}

ListCapabilities == Reads(Fast, "capabilities", "analysis")
AnalyzeMarket == Reads(Fast, "analysis", "templates")
ListTemplates == Reads(Fast, "templates", "plan")

\* The model's plan, or the deterministic one in its place.
PlanCreation ==
    /\ At(Fast, "plan")
    /\ \E next \in {"clone", "compile"} : To(next)
    /\ UNCHANGED <<drafts, input, trace, failures, edits, loose>>

Compile == Reads(Fast, "compile", "create")

\* clone_strategy_template or create_strategy_draft.
CreateDraft ==
    /\ run.stage \in Fast
    /\ run.at \in {"clone", "create"}
    /\ \E b \in Unseen(IF run.at = "create" THEN Scripted ELSE {"rules"}) :
           drafts' = Append(drafts, b)
    /\ trace' = Saw(Len(drafts'))
    /\ run' = [run EXCEPT !.at = "align", !.draft = Len(drafts')]
    /\ UNCHANGED <<input, failures, edits, loose>>

\* update_strategy_draft with the plan's name and patch.
AlignDraft ==
    /\ At(Fast, "align")
    /\ Writes(run.draft, IF drafts[run.draft].kind = "engine" THEN EngineBacked
                         ELSE Patched)
    /\ To("validate")

\* After the validation: the backtest, or the answer.
AfterCheck(ok) == IF ok /\ (Has("backtest") \/ NewGoal)
                  THEN To("backtest") ELSE Answer

\* A failed validation is repaired when every issue can be.
ValidateDraft ==
    /\ At(Fast, "validate")
    /\ \E ok \in BOOLEAN :
           /\ Validates(run.draft, ok)
           /\ \/ AfterCheck(ok)
              \/ ~ok /\ To("repair")

RepairOnce ==
    /\ At(Fast, "repair")
    /\ Writes(run.draft, {drafts[run.draft].kind})
    /\ To("recheck")

Recheck ==
    /\ At(Fast, "recheck")
    /\ \E ok \in BOOLEAN : Validates(run.draft, ok) /\ AfterCheck(ok)

\* A result that is not acceptable starts the optimization of the new draft.
BacktestDraft ==
    /\ At(Fast, "backtest")
    /\ Backtests(run.draft)
    /\ \/ Answer
       \/ To("inspect")

-----------------------------------------------------------------------------
(* The modification fast path: an RSI filter for a strategy, if it is one of *)
(* EMAs. *)

LoadStrategy ==
    /\ At({"fast"}, "load")
    /\ trace' = Saw(Active)
    /\ \/ /\ drafts[Active].kind # "odd"
          /\ run' = [run EXCEPT !.at = "survey", !.draft = Active]
       \/ Goto(AfterModification)
    /\ UNCHANGED <<drafts, input, failures, edits, loose>>

SurveyMarket == Reads({"fast"}, "survey", "refine")
CompileFilter == Reads({"fast"}, "refine", "amend")

AmendStrategy ==
    /\ At({"fast"}, "amend")
    /\ Writes(run.draft, EngineBacked)
    /\ To("verify")

VerifyStrategy ==
    /\ At({"fast"}, "verify")
    /\ \E ok \in BOOLEAN : /\ Validates(run.draft, ok)
                           /\ IF ok THEN To("measure") ELSE Answer

MeasureStrategy ==
    /\ At({"fast"}, "measure")
    /\ Backtests(run.draft)
    /\ Answer

-----------------------------------------------------------------------------
(* The optimization fast path. *)

\* Mutant: the creation that asked does not answer itself.
MutDeclined == Goto(<<General, "loop">>)

\* A draft that cannot be classified is left to the creation that asked, which
\* answers, or to the general agent.
Declined == IF run.draft # NoDraft THEN Answer ELSE Goto(<<General, "loop">>)

InspectStrategy ==
    LET d == IF run.draft = NoDraft THEN Active ELSE run.draft IN
    /\ At(Fast, "inspect")
    /\ trace' = Saw(d)
    /\ IF drafts[d].kind # "odd"
       THEN run' = [run EXCEPT !.at = "study", !.draft = d]
       ELSE Declined
    /\ UNCHANGED <<drafts, input, failures, edits, loose>>

StudyMarket == Reads(Fast, "study", "baseline")

BacktestBaseline ==
    /\ At(Fast, "baseline")
    /\ Backtests(run.draft)
    /\ To("propose")

\* The model's candidates, or the deterministic ones in their place.
ProposeCandidates ==
    /\ At(Fast, "propose")
    /\ \E n \in 1..MaxCandidates : run' = [run EXCEPT !.at = "next", !.left = n]
    /\ UNCHANGED <<drafts, input, trace, failures, edits, loose>>

Engine == drafts[run.draft].kind = "engine"

\* Mutant: the candidates are not used up.
MutNextCandidate ==
    /\ At(Fast, "next")
    /\ IF run.left = 0 THEN run' = [run EXCEPT !.at = "answered", !.answer = trace.seen]
       ELSE To(IF Engine THEN "rebuild" ELSE "try")
    /\ UNCHANGED <<drafts, input, trace, failures, edits, loose>>

\* The loop over the candidates ends, and the best one is reported.
NextCandidate ==
    /\ At(Fast, "next")
    /\ IF run.left = 0 THEN run' = [run EXCEPT !.at = "answered", !.answer = trace.seen]
       ELSE run' = [run EXCEPT !.at = IF Engine THEN "rebuild" ELSE "try",
                               !.left = @ - 1]
    /\ UNCHANGED <<drafts, input, trace, failures, edits, loose>>

Rebuild == Reads(Fast, "rebuild", "try")

TryCandidate ==
    /\ At(Fast, "try")
    /\ Writes(run.draft, IF Engine THEN Rebuilt ELSE VariantOf(run.draft))
    /\ To("check")

CheckCandidate ==
    /\ At(Fast, "check")
    /\ \E ok \in BOOLEAN : /\ Validates(run.draft, ok)
                           /\ To(IF ok THEN "score" ELSE "next")

\* Mutant: a positive result does not end the loop.
MutLeftAfter(pnl) == run.left

\* A positive result ends the loop, but for drafts that an engine runs.
LeftAfter(pnl) == IF ~Engine /\ pnl > 0 THEN 0 ELSE run.left

Better(pnl) == \A p \in run.best : pnl > p

ScoreCandidate ==
    /\ At(Fast, "score")
    /\ TRUE \in Verdicts(run.draft)
    /\ trace' = Tested
    /\ \E pnl \in Pnls :
           /\ drafts' = [drafts EXCEPT ![run.draft].valid = {TRUE},
                                       ![run.draft].pnl = {pnl}]
           /\ run' = [run EXCEPT !.at = "next", !.left = LeftAfter(pnl),
                                 !.best = IF Better(pnl) THEN {pnl} ELSE @]
    /\ UNCHANGED <<input, failures, edits, loose>>

-----------------------------------------------------------------------------
(* Calls that throw in a fast path. *)

Calls == {"capabilities", "analysis", "templates", "clone", "compile", "create",
          "align", "validate", "repair", "recheck", "backtest", "load", "survey",
          "refine", "amend", "verify", "measure", "inspect", "study", "baseline",
          "rebuild", "try", "check", "score"}

\* The calls whose errors are caught, and what comes after them.
After == [analysis |-> "templates", survey |-> "refine", study |-> "baseline",
          baseline |-> "propose"]

Refused == /\ run.at \in {"backtest", "measure", "baseline", "score"}
           /\ FALSE \in Verdicts(run.draft)

\* Any other error is the request's.
CallThrows ==
    /\ run.stage \in Fast
    /\ run.at \in Calls
    /\ failures < MaxFailures \/ Refused
    /\ failures' = IF Refused THEN failures ELSE failures + 1
    /\ To(IF run.at \in DOMAIN After THEN After[run.at] ELSE "failed")
    /\ trace' = Threw(IF run.at \in {"validate", "recheck", "verify", "check"}
                      THEN "validate" ELSE "other")
    /\ drafts' = IF Refused THEN [drafts EXCEPT ![run.draft].valid = {FALSE}] ELSE drafts
    /\ UNCHANGED <<input, edits, loose>>

-----------------------------------------------------------------------------
(* The model calls tools, by itself or through the JSON loop. *)

\* The model makes one more call.
Calling ==
    /\ At(Loops, "loop")
    /\ run.tools < MaxTools
    /\ run' = [run EXCEPT !.tools = @ + 1]

ModelLooks ==
    /\ Calling
    /\ trace' = Used
    /\ UNCHANGED <<drafts, input, failures, edits, loose>>

ModelCreates ==
    /\ Calling
    /\ \E b \in Unseen({"odd"}) : drafts' = Append(drafts, b)
    /\ trace' = Saw(Len(drafts'))
    /\ loose' = TRUE
    /\ UNCHANGED <<input, failures, edits>>

ModelUpdates(d) ==
    /\ Calling
    /\ \E b \in Unseen({drafts[d].kind}) : drafts' = [drafts EXCEPT ![d] = b]
    /\ trace' = Saw(d)
    /\ loose' = TRUE
    /\ UNCHANGED <<input, failures, edits>>

\* get_strategy, or save_strategy of a valid one.
ModelLoads(d) ==
    /\ Calling
    /\ trace' = Saw(d)
    /\ loose' = (loose \/ (d # trace.seen))
    /\ UNCHANGED <<drafts, input, failures, edits>>

ModelValidates(d) == Calling /\ \E ok \in BOOLEAN : Validates(d, ok)
ModelBacktests(d) == Calling /\ Backtests(d)

\* A decision that is no JSON, or for a blocked or unknown tool.
Misstep ==
    /\ run.stage = "fallback"
    /\ Calling
    /\ UNCHANGED <<drafts, input, trace, failures, edits, loose>>

\* The JSON loop fails: one more try of the creation path, or an excuse.
Emergency == IF Creates(input.strategy) THEN <<"emergency", "capabilities">>
             ELSE <<"fallback", "timedOut">>

\* A tool or the model throws.  The native agent may show the error to the model.
LoopThrows(tool) ==
    /\ At(Loops, "loop")
    /\ failures < MaxFailures
    /\ failures' = failures + 1
    /\ trace' = IF tool = "model" THEN trace ELSE Threw(tool)
    /\ \/ run.stage = "native" /\ tool # "model" /\ UNCHANGED run
       \/ /\ run.stage = "native"
          /\ run' = [run EXCEPT !.stage = "fallback", !.tools = 0]
       \/ run.stage = "fallback" /\ Goto(Emergency)
    /\ UNCHANGED <<drafts, input, edits, loose>>

\* The model is done.  Without a call of a tool the JSON loop takes over; its
\* last decision may name a strategy that no call has shown.
LoopEnds ==
    /\ At(Loops, "loop")
    /\ IF run.stage = "native" /\ ~trace.used
       THEN run' = [run EXCEPT !.stage = "fallback", !.tools = 0]
       ELSE \E d \in IF run.stage = "native" THEN {NoDraft} ELSE 0..Len(drafts) :
                run' = [run EXCEPT !.at = "list", !.claim = d]
    /\ UNCHANGED <<drafts, input, trace, failures, edits, loose>>

-----------------------------------------------------------------------------
(* enforceCompletion. *)

Target == IF trace.seen # NoDraft THEN trace.seen ELSE run.claim

\* The capabilities are listed; without a strategy that is all.
ListForEnforcement ==
    /\ At(Loops, "list")
    /\ To(IF Target = NoDraft THEN "answered" ELSE "ensure")
    /\ UNCHANGED <<drafts, input, trace, failures, edits, loose>>

ListThrows ==
    /\ At(Loops, "list")
    /\ failures < MaxFailures
    /\ failures' = failures + 1
    /\ run' = IF run.stage = "native"
              THEN [run EXCEPT !.stage = "fallback", !.at = "loop", !.tools = 0]
              ELSE [run EXCEPT !.at = "failed"]
    /\ UNCHANGED <<drafts, input, trace, edits, loose>>

\* What follows a validation: the backtest, or the repair of the strategy that
\* the trace shows.
Judged(ok) ==
    run' = [run EXCEPT !.valid = ok,
                       !.at = IF ~ok /\ trace'.bad /\ trace'.seen # NoDraft
                              THEN "mend" ELSE "finish"]

\* The last validation of the trace counts, whenever it was.
EnsureValidation ==
    /\ At(Loops, "ensure")
    /\ \/ /\ trace.check \in {"ok", "bad"}
          /\ UNCHANGED <<drafts, input, trace, failures, edits, loose>>
          /\ Judged(trace.check = "ok")
       \/ /\ trace.check \in {"none", "lost"}
          /\ \E ok \in BOOLEAN : Validates(Target, ok) /\ Judged(ok)

\* attemptValidationRepair fixes something or nothing.
Mend ==
    /\ At(Loops, "mend")
    /\ \/ To("apply")
       \/ run' = [run EXCEPT !.at = "correct", !.left = MaxCorrections]
    /\ UNCHANGED <<drafts, input, trace, failures, edits, loose>>

ApplyRepair ==
    /\ At(Loops, "apply")
    /\ Writes(trace.seen, {drafts[trace.seen].kind})
    /\ To("mended")

CheckRepair ==
    /\ At(Loops, "mended")
    /\ \E ok \in BOOLEAN :
           /\ Revalidates(Target, ok)
           /\ run' = IF ok THEN [run EXCEPT !.at = "finish", !.valid = TRUE]
                     ELSE [run EXCEPT !.at = "correct", !.left = MaxCorrections]

\* llmCorrectionLoop: the model answers with a strategy, or not.
AskCorrection ==
    /\ At(Loops, "correct")
    /\ IF run.left = 0 THEN To("finish")
       ELSE \E next \in {"fix", "correct"} :
                run' = [run EXCEPT !.at = next, !.left = @ - 1]
    /\ UNCHANGED <<drafts, input, trace, failures, edits, loose>>

ApplyCorrection ==
    /\ At(Loops, "fix")
    /\ Writes(trace.seen, {drafts[trace.seen].kind})
    /\ To("fixed")

CheckCorrection ==
    /\ At(Loops, "fixed")
    /\ \E ok \in BOOLEAN :
           /\ Revalidates(Target, ok)
           /\ run' = IF ok THEN [run EXCEPT !.at = "finish", !.valid = TRUE]
                     ELSE [run EXCEPT !.at = "correct"]

NeedsBacktest == Has("backtest") /\ ~trace.tested /\ run.valid

FinishWithBacktest ==
    /\ At(Loops, "finish")
    /\ NeedsBacktest
    /\ Backtests(Target)
    /\ run' = [run EXCEPT !.at = "answered", !.answer = Target]

Finish ==
    /\ At(Loops, "finish")
    /\ ~NeedsBacktest
    /\ run' = [run EXCEPT !.at = "answered", !.answer = Target]
    /\ UNCHANGED <<drafts, input, trace, failures, edits, loose>>

\* The errors of the enforcement's calls are all caught.
EnforcementThrows ==
    /\ run.stage \in Loops
    /\ run.at \in {"ensure", "apply", "mended", "fix", "fixed", "finish"}
    /\ run.at = "ensure" => trace.check \in {"none", "lost"}
    /\ run.at = "finish" => NeedsBacktest
    /\ \/ failures < MaxFailures /\ failures' = failures + 1
       \/ run.at = "finish" /\ FALSE \in Verdicts(Target) /\ UNCHANGED failures
    /\ trace' = Threw(IF run.at \in {"ensure", "mended", "fixed"}
                      THEN "validate" ELSE "other")
    /\ CASE run.at = "ensure" -> Judged(FALSE)
         [] run.at \in {"fix", "fixed"} -> To("correct")
         [] run.at = "finish" -> run' = [run EXCEPT !.at = "answered",
                                                    !.answer = Target]
         [] OTHER -> To("finish")
    /\ loose' = (loose \/ run.at = "ensure")
    /\ UNCHANGED <<drafts, input, edits>>

-----------------------------------------------------------------------------
Over == run.at \in {"answered", "failed", "timedOut"}

\* The owner edits a draft in the browser while the run goes on.
EditDraft(d) ==
    /\ ~Over
    /\ edits < MaxEdits
    /\ \E b \in Unseen({drafts[d].kind}) : drafts' = [drafts EXCEPT ![d] = b]
    /\ edits' = edits + 1
    /\ loose' = TRUE
    /\ UNCHANGED <<input, run, trace, failures>>

Creation == \/ ListCapabilities \/ AnalyzeMarket \/ ListTemplates \/ PlanCreation
            \/ Compile \/ CreateDraft \/ AlignDraft \/ ValidateDraft \/ RepairOnce
            \/ Recheck \/ BacktestDraft

Modification == \/ LoadStrategy \/ SurveyMarket \/ CompileFilter \/ AmendStrategy
                \/ VerifyStrategy \/ MeasureStrategy

Optimization == \/ InspectStrategy \/ StudyMarket \/ BacktestBaseline
                \/ ProposeCandidates \/ NextCandidate \/ Rebuild \/ TryCandidate
                \/ CheckCandidate \/ ScoreCandidate

ModelCalls == \/ ModelLooks \/ ModelCreates \/ Misstep \/ LoopEnds
              \/ \E d \in DOMAIN drafts : \/ ModelUpdates(d) \/ ModelLoads(d)
                                          \/ ModelValidates(d) \/ ModelBacktests(d)
              \/ \E tool \in {"validate", "other", "model"} : LoopThrows(tool)

Enforcement == \/ ListForEnforcement \/ ListThrows \/ EnsureValidation \/ Mend
               \/ ApplyRepair \/ CheckRepair \/ AskCorrection \/ ApplyCorrection
               \/ CheckCorrection \/ FinishWithBacktest \/ Finish
               \/ EnforcementThrows

Agent == \/ ChoosePath \/ Creation \/ Modification \/ Optimization \/ CallThrows
         \/ ModelCalls \/ Enforcement

Next == Agent \/ \E d \in DOMAIN drafts : EditDraft(d)

Spec == Init /\ [][Next]_vars

\* Every call has a timeout, so the run always goes on.
FairSpec == Spec /\ WF_vars(Agent)

-----------------------------------------------------------------------------
(* Properties. *)

\* A run that reports its strategy as valid leaves it valid: whatever the code
\* itself writes, candidates and repairs included, it validates again before it
\* answers.  Only what the model or the owner did after the last validation
\* escapes it, which the enforcement takes as it finds it in the trace, and a
\* validation of the enforcement's that throws: it repairs then what an older one
\* refused, and an answer about a repair that fails keeps the older report.
ReportedValidIsStored ==
    run.at = "answered" /\ run.answer # NoDraft /\ trace.report = "ok" /\ ~loose
        => drafts[run.answer].valid = {TRUE}

\* The positive result that an optimization reports is that of the draft it
\* leaves, when rules run the draft.  (With an engine the draft it leaves is the
\* last candidate, not the best.)
PositiveIsStored ==
    \A p \in run.best :
        run.at = "answered" /\ p > 0 /\ edits = 0 /\ ~Engine =>
            drafts[run.answer].pnl = {p}

\* A run that made a draft itself answers with that draft.
OwnDraftIsAnswered ==
    run.at = "answered" => run.draft \in {NoDraft, run.answer}

\* Every run ends, however the model and the matcher fail.
RunEnds == <>Over

=============================================================================
