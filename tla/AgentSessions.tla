----------------------------- MODULE AgentSessions -----------------------------
(***************************************************************************)
(* The strategy agent's sessions: StrategyAgentSessionStore and the        *)
(* requests that use it.                                                   *)
(*                                                                         *)
(* SQLite is synchronous, so what a request does between two awaits is one *)
(* step.  A request copies its session's row when it starts, keeps the     *)
(* copy across every call of the matcher and of the model, and writes the  *)
(* whole copy back.  What a run does for its goal is AgentRun's matter:    *)
(* here it ends with a strategy, without one, or with an error.            *)
(*                                                                         *)
(* A row has its owner, its strategy, and its turns, which are rows of     *)
(* their own table that go with it.  The results and diagnostics of the    *)
(* last run, which the copies carry too, are left out.                     *)
(***************************************************************************)
EXTENDS Integers, FiniteSets

CONSTANTS
    Sessions,     \* session ids
    Owners,
    Strategies,   \* strategies that requests name or runs make
    Requests,     \* calls of plan and run, each used once
    None,
    Done,         \* a request that was answered
    MaxSessions,  \* MAX_SESSIONS
    MaxReads,     \* bound on the readings of sessions
    MaxNights     \* bound on pauses of SESSION_TTL_MS

\* A row of a session, and what a request under way holds.
Rows == [owner : Owners, strategy : Strategies \cup {None},
         turns : SUBSET ({"user", "assistant"} \X Requests)]
Held == [kind : {"run", "plan"}, session : Sessions, at : {"sync", "work"}, copy : Rows]

ASSUME SessionInputs ==
    /\ IsFiniteSet(Sessions) /\ IsFiniteSet(Requests)
    /\ MaxSessions \in Nat
    /\ None # Done /\ None \notin Strategies
    /\ None \notin Rows /\ None \notin Held /\ Done \notin Held

VARIABLES
    sessions,   \* id -> None or the row
    newer,      \* id stored -> the ids stored that were updated after it
    idle,       \* sessions not updated for SESSION_TTL_MS
    requests,   \* request -> None, what it holds, or Done
    refreshes,  \* calls of get_strategy made for readers, not answered yet
    lists,      \* listings that wait for those calls
    reads,
    nights,
    told,       \* history: id -> the strategy the session was last told of
    shared,     \* history: sessions that two callers held at one time
    pruned,     \* history: requests whose session was deleted under them
    crowd       \* history: the requests under way after the last pruning

storeVars == <<sessions, newer, idle>>
history == <<told, shared, pruned, crowd>>
sessionVars == <<storeVars, requests, refreshes, lists, reads, nights, history>>

SessionsInit ==
    /\ sessions = [s \in Sessions |-> None]
    /\ newer = [s \in Sessions |-> {}]
    /\ idle = {}
    /\ requests = [r \in Requests |-> None]
    /\ refreshes = {}
    /\ lists = {}
    /\ reads = 0
    /\ nights = 0
    /\ told = [s \in Sessions |-> None]
    /\ shared = {}
    /\ pruned = {}
    /\ crowd = 0

Open == {r \in Requests : requests[r] \notin {None, Done}}
On(s) == {r \in Open : requests[r].session = s}
Read(s) == {f \in refreshes : f.session = s}

-----------------------------------------------------------------------------
(* The store. *)

Present == {s \in Sessions : sessions[s] # None}

\* Mutant: the overflow leaves one session too many.
MutSurvivors == LET left == Present \ idle
                IN  {s \in left : Cardinality(newer[s] \cap left) <= MaxSessions}

\* prune: the ids left without the idle sessions and the oldest ones above the
\* limit.
Survivors == LET left == Present \ idle
             IN  {s \in left : Cardinality(newer[s] \cap left) < MaxSessions}

Doomed == Present \ Survivors

\* The rows after prune.
Kept == [s \in Sessions |-> IF s \in Doomed THEN None ELSE sessions[s]]

\* prune, and the requests whose sessions it deletes.
Prune ==
    /\ sessions' = Kept
    /\ newer' = [s \in Sessions |-> IF s \in Survivors THEN newer[s] \cap Survivors ELSE {}]
    /\ idle' = {}
    /\ pruned' = pruned \cup {q \in Open : requests[q].session \in Doomed}
    /\ crowd' = Cardinality(Open)

\* Mutant: INSERT OR REPLACE, which deletes the old row and its turns first.
MutWrite(rows, s, row) ==
    [rows EXCEPT ![s] = IF rows[s] = None THEN row
                        ELSE [row EXCEPT !.turns = @ \ rows[s].turns]]

\* writeSession: an upsert, which leaves the turns alone.
Write(rows, s, row) == [rows EXCEPT ![s] = row]

\* updated_at of a session, one of the ids or a new one, is now.
Touched(ids, s) ==
    [t \in Sessions |-> IF t \in ids \ {s} THEN (newer[t] \cap ids) \cup {s} ELSE {}]

-----------------------------------------------------------------------------
(* Requests. *)

\* new ?? old
Or(new, old) == IF new = None THEN old ELSE new

\* getOrCreate: the row is updated, or made for the id the client brought.
Opened(s, owner, named) ==
    IF Kept[s] = None
    THEN [owner |-> owner, strategy |-> named, turns |-> {}]
    ELSE [Kept[s] EXCEPT !.strategy = Or(named, @)]

\* plan and run begin: getOrCreate, and the read of the row for
\* syncSessionStrategySnapshot, which then waits for the matcher.  The answer
\* changes nothing in the copy, whose strategy it is about.
Start(r, kind, s, owner, named) ==
    /\ requests[r] = None
    /\ Kept[s] # None => Kept[s].owner = owner
    /\ sessions' = Write(Kept, s, Opened(s, owner, named))
    /\ newer' = Touched(Survivors, s)
    /\ idle' = {}
    /\ requests' = [requests EXCEPT ![r] =
           [kind |-> kind, session |-> s, at |-> "sync",
            copy |-> [Opened(s, owner, named) EXCEPT !.turns = {}]]]
    /\ told' = [told EXCEPT ![s] = Opened(s, owner, Or(named,
                   IF Kept[s] = None THEN None ELSE @)).strategy]
    /\ shared' = IF On(s) # {} \/ Read(s) # {} THEN shared \cup {s} ELSE shared
    /\ pruned' = pruned \cup {q \in Open : requests[q].session \in Doomed}
    /\ crowd' = Cardinality(Open) + 1
    /\ UNCHANGED <<refreshes, lists, reads, nights>>

\* A caller who is not the session's owner has pruned before it is refused.
RefuseStart(s, owner) ==
    /\ Kept[s] # None
    /\ Kept[s].owner # owner
    /\ Doomed # {}
    /\ Prune
    /\ UNCHANGED <<requests, refreshes, lists, reads, nights, told, shared>>

\* touchSession after the INSERT of a turn, which the foreign key refuses when
\* the session is gone.
AddTurn(r, role, copy) ==
    LET s == requests[r].session IN
    /\ sessions' = Write(sessions, s,
           [sessions[s] EXCEPT !.strategy = copy.strategy,
                               !.turns = @ \cup {<<role, r>>}])
    /\ newer' = Touched(Present, s)
    /\ idle' = idle \ {s}

\* The matcher has answered or failed; the user's turn is added.
Ask(r) ==
    /\ r \in Open
    /\ requests[r].at = "sync"
    /\ sessions[requests[r].session] # None
    /\ AddTurn(r, "user", requests[r].copy)
    /\ requests' = [requests EXCEPT ![r].at = "work"]
    /\ UNCHANGED <<refreshes, lists, reads, nights, history>>

\* Mutant: a run that names no strategy forgets the session's.
MutResult(copy, made) ==
    [copy EXCEPT !.strategy = made]

\* applyArtifacts and applyRunDiagnostics, to the copy.
Result(copy, made) ==
    [copy EXCEPT !.strategy = Or(made, @)]

TurnsOf(s) == IF sessions[s] = None THEN {} ELSE sessions[s].turns

\* The end of a run: the copy is written, whether or not the row is still there,
\* then the trace and the assistant's turn.
FinishRun(r, made) ==
    LET s == requests[r].session
        copy == Result(requests[r].copy, made)
    IN
    /\ r \in Open
    /\ requests[r].at = "work"
    /\ requests[r].kind = "run"
    /\ sessions' = Write(sessions, s,
           [copy EXCEPT !.turns = TurnsOf(s) \cup {<<"assistant", r>>}])
    /\ newer' = Touched(Present, s)
    /\ idle' = idle \ {s}
    /\ requests' = [requests EXCEPT ![r] = Done]
    /\ told' = [told EXCEPT ![s] = Or(made, @)]
    /\ UNCHANGED <<refreshes, lists, reads, nights, shared, pruned, crowd>>

\* A question about what the agent can do is answered with no call between.
AnswerHelp(r) ==
    LET s == requests[r].session
        copy == requests[r].copy
    IN
    /\ r \in Open
    /\ requests[r].at = "sync"
    /\ requests[r].kind = "run"
    /\ sessions[s] # None
    /\ sessions' = Write(sessions, s,
           [copy EXCEPT !.turns = TurnsOf(s) \cup {<<"user", r>>, <<"assistant", r>>}])
    /\ newer' = Touched(Present, s)
    /\ idle' = idle \ {s}
    /\ requests' = [requests EXCEPT ![r] = Done]
    /\ UNCHANGED <<refreshes, lists, reads, nights, history>>

\* The end of a plan: nothing but the turn, and the copy with it.
AnswerPlan(r) ==
    /\ r \in Open
    /\ requests[r].at = "work"
    /\ requests[r].kind = "plan"
    /\ sessions[requests[r].session] # None
    /\ AddTurn(r, "assistant", requests[r].copy)
    /\ requests' = [requests EXCEPT ![r] = Done]
    /\ UNCHANGED <<refreshes, lists, reads, nights, history>>

\* A call that throws: a tool or the model in the work, or a turn whose session
\* is gone.
Fail(r) ==
    /\ r \in Open
    /\ requests[r].at = "sync" => sessions[requests[r].session] = None
    /\ requests' = [requests EXCEPT ![r] = Done]
    /\ UNCHANGED <<storeVars, refreshes, lists, reads, nights, history>>

-----------------------------------------------------------------------------
(* Readers. *)

\* syncSessionStrategySnapshot of a set of sessions, up to its calls.
CallsFor(rows, ids) == {[session |-> s, strategy |-> rows[s].strategy,
                      owner |-> rows[s].owner, by |-> reads] :
                        s \in {t \in ids : rows[t].strategy # None}}

\* GET /agent/sessions/:id
GetSession(s) ==
    /\ reads < MaxReads
    /\ sessions[s] # None
    /\ reads' = reads + 1
    /\ refreshes' = refreshes \cup CallsFor(sessions, {s})
    /\ shared' = IF On(s) # {} THEN shared \cup {s} ELSE shared
    /\ UNCHANGED <<storeVars, requests, lists, nights, told, pruned, crowd>>

\* GET /agent/sessions: the owner's sessions that are left, and the calls for
\* each of them.
ListSessions(owner) ==
    LET listed == {s \in Survivors : sessions[s].owner = owner} IN
    /\ reads < MaxReads
    /\ reads' = reads + 1
    /\ refreshes' = refreshes \cup CallsFor(Kept, listed)
    /\ lists' = lists \cup {reads}
    /\ shared' = shared \cup {s \in listed : On(s) # {}}
    /\ Prune
    /\ UNCHANGED <<requests, nights, told>>

\* The calls are over, and the listing prunes once more.
ListAgain(n) ==
    /\ \A f \in refreshes : f.by # n
    /\ lists' = lists \ {n}
    /\ Prune
    /\ UNCHANGED <<requests, refreshes, reads, nights, told, shared>>

\* refreshStrategy: the row is read again, its strategy is set to the one that
\* was asked for.
Refresh(f) ==
    /\ f \in refreshes
    /\ refreshes' = refreshes \ {f}
    /\ sessions[f.session] # None
    /\ sessions[f.session].owner = f.owner
    /\ sessions' = Write(sessions, f.session,
                         [sessions[f.session] EXCEPT !.strategy = f.strategy])
    /\ newer' = Touched(Present, f.session)
    /\ idle' = idle \ {f.session}
    /\ UNCHANGED <<requests, lists, reads, nights, history>>

\* The matcher does not find the strategy, or the session is gone or another's.
RefreshFails(f) ==
    /\ f \in refreshes
    /\ refreshes' = refreshes \ {f}
    /\ UNCHANGED <<storeVars, requests, lists, reads, nights, history>>

\* Twelve hours without a request: calls end in minutes.
NightPasses ==
    /\ nights < MaxNights
    /\ Open = {}
    /\ refreshes = {}
    /\ lists = {}
    /\ nights' = nights + 1
    /\ idle' = Present
    /\ UNCHANGED <<sessions, newer, requests, refreshes, lists, reads, history>>

SessionsNext ==
    \/ \E r \in Requests, s \in Sessions, owner \in Owners,
          named \in Strategies \cup {None} :
           Start(r, "run", s, owner, named) \/ Start(r, "plan", s, owner, named)
    \/ \E s \in Sessions, owner \in Owners : RefuseStart(s, owner)
    \/ \E r \in Open :
           \/ Ask(r)
           \/ AnswerHelp(r)
           \/ AnswerPlan(r)
           \/ \E made \in Strategies \cup {None} : FinishRun(r, made)
           \/ Fail(r)
    \/ \E s \in Sessions : GetSession(s)
    \/ \E owner \in Owners : ListSessions(owner)
    \/ \E n \in lists : ListAgain(n)
    \/ \E f \in refreshes : Refresh(f) \/ RefreshFails(f)
    \/ NightPasses

SessionsSpec == SessionsInit /\ [][SessionsNext]_sessionVars

-----------------------------------------------------------------------------
(* Properties. *)

\* The table stays small although a run writes a session back that was pruned
\* under it: it holds no more than the limit and the requests that were under
\* way when it was last pruned.
StoreBounded == Cardinality(Present) <= MaxSessions + crowd

\* The history of a session has every answer with its question, but for a run
\* whose session was deleted before it ended: it brings the session back with
\* the answer alone.
AnswersHaveQuestions ==
    \A s \in Sessions, r \in Requests :
        /\ <<"assistant", r>> \in TurnsOf(s)
        /\ <<"user", r>> \notin TurnsOf(s)
        => r \in pruned

\* A session names the strategy that the last run made or the last request
\* named.  Only callers that overlapped can make it forget: a plan and even a
\* reader write back the strategy they found before the run ended.
ForgetsNeedOverlap ==
    \A s \in Sessions :
        sessions[s] # None /\ sessions[s].strategy # told[s] => s \in shared

=============================================================================
