--------------------------- MODULE EvaluationRun ---------------------------
(***************************************************************************)
(* The life of evaluation_runs rows: the handlers of evaluation_routes.py,  *)
(* the background pipelines they start, a crash of the API process and its  *)
(* startup sweep.  What happens inside the pipeline graph is                *)
(* EvaluationGraph's subject; here it only ends in one of the ways it can   *)
(* end.  What a setup holds, with the edits and refinements that change     *)
(* nothing else, is CriteriaSetup's; here a setup is there or it is gone.   *)
(*                                                                         *)
(* The API is one process with one event loop and synchronous SQL, so code  *)
(* without an await is atomic for every other coroutine; only a crash can   *)
(* fall between two of its commits.  Such a stretch holds "busy".           *)
(***************************************************************************)
EXTENDS Integers, FiniteSets

CONSTANTS Runs,         \* run ids
          NoRun,
          MaxTasks,     \* bound: pipelines ever started
          MaxCrashes    \* bound: crashes of the API process

ASSUME RunsAssumption == NoRun \notin Runs
ASSUME BoundsAssumption == MaxTasks \in Nat /\ MaxCrashes \in Nat

VARIABLES
  rows,     \* evaluation_runs: [Runs -> Row]
  setupOf,  \* evaluation_runs.setup_id, named by the run that created the setup
  setups,   \* evaluation_setups: the setup ids with a row
  tasks,    \* the _run_pipeline background tasks
  busy,     \* the task whose stretch of statements is being executed, or 0
  up,       \* is the API process running?
  swept,    \* did the sweep of its last start go through?
  crashes

vars == <<rows, setupOf, setups, tasks, busy, up, swept, crashes>>

TaskIds == 1 .. MaxTasks
Statuses == {"pending_confirm", "running", "complete", "blocked", "interrupted"}
Row  == [status : Statuses \cup {"none", "deleted"},
         decision : {0} \cup TaskIds, explanation : {0} \cup TaskIds]
Task == [run : Runs \cup {NoRun},
         pc : {"none", "queued", "graph", "decided", "explained", "done",
               "silent", "dead"},
         explained : BOOLEAN]

NoRow  == [status |-> "none", decision |-> 0, explanation |-> 0]
NoTask == [run |-> NoRun, pc |-> "none", explained |-> FALSE]

Present(r) == rows[r].status \in Statuses
Live(t) == tasks[t].pc \in {"queued", "graph", "decided", "explained"}
Of(r) == {t \in TaskIds : tasks[t].run = r}

Init == /\ rows = [r \in Runs |-> NoRow]
        /\ setupOf = [r \in Runs |-> r]
        /\ setups = {}
        /\ tasks = [t \in TaskIds |-> NoTask]
        /\ busy = 0 /\ up = TRUE /\ swept = TRUE /\ crashes = 0

\* The event loop is free to run a handler or to resume a coroutine.
Idle == up /\ busy = 0

\* An UPDATE of a row that is gone affects no row and raises nothing.
SetRow(r, new) == rows' = [rows EXCEPT ![r] = IF Present(r) THEN new ELSE @]

SetStatus(r, s) == SetRow(r, [rows[r] EXCEPT !.status = s])

\* background_tasks.add_task(_run_pipeline, run_id, org_id)
AddTask(r) ==
  \E t \in TaskIds :
    /\ tasks[t].pc = "none" /\ \A u \in TaskIds : u < t => tasks[u].pc # "none"
    /\ tasks' = [tasks EXCEPT ![t] = [run |-> r, pc |-> "queued", explained |-> FALSE]]

----------------------------------------------------------------------------
(* Handlers *)

\* start_evaluation: the setup, then the run row.
Start(r) ==
  /\ Idle /\ rows[r].status = "none"
  /\ rows' = [rows EXCEPT ![r].status = "pending_confirm"]
  /\ setupOf' = [setupOf EXCEPT ![r] = r]
  /\ setups' = setups \cup {r}
  /\ UNCHANGED <<tasks, busy, up, swept, crashes>>

\* confirm_run
Confirm(r) ==
  /\ Idle /\ rows[r].status = "pending_confirm"
  /\ SetStatus(r, "running")
  /\ AddTask(r)
  /\ UNCHANGED <<setupOf, setups, busy, up, swept, crashes>>

\* rerun_evaluation: a new row with the inputs and the setup of the original.
Rerun(r, new) ==
  /\ Idle /\ rows[r].status \in {"complete", "blocked"}
  /\ rows[new].status = "none"
  /\ rows' = [rows EXCEPT ![new] = [status |-> "running", decision |-> 0, explanation |-> 0]]
  /\ setupOf' = [setupOf EXCEPT ![new] = setupOf[r]]
  /\ AddTask(new)
  /\ UNCHANGED <<setups, busy, up, swept, crashes>>

\* Plausible bug: the decision stays until the next one replaces it.
ReEvaluatedRowBug(r) == [rows[r] EXCEPT !.status = "running"]

ReEvaluatedRow(r) == [rows[r] EXCEPT !.status = "running", !.decision = 0]

\* re_evaluate: every status but 'running', and only the decision is cleared.
ReEvaluate(r) ==
  /\ Idle /\ Present(r) /\ rows[r].status # "running"
  /\ SetRow(r, ReEvaluatedRow(r))
  /\ AddTask(r)
  /\ UNCHANGED <<setupOf, setups, busy, up, swept, crashes>>

CancelStatus == "interrupted"

\* cancel_run: the row only; the pipeline is not told.
Cancel(r) ==
  /\ Idle /\ rows[r].status = "running"
  /\ SetStatus(r, CancelStatus)
  /\ UNCHANGED <<setupOf, setups, tasks, busy, up, swept, crashes>>

\* Plausible bug: the setup is deleted whoever still refers to it.
SetupDeletableBug(r) == TRUE

\* evaluation_runs.setup_id REFERENCES evaluation_setups: with another run on the
\* same setup the last DELETE fails and the whole transaction is rolled back.
SetupDeletable(r) == \A q \in Runs \ {r} : Present(q) => setupOf[q] # setupOf[r]

\* delete_run.  Its first check compares with 'completed', a status no run has.
Delete(r) ==
  /\ Idle /\ Present(r)
  /\ rows[r].status # "completed" /\ rows[r].status # "running"
  /\ SetupDeletable(r)
  /\ rows' = [rows EXCEPT ![r] = [status |-> "deleted", decision |-> 0, explanation |-> 0]]
  /\ setups' = setups \ {setupOf[r]}
  /\ UNCHANGED <<setupOf, tasks, busy, up, swept, crashes>>

----------------------------------------------------------------------------
(* Background tasks *)

Goto(t, pc) == tasks' = [tasks EXCEPT ![t].pc = pc]

\* How a failed pipeline ends: with its status written, or "silent", when the UPDATE fails too
\* (the except branch passes over that) and its row never hears of the end.
EndTask(t, s) == \/ SetStatus(tasks[t].run, s) /\ Goto(t, "done")
                 \/ UNCHANGED rows /\ Goto(t, "silent")

\* _run_pipeline up to the graph: no row or no setup ends in the except branch.
TaskLoad(t) ==
  LET r == tasks[t].run IN
  /\ Idle /\ tasks[t].pc = "queued"
  /\ \/ /\ Present(r) /\ setupOf[r] \in setups
        /\ Goto(t, "graph")
        /\ UNCHANGED rows
     \/ /\ ~(Present(r) /\ setupOf[r] \in setups)
        /\ EndTask(t, "blocked")
  /\ UNCHANGED <<setupOf, setups, busy, up, swept, crashes>>

\* A node's _block_update, or an exception out of the graph.
TaskBlocked(t) ==
  /\ Idle /\ tasks[t].pc = "graph"
  /\ EndTask(t, "blocked")
  /\ UNCHANGED <<setupOf, setups, busy, up, swept, crashes>>

\* explanation_critic ran out of retries: blocked, but nothing is written.
TaskSilentlyBlocked(t) ==
  /\ Idle /\ tasks[t].pc = "graph"
  /\ Goto(t, "silent")
  /\ UNCHANGED <<rows, setupOf, setups, busy, up, swept, crashes>>

\* Plausible bug: only the status is written.
StatusOnlyBug(t) ==
  [rows EXCEPT ![tasks[t].run] = IF Present(tasks[t].run)
                                 THEN [@ EXCEPT !.status = "complete"] ELSE @]

\* _db_save_decision sets the decision and, at once, status 'complete'.
DecisionRow(t) ==
  [rows EXCEPT ![tasks[t].run] = IF Present(tasks[t].run)
                                 THEN [@ EXCEPT !.decision = t, !.status = "complete"] ELSE @]

SaveDecision(t) ==
  /\ Idle /\ tasks[t].pc = "graph"
  /\ rows' = DecisionRow(t)
  /\ Goto(t, "decided")
  /\ busy' = t
  /\ UNCHANGED <<setupOf, setups, up, swept, crashes>>

\* Plausible bug: the column is only filled when it is empty.
ExplainedRowBug(t) ==
  [rows EXCEPT ![tasks[t].run] = IF Present(tasks[t].run) /\ @.explanation = 0
                                 THEN [@ EXCEPT !.explanation = t] ELSE @]

\* _db_save_explanation
ExplainedRow(t) ==
  [rows EXCEPT ![tasks[t].run] = IF Present(tasks[t].run)
                                 THEN [@ EXCEPT !.explanation = t] ELSE @]

\* Best effort: a failure is logged and the run goes on.
SaveExplanation(t) ==
  /\ up /\ tasks[t].pc = "decided"
  /\ \/ /\ rows' = ExplainedRow(t)
        /\ tasks' = [tasks EXCEPT ![t].pc = "explained", ![t].explained = TRUE]
     \/ /\ Goto(t, "explained")
        /\ UNCHANGED rows
  /\ UNCHANGED <<setupOf, setups, busy, up, swept, crashes>>

\* The last event and status 'complete', or the except branch if one fails.
FinishTask(t) ==
  /\ up /\ tasks[t].pc = "explained"
  /\ \E s \in {"complete", "blocked"} : EndTask(t, s)
  /\ busy' = 0
  /\ UNCHANGED <<setupOf, setups, up, swept, crashes>>

----------------------------------------------------------------------------
(* Crash and restart *)

Crash ==
  /\ up /\ crashes < MaxCrashes
  /\ up' = FALSE /\ busy' = 0 /\ crashes' = crashes + 1
  /\ tasks' = [t \in TaskIds |-> IF Live(t) THEN [tasks[t] EXCEPT !.pc = "dead"] ELSE tasks[t]]
  /\ UNCHANGED <<rows, setupOf, setups, swept>>

\* Plausible bug: no startup sweep.
SweptBug(r) == rows[r]

\* _mark_orphaned_runs
Swept(r) == IF rows[r].status = "running"
            THEN [rows[r] EXCEPT !.status = "interrupted"] ELSE rows[r]

\* lifespan: the sweep comes before the first request.  A sweep that raises is rolled
\* back and printed, and the server serves all the same.
Restart ==
  /\ ~up /\ up' = TRUE
  /\ \/ swept' = TRUE /\ rows' = [r \in Runs |-> Swept(r)]
     \/ swept' = FALSE /\ UNCHANGED rows
  /\ UNCHANGED <<setupOf, setups, tasks, busy, crashes>>

TaskStep(t) == \/ TaskLoad(t) \/ TaskBlocked(t) \/ TaskSilentlyBlocked(t)
               \/ SaveDecision(t) \/ SaveExplanation(t) \/ FinishTask(t)

Handler(r) == \/ Start(r) \/ Confirm(r) \/ ReEvaluate(r)
              \/ Cancel(r) \/ Delete(r)
              \/ \E new \in Runs : Rerun(r, new)

Next == \/ \E r \in Runs : Handler(r)
        \/ \E t \in TaskIds : TaskStep(t)
        \/ Crash \/ Restart

\* The event loop resumes every pipeline that can run, its agent calls return,
\* and the supervisor restarts the process; nobody has to call a handler.
Fairness == /\ \A t \in TaskIds : WF_vars(TaskStep(t))
            /\ WF_vars(Restart)

Spec == Init /\ [][Next]_vars /\ Fairness

----------------------------------------------------------------------------
(* Properties *)

\* Shapes of all variables.
TypeOK == /\ rows \in [Runs -> Row]
          /\ setupOf \in [Runs -> Runs]
          /\ setups \in SUBSET Runs
          /\ tasks \in [TaskIds -> Task]
          /\ busy \in {0} \cup TaskIds
          /\ up \in BOOLEAN /\ swept \in BOOLEAN
          /\ crashes \in 0 .. MaxCrashes

\* _db_save_decision, re_evaluate: a run shown as complete has a decision, which a
\* pipeline of this very run computed, across re-evaluations, overlapping
\* pipelines, cancels and a crash between the commits.
CompleteHasOwnDecision ==
  \A r \in Runs : /\ rows[r].status = "complete" => rows[r].decision # 0
                  /\ rows[r].decision # 0 => tasks[rows[r].decision].run = r

\* confirm_run, re_evaluate: until the customer has let it start, a run has no
\* pipeline and no result.
PendingIsUntouched ==
  \A r \in Runs : rows[r].status = "pending_confirm" =>
                    Of(r) = {} /\ rows[r].decision = 0 /\ rows[r].explanation = 0

\* The pipeline that was launched last for a run.
Newest(t) == \A u \in Of(tasks[t].run) : u <= t

\* _mark_orphaned_runs, main.py:136: behind a 'running' run there is the pipeline that was
\* launched last for it (never merely an older one), and that pipeline is alive, unless it
\* ended without its row being told, or died and no sweep has gone through since.
RunningIsDriven ==
  \A r \in Runs : rows[r].status = "running" =>
    \E t \in Of(r) : /\ Newest(t)
                     /\ \/ Live(t)
                        \/ tasks[t].pc = "silent"
                        \/ tasks[t].pc = "dead" /\ ~(up /\ swept)

\* The status column tells what the run is doing and has.
StatusIsTruthful == CompleteHasOwnDecision /\ PendingIsUntouched /\ RunningIsDriven

\* delete_run: deleting a run never takes the setup, and with it the evidence,
\* from under another run that was cloned from it.
SetupOutlivesRuns ==
  \A r \in Runs : Present(r) => setupOf[r] \in setups

\* _run_pipeline, Phase 7: a stored explanation that is not the decision's own is
\* there only because the deciding pipeline failed or died before storing its own.
ExplanationMatchesDecision ==
  busy = 0 => \A r \in Runs :
    LET d == rows[r].decision IN
      (d # 0 /\ rows[r].explanation \notin {0, d}) => ~tasks[d].explained

\* A deleted run stays deleted, although its pipelines may still be writing.
DeletedForGood ==
  [][\A r \in Runs : rows[r].status = "deleted" => rows'[r] = rows[r]]_vars

\* The pipelines of a run that have neither decided nor ended.
Undecided(r) == {t \in Of(r) : tasks[t].pc \in {"queued", "graph"}}

Life == INSTANCE RunLife WITH
          status  <- [r \in Runs |-> rows[r].status],
          decided <- {r \in Runs : rows[r].decision # 0},
          open    <- [r \in Runs |-> Cardinality(Undecided(r))]

\* _db_save_decision, re_evaluate, cancel_run, delete_run: for a reader of evaluation_runs a
\* run is decided once per launch at most and only while a launched pipeline is undecided; what
\* is launched again shows no decision, and a deleted run does not come back.
ImplementsRunLife == Life!Spec

\* Nobody is left to write the end of a run: its last pipeline ended without its row being
\* told, or died and the sweep of the next start failed.
Forsaken(r) ==
  \E t \in Of(r) : /\ Newest(t)
                   /\ \/ tasks[t].pc = "silent"
                      \/ tasks[t].pc = "dead" /\ up /\ ~swept

\* _run_pipeline, _mark_orphaned_runs: every 'running' run gets out of this status, through
\* crashes, cancels and new launches, or its end was lost with a write that failed.
RunsEnd == \A r \in Runs : rows[r].status = "running" ~>
                             (rows[r].status # "running" \/ Forsaken(r))

============================================================================
