------------------------- MODULE EvaluationRun_proofs -------------------------
(***************************************************************************)
(* Theorems about EvaluationRun, for any runs and any number of pipelines   *)
(* and crashes: the safety properties that its run checks, and that the     *)
(* rows live the life that RunLife promises.                                *)
(***************************************************************************)
EXTENDS EvaluationRun, FiniteSetTheorems, TLAPS

\* What a row holds fits its status, and a decision is a pipeline's of this run.
RowOK ==
  \A r \in Runs :
    /\ rows[r].status \in {"none", "pending_confirm", "deleted"} =>
         rows[r].decision = 0 /\ rows[r].explanation = 0
    /\ rows[r].status = "complete" => rows[r].decision # 0
    /\ rows[r].decision # 0 => tasks[rows[r].decision].run = r

\* A pipeline belongs to a run that was started, and while it is between its commits
\* nobody else has written its row.
TaskOK ==
  \A t \in TaskIds :
    /\ tasks[t].pc = "none" <=> tasks[t].run = NoRun
    /\ tasks[t].pc # "none" => rows[tasks[t].run].status \notin {"none", "pending_confirm"}
    /\ tasks[t].pc \in {"none", "queued", "graph", "decided"} => ~tasks[t].explained
    /\ tasks[t].pc \in {"decided", "explained"} =>
         busy = t /\ (Present(tasks[t].run) => rows[tasks[t].run].decision = t)

\* Even between two commits, the explanation of a pipeline that stored one is there.
ExplainedOK ==
  \A r \in Runs :
    (rows[r].decision # 0 /\ rows[r].explanation \notin {0, rows[r].decision})
      => ~tasks[rows[r].decision].explained

\* Pipelines are numbered in the order in which they are launched.
InOrder ==
  \A t, u \in TaskIds : u < t /\ tasks[t].pc # "none" => tasks[u].pc # "none"

Core == RowOK /\ TaskOK /\ ExplainedOK /\ RunningIsDriven /\ InOrder

IInv == TypeOK /\ Core /\ SetupOutlivesRuns
----------------------------------------------------------------------------
(* What the operators of the module do *)

\* The invariant holds before the first request.
LEMMA IInvInit == Init => IInv
<1> SUFFICES ASSUME Init PROVE IInv
  OBVIOUS
<1> USE RunsAssumption, BoundsAssumption DEF Init, NoRow, NoTask
<1>1. TypeOK
  BY DEF TypeOK, Row, Task
<1>2. RowOK /\ ExplainedOK /\ SetupOutlivesRuns
  BY DEF RowOK, ExplainedOK, SetupOutlivesRuns, Present, Statuses
<1>3. TaskOK /\ RunningIsDriven /\ InOrder
  BY DEF TaskOK, RunningIsDriven, InOrder
<1> QED BY <1>1, <1>2, <1>3 DEF IInv, Core

SameRows(S)  == \A q \in S : rows'[q] = rows[q]
SameTasks(S) == \A u \in S : tasks'[u] = tasks[u]

\* An UPDATE of the status leaves the results alone.
LEMMA StatusEffect ==
  ASSUME rows \in [Runs -> Row], NEW r \in Runs, NEW s \in Statuses, SetStatus(r, s)
  PROVE  /\ rows' \in [Runs -> Row] /\ SameRows(Runs \ {r})
         /\ Present(r) => /\ rows'[r].status = s
                          /\ rows'[r].decision = rows[r].decision
                          /\ rows'[r].explanation = rows[r].explanation
         /\ ~Present(r) => rows'[r] = rows[r]
<1> DEFINE new == [rows[r] EXCEPT !.status = s]
<1>1. /\ new \in Row /\ new.status = s /\ new.decision = rows[r].decision
      /\ new.explanation = rows[r].explanation
  BY DEF Row
<1>2. rows' = [rows EXCEPT ![r] = IF Present(r) THEN new ELSE rows[r]]
  BY DEF SetStatus, SetRow
<1> HIDE DEF new
<1> QED BY <1>1, <1>2 DEF SameRows

\* add_task takes an unused task.
LEMMA AddEffect ==
  ASSUME tasks \in [TaskIds -> Task], NEW r \in Runs, AddTask(r)
  PROVE  /\ tasks' \in [TaskIds -> Task]
         /\ \E t \in TaskIds :
              /\ tasks[t].pc = "none" /\ SameTasks(TaskIds \ {t})
              /\ \A u \in TaskIds : u < t => tasks[u].pc # "none"
              /\ tasks'[t].run = r /\ tasks'[t].pc = "queued" /\ tasks'[t].explained = FALSE
<1>1. [run |-> r, pc |-> "queued", explained |-> FALSE] \in Task
  BY DEF Task
<1> QED BY <1>1 DEF AddTask, SameTasks

TaskPcs == {"none", "queued", "graph", "decided", "explained", "done", "silent", "dead"}

\* Goto moves the program counter of one task and leaves the rest of it alone.
LEMMA GotoEffect ==
  ASSUME tasks \in [TaskIds -> Task], NEW t \in TaskIds, NEW pc \in TaskPcs, Goto(t, pc)
  PROVE  /\ tasks' \in [TaskIds -> Task] /\ SameTasks(TaskIds \ {t})
         /\ tasks'[t].pc = pc /\ tasks'[t].run = tasks[t].run
         /\ tasks'[t].explained = tasks[t].explained
BY DEF Goto, Task, TaskPcs, SameTasks

\* A running row keeps its driver: the launches stay, and none of its pipelines ends otherwise
\* than without telling it.
LEMMA DrivenStays ==
  ASSUME RunningIsDriven, UNCHANGED <<up, swept>>,
         \A u \in TaskIds : tasks'[u].run = tasks[u].run,
         \A q \in Runs : rows'[q].status = "running" =>
           /\ rows[q].status = "running"
           /\ \A u \in Of(q) : \/ tasks'[u].pc = tasks[u].pc
                               \/ tasks'[u].pc \in {"queued", "graph", "decided", "explained", "silent"}
  PROVE  RunningIsDriven'
<1> SUFFICES ASSUME NEW q \in Runs, rows'[q].status = "running"
             PROVE  \E t \in Of(q)' : /\ Newest(t)'
                                      /\ \/ Live(t)'
                                         \/ tasks'[t].pc = "silent"
                                         \/ tasks'[t].pc = "dead" /\ ~(up' /\ swept')
  BY DEF RunningIsDriven
<1>1. PICK t \in Of(q) : /\ Newest(t)
                         /\ \/ Live(t)
                            \/ tasks[t].pc = "silent"
                            \/ tasks[t].pc = "dead" /\ ~(up /\ swept)
  BY DEF RunningIsDriven
<1>2. Of(q)' = Of(q) /\ t \in TaskIds /\ tasks[t].run = q /\ tasks'[t].run = q
  BY DEF Of
<1>3. Newest(t)'
  BY <1>1, <1>2 DEF Newest
<1> QED BY <1>1, <1>2, <1>3 DEF Live

\* Only a launch makes a task of an unused one.
LEMMA OrderStays ==
  ASSUME InOrder, \A u \in TaskIds : tasks'[u].pc = "none" <=> tasks[u].pc = "none"
  PROVE  InOrder'
BY DEF InOrder
----------------------------------------------------------------------------
(* The kinds of steps *)

\* Any status a handler or a pipeline gives to a row, but "complete" and "running".
Ended == {"blocked", "interrupted"}

\* confirm_run, re_evaluate and rerun_evaluation start a pipeline on a row without a
\* decision.
LEMMA LaunchStep ==
  ASSUME TypeOK, Core, Idle, NEW r \in Runs, AddTask(r), UNCHANGED <<busy, up, swept>>,
         rows' \in [Runs -> Row], SameRows(Runs \ {r}), rows[r].status # "deleted",
         rows'[r].status = "running", rows'[r].decision = 0
  PROVE  Core'
<1>1. PICK t \in TaskIds :
        /\ tasks[t].pc = "none" /\ SameTasks(TaskIds \ {t})
        /\ \A u \in TaskIds : u < t => tasks[u].pc # "none"
        /\ tasks'[t].run = r /\ tasks'[t].pc = "queued" /\ tasks'[t].explained = FALSE
  BY AddEffect DEF TypeOK
<1>2. tasks[t].run = NoRun /\ r # NoRun /\ 0 \notin TaskIds
  BY <1>1, RunsAssumption DEF Core, TaskOK, TaskIds
<1>3. \A q \in Runs : rows[q].decision # 0 => rows[q].decision \in TaskIds \ {t}
  BY <1>2, RunsAssumption DEF Core, RowOK, TypeOK, Row
<1>4. RowOK'
  BY <1>1, <1>2, <1>3 DEF Core, RowOK, SameRows, SameTasks
<1>5. TaskOK'
  <2> SUFFICES ASSUME NEW u \in TaskIds
               PROVE  /\ tasks'[u].pc = "none" <=> tasks'[u].run = NoRun
                      /\ tasks'[u].pc # "none" =>
                           rows'[tasks'[u].run].status \notin {"none", "pending_confirm"}
                      /\ tasks'[u].pc \in {"none", "queued", "graph", "decided"}
                           => ~tasks'[u].explained
                      /\ tasks'[u].pc \notin {"decided", "explained"}
    BY DEF TaskOK
  <2>1. CASE u = t
    BY <1>1, <1>2, <2>1
  <2>2. CASE u # t
    <3>1. tasks'[u] = tasks[u] /\ tasks[u] \in Task /\ tasks[u].pc \notin {"decided", "explained"}
      BY <1>1, <1>2, <2>2 DEF SameTasks, Idle, Core, TaskOK, TypeOK
    <3> QED BY <3>1 DEF Core, TaskOK, SameRows, Task
  <2> QED BY <2>1, <2>2
<1>6. ExplainedOK'
  BY <1>1, <1>3 DEF Core, ExplainedOK, SameRows, SameTasks
<1>7. InOrder'
  BY <1>1 DEF Core, InOrder, SameTasks
<1>8. RunningIsDriven'
  <2> SUFFICES ASSUME NEW q \in Runs, rows'[q].status = "running"
               PROVE  \E d \in Of(q)' : /\ Newest(d)'
                                        /\ \/ Live(d)'
                                           \/ tasks'[d].pc = "silent"
                                           \/ tasks'[d].pc = "dead" /\ ~(up' /\ swept')
    BY DEF RunningIsDriven
  <2>1. CASE q = r
    <3>1. \A u \in TaskIds : tasks'[u].run = r => u <= t
      <4> SUFFICES ASSUME NEW u \in TaskIds, tasks'[u].run = r, t < u PROVE FALSE
        BY DEF TaskIds
      <4>1. tasks[u].run = r /\ tasks[u].pc # "none"
        BY <1>1, <1>2 DEF SameTasks, TaskIds, Core, TaskOK
      <4> QED BY <1>1, <4>1 DEF Core, InOrder
    <3> QED BY <1>1, <2>1, <3>1 DEF Of, Newest, Live
  <2>2. CASE q # r
    <3>1. PICK d \in Of(q) : /\ Newest(d)
                             /\ \/ Live(d)
                                \/ tasks[d].pc = "silent"
                                \/ tasks[d].pc = "dead" /\ ~(up /\ swept)
      BY <2>2 DEF Core, RunningIsDriven, SameRows
    <3>2. Of(q)' = Of(q) /\ d \in TaskIds /\ tasks[d].run = q /\ tasks'[d] = tasks[d]
      BY <1>1, <1>2, <2>2, RunsAssumption DEF Of, SameTasks
    <3>3. Newest(d)'
      BY <3>1, <3>2 DEF Newest
    <3> QED BY <3>1, <3>2, <3>3 DEF Live
  <2> QED BY <2>1, <2>2
<1> QED BY <1>4, <1>5, <1>6, <1>7, <1>8 DEF Core

\* cancel_run and the ends of a pipeline: a status, and no longer a task at work.
LEMMA EndStep ==
  ASSUME TypeOK, Core, NEW r \in Runs, NEW s \in Ended \cup {"complete"}, SetStatus(r, s),
         rows[r].status \notin {"none", "pending_confirm"}, UNCHANGED <<up, swept>>,
         s = "complete" => (Present(r) => rows[r].decision # 0),
         \/ UNCHANGED <<tasks, busy>>
         \/ \E t \in TaskIds : /\ tasks[t].run = r /\ tasks[t].pc # "none" /\ Goto(t, "done")
                               /\ busy \in {0, t} /\ busy' = 0
  PROVE  Core'
<1>1. /\ SameRows(Runs \ {r})
      /\ rows'[r].decision = rows[r].decision /\ rows'[r].explanation = rows[r].explanation
      /\ rows'[r].status \notin {"none", "pending_confirm", "running"}
      /\ rows'[r].status = "deleted" => rows[r].status = "deleted"
      /\ rows'[r].status = "complete" => rows'[r].decision # 0
      /\ Present(r)' <=> Present(r)
  BY StatusEffect DEF TypeOK, Ended, Statuses, Present, Row
<1>2. \A q \in Runs : /\ rows'[q].decision = rows[q].decision
                      /\ rows'[q].explanation = rows[q].explanation
                      /\ Present(q)' <=> Present(q)
  BY <1>1 DEF SameRows, Present
<1>3. \A u \in TaskIds :
        /\ tasks'[u].run = tasks[u].run /\ tasks'[u].explained = tasks[u].explained
        /\ \/ tasks'[u].pc = tasks[u].pc /\ (busy' = busy \/ busy # u)
           \/ tasks'[u].pc = "done" /\ tasks[u].pc # "none" /\ tasks[u].run = r
  <2>1. CASE UNCHANGED <<tasks, busy>>
    BY <2>1
  <2>2. CASE ~ UNCHANGED <<tasks, busy>>
    <3>1. PICK t \in TaskIds : /\ tasks[t].run = r /\ tasks[t].pc # "none" /\ Goto(t, "done")
                               /\ busy \in {0, t} /\ busy' = 0
      BY <2>2
    <3>2. /\ SameTasks(TaskIds \ {t}) /\ tasks'[t].pc = "done"
          /\ tasks'[t].run = tasks[t].run /\ tasks'[t].explained = tasks[t].explained
      BY <3>1, GotoEffect DEF TypeOK, TaskPcs
    <3> QED BY <3>1, <3>2 DEF SameTasks
  <2> QED BY <2>1, <2>2
<1>4. RowOK'
  <2>1. \A q \in Runs : rows[q].decision \in {0} \cup TaskIds
    BY DEF TypeOK, Row
  <2> QED BY <1>1, <1>2, <1>3, <2>1 DEF Core, RowOK, SameRows
<1>5. TaskOK'
  <2>1. \A u \in TaskIds : tasks[u].pc # "none" => tasks[u].run \in Runs
    BY DEF Core, TaskOK, TypeOK, Task
  <2>2. \A u \in TaskIds : tasks[u].pc # "none"
          => rows'[tasks[u].run].status \notin {"none", "pending_confirm"}
    BY <1>1, <2>1 DEF Core, TaskOK, SameRows
  <2> QED BY <1>2, <1>3, <2>1, <2>2 DEF Core, TaskOK
<1>6. ExplainedOK'
  <2>1. \A q \in Runs : rows[q].decision \in {0} \cup TaskIds
    BY DEF TypeOK, Row
  <2> QED BY <1>2, <1>3, <2>1 DEF Core, ExplainedOK
<1>7. RunningIsDriven' /\ InOrder'
  <2>1. \A q \in Runs : rows'[q].status = "running" =>
          /\ rows[q].status = "running"
          /\ \A u \in Of(q) : tasks'[u].pc = tasks[u].pc
    BY <1>1, <1>3 DEF SameRows, Of
  <2> QED BY <1>3, <2>1, DrivenStays, OrderStays DEF Core
<1> QED BY <1>4, <1>5, <1>6, <1>7 DEF Core

\* _db_save_decision: status and decision in one UPDATE.
LEMMA DecideStep ==
  ASSUME TypeOK, Core, NEW t \in TaskIds, SaveDecision(t)
  PROVE  Core' /\ rows' \in [Runs -> Row] /\ \A q \in Runs : Present(q)' <=> Present(q)
<1> DEFINE r == tasks[t].run
<1>1. /\ r \in Runs /\ r # NoRun /\ tasks[t].pc = "graph"
      /\ rows[r].status \notin {"none", "pending_confirm"}
      /\ ~tasks[t].explained /\ 0 \notin TaskIds
  BY DEF SaveDecision, Core, TaskOK, TypeOK, Task, TaskIds
<1>2. /\ tasks' \in [TaskIds -> Task] /\ SameTasks(TaskIds \ {t}) /\ tasks'[t].pc = "decided"
      /\ tasks'[t].run = r /\ tasks'[t].explained = tasks[t].explained
  BY GotoEffect DEF SaveDecision, TypeOK, TaskPcs
<1>3. /\ rows' \in [Runs -> Row] /\ SameRows(Runs \ {r})
      /\ Present(r) => /\ rows'[r].status = "complete" /\ rows'[r].decision = t
                       /\ rows'[r].explanation = rows[r].explanation
      /\ ~Present(r) => rows'[r] = rows[r]
  <2> DEFINE new == [rows[r] EXCEPT !.decision = t, !.status = "complete"]
  <2>1. /\ new \in Row /\ new.status = "complete" /\ new.decision = t
        /\ new.explanation = rows[r].explanation
    BY <1>1, ZenonT(30) DEF Row, TypeOK, Statuses
  <2>2. rows' = [rows EXCEPT ![r] = IF Present(r) THEN new ELSE rows[r]]
    BY <1>1 DEF SaveDecision, DecisionRow, TypeOK
  <2> HIDE DEF new
  <2> QED BY <1>1, <2>1, <2>2 DEF SameRows, TypeOK
<1>4. /\ busy = 0 /\ busy' = t /\ UNCHANGED <<up, swept>>
  BY DEF SaveDecision, Idle
<1>5. \A q \in Runs : Present(q)' <=> Present(q)
  BY <1>1, <1>3 DEF SameRows, Present, Statuses
<1>6. \A q \in Runs : rows[q].decision \in {0} \cup TaskIds
  BY DEF TypeOK, Row
<1> HIDE DEF r
<1>7. RowOK'
  BY <1>1, <1>2, <1>3, <1>6 DEF Core, RowOK, SameRows, SameTasks, Present, Statuses, r
<1>8. TaskOK'
  <2> SUFFICES ASSUME NEW u \in TaskIds
               PROVE  /\ tasks'[u].pc = "none" <=> tasks'[u].run = NoRun
                      /\ tasks'[u].pc # "none" =>
                           rows'[tasks'[u].run].status \notin {"none", "pending_confirm"}
                      /\ tasks'[u].pc \in {"none", "queued", "graph", "decided"}
                           => ~tasks'[u].explained
                      /\ tasks'[u].pc \in {"decided", "explained"} =>
                           /\ busy' = u
                           /\ rows'[tasks'[u].run].status \in Statuses
                                => rows'[tasks'[u].run].decision = u
    BY DEF TaskOK, Present
  <2>1. CASE u = t
    BY <1>1, <1>2, <1>3, <1>4, <2>1 DEF Present, r
  <2>2. CASE u # t
    <3>1. tasks'[u] = tasks[u] /\ tasks[u] \in Task /\ tasks[u].pc \notin {"decided", "explained"}
      BY <1>1, <1>2, <1>4, <2>2 DEF SameTasks, Core, TaskOK, TypeOK
    <3> QED BY <1>1, <1>3, <3>1 DEF Core, TaskOK, SameRows, Task
  <2> QED BY <2>1, <2>2
<1>9. ExplainedOK'
  BY <1>1, <1>2, <1>3, <1>6 DEF Core, ExplainedOK, SameRows, SameTasks
<1>10. RunningIsDriven' /\ InOrder'
  <2>1. \A u \in TaskIds : /\ tasks'[u].run = tasks[u].run
                           /\ tasks'[u].pc = tasks[u].pc \/ (tasks'[u].pc = "decided" /\ u = t)
    BY <1>2 DEF SameTasks, r
  <2>2. \A q \in Runs : rows'[q].status = "running" => rows[q].status = "running"
    BY <1>3 DEF SameRows
  <2>3. tasks[t].pc # "none"
    BY <1>1
  <2> QED BY <1>4, <2>1, <2>2, <2>3, DrivenStays, OrderStays DEF Core, Of
<1> QED BY <1>3, <1>5, <1>7, <1>8, <1>9, <1>10 DEF Core

\* _db_save_explanation, or its failure, while the deciding pipeline has the event loop.
LEMMA ExplainStep ==
  ASSUME TypeOK, Core, NEW t \in TaskIds, SaveExplanation(t)
  PROVE  /\ Core' /\ rows' \in [Runs -> Row] /\ tasks' \in [TaskIds -> Task]
         /\ \A q \in Runs : Present(q)' <=> Present(q)
<1> DEFINE r == tasks[t].run
<1>1. /\ r \in Runs /\ r # NoRun /\ tasks[t].pc = "decided"
      /\ rows[r].status \notin {"none", "pending_confirm"}
      /\ 0 \notin TaskIds /\ busy = t /\ (Present(r) => rows[r].decision = t)
  BY DEF SaveExplanation, Core, TaskOK, TypeOK, Task, TaskIds
<1>2. /\ tasks' \in [TaskIds -> Task] /\ SameTasks(TaskIds \ {t})
      /\ tasks'[t].pc = "explained" /\ tasks'[t].run = r
  BY GotoEffect DEF SaveExplanation, TypeOK, Task, TaskPcs, SameTasks
<1>3. /\ rows' \in [Runs -> Row] /\ SameRows(Runs \ {r})
      /\ rows'[r].status = rows[r].status /\ rows'[r].decision = rows[r].decision
      /\ \/ Present(r) /\ rows'[r].explanation = t
         \/ /\ rows'[r] = rows[r]
            /\ ~Present(r) \/ tasks'[t].explained = tasks[t].explained
  <2>1. CASE rows' = ExplainedRow(t)
    <3> DEFINE new == [rows[r] EXCEPT !.explanation = t]
    <3>1. /\ new \in Row /\ new.status = rows[r].status /\ new.decision = rows[r].decision
          /\ new.explanation = t
      BY <1>1 DEF Row, TypeOK
    <3>2. rows' = [rows EXCEPT ![r] = IF Present(r) THEN new ELSE rows[r]]
      BY <1>1, <2>1 DEF ExplainedRow, TypeOK
    <3> HIDE DEF new
    <3> QED BY <1>1, <3>1, <3>2 DEF SameRows, TypeOK
  <2>2. CASE rows' = rows /\ Goto(t, "explained")
    BY <1>1, <2>2, GotoEffect DEF TypeOK, TaskPcs, SameRows
  <2> QED BY <2>1, <2>2 DEF SaveExplanation
<1>4. UNCHANGED <<busy, up, swept>>
  BY DEF SaveExplanation
<1>6. \A q \in Runs : /\ Present(q)' <=> Present(q)
                      /\ rows'[q].status = rows[q].status /\ rows'[q].decision = rows[q].decision
  BY <1>1, <1>3 DEF SameRows, Present
<1>7. \A u \in TaskIds : tasks'[u].run = tasks[u].run
  BY <1>1, <1>2 DEF SameTasks
<1>8. \A q \in Runs : rows[q].decision \in {0} \cup TaskIds
  BY DEF TypeOK, Row
<1> HIDE DEF r
<1>9. RowOK'
  BY <1>1, <1>3, <1>6, <1>7, <1>8 DEF Core, RowOK, SameRows, Present, Statuses
<1>10. TaskOK'
  <2>1. \A u \in TaskIds : tasks[u].pc # "none" => tasks[u].run \in Runs
    BY DEF Core, TaskOK, TypeOK, Task
  <2> QED BY <1>1, <1>2, <1>4, <1>6, <1>7, <2>1 DEF Core, TaskOK, SameTasks, r
<1>11. ExplainedOK'
  <2> SUFFICES ASSUME NEW q \in Runs, rows'[q].decision # 0,
                      rows'[q].explanation \notin {0, rows'[q].decision}
               PROVE  ~tasks'[rows'[q].decision].explained
    BY DEF ExplainedOK
  <2> DEFINE d == rows[q].decision
  <2>1. d \in TaskIds /\ rows'[q].decision = d /\ tasks[d].run = q
    BY <1>6, <1>8 DEF Core, RowOK
  <2>2. CASE d = t
    <3>1. q = r
      BY <2>1, <2>2 DEF r
    <3>2. Present(r)
      BY <1>1, <2>1, <3>1 DEF Core, RowOK, Present, TypeOK, Row
    <3>3. rows'[r].explanation # t
      BY <2>1, <2>2, <3>1
    <3>4. rows'[r] = rows[r] /\ tasks'[t].explained = tasks[t].explained
      BY <1>3, <3>2, <3>3
    <3> QED BY <2>1, <2>2, <3>1, <3>4 DEF Core, ExplainedOK
  <2>3. CASE d # t
    <3>1. q # r \/ ~Present(r)
      BY <1>1, <2>1, <2>3
    <3>2. rows'[q].explanation = rows[q].explanation
      BY <1>3, <3>1 DEF SameRows
    <3> QED BY <1>2, <2>1, <2>3, <3>2 DEF SameTasks, Core, ExplainedOK
  <2> QED BY <2>2, <2>3
<1>12. RunningIsDriven' /\ InOrder'
  <2>1. \A u \in TaskIds : tasks'[u].pc = tasks[u].pc \/ (tasks'[u].pc = "explained" /\ u = t)
    BY <1>2 DEF SameTasks
  <2> QED BY <1>1, <1>4, <1>6, <1>7, <2>1, DrivenStays, OrderStays DEF Core, Of
<1> QED BY <1>2, <1>3, <1>6, <1>9, <1>10, <1>11, <1>12 DEF Core

\* A pipeline enters the graph, or ends without a word: no row changes.
LEMMA QuietStep ==
  ASSUME TypeOK, Core, NEW t \in TaskIds, NEW pc \in {"graph", "silent"}, Goto(t, pc),
         tasks[t].pc \in {"queued", "graph", "explained"}, pc = "graph" => tasks[t].pc = "queued",
         busy \in {0, t}, busy' = 0, UNCHANGED <<rows, up, swept>>
  PROVE  Core'
<1>1. /\ SameTasks(TaskIds \ {t}) /\ tasks'[t].pc = pc /\ tasks'[t].run = tasks[t].run
      /\ tasks'[t].explained = tasks[t].explained
  BY GotoEffect DEF TypeOK, TaskPcs
<1>2. \A u \in TaskIds : tasks'[u].run = tasks[u].run /\ tasks'[u].explained = tasks[u].explained
  BY <1>1 DEF SameTasks
<1>3. \A q \in Runs : rows[q].decision \in {0} \cup TaskIds
  BY DEF TypeOK, Row
<1>4. RowOK' /\ ExplainedOK'
  BY <1>2, <1>3 DEF Core, RowOK, ExplainedOK
<1>5. TaskOK'
  <2> SUFFICES ASSUME NEW u \in TaskIds
               PROVE  /\ tasks'[u].pc = "none" <=> tasks'[u].run = NoRun
                      /\ tasks'[u].pc # "none" =>
                           rows'[tasks'[u].run].status \notin {"none", "pending_confirm"}
                      /\ tasks'[u].pc \in {"none", "queued", "graph", "decided"}
                           => ~tasks'[u].explained
                      /\ tasks'[u].pc \notin {"decided", "explained"}
    BY DEF TaskOK
  <2>1. CASE u = t
    BY <1>1, <2>1 DEF Core, TaskOK
  <2>2. CASE u # t
    <3>1. tasks'[u] = tasks[u] /\ tasks[u].pc \notin {"decided", "explained"}
      BY <1>1, <2>2 DEF SameTasks, Core, TaskOK, TaskIds
    <3> QED BY <3>1 DEF Core, TaskOK
  <2> QED BY <2>1, <2>2
<1>6. RunningIsDriven' /\ InOrder'
  <2>1. \A u \in TaskIds : tasks'[u].pc = tasks[u].pc \/ (tasks'[u].pc = pc /\ u = t)
    BY <1>1 DEF SameTasks
  <2> QED BY <1>2, <2>1, DrivenStays, OrderStays DEF Core, Of
<1> QED BY <1>4, <1>5, <1>6 DEF Core

\* start_evaluation and delete_run write a row that no pipeline is at.
LEMMA BlankStep ==
  ASSUME TypeOK, Core, Idle, NEW r \in Runs, NEW st \in {"pending_confirm", "deleted"},
         rows' \in [Runs -> Row], SameRows(Runs \ {r}), rows'[r].status = st,
         rows'[r].decision = 0, rows'[r].explanation = 0,
         st = "pending_confirm" => rows[r].status = "none",
         UNCHANGED <<tasks, busy, up, swept>>
  PROVE  Core'
<1>1. RowOK' /\ ExplainedOK'
  BY DEF Core, RowOK, ExplainedOK, SameRows
<1>2. TaskOK'
  <2>1. \A u \in TaskIds : tasks[u].pc \notin {"decided", "explained"}
    BY DEF Core, TaskOK, Idle, TaskIds
  <2>2. \A u \in TaskIds : tasks[u].pc # "none" => tasks[u].run \in Runs
    BY DEF Core, TaskOK, TypeOK, Task
  <2> QED BY <2>1, <2>2 DEF Core, TaskOK, SameRows
<1>3. RunningIsDriven' /\ InOrder'
  <2>1. \A q \in Runs : rows'[q].status = "running" => rows[q].status = "running"
    BY DEF SameRows
  <2> QED BY <2>1, DrivenStays, OrderStays DEF Core
<1> QED BY <1>1, <1>2, <1>3 DEF Core

\* The process dies with its pipelines; the rows stay as they are.
LEMMA CrashStep ==
  ASSUME TypeOK, Core, Crash
  PROVE  Core' /\ tasks' \in [TaskIds -> Task]
<1>1. /\ tasks' \in [TaskIds -> Task]
      /\ \A u \in TaskIds :
           /\ tasks'[u].run = tasks[u].run /\ tasks'[u].explained = tasks[u].explained
           /\ tasks'[u].pc \notin {"queued", "graph", "decided", "explained"}
           /\ tasks'[u].pc = "none" <=> tasks[u].pc = "none"
           /\ tasks'[u].pc = IF Live(u) THEN "dead" ELSE tasks[u].pc
  BY DEF Crash, TypeOK, Task, Live
<1>2. \A q \in Runs : rows[q].decision \in {0} \cup TaskIds
  BY DEF TypeOK, Row
<1>3. RowOK' /\ ExplainedOK'
  BY <1>1, <1>2 DEF Crash, Core, RowOK, ExplainedOK
<1>4. TaskOK'
  BY <1>1 DEF Crash, Core, TaskOK
<1>5. RunningIsDriven'
  <2> SUFFICES ASSUME NEW q \in Runs, rows[q].status = "running"
               PROVE  \E t \in Of(q)' : Newest(t)' /\ tasks'[t].pc \in {"silent", "dead"}
    BY DEF Crash, RunningIsDriven
  <2>1. PICK t \in Of(q) : Newest(t) /\ (Live(t) \/ tasks[t].pc \in {"silent", "dead"})
    BY DEF Core, RunningIsDriven
  <2>2. Of(q)' = Of(q) /\ t \in TaskIds /\ tasks[t].run = q /\ tasks'[t].run = q
    BY <1>1 DEF Of
  <2>3. Newest(t)'
    BY <2>1, <2>2 DEF Newest
  <2> QED BY <1>1, <2>1, <2>2, <2>3
<1>6. InOrder'
  BY <1>1, OrderStays DEF Core
<1> QED BY <1>1, <1>3, <1>4, <1>5, <1>6 DEF Core

\* _mark_orphaned_runs: every 'running' row is swept, or the sweep failed and none is.
LEMMA RestartStep ==
  ASSUME TypeOK, Core, Restart
  PROVE  /\ Core' /\ rows' \in [Runs -> Row]
         /\ \A q \in Runs : Present(q)' <=> Present(q)
<1>1. /\ rows' \in [Runs -> Row]
      /\ \A q \in Runs :
           /\ rows'[q].decision = rows[q].decision /\ rows'[q].explanation = rows[q].explanation
           /\ rows'[q].status # "running" \/ (rows'[q] = rows[q] /\ ~swept')
           /\ rows'[q].status = rows[q].status
              \/ (rows[q].status = "running" /\ rows'[q].status = "interrupted")
  BY DEF Restart, Swept, TypeOK, Row, Statuses
<1>2. \A q \in Runs : Present(q)' <=> Present(q)
  BY <1>1 DEF Present, Statuses
<1>3. RowOK' /\ ExplainedOK'
  BY <1>1 DEF Restart, Core, RowOK, ExplainedOK
<1>4. TaskOK'
  <2>1. \A u \in TaskIds : tasks[u].pc # "none" => tasks[u].run \in Runs
    BY DEF Core, TaskOK, TypeOK, Task
  <2> QED BY <1>1, <1>2, <2>1 DEF Restart, Core, TaskOK
<1>5. RunningIsDriven'
  <2> SUFFICES ASSUME NEW q \in Runs, rows[q].status = "running", ~swept'
               PROVE  \E t \in Of(q) : /\ Newest(t)
                                       /\ Live(t) \/ tasks[t].pc \in {"silent", "dead"}
    BY <1>1 DEF Restart, RunningIsDriven, Of, Newest, Live
  <2> QED BY DEF Core, RunningIsDriven
<1>6. InOrder'
  BY OrderStays DEF Restart, Core
<1> QED BY <1>1, <1>2, <1>3, <1>4, <1>5, <1>6 DEF Core
----------------------------------------------------------------------------
(* The invariant is inductive *)

\* start_evaluation inserts the setup and the row.
LEMMA StartStep ==
  ASSUME IInv, NEW r \in Runs, Start(r)
  PROVE  IInv'
<1>1. /\ rows' \in [Runs -> Row] /\ SameRows(Runs \ {r}) /\ rows'[r].status = "pending_confirm"
      /\ rows'[r].decision = 0 /\ rows'[r].explanation = 0
  BY DEF Start, IInv, TypeOK, Core, RowOK, Row, Statuses, SameRows
<1>2. Core'
  BY <1>1, BlankStep DEF IInv, Start
<1>3. TypeOK'
  BY <1>1 DEF Start, IInv, TypeOK
<1>4. SetupOutlivesRuns'
  BY <1>1 DEF Start, IInv, TypeOK, SetupOutlivesRuns, Present, SameRows
<1> QED BY <1>2, <1>3, <1>4 DEF IInv

\* delete_run, if the foreign key of another run does not stop it.
LEMMA DeleteStep ==
  ASSUME IInv, NEW r \in Runs, Delete(r)
  PROVE  IInv'
<1>1. /\ rows' \in [Runs -> Row] /\ SameRows(Runs \ {r}) /\ rows'[r].status = "deleted"
      /\ rows'[r].decision = 0 /\ rows'[r].explanation = 0
  BY DEF Delete, IInv, TypeOK, Row, SameRows
<1>2. Core'
  BY <1>1, BlankStep DEF IInv, Delete
<1>3. TypeOK'
  BY <1>1 DEF Delete, IInv, TypeOK
<1>4. SetupOutlivesRuns'
  BY <1>1 DEF Delete, SetupDeletable, IInv, TypeOK, SetupOutlivesRuns, Present, SameRows, Statuses
<1> QED BY <1>2, <1>3, <1>4 DEF IInv

\* confirm_run and re_evaluate restart a row, rerun_evaluation clones it.
LEMMA LaunchersStep ==
  ASSUME IInv, NEW r \in Runs, Confirm(r) \/ ReEvaluate(r) \/ \E new \in Runs : Rerun(r, new)
  PROVE  IInv'
<1>1. CASE Confirm(r) \/ ReEvaluate(r)
  <2>1. /\ rows' \in [Runs -> Row] /\ SameRows(Runs \ {r}) /\ rows'[r].status = "running"
        /\ rows'[r].decision = 0
    <3>1. CASE Confirm(r)
      BY <3>1, StatusEffect DEF Confirm, IInv, Core, RowOK, TypeOK, Statuses, Present
    <3>2. CASE ReEvaluate(r)
      <4> DEFINE row == ReEvaluatedRow(r)
      <4>1. row \in Row /\ row.status = "running" /\ row.decision = 0
        BY DEF ReEvaluatedRow, IInv, TypeOK, Row, Statuses
      <4>2. rows' = [rows EXCEPT ![r] = row]
        BY <3>2 DEF ReEvaluate, SetRow
      <4> HIDE DEF row
      <4> QED BY <4>1, <4>2 DEF IInv, TypeOK, SameRows
    <3> QED BY <1>1, <3>1, <3>2
  <2>2. /\ Idle /\ AddTask(r) /\ UNCHANGED <<setupOf, setups, busy, up, swept, crashes>>
        /\ Present(r)
    BY <1>1 DEF Confirm, ReEvaluate, Present, Statuses
  <2>3. Core'
    BY <2>1, <2>2, LaunchStep DEF IInv, Present, Statuses
  <2>4. TypeOK'
    BY <2>1, <2>2, AddEffect DEF IInv, TypeOK
  <2>5. SetupOutlivesRuns'
    BY <2>1, <2>2 DEF IInv, SetupOutlivesRuns, Present, SameRows
  <2> QED BY <2>3, <2>4, <2>5 DEF IInv
<1>2. ASSUME NEW new \in Runs, Rerun(r, new) PROVE IInv'
  <2>1. /\ rows' \in [Runs -> Row] /\ SameRows(Runs \ {new}) /\ rows'[new].status = "running"
        /\ rows'[new].decision = 0
    <3>1. [status |-> "running", decision |-> 0, explanation |-> 0] \in Row
      BY DEF Row, Statuses
    <3> QED BY <1>2, <3>1 DEF Rerun, IInv, TypeOK, SameRows
  <2>2. /\ Idle /\ AddTask(new) /\ UNCHANGED <<setups, busy, up, swept, crashes>>
        /\ Present(r) /\ setupOf' = [setupOf EXCEPT ![new] = setupOf[r]]
    BY <1>2 DEF Rerun, Present, Statuses
  <2>3. Core'
    BY <1>2, <2>1, <2>2, LaunchStep DEF IInv, Rerun
  <2>4. TypeOK'
    BY <2>1, <2>2, AddEffect DEF IInv, TypeOK
  <2>5. SetupOutlivesRuns'
    BY <2>1, <2>2 DEF IInv, TypeOK, SetupOutlivesRuns, Present, SameRows
  <2> QED BY <2>3, <2>4, <2>5 DEF IInv
<1> QED BY <1>1, <1>2

\* cancel_run, and the pipeline's ways to end; a busy one is between its commits.
LEMMA EndersStep ==
  ASSUME IInv, (\E r \in Runs : Cancel(r))
               \/ \E t \in TaskIds : TaskLoad(t) \/ TaskBlocked(t) \/ FinishTask(t)
  PROVE  IInv'
<1>1. ASSUME NEW r \in Runs, NEW s \in Ended \cup {"complete"}, SetStatus(r, s), Core',
             UNCHANGED <<setupOf, setups, up, swept, crashes>>,
             tasks' \in [TaskIds -> Task], busy' \in {0} \cup TaskIds
      PROVE  IInv'
  <2>1. /\ rows' \in [Runs -> Row] /\ \A q \in Runs : Present(q)' <=> Present(q)
    BY <1>1, StatusEffect DEF IInv, TypeOK, Present, SameRows, Ended, Statuses
  <2>2. TypeOK'
    BY <1>1, <2>1 DEF IInv, TypeOK
  <2>3. SetupOutlivesRuns'
    BY <1>1, <2>1 DEF IInv, SetupOutlivesRuns
  <2> QED BY <1>1, <2>2, <2>3 DEF IInv
<1>2. ASSUME NEW r \in Runs, Cancel(r) PROVE IInv'
  <2>1. SetStatus(r, "interrupted") /\ "interrupted" \in Ended
    BY <1>2 DEF Cancel, CancelStatus, Ended
  <2>2. Core'
    BY <1>2, <2>1, EndStep DEF IInv, Cancel
  <2> QED BY <1>1, <1>2, <2>1, <2>2 DEF Cancel, IInv, TypeOK
<1>3. ASSUME NEW t \in TaskIds, NEW s \in Ended \cup {"complete"}, SetStatus(tasks[t].run, s),
             s = "complete" => (Present(tasks[t].run) => rows[tasks[t].run].decision # 0),
             tasks[t].pc # "none", Goto(t, "done"), busy \in {0, t}, busy' = 0,
             UNCHANGED <<setupOf, setups, up, swept, crashes>>
      PROVE  IInv'
  <2>1. /\ tasks[t].run \in Runs
        /\ rows[tasks[t].run].status \notin {"none", "pending_confirm"}
    BY <1>3 DEF IInv, Core, TaskOK, TypeOK, Task
  <2>2. Core'
    BY <1>3, <2>1, EndStep DEF IInv
  <2>3. tasks' \in [TaskIds -> Task]
    BY <1>3, GotoEffect DEF IInv, TypeOK, TaskPcs
  <2> QED BY <1>1, <1>3, <2>1, <2>2, <2>3
<1>4. ASSUME NEW t \in TaskIds, NEW pc \in {"graph", "silent"}, Goto(t, pc), UNCHANGED rows,
             tasks[t].pc \in {"queued", "graph", "explained"},
             pc = "graph" => tasks[t].pc = "queued", busy \in {0, t}, busy' = 0,
             UNCHANGED <<setupOf, setups, up, swept, crashes>>
      PROVE  IInv'
  <2>1. Core'
    BY <1>4, QuietStep DEF IInv
  <2>2. TypeOK'
    BY <1>4, GotoEffect DEF IInv, TypeOK, TaskPcs
  <2>3. SetupOutlivesRuns'
    BY <1>4 DEF IInv, SetupOutlivesRuns, Present
  <2> QED BY <2>1, <2>2, <2>3 DEF IInv
<1>5. ASSUME NEW t \in TaskIds, NEW s \in Ended \cup {"complete"}, EndTask(t, s),
             s = "complete" => (Present(tasks[t].run) => rows[tasks[t].run].decision # 0),
             tasks[t].pc \in {"queued", "graph", "explained"}, busy \in {0, t}, busy' = 0,
             UNCHANGED <<setupOf, setups, up, swept, crashes>>
      PROVE  IInv'
  <2>1. CASE SetStatus(tasks[t].run, s) /\ Goto(t, "done")
    BY <1>3, <1>5, <2>1
  <2>2. CASE UNCHANGED rows /\ Goto(t, "silent")
    BY <1>4, <1>5, <2>2
  <2> QED BY <1>5, <2>1, <2>2 DEF EndTask
<1>6. ASSUME NEW t \in TaskIds, FinishTask(t) PROVE IInv'
  <2>1. /\ busy = t /\ t # 0 /\ (Present(tasks[t].run) => rows[tasks[t].run].decision = t)
    BY <1>6 DEF FinishTask, IInv, Core, TaskOK, TaskIds
  <2>2. PICK s \in Ended \cup {"complete"} : EndTask(t, s)
    BY <1>6 DEF FinishTask, Ended
  <2> QED BY <1>5, <1>6, <2>1, <2>2 DEF FinishTask
<1>7. ASSUME NEW t \in TaskIds, TaskLoad(t) \/ TaskBlocked(t) PROVE IInv'
  <2>1. /\ busy = 0 /\ busy' = 0 /\ UNCHANGED <<setupOf, setups, up, swept, crashes>>
        /\ tasks[t].pc \in {"queued", "graph"}
    BY <1>7 DEF TaskLoad, TaskBlocked, Idle
  <2>2. CASE TaskLoad(t) /\ Goto(t, "graph") /\ UNCHANGED rows
    BY <1>4, <2>1, <2>2 DEF TaskLoad
  <2>3. CASE EndTask(t, "blocked")
    <3>1. PICK s \in Ended \cup {"complete"} : s = "blocked"
      BY DEF Ended
    <3> QED BY <1>5, <2>1, <2>3, <3>1
  <2> QED BY <1>7, <2>2, <2>3 DEF TaskLoad, TaskBlocked
<1> QED BY <1>2, <1>6, <1>7

\* Every step of an endpoint, of a task, of a crash or of a restart keeps the invariant.
LEMMA IInvStep == IInv /\ [Next]_vars => IInv'
<1> SUFFICES ASSUME IInv, [Next]_vars PROVE IInv'
  OBVIOUS
<1>1. CASE \E r \in Runs : Handler(r)
  BY <1>1, StartStep, DeleteStep, LaunchersStep, EndersStep DEF Handler
<1>3. ASSUME NEW t \in TaskIds, TaskStep(t) PROVE IInv'
  <2>1. CASE TaskSilentlyBlocked(t)
    <3>1. Core'
      BY <2>1, QuietStep DEF IInv, TaskSilentlyBlocked, Idle
    <3>2. TypeOK'
      BY <2>1, GotoEffect DEF IInv, TypeOK, TaskPcs, TaskSilentlyBlocked
    <3> QED BY <2>1, <3>1, <3>2 DEF IInv, SetupOutlivesRuns, Present, TaskSilentlyBlocked
  <2>2. CASE SaveDecision(t)
    <3>1. TypeOK'
      BY <2>2, DecideStep, GotoEffect DEF IInv, TypeOK, TaskPcs, SaveDecision
    <3> QED BY <2>2, <3>1, DecideStep DEF IInv, SetupOutlivesRuns, SaveDecision
  <2>3. CASE SaveExplanation(t)
    <3>1. TypeOK'
      BY <2>3, ExplainStep DEF IInv, TypeOK, SaveExplanation
    <3> QED BY <2>3, <3>1, ExplainStep DEF IInv, SetupOutlivesRuns, SaveExplanation
  <2> QED BY <1>3, <2>1, <2>2, <2>3, EndersStep DEF TaskStep
<1>4. CASE Crash
  <2>1. TypeOK'
    <3>1. tasks' \in [TaskIds -> Task]
      BY <1>4, CrashStep DEF IInv
    <3>2. crashes' \in 0 .. MaxCrashes
      BY <1>4, BoundsAssumption DEF Crash, IInv, TypeOK
    <3> QED BY <1>4, <3>1, <3>2 DEF Crash, IInv, TypeOK
  <2> QED BY <1>4, <2>1, CrashStep DEF Crash, IInv, SetupOutlivesRuns, Present
<1>5. CASE Restart
  <2>1. TypeOK'
    BY <1>5, RestartStep DEF Restart, IInv, TypeOK
  <2> QED BY <1>5, <2>1, RestartStep DEF Restart, IInv, SetupOutlivesRuns
<1>6. CASE UNCHANGED vars
  BY <1>6 DEF vars, IInv, TypeOK, Core, RowOK, TaskOK, ExplainedOK, RunningIsDriven, Present,
     Live, Of, Newest, InOrder, SetupOutlivesRuns
<1> QED BY <1>1, <1>3, <1>4, <1>5, <1>6 DEF Next

----------------------------------------------------------------------------
(* Theorems *)

\* The inductive invariant holds throughout.
THEOREM RunInvariance == Spec => []IInv
BY IInvInit, IInvStep, PTL DEF Spec

\* Every variable keeps its shape.
THEOREM TypeCorrect == Spec => []TypeOK
<1>1. IInv => TypeOK
  BY DEF IInv
<1> QED BY <1>1, RunInvariance, PTL

\* _db_save_decision, re_evaluate, _mark_orphaned_runs: the status of a run is what its
\* pipelines and its columns say, whatever overlaps, is cancelled or dies in between.
THEOREM StatusTruth == Spec => []StatusIsTruthful
<1>1. IInv => StatusIsTruthful
  <2> SUFFICES ASSUME IInv PROVE StatusIsTruthful
    OBVIOUS
  <2>1. CompleteHasOwnDecision
    BY DEF IInv, Core, RowOK, CompleteHasOwnDecision
  <2>2. PendingIsUntouched
    BY RunsAssumption DEF IInv, Core, RowOK, TaskOK, PendingIsUntouched, Of
  <2> QED BY <2>1, <2>2 DEF IInv, Core, StatusIsTruthful
<1> QED BY <1>1, RunInvariance, PTL

\* delete_run: no run is left without the setup it was evaluated with.
THEOREM SetupsOutlive == Spec => []SetupOutlivesRuns
<1>1. IInv => SetupOutlivesRuns
  BY DEF IInv
<1> QED BY <1>1, RunInvariance, PTL

\* A report never explains another decision than the stored one, unless the deciding
\* pipeline could not store its own explanation.
THEOREM ExplanationMatches == Spec => []ExplanationMatchesDecision
<1>1. IInv => ExplanationMatchesDecision
  BY DEF IInv, Core, ExplainedOK, ExplanationMatchesDecision
<1> QED BY <1>1, RunInvariance, PTL

\* A deleted run stays deleted.
THEOREM DeletedStays == Spec => DeletedForGood
<1>1. IInv /\ [Next]_vars
        => [\A r \in Runs : rows[r].status = "deleted" => rows'[r] = rows[r]]_vars
  <2> SUFFICES ASSUME IInv, Next, NEW r \in Runs, rows[r].status = "deleted"
               PROVE  rows'[r] = rows[r]
    OBVIOUS
  <2>1. ~Present(r) /\ rows \in [Runs -> Row]
    BY DEF Present, Statuses, IInv, TypeOK
  <2>2. ASSUME NEW q \in Runs, NEW new, SetRow(q, new) PROVE rows'[r] = rows[r]
    BY <2>1, <2>2 DEF SetRow
  <2>3. ASSUME NEW q \in Runs, Handler(q) PROVE rows'[r] = rows[r]
    BY <2>1, <2>2, <2>3 DEF Handler, Start, Confirm, ReEvaluate, Cancel, Delete, Rerun, SetStatus
  <2>4. ASSUME NEW t \in TaskIds, TaskStep(t) PROVE rows'[r] = rows[r]
    <3>1. tasks[t].pc # "none" => tasks[t].run \in Runs
      BY DEF IInv, Core, TaskOK, TypeOK, Task
    <3>2. CASE SaveDecision(t) \/ SaveExplanation(t)
      BY <2>1, <3>1, <3>2 DEF SaveDecision, DecisionRow, SaveExplanation, ExplainedRow
    <3>3. CASE TaskLoad(t) \/ TaskBlocked(t) \/ TaskSilentlyBlocked(t) \/ FinishTask(t)
      BY <2>2, <3>1, <3>3 DEF TaskLoad, TaskBlocked, TaskSilentlyBlocked, FinishTask, EndTask, SetStatus
    <3> QED BY <2>4, <3>2, <3>3 DEF TaskStep
  <2> QED BY <2>3, <2>4 DEF Next, Crash, Restart, Swept
<1> QED BY <1>1, RunInvariance, PTL DEF Spec, DeletedForGood
----------------------------------------------------------------------------
(* The abstract life of a run *)

\* A run whose decision was just made is complete: the deciding pipeline has the event loop.
AtWork ==
  \A t \in TaskIds : tasks[t].pc \in {"decided", "explained"} /\ Present(tasks[t].run)
                       => rows[tasks[t].run].status = "complete"

\* The variables of RunLife.
LStatus  == [r \in Runs |-> rows[r].status]
LDecided == {r \in Runs : rows[r].decision # 0}
LOpen    == [r \in Runs |-> Cardinality(Undecided(r))]

\* The number of undecided pipelines follows the pipelines.
LEMMA OpenIsNat == \A r \in Runs : IsFiniteSet(Undecided(r)) /\ LOpen[r] \in Nat
<1>1. IsFiniteSet(TaskIds)
  BY BoundsAssumption, FS_Interval DEF TaskIds
<1>2. \A r \in Runs : Undecided(r) \subseteq TaskIds
  BY DEF Undecided, Of
<1>3. \A r \in Runs : IsFiniteSet(Undecided(r))
  BY <1>1, <1>2, FS_Subset
<1> QED BY <1>3, FS_CardinalityType DEF LOpen

LEMMA OpenStays ==
  ASSUME \A r \in Runs : Undecided(r)' = Undecided(r)
  PROVE  LOpen' = LOpen
BY DEF LOpen

\* A pipeline starts.
LEMMA OpenGrows ==
  ASSUME TypeOK, Core, NEW r \in Runs, AddTask(r)
  PROVE  LOpen' = [LOpen EXCEPT ![r] = @ + 1]
<1>1. PICK t \in TaskIds : /\ tasks[t].pc = "none" /\ SameTasks(TaskIds \ {t})
                           /\ tasks'[t].run = r /\ tasks'[t].pc = "queued"
  BY AddEffect, ZenonT(30) DEF TypeOK
<1>2. tasks[t].run = NoRun
  BY <1>1 DEF Core, TaskOK
<1>3. /\ Undecided(r)' = Undecided(r) \cup {t} /\ t \notin Undecided(r)
      /\ \A q \in Runs \ {r} : Undecided(q)' = Undecided(q)
  BY <1>1, <1>2, RunsAssumption DEF Undecided, Of, SameTasks
<1>4. Cardinality(Undecided(r) \cup {t}) = Cardinality(Undecided(r)) + 1
  BY <1>3, OpenIsNat, FS_AddElement
<1> QED BY <1>3, <1>4 DEF LOpen

\* A pipeline decides or ends.
LEMMA OpenFalls ==
  ASSUME TypeOK, Core, NEW t \in TaskIds, tasks[t].pc \in {"queued", "graph"},
         NEW r \in Runs, r = tasks[t].run,
         NEW pc \in {"decided", "done", "silent"}, Goto(t, pc)
  PROVE  LOpen[r] > 0 /\ LOpen' = [LOpen EXCEPT ![r] = @ - 1]
<1>1. /\ SameTasks(TaskIds \ {t}) /\ tasks'[t].pc = pc /\ tasks'[t].run = r
  BY GotoEffect DEF TypeOK, TaskPcs
<1>2. /\ Undecided(r)' = Undecided(r) \ {t} /\ t \in Undecided(r)
      /\ \A q \in Runs \ {r} : Undecided(q)' = Undecided(q)
  BY <1>1 DEF Undecided, Of, SameTasks
<1>3. Cardinality(Undecided(r) \ {t}) = Cardinality(Undecided(r)) - 1
  BY <1>2, OpenIsNat, FS_RemoveElement
<1>4. IsFiniteSet(Undecided(r) \ {t})
  BY OpenIsNat, FS_RemoveElement
<1>5. Cardinality(Undecided(r) \ {t}) \in Nat /\ Cardinality(Undecided(r)) \in Nat
  BY <1>4, OpenIsNat, FS_CardinalityType
<1>6. Cardinality(Undecided(r)) > 0
  BY <1>3, <1>5
<1>7. LOpen[r] = Cardinality(Undecided(r))
  BY DEF LOpen
<1>8. \A q \in Runs : Cardinality(Undecided(q))' = IF q = r THEN LOpen[r] - 1 ELSE LOpen[q]
  <2>1. \A q \in Runs \ {r} : LOpen[q] = Cardinality(Undecided(q))
    BY DEF LOpen
  <2> QED BY <1>2, <1>3, <1>7, <2>1
<1>9. LOpen' = [q \in Runs |-> IF q = r THEN LOpen[r] - 1 ELSE LOpen[q]]
  BY <1>8 DEF LOpen
<1>10. DOMAIN LOpen = Runs
  BY DEF LOpen
<1> HIDE DEF LOpen
<1>11. LOpen' = [LOpen EXCEPT ![r] = @ - 1]
  BY <1>9, <1>10
<1> QED BY <1>6, <1>7, <1>11

\* A pipeline goes on without deciding or ending, or after both.
LEMMA OpenUnmoved ==
  ASSUME TypeOK, NEW t \in TaskIds, SameTasks(TaskIds \ {t}), tasks'[t].run = tasks[t].run,
         tasks[t].pc \in {"queued", "graph"} <=> tasks'[t].pc \in {"queued", "graph"}
  PROVE  LOpen' = LOpen
<1>1. \A r \in Runs : Undecided(r)' = Undecided(r)
  BY DEF Undecided, Of, SameTasks
<1> QED BY <1>1, OpenStays

\* What one row shows when it alone changes.
LEMMA RowShows ==
  ASSUME rows \in [Runs -> Row], rows' \in [Runs -> Row], NEW r \in Runs, SameRows(Runs \ {r})
  PROVE  /\ LStatus' = [LStatus EXCEPT ![r] = rows'[r].status]
         /\ rows'[r].decision = 0 => LDecided' = LDecided \ {r}
         /\ rows'[r].decision # 0 => LDecided' = LDecided \cup {r}
         /\ rows'[r].decision = rows[r].decision => LDecided' = LDecided
         /\ rows'[r].status = rows[r].status => LStatus' = LStatus
BY DEF LStatus, LDecided, SameRows

\* The status of a run is set, if the run is still there.
LEMMA StatusShows ==
  ASSUME rows \in [Runs -> Row], NEW r \in Runs, NEW s \in Statuses, SetStatus(r, s)
  PROVE  /\ LDecided' = LDecided
         /\ Present(r) => LStatus' = [LStatus EXCEPT ![r] = s]
         /\ ~Present(r) => LStatus' = LStatus
<1>1. /\ rows' \in [Runs -> Row] /\ SameRows(Runs \ {r})
      /\ Present(r) => rows'[r].status = s /\ rows'[r].decision = rows[r].decision
      /\ ~Present(r) => rows'[r] = rows[r]
  BY StatusEffect
<1> QED BY <1>1, RowShows

\* While one pipeline is between its commits no handler runs, and none is otherwise.
LEMMA AtWorkStep == IInv /\ AtWork /\ [Next]_vars => AtWork'
<1> SUFFICES ASSUME IInv, AtWork, [Next]_vars PROVE AtWork'
  OBVIOUS
<1>1. \A t \in TaskIds : /\ tasks[t].pc \in {"decided", "explained"} => busy = t
                         /\ tasks[t].pc # "none" => tasks[t].run \in Runs
                         /\ t # 0
  BY DEF IInv, Core, TaskOK, TypeOK, Task, TaskIds
<1>2. ASSUME Idle, \A t \in TaskIds : tasks'[t].pc \in {"decided", "explained"} =>
                                        tasks[t].pc \in {"decided", "explained"}
      PROVE  AtWork'
  BY <1>1, <1>2 DEF AtWork, Idle
<1>3. CASE \E r \in Runs : Handler(r)
  <2>1. Idle
    BY <1>3 DEF Handler, Start, Confirm, ReEvaluate, Cancel, Delete, Rerun
  <2>2. tasks' = tasks \/ \E r \in Runs : AddTask(r)
    BY <1>3 DEF Handler, Start, Confirm, ReEvaluate, Cancel, Delete, Rerun
  <2>3. ASSUME NEW r \in Runs, AddTask(r), NEW t \in TaskIds,
               tasks'[t].pc \in {"decided", "explained"}
        PROVE  tasks[t].pc \in {"decided", "explained"}
    BY <2>3, AddEffect DEF IInv, TypeOK, SameTasks
  <2> QED BY <1>2, <2>1, <2>2, <2>3
<1>5. ASSUME NEW t \in TaskIds, TaskStep(t) PROVE AtWork'
  <2>1. ASSUME Idle, NEW pc \in {"graph", "done", "silent"}, Goto(t, pc) PROVE AtWork'
    <3>1. SameTasks(TaskIds \ {t}) /\ tasks'[t].pc = pc
      BY <2>1, GotoEffect DEF IInv, TypeOK, TaskPcs
    <3> QED BY <1>2, <2>1, <3>1 DEF SameTasks
  <2>2. CASE TaskLoad(t) \/ TaskBlocked(t) \/ TaskSilentlyBlocked(t)
    BY <2>1, <2>2 DEF TaskLoad, TaskBlocked, TaskSilentlyBlocked, EndTask
  <2>3. CASE SaveDecision(t)
    <3>1. SameTasks(TaskIds \ {t}) /\ tasks'[t].run = tasks[t].run /\ tasks[t].run \in Runs
      BY <1>1, <2>3, GotoEffect DEF SaveDecision, IInv, TypeOK, TaskPcs
    <3>2. \A u \in TaskIds \ {t} : tasks'[u].pc \notin {"decided", "explained"}
      BY <1>1, <2>3, <3>1 DEF SaveDecision, Idle, SameTasks
    <3>3. Present(tasks[t].run)' => rows'[tasks[t].run].status = "complete"
      BY <2>3, <3>1 DEF SaveDecision, DecisionRow, IInv, TypeOK, Row, Present, Statuses
    <3> QED BY <3>1, <3>2, <3>3 DEF AtWork
  <2>4. CASE SaveExplanation(t)
    <3>1. tasks[t].pc = "decided" /\ tasks[t].run \in Runs
      BY <1>1, <2>4 DEF SaveExplanation
    <3>2. \A u \in TaskIds : /\ tasks'[u].run = tasks[u].run
                             /\ tasks'[u].pc \in {"decided", "explained"} =>
                                  tasks[u].pc \in {"decided", "explained"}
      BY <2>4, <3>1 DEF SaveExplanation, Goto, IInv, TypeOK, Task
    <3>3. \A r \in Runs : rows'[r].status = rows[r].status
      BY <2>4, <3>1 DEF SaveExplanation, ExplainedRow, IInv, TypeOK, Row
    <3> QED BY <1>1, <3>2, <3>3 DEF AtWork, Present
  <2>5. CASE FinishTask(t)
    <3>1. busy = t /\ SameTasks(TaskIds \ {t}) /\ tasks'[t].pc \in {"done", "silent"}
      BY <1>1, <2>5, GotoEffect DEF FinishTask, EndTask, IInv, TypeOK, TaskPcs
    <3> QED BY <1>1, <3>1 DEF AtWork, SameTasks
  <2> QED BY <1>5, <2>2, <2>3, <2>4, <2>5 DEF TaskStep
<1>6. CASE Crash
  BY <1>6 DEF Crash, Live, AtWork, IInv, TypeOK, Task
<1>7. CASE Restart
  BY <1>1, <1>7 DEF Restart, Swept, AtWork, Present, Statuses
<1>8. CASE UNCHANGED vars
  BY <1>8 DEF vars, AtWork, Present
<1> QED BY <1>3, <1>5, <1>6, <1>7, <1>8 DEF Next

\* Handlers: what each does to its run is one of the abstract steps.
LEMMA HandlerLives ==
  ASSUME IInv, NEW r \in Runs, Handler(r)
  PROVE  [Life!Next]_(Life!vars)
<1>1. ASSUME UNCHANGED <<LStatus, LDecided, LOpen>> PROVE UNCHANGED Life!vars
  BY <1>1 DEF Life!vars, LStatus, LDecided, LOpen
<1>2. rows \in [Runs -> Row] /\ DOMAIN LStatus = Runs /\ \A q \in Runs : LStatus[q] = rows[q].status
  BY DEF LStatus, IInv, TypeOK
<1>3. UNCHANGED tasks => LOpen' = LOpen
  BY DEF LOpen, Undecided, Of
<1>4. ASSUME NEW q \in Runs, AddTask(q), rows' \in [Runs -> Row], SameRows(Runs \ {q}),
             rows'[q].status = "running", rows'[q].decision = 0,
             rows[q].status \in {"none", "pending_confirm", "complete", "blocked", "interrupted"}
      PROVE  [Life!Next]_(Life!vars)
  <2>1. LStatus' = [LStatus EXCEPT ![q] = "running"] /\ LDecided' = LDecided \ {q}
    BY <1>2, <1>4, RowShows
  <2>2. LOpen' = [LOpen EXCEPT ![q] = @ + 1]
    BY <1>4, OpenGrows DEF IInv
  <2>3. Life!Launch(q)
    BY <1>2, <1>4, <2>1, <2>2 DEF Life!Launch, Life!Ended, LStatus, LDecided, LOpen
  <2> QED BY <2>3 DEF Life!Next
<1>5. CASE Start(r)
  <2>1. /\ rows' \in [Runs -> Row] /\ SameRows(Runs \ {r}) /\ rows'[r].status = "pending_confirm"
        /\ rows'[r].decision = rows[r].decision
    BY <1>2, <1>5 DEF Start, Row, Statuses, SameRows
  <2>2. LStatus' = [LStatus EXCEPT ![r] = "pending_confirm"] /\ LDecided' = LDecided
    BY <1>2, <2>1, RowShows
  <2>3. Life!Create(r)
    BY <1>2, <1>3, <1>5, <2>2 DEF Start, Life!Create, LStatus, LDecided, LOpen
  <2> QED BY <2>3 DEF Life!Next
<1>7. CASE Confirm(r)
  <2>1. /\ rows' \in [Runs -> Row] /\ SameRows(Runs \ {r}) /\ rows'[r].status = "running"
        /\ rows'[r].decision = 0
    BY <1>2, <1>7, StatusEffect DEF Confirm, IInv, Core, RowOK, Present, Statuses
  <2> QED BY <1>4, <1>7, <2>1 DEF Confirm
<1>8. CASE ReEvaluate(r)
  <2> DEFINE row == ReEvaluatedRow(r)
  <2>1. row \in Row /\ row.status = "running" /\ row.decision = 0
    BY <1>2 DEF ReEvaluatedRow, Row, Statuses
  <2>2. rows' = [rows EXCEPT ![r] = row]
    BY <1>8 DEF ReEvaluate, SetRow
  <2> HIDE DEF row
  <2>3. /\ rows' \in [Runs -> Row] /\ SameRows(Runs \ {r}) /\ rows'[r].status = "running"
        /\ rows'[r].decision = 0
    BY <1>2, <2>1, <2>2 DEF SameRows
  <2> QED BY <1>4, <1>8, <2>3 DEF ReEvaluate, Present, Statuses
<1>9. CASE Cancel(r)
  <2>1. LStatus' = [LStatus EXCEPT ![r] = "interrupted"] /\ LDecided' = LDecided
    BY <1>2, <1>9, StatusShows DEF Cancel, CancelStatus, Present, Statuses
  <2>2. Life!Cancel(r)
    BY <1>2, <1>3, <1>9, <2>1 DEF Cancel, Life!Cancel, LStatus, LDecided, LOpen
  <2> QED BY <2>2 DEF Life!Next
<1>10. CASE Delete(r)
  <2>1. /\ rows' \in [Runs -> Row] /\ SameRows(Runs \ {r}) /\ rows'[r].status = "deleted"
        /\ rows'[r].decision = 0
    BY <1>2, <1>10 DEF Delete, Row, SameRows
  <2>2. LStatus' = [LStatus EXCEPT ![r] = "deleted"] /\ LDecided' = LDecided \ {r}
    BY <1>2, <2>1, RowShows
  <2>3. rows[r].status \in {"pending_confirm", "complete", "blocked", "interrupted"}
    BY <1>10 DEF Delete, Present, Statuses
  <2>4. Life!Delete(r)
    BY <1>2, <1>3, <1>10, <2>2, <2>3 DEF Delete, Life!Delete, Life!Ended, LStatus, LDecided, LOpen
  <2> QED BY <2>4 DEF Life!Next
<1>11. ASSUME NEW new \in Runs, Rerun(r, new) PROVE [Life!Next]_(Life!vars)
  <2>1. [status |-> "running", decision |-> 0, explanation |-> 0] \in Row
    BY DEF Row, Statuses
  <2>2. /\ rows' \in [Runs -> Row] /\ SameRows(Runs \ {new}) /\ rows'[new].status = "running"
        /\ rows'[new].decision = 0
    BY <1>2, <1>11, <2>1 DEF Rerun, SameRows
  <2> QED BY <1>4, <1>11, <2>2 DEF Rerun
<1> QED BY <1>5, <1>7, <1>8, <1>9, <1>10, <1>11 DEF Handler

\* Pipelines.
LEMMA TaskLives ==
  ASSUME IInv, AtWork, NEW t \in TaskIds, TaskStep(t)
  PROVE  [Life!Next]_(Life!vars)
<1>0. PICK r : r = tasks[t].run
  OBVIOUS
<1>1. ASSUME UNCHANGED <<LStatus, LDecided, LOpen>> PROVE UNCHANGED Life!vars
  BY <1>1 DEF Life!vars, LStatus, LDecided, LOpen
<1>2. rows \in [Runs -> Row] /\ DOMAIN LStatus = Runs /\ \A q \in Runs : LStatus[q] = rows[q].status
  BY DEF LStatus, IInv, TypeOK
<1>3. /\ r \in Runs /\ tasks[t].pc # "none" /\ t # 0
      /\ rows[r].status \in {"complete", "blocked", "interrupted", "running", "deleted"}
      /\ Present(r) <=> rows[r].status # "deleted"
  <2>1. tasks[t].pc # "none"
    BY DEF TaskStep, TaskLoad, TaskBlocked, TaskSilentlyBlocked, SaveDecision, SaveExplanation,
       FinishTask
  <2>2. r \in Runs /\ rows[r].status \notin {"none", "pending_confirm"} /\ t # 0
    BY <1>0, <2>1 DEF IInv, Core, TaskOK, TypeOK, Task, TaskIds
  <2> QED BY <1>2, <2>1, <2>2 DEF Row, Statuses, Present
\* The pipeline gives up.
<1>4. ASSUME tasks[t].pc \in {"queued", "graph"}, NEW pc \in {"done", "silent"}, Goto(t, pc),
             UNCHANGED rows \/ SetStatus(r, "blocked")
      PROVE  [Life!Next]_(Life!vars)
  <2>1. LOpen[r] > 0 /\ LOpen' = [LOpen EXCEPT ![r] = @ - 1]
    BY <1>0, <1>3, <1>4, OpenFalls DEF IInv
  <2>2. /\ LDecided' = LDecided
        /\ \/ Present(r) /\ LStatus' = [LStatus EXCEPT ![r] = "blocked"]
           \/ LStatus' = LStatus
    <3>1. CASE UNCHANGED rows
      BY <3>1 DEF LStatus, LDecided
    <3>2. CASE SetStatus(r, "blocked")
      BY <1>2, <1>3, <3>2, StatusShows DEF Statuses
    <3> QED BY <1>4, <3>1, <3>2
  <2>3. Life!GiveUp(r)
    BY <1>2, <1>3, <2>1, <2>2 DEF Life!GiveUp, Life!Close, Life!Ended, LStatus, LDecided, LOpen
  <2> QED BY <1>3, <2>3 DEF Life!Next
<1>5. CASE TaskLoad(t) /\ Goto(t, "graph") /\ UNCHANGED rows
  <2>1. LOpen' = LOpen
    <3>1. /\ SameTasks(TaskIds \ {t}) /\ tasks'[t].pc = "graph" /\ tasks'[t].run = tasks[t].run
          /\ tasks[t].pc = "queued"
      BY <1>5, GotoEffect DEF TaskLoad, IInv, TypeOK, TaskPcs
    <3> QED BY <3>1, OpenUnmoved DEF IInv
  <2> QED BY <1>1, <1>5, <2>1 DEF LStatus, LDecided
<1>6. CASE \/ TaskLoad(t) /\ ~ (Goto(t, "graph") /\ UNCHANGED rows)
           \/ TaskBlocked(t) \/ TaskSilentlyBlocked(t)
  <2>1. /\ tasks[t].pc \in {"queued", "graph"}
        /\ \E pc \in {"done", "silent"} : Goto(t, pc)
        /\ UNCHANGED rows \/ SetStatus(r, "blocked")
    BY <1>0, <1>6 DEF TaskLoad, TaskBlocked, TaskSilentlyBlocked, EndTask
  <2> QED BY <1>4, <2>1
<1>7. CASE SaveDecision(t)
  <2>1. LOpen[r] > 0 /\ LOpen' = [LOpen EXCEPT ![r] = @ - 1]
    BY <1>0, <1>3, <1>7, OpenFalls DEF SaveDecision, IInv
  <2>2. CASE Present(r)
    <3> DEFINE new == [rows[r] EXCEPT !.decision = t, !.status = "complete"]
    <3>1. new \in Row /\ new.status = "complete" /\ new.decision = t
      BY <1>2, <1>3 DEF Row, Statuses
    <3>2. rows' = [rows EXCEPT ![r] = new]
      BY <1>0, <1>2, <1>3, <1>7, <2>2 DEF SaveDecision, DecisionRow
    <3> HIDE DEF new
    <3>3. /\ rows' \in [Runs -> Row] /\ SameRows(Runs \ {r}) /\ rows'[r].status = "complete"
          /\ rows'[r].decision = t
      BY <1>2, <1>3, <3>1, <3>2 DEF SameRows
    <3>4. LStatus' = [LStatus EXCEPT ![r] = "complete"] /\ LDecided' = LDecided \cup {r}
      BY <1>2, <1>3, <3>3, RowShows
    <3>5. Life!Decide(r)
      BY <1>2, <1>3, <2>1, <2>2, <3>4 DEF Life!Decide, Life!Close, Life!Ended, LStatus, LDecided, LOpen
    <3> QED BY <1>3, <3>5 DEF Life!Next
  <2>3. CASE ~Present(r)
    <3>1. \A q \in Runs : rows'[q] = rows[q]
      BY <1>0, <1>2, <1>3, <1>7, <2>3 DEF SaveDecision, DecisionRow
    <3>2. LStatus' = LStatus /\ LDecided' = LDecided
      BY <3>1 DEF LStatus, LDecided
    <3>3. Life!Decide(r)
      BY <1>2, <1>3, <2>1, <2>3, <3>2 DEF Life!Decide, Life!Close, LStatus, LDecided, LOpen
    <3> QED BY <1>3, <3>3 DEF Life!Next
  <2> QED BY <2>2, <2>3
<1>8. CASE SaveExplanation(t)
  <2>1. \A q \in Runs : rows'[q].status = rows[q].status /\ rows'[q].decision = rows[q].decision
    BY <1>0, <1>2, <1>3, <1>8 DEF SaveExplanation, ExplainedRow, Row
  <2>2. /\ SameTasks(TaskIds \ {t}) /\ tasks'[t].pc = "explained" /\ tasks'[t].run = tasks[t].run
        /\ tasks[t].pc = "decided"
    BY <1>8, GotoEffect DEF SaveExplanation, IInv, TypeOK, TaskPcs, Task, SameTasks
  <2>3. LOpen' = LOpen
    BY <2>2, OpenUnmoved DEF IInv
  <2>4. LStatus' = LStatus /\ LDecided' = LDecided
    BY <2>1 DEF LStatus, LDecided
  <2> QED BY <1>1, <2>3, <2>4
<1>9. CASE FinishTask(t)
  <2>1. tasks[t].pc = "explained" /\ (Present(r) => rows[r].status = "complete")
    BY <1>0, <1>9 DEF FinishTask, AtWork
  <2>2. LOpen' = LOpen
    <3>1. /\ SameTasks(TaskIds \ {t}) /\ tasks'[t].run = tasks[t].run
          /\ tasks'[t].pc \in {"done", "silent"}
      BY <1>9, GotoEffect DEF FinishTask, EndTask, IInv, TypeOK, TaskPcs
    <3> QED BY <2>1, <3>1, OpenUnmoved DEF IInv
  <2>3. CASE UNCHANGED rows
    BY <1>1, <2>2, <2>3 DEF LStatus, LDecided
  <2>4. CASE \E s \in {"complete", "blocked"} : SetStatus(r, s)
    <3>1. PICK s \in {"complete", "blocked"} : SetStatus(r, s)
      BY <2>4
    <3>2. /\ LDecided' = LDecided
          /\ Present(r) => LStatus' = [LStatus EXCEPT ![r] = s]
          /\ ~Present(r) => LStatus' = LStatus
      BY <1>2, <1>3, <3>1, StatusShows DEF Statuses
    <3>3. CASE ~Present(r) \/ s = "complete"
      <4>1. LStatus' = LStatus
        BY <1>2, <2>1, <3>2, <3>3 DEF LStatus
      <4> QED BY <1>1, <2>2, <3>2, <4>1
    <3>4. CASE Present(r) /\ s = "blocked"
      <4>1. Life!FailLate(r)
        BY <1>2, <1>3, <2>1, <2>2, <3>2, <3>4 DEF Life!FailLate, LStatus, LDecided, LOpen
      <4> QED BY <1>3, <4>1 DEF Life!Next
    <3> QED BY <3>3, <3>4
  <2> QED BY <1>0, <1>9, <2>3, <2>4 DEF FinishTask, EndTask
<1> QED BY <1>5, <1>6, <1>7, <1>8, <1>9 DEF TaskStep

LEMMA LifeStep == IInv /\ AtWork /\ [Next]_vars => [Life!Next]_(Life!vars)
<1> SUFFICES ASSUME IInv, AtWork, [Next]_vars PROVE [Life!Next]_(Life!vars)
  OBVIOUS
<1>1. ASSUME UNCHANGED <<LStatus, LDecided, LOpen>> PROVE UNCHANGED Life!vars
  BY <1>1 DEF Life!vars, LStatus, LDecided, LOpen
<1>3. CASE Crash
  <2>1. \A r \in Runs : Undecided(r)' = {}
    BY <1>3 DEF Crash, Undecided, Of, Live, IInv, TypeOK, Task
  <2>2. LOpen' = [r \in Runs |-> 0]
    BY <2>1, FS_EmptySet DEF LOpen
  <2>3. LStatus' = LStatus /\ LDecided' = LDecided
    BY <1>3 DEF Crash, LStatus, LDecided
  <2>4. Life!Crash
    BY <2>2, <2>3 DEF Life!Crash, LStatus, LDecided, LOpen
  <2> QED BY <2>4 DEF Life!Next
<1>2. CASE Restart /\ UNCHANGED rows
  <2>1. LOpen' = LOpen
    BY <1>2 DEF Restart, LOpen, Undecided, Of
  <2> QED BY <1>1, <1>2, <2>1 DEF LStatus, LDecided
<1>4. CASE Restart /\ ~ UNCHANGED rows
  <2>1. \A r \in Runs :
          /\ rows'[r].status = IF rows[r].status = "running" THEN "interrupted" ELSE rows[r].status
          /\ rows'[r].decision = rows[r].decision
    BY <1>4 DEF Restart, Swept, IInv, TypeOK, Row
  <2>2. LOpen' = LOpen
    BY <1>4 DEF Restart, LOpen, Undecided, Of
  <2>3. LDecided' = LDecided
    BY <2>1 DEF LDecided
  <2>4. LStatus' = [r \in Runs |-> IF LStatus[r] = "running" THEN "interrupted" ELSE LStatus[r]]
    BY <2>1 DEF LStatus
  <2>5. Life!Recover
    BY <2>2, <2>3, <2>4 DEF Life!Recover, LStatus, LDecided, LOpen
  <2> QED BY <2>5 DEF Life!Next
<1>5. CASE UNCHANGED vars
  BY <1>1, <1>5 DEF vars, LStatus, LDecided, LOpen, Undecided, Of
<1> QED BY <1>2, <1>3, <1>4, <1>5, HandlerLives, TaskLives DEF Next

LEMMA LifeInit == Init => Life!Init
<1> SUFFICES ASSUME Init PROVE Life!Init
  OBVIOUS
<1>1. \A r \in Runs : rows[r].status = "none" /\ rows[r].decision = 0
  BY DEF Init, NoRow
<1>2. \A r \in Runs : Undecided(r) = {}
  BY RunsAssumption DEF Init, NoTask, Undecided, Of
<1>3. LStatus = [r \in Runs |-> "none"] /\ LDecided = {} /\ LOpen = [r \in Runs |-> 0]
  BY <1>1, <1>2, FS_EmptySet DEF LStatus, LDecided, LOpen
<1> QED BY <1>3 DEF Life!Init, LStatus, LDecided, LOpen

\* _db_save_decision, re_evaluate, cancel_run, delete_run, _mark_orphaned_runs: the rows live
\* the life that RunLife promises, however pipelines overlap with the handlers and die.
THEOREM RefinesRunLife == Spec => ImplementsRunLife
<1>1. Init => AtWork
  BY DEF Init, AtWork, NoTask
<1>2. Spec => []AtWork
  BY <1>1, AtWorkStep, RunInvariance, PTL DEF Spec
<1> QED BY <1>2, LifeInit, LifeStep, RunInvariance, PTL DEF Spec, ImplementsRunLife, Life!Spec
============================================================================
