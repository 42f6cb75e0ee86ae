------------------------------ MODULE Planner ------------------------------
(***************************************************************************)
(* The planner (agents/planner.py): the task graph it derives from a setup. *)
(* PlanGuardrail is what accepts or refuses it.                             *)
(***************************************************************************)
CONSTANTS
  PlanRequests,   \* what a plan is made for: sets of vendors, checks and criteria
  OtherPlans,     \* plans for the same requests that were made otherwise
  NoPlan

VARIABLE plan     \* the request, the tasks by id, and who made them

PlanInit == plan = NoPlan

Task(type, item, deps) == [type |-> type, item |-> item, deps |-> deps]
Ids(type, items) == {<<type, i>> : i \in items}

\* Each task with the ids it depends on.
PlanFor(request) ==
  LET retrieve == Ids("retrieve", request.vendors)
      extract  == Ids("extract", request.vendors)
      check    == Ids("check", request.checks)
      score    == Ids("score", request.criteria)
      tail     == Ids("tail", {"compare", "decide", "explain"})
      DependsOn(id) ==
        CASE id \in retrieve -> {}
          [] id \in extract  -> {<<"retrieve", id[2]>>}
          [] id \in check    -> extract
          [] id \in score    -> check
          [] id = <<"tail", "compare">> -> score
          [] id = <<"tail", "decide">>  -> {<<"tail", "compare">>}
          [] id = <<"tail", "explain">> -> {<<"tail", "decide">>}
  IN  [id \in retrieve \cup extract \cup check \cup score \cup tail |->
         Task(id[1], id[2], DependsOn(id))]

\* Without vendors there are no tasks.
RunPlanner == /\ plan = NoPlan
              /\ \E r \in PlanRequests :
                   plan' = [request |-> r, planned |-> TRUE,
                            tasks |-> IF r.vendors = {} THEN <<>> ELSE PlanFor(r)]

TakePlan == /\ plan = NoPlan
            /\ \E p \in OtherPlans :
                 plan' = [request |-> p.request, planned |-> FALSE, tasks |-> p.tasks]

PlanNext == RunPlanner \/ TakePlan

PlanSpec == PlanInit /\ [][PlanNext]_plan

----------------------------------------------------------------------------
(* What a plan is for *)

Covered(tasks, type) == {tasks[id].item : id \in {i \in DOMAIN tasks : tasks[i].type = type}}

\* The tasks can be done one after the other: no set of them waits for itself.
Schedulable(tasks) ==
  \A waiting \in (SUBSET DOMAIN tasks) \ {{}} :
    \E id \in waiting : tasks[id].deps \cap waiting = {}
=============================================================================
