--------------------------- MODULE PlanGuardrail ---------------------------
(***************************************************************************)
(* The guardrail of the planner (agents/planner.py, validate_plan), which   *)
(* accepts or refuses a plan "regardless of how the plan was generated".  A *)
(* refused plan blocks the run.                                             *)
(***************************************************************************)
EXTENDS Planner, Naturals, FiniteSets

CONSTANTS
  MinTasks,       \* 5
  MaxTasks        \* 500

\* A plan is a finite list of tasks, each with a finite list of ids.
ASSUME GuardrailAssumption ==
  /\ MinTasks \in Nat /\ MaxTasks \in Nat
  /\ \A r \in PlanRequests :
       IsFiniteSet(r.vendors) /\ IsFiniteSet(r.checks) /\ IsFiniteSet(r.criteria)
  /\ \A p \in OtherPlans : /\ IsFiniteSet(DOMAIN p.tasks)
                           /\ \A id \in DOMAIN p.tasks : IsFiniteSet(p.tasks[id].deps)

----------------------------------------------------------------------------
(* validate_plan *)

\* Plausible bug: the search looks whether it was here before it looks at its path.
ClosesCycleBug(id, path, visited) == id \in path /\ id \notin visited

ClosesCycle(id, path, visited) == id \in path

\* A loop of the search: the ids it still has to look at, the tasks it is called for, and
\* what any part of the search has visited.
SearchLoop(todo, path, visited) == [todo |-> todo, path |-> path, visited |-> visited]

PlanIds(tasks) == DOMAIN tasks \cup UNION {tasks[id].deps : id \in DOMAIN tasks}

SearchLoops(tasks) == [todo : SUBSET PlanIds(tasks), path : SUBSET PlanIds(tasks),
                       visited : SUBSET PlanIds(tasks)]

\* One round of a loop and what follows it: the call for an id, which loops over what that
\* depends on, then the rest of the loop.  A cycle found ends all of them.
SearchRound(tasks, search, loop) ==
  LET id    == CHOOSE i \in loop.todo : TRUE
      rest  == loop.todo \ {id}
      seen  == loop.visited \cup {id}
      below == search[SearchLoop(tasks[id].deps, loop.path \cup {id}, seen)]
  IN  IF ClosesCycle(id, loop.path, loop.visited)
      THEN [found |-> TRUE, visited |-> loop.visited]
      ELSE IF id \in loop.visited \/ id \notin DOMAIN tasks
      THEN search[SearchLoop(rest, loop.path, seen)]
      ELSE IF below.found THEN below
      ELSE search[SearchLoop(rest, loop.path, below.visited)]

\* Each call visits a task for the first time and loops over at most all ids.
SearchBound(tasks) == (Cardinality(PlanIds(tasks)) + 1) * (Cardinality(PlanIds(tasks)) + 1)

\* has_cycle, by the number of rounds that may follow one another.
Search(tasks) ==
  LET search[n \in 0 .. SearchBound(tasks)] ==
        [loop \in SearchLoops(tasks) |->
           IF n = 0 \/ loop.todo = {} THEN [found |-> FALSE, visited |-> loop.visited]
           ELSE SearchRound(tasks, search[n - 1], loop)]
  IN  search[SearchBound(tasks)]

\* The last loop of validate_plan asks has_cycle of every task, with one visited set.
CycleDetected(tasks) == Search(tasks)[SearchLoop(DOMAIN tasks, {}, {})].found

PlanErrors ==
  {e \in {"few", "many", "checks", "criteria", "cycle"} :
     CASE e = "few"      -> Cardinality(DOMAIN plan.tasks) < MinTasks
       [] e = "many"     -> Cardinality(DOMAIN plan.tasks) > MaxTasks
       [] e = "checks"   -> plan.request.checks \ Covered(plan.tasks, "check") # {}
       [] e = "criteria" -> plan.request.criteria \ Covered(plan.tasks, "score") # {}
       [] e = "cycle"    -> CycleDetected(plan.tasks)}

\* critic_after_planner: any error, or no vendor or task at all, is a HARD flag.
PlanBlocked == \/ plan.request.vendors = {} \/ plan.tasks = <<>>
               \/ PlanErrors # {}

----------------------------------------------------------------------------
(* Properties *)

\* planner.py:147, validate_plan: a cycle is reported exactly when the tasks cannot be carried
\* out; a plan that is let through has a task for every mandatory check and every criterion;
\* and a plan run_planner makes for at least one vendor is refused for its size only.
AcceptedPlansAreSound ==
  plan # NoPlan =>
    /\ "cycle" \in PlanErrors <=> ~Schedulable(plan.tasks)
    /\ ~PlanBlocked => /\ plan.request.checks \subseteq Covered(plan.tasks, "check")
                       /\ plan.request.criteria \subseteq Covered(plan.tasks, "score")
    /\ (plan.planned /\ plan.request.vendors # {}) =>
         (PlanBlocked <=> Cardinality(DOMAIN plan.tasks) \notin MinTasks .. MaxTasks)
=============================================================================
