------------------------------ MODULE RunLife ------------------------------
(***************************************************************************)
(* What evaluation_runs promises a reader of its rows, without pipelines,   *)
(* commits and processes: a run is decided only by an evaluation that       *)
(* somebody launched for it, each launch decides at most once, what is      *)
(* launched again has no decision, and a deleted run is gone for good.      *)
(* Nothing is promised of a cancelled evaluation: it may still decide.      *)
(* EvaluationRun implements it.                                             *)
(***************************************************************************)
EXTENDS Naturals

CONSTANT Runs

VARIABLES status,    \* [Runs -> statuses of a row]
          decided,   \* which runs have a decision
          open       \* number of launched evaluations that may still decide

vars == <<status, decided, open>>

Init == /\ status = [r \in Runs |-> "none"]
        /\ decided = {}
        /\ open = [r \in Runs |-> 0]

Ended == {"complete", "blocked", "interrupted"}

Create(r) == /\ status[r] = "none"
             /\ status' = [status EXCEPT ![r] = "pending_confirm"]
             /\ UNCHANGED <<decided, open>>

Launch(r) == /\ status[r] \in {"none", "pending_confirm"} \cup Ended
             /\ status' = [status EXCEPT ![r] = "running"]
             /\ decided' = decided \ {r}
             /\ open' = [open EXCEPT ![r] = @ + 1]

Close(r) == open[r] > 0 /\ open' = [open EXCEPT ![r] = @ - 1]

Decide(r) == /\ Close(r)
             /\ \/ /\ status[r] \in Ended \cup {"running"}
                   /\ status' = [status EXCEPT ![r] = "complete"]
                   /\ decided' = decided \cup {r}
                \/ status[r] = "deleted" /\ UNCHANGED <<status, decided>>

\* An evaluation gives up, and says so or not.
GiveUp(r) == /\ Close(r)
             /\ \/ /\ status[r] \in Ended \cup {"running"}
                   /\ status' = [status EXCEPT ![r] = "blocked"]
                \/ UNCHANGED status
             /\ UNCHANGED decided

\* What follows the decision fails; the decision stays.
FailLate(r) == /\ status[r] = "complete"
               /\ status' = [status EXCEPT ![r] = "blocked"]
               /\ UNCHANGED <<decided, open>>

Cancel(r) == /\ status[r] = "running"
             /\ status' = [status EXCEPT ![r] = "interrupted"]
             /\ UNCHANGED <<decided, open>>

Delete(r) == /\ status[r] \in {"pending_confirm"} \cup Ended
             /\ status' = [status EXCEPT ![r] = "deleted"]
             /\ decided' = decided \ {r}
             /\ UNCHANGED open

\* All evaluations end at once, which their runs show later.
Crash == /\ open' = [r \in Runs |-> 0]
         /\ UNCHANGED <<status, decided>>

Recover == /\ status' = [r \in Runs |-> IF status[r] = "running" THEN "interrupted" ELSE status[r]]
           /\ UNCHANGED <<decided, open>>

Next == \/ \E r \in Runs : \/ Create(r) \/ Launch(r) \/ Decide(r) \/ GiveUp(r)
                           \/ FailLate(r) \/ Cancel(r) \/ Delete(r)
        \/ Crash \/ Recover

Spec == Init /\ [][Next]_vars
=============================================================================
