---------------------------- MODULE VendorFates ----------------------------
(***************************************************************************)
(* What one pipeline run promises about its vendors, without stages,        *)
(* retries, slots or storage: every vendor settles once and for all as      *)
(* scored or lost, independently of the others; the decision is taken only  *)
(* when all have settled; the report speaks of scored vendors only; and the *)
(* run ends, with a report or aborted.  EvaluationGraph implements it.      *)
(***************************************************************************)
CONSTANT Vendors

VARIABLES fate,      \* [Vendors -> Fates]
          outcome,   \* how far the run as a whole has come
          narrated   \* the vendors the final report has a narrative of

vars == <<fate, outcome, narrated>>

Fates    == {"pending", "scored", "lost"}
Outcomes == {"open", "decided", "reported", "aborted"}

TypeOK == /\ fate \in [Vendors -> Fates]
          /\ outcome \in Outcomes
          /\ narrated \in SUBSET Vendors

Init == /\ fate = [v \in Vendors |-> "pending"]
        /\ outcome = "open"
        /\ narrated = {}

\* One vendor's branch of the evaluation stage returns.
Settle(v) == /\ outcome = "open"
             /\ fate[v] = "pending"
             /\ \E f \in {"scored", "lost"} : fate' = [fate EXCEPT ![v] = f]
             /\ UNCHANGED <<outcome, narrated>>

\* Decision agent: past the cross-vendor barrier.
Decide == /\ outcome = "open"
          /\ \A v \in Vendors : fate[v] # "pending"
          /\ outcome' = "decided"
          /\ UNCHANGED <<fate, narrated>>

Report == /\ outcome = "decided"
          /\ outcome' = "reported"
          /\ \E N \in SUBSET {v \in Vendors : fate[v] = "scored"} : narrated' = N
          /\ UNCHANGED fate

Abort == /\ outcome \in {"open", "decided"}
         /\ outcome' = "aborted"
         /\ UNCHANGED <<fate, narrated>>

Next == \/ \E v \in Vendors : Settle(v)
        \/ Decide
        \/ Report
        \/ Abort

\* What may happen; that something does is the fairness besides.
Safety == Init /\ [][Next]_vars

Spec == Safety /\ WF_vars(Next)
============================================================================
