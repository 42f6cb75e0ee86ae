-------------------------- MODULE MCEvaluationRun --------------------------
(* Bounds for EvaluationRun: two runs let one be the other's rerun, three   *)
(* pipelines let two of them overlap on a row and a third follow.           *)
EXTENDS EvaluationRun
============================================================================
