------------------------- MODULE MCEvaluationGraph -------------------------
(* Bounds for EvaluationGraph.  The vendors are interchangeable: symmetry is *)
(* used in the runs that check no liveness.                                  *)
EXTENDS EvaluationGraph, TLC

Symmetry == Permutations(Vendors)
============================================================================
