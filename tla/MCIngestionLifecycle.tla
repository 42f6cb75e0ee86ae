------------------------ MODULE MCIngestionLifecycle ------------------------
(* Bounds for IngestionLifecycle.  One vendor and the RFP's root folder are  *)
(* enough for versions, strays and duplicates; two ticks overlap.  Contents  *)
(* and ticks are interchangeable: symmetry is used where no liveness is      *)
(* checked.                                                                  *)
EXTENDS IngestionLifecycle, TLC

Symmetry == Permutations(Contents) \cup Permutations(Ticks)
=============================================================================
