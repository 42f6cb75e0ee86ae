----------------------------- MODULE MCEvidence -----------------------------
(***************************************************************************)
(* The evidence for a vendor: how its facts are stored under overlapping    *)
(* pipelines, and how one pipeline judges them.  The two have no state in   *)
(* common, so each behaviour explores one of them: part says which.         *)
(*                                                                         *)
(* Two runs may share a setup, two pipelines overlap on it, and one retry   *)
(* gives a refused and an accepted attempt; vendors share no rows, so one   *)
(* shows what can happen to each.  One standard type with two targets, and  *)
(* two custom targets: checks and criteria can share a type, share a        *)
(* target, or name neighbours whose facts must survive.                     *)
(***************************************************************************)
EXTENDS FactStore, EvidenceLoop

CONSTANTS ins1, ins2, c1, c2, k1

VARIABLE part

MCTypeOrder == <<"insurance">>
MCFactType  == [t \in Targets |-> IF t \in {ins1, ins2} THEN "insurance" ELSE "custom"]
MCWeight    == [c \in Criteria |-> 1000]

\* Up to two checks, up to two scored targets of one criterion.
UpToTwo(S) == {<<>>} \cup {<<a>> : a \in S} \cup {<<a, b>> : a \in S, b \in S}

MCSetups == [checks : UpToTwo({ins1, c1, c2}), pairs : UpToTwo({k1} \X {ins1, ins2, c1})]

MCInit == /\ FactsInit /\ Init
          /\ part \in {"store", "loop"}
          /\ part = "store" => /\ setup = [checks |-> <<>>, pairs |-> <<>>]
                               /\ \A b \in Buckets : ~facts[b].some

MCNext == /\ \/ part = "store" /\ FactsNext /\ UNCHANGED vars
             \/ part = "loop" /\ Next /\ UNCHANGED factVars
          /\ UNCHANGED part

MCSpec == MCInit /\ [][MCNext]_<<factVars, vars, part>>
=============================================================================
