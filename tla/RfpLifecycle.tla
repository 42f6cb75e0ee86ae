---------------------------- MODULE RfpLifecycle ----------------------------
(***************************************************************************)
(* What the background processing promises about one RFP, without files,    *)
(* jobs and schedulers: it goes forward only, it is ready only once some    *)
(* vendor's facts are, and its readiness is announced at most once, after   *)
(* the fact.  IngestionLifecycle implements it.                             *)
(***************************************************************************)
EXTENDS Naturals

VARIABLES status,    \* rfps.submission_status
          facts,     \* does any document have its facts in the database?
          announced  \* number of rfp.facts_ready events written

vars == <<status, facts, announced>>

Init == status = "open" /\ facts = FALSE /\ announced = 0

Close == /\ status = "open" /\ status' = "closed"
         /\ UNCHANGED <<facts, announced>>

Process == /\ status = "closed" /\ status' = "processing"
           /\ UNCHANGED <<facts, announced>>

\* An accepted addendum may have its facts before the RFP is processed.
Learn == /\ facts' = TRUE
         /\ UNCHANGED <<status, announced>>

Ready == /\ status = "processing" /\ facts
         /\ status' = "facts_ready"
         /\ UNCHANGED <<facts, announced>>

Announce == /\ status = "facts_ready" /\ announced = 0
            /\ announced' = 1
            /\ UNCHANGED <<status, facts>>

Next == Close \/ Process \/ Learn \/ Ready \/ Announce

Spec == Init /\ [][Next]_vars
=============================================================================
