---------------------------- MODULE VectorStore ----------------------------
(***************************************************************************)
(* The vectors of one organisation and the rows they belong to: ingestion   *)
(* into the Qdrant collection (agents/ingestion.py, retrieval/pipeline.py,  *)
(* retrieval/qdrant.py), the daily retention job (jobs/cleanup.py) and the  *)
(* erasure of the organisation (domain/org_erasure.py).  The three run in   *)
(* processes of their own and interleave call by call; every call to the    *)
(* vector store or the database may fail.  A point's id is computed from    *)
(* organisation, vendor and text alone, so setups that ingest one document  *)
(* share its points, and the last one has its name in the payload.          *)
(***************************************************************************)
EXTENDS Naturals, FiniteSets

CONSTANTS
  Setups,
  Ingestions,   \* runs of the ingestion agent
  SetupOf,      \* [Ingestions -> Setups]
  FilesOf,      \* [Ingestions -> sets of files], one or those of a ZIP archive
  TextsOf,      \* [files -> sets of texts], the chunks of a file that are kept
  NoPoint

Texts == UNION {TextsOf[f] : f \in DOMAIN TextsOf}

Payload == [setup : Setups, late : BOOLEAN]

ASSUME StoreAssumption == /\ SetupOf \in [Ingestions -> Setups]
                          /\ FilesOf \in [Ingestions -> SUBSET DOMAIN TextsOf]
                          /\ NoPoint \notin Payload

VARIABLES
  setup,        \* evaluation_setups: "none", "live", "expired" or "deleted"
  older,        \* setups created before a live one and not yet expired
  used,         \* setups another row refers to by a foreign key
  collection,   \* the organisation's collection exists
  point,        \* payload of a point: its setup, and whether its vectors had
                \* been swept before it was written (history)
  swept,        \* setups whose vectors have been deleted (history)
  ing,          \* at, the files still to read and the texts still to upsert
  job,          \* the retention job: at, todo, the setup at hand, rows deleted
  erasure       \* the erasure: at, receipt

storeVars == <<setup, older, used, collection, point, swept, ing, job, erasure>>

Ready   == [at |-> "idle", todo |-> {}, now |-> NoPoint, gone |-> {}]

StoreInit ==
  /\ setup = [s \in Setups |-> "none"] /\ older = [s \in Setups |-> {}] /\ used = {}
  /\ collection = FALSE /\ point = [t \in Texts |-> NoPoint] /\ swept = {}
  /\ ing = [i \in Ingestions |-> [at |-> "idle", files |-> {}, texts |-> {}]]
  /\ job = Ready /\ erasure = [at |-> "idle", receipt |-> "none"]

HasRow(s) == setup[s] \in {"live", "expired"}
Erased    == erasure.at \in {"purged", "done"}
Stored(P(_)) == {t \in Texts : point[t] # NoPoint /\ P(point[t])}

\* The row of a setup is created; it ages, and one created before it has aged no later;
\* a run or a fact comes to refer to it, which has to wait while the retention job has
\* deleted the row.
CreateSetup(s) == /\ setup[s] = "none" /\ ~Erased
                  /\ setup' = [setup EXCEPT ![s] = "live"]
                  /\ older' = [older EXCEPT ![s] = {o \in Setups : setup[o] = "live"}]
                  /\ UNCHANGED <<used, collection, point, swept, ing, job, erasure>>

Age(s) == /\ setup[s] = "live" /\ older[s] = {}
          /\ setup' = [setup EXCEPT ![s] = "expired"]
          /\ older' = [o \in Setups |-> older[o] \ {s}]
          /\ UNCHANGED <<used, collection, point, swept, ing, job, erasure>>

Refer(s) == /\ HasRow(s) /\ s \notin job.gone \cup used
            /\ used' = used \cup {s}
            /\ UNCHANGED <<setup, older, collection, point, swept, ing, job, erasure>>

NothingElse == UNCHANGED <<setup, older, used, swept, job, erasure>>

\* run_ingestion_agent: an archive is unpacked, an invalid one reported only.
StartIngestion(i) ==
  /\ ing[i].at = "idle" /\ HasRow(SetupOf[i])
  /\ ing' = [ing EXCEPT ![i] = [at |-> "reading", files |-> FilesOf[i], texts |-> {}]]
  /\ UNCHANGED <<collection, point>> /\ NothingElse

Failed(i) == ing' = [ing EXCEPT ![i] = [at |-> "failed", files |-> {}, texts |-> {}]]

\* process_document: too short a text leaves no chunk, and no call follows.
ReadFile(i) ==
  /\ ing[i].at = "reading"
  /\ IF ing[i].files = {}
     THEN ing' = [ing EXCEPT ![i].at = "done"]
     ELSE \E f \in ing[i].files :
            ing' = [ing EXCEPT ![i] = [at |-> IF TextsOf[f] = {} THEN "reading" ELSE "creating",
                                       files |-> @.files \ {f}, texts |-> TextsOf[f]]]
  /\ UNCHANGED <<collection, point>> /\ NothingElse

CreateCollection(i) ==
  /\ ing[i].at = "creating"
  /\ collection' = TRUE /\ ing' = [ing EXCEPT ![i].at = "upserting"]
  /\ UNCHANGED point /\ NothingElse

\* The point is written over whatever has its id.
Upsert(i) ==
  /\ ing[i].at = "upserting"
  /\ \E t \in ing[i].texts :
       IF collection
       THEN /\ point' = [point EXCEPT ![t] = [setup |-> SetupOf[i],
                                              late |-> SetupOf[i] \in swept]]
            /\ ing' = [ing EXCEPT ![i].texts = @ \ {t},
                                  ![i].at = IF ing[i].texts = {t} THEN "reading" ELSE @]
       ELSE Failed(i) /\ UNCHANGED point
  /\ UNCHANGED collection /\ NothingElse

IngestionFails(i) == /\ ing[i].at \in {"reading", "creating", "upserting"} /\ Failed(i)
                     /\ UNCHANGED <<collection, point>> /\ NothingElse

Without(gone) == [t \in Texts |-> IF t \in gone THEN NoPoint ELSE point[t]]
OnlyJob == UNCHANGED <<setup, older, used, ing, erasure>>

SelectExpired == /\ job.at = "idle"
                 /\ job' = [Ready EXCEPT !.at = "next", !.todo = {s \in Setups : setup[s] = "expired"}]
                 /\ UNCHANGED <<collection, point, swept>> /\ OnlyJob

NextSetup == /\ job.at = "next"
             /\ \E s \in job.todo :
                  job' = [job EXCEPT !.at = "vectors", !.todo = @ \ {s}, !.now = s]
             /\ UNCHANGED <<collection, point, swept>> /\ OnlyJob

AfterFailureBug == "row"
AfterFailure    == "next"

\* delete_setup_data: without a collection there is nothing to delete.  A call
\* that fails leaves the setup for a later job.
DeleteSetupData ==
  /\ job.at = "vectors"
  /\ LET own == Stored(LAMBDA p : p.setup = job.now)
     IN \/ /\ point' = Without(own) /\ swept' = swept \cup {job.now}
           /\ job' = [job EXCEPT !.at = IF collection THEN "counting" ELSE "row"]
        \/ /\ job' = [job EXCEPT !.at = AfterFailure]
           /\ UNCHANGED <<point, swept>>
  /\ UNCHANGED collection /\ OnlyJob

\* An empty collection is dropped, by a call after the one that counted.
CountPoints ==
  /\ job.at = "counting"
  /\ \E next \in {AfterFailure, IF Stored(LAMBDA p : TRUE) = {} THEN "dropping" ELSE "row"} :
       job' = [job EXCEPT !.at = next]
  /\ UNCHANGED <<collection, point, swept>> /\ OnlyJob

DropCollection ==
  /\ job.at = "dropping"
  /\ \/ /\ collection' = FALSE /\ point' = Without(Texts)
        /\ job' = [job EXCEPT !.at = "row"]
     \/ /\ job' = [job EXCEPT !.at = AfterFailure]
        /\ UNCHANGED <<collection, point>>
  /\ UNCHANGED swept /\ OnlyJob

\* A row that something refers to cannot go: the error ends the job, and the
\* one transaction of all setups is rolled back.
DeleteRow ==
  /\ job.at = "row"
  /\ job' = IF job.now \in used THEN Ready
            ELSE [job EXCEPT !.at = "next", !.gone = IF HasRow(job.now) THEN @ \cup {job.now} ELSE @]
  /\ UNCHANGED <<collection, point, swept>> /\ OnlyJob

CommitJob == /\ job.at = "next" /\ job.todo = {} /\ job' = Ready
             /\ setup' = [s \in Setups |-> IF s \in job.gone THEN "deleted" ELSE setup[s]]
             /\ UNCHANGED <<older, used, collection, point, swept, ing, erasure>>

JobDies == /\ job.at # "idle" /\ job' = Ready
           /\ UNCHANGED <<collection, point, swept>> /\ OnlyJob

\* delete_org_data of erase_org; the endpoint looks at runs that are "running"
\* only, so ingestions may be in flight.  An error ends the request.
EraseVectors ==
  /\ erasure.at = "idle" /\ \E s \in Setups : HasRow(s)
  /\ point' = Without(Texts) /\ swept' = Setups
  /\ erasure' = [erasure EXCEPT !.at = IF collection THEN "counting" ELSE "purging"]
  /\ UNCHANGED <<setup, older, used, collection, ing, job>>

EraseCollection ==
  /\ \/ /\ erasure.at = "counting" /\ UNCHANGED <<collection, point>>
        /\ erasure' = [erasure EXCEPT !.at = IF Stored(LAMBDA p : TRUE) = {} THEN "dropping"
                                            ELSE "purging"]
     \/ /\ erasure.at = "dropping" /\ collection' = FALSE /\ point' = Without(Texts)
        /\ erasure' = [erasure EXCEPT !.at = "purging"]
     \/ /\ erasure.at \in {"counting", "dropping"} /\ UNCHANGED <<collection, point>>
        /\ erasure' = [erasure EXCEPT !.at = "idle"]
  /\ UNCHANGED <<setup, older, used, swept, ing, job>>

FailedPurgeBug == "purged"
FailedPurge    == "idle"

\* purge_org_postgres: one transaction, which waits for the rows the retention
\* job has locked.  After a failure the request may be repeated.
Purge ==
  /\ erasure.at = "purging" /\ job.gone = {}
  /\ \/ /\ setup' = [s \in Setups |-> IF HasRow(s) THEN "deleted" ELSE setup[s]] /\ used' = {}
        /\ erasure' = [erasure EXCEPT !.at = "purged"]
     \/ /\ erasure' = [erasure EXCEPT !.at = FailedPurge]
        /\ UNCHANGED <<setup, used>>
  /\ UNCHANGED <<older, collection, point, swept, ing, job>>

\* The receipt that cannot be stored is returned with a flag.
WriteReceipt == /\ erasure.at = "purged"
                /\ \E r \in {"persisted", "flagged"} : erasure' = [at |-> "done", receipt |-> r]
                /\ UNCHANGED <<setup, older, used, collection, point, swept, ing, job>>

StoreNext ==
  \/ \E s \in Setups : CreateSetup(s) \/ Age(s) \/ Refer(s)
  \/ \E i \in Ingestions : \/ StartIngestion(i) \/ ReadFile(i) \/ CreateCollection(i)
                           \/ Upsert(i) \/ IngestionFails(i)
  \/ SelectExpired \/ NextSetup \/ DeleteSetupData \/ CountPoints \/ DropCollection
  \/ DeleteRow \/ CommitJob \/ JobDies
  \/ EraseVectors \/ EraseCollection \/ Purge \/ WriteReceipt

StoreSpec == StoreInit /\ [][StoreNext]_storeVars

(***************************************************************************)
(* "Keep the row ... rather than deleting the tracking row and orphaning    *)
(* its vectors forever" (cleanup.py:48): a vector whose setup has no row    *)
(* any more was written after the setup's vectors had been swept, by an     *)
(* ingestion that was still going on.  No failing call, death of the job,   *)
(* rollback or erasure leaves another.                                      *)
(***************************************************************************)
NoVectorOutlivesItsRow ==
  \A t \in Texts : point[t] # NoPoint /\ setup[point[t].setup] = "deleted" => point[t].late

(***************************************************************************)
(* "A failed/rolled-back purge never produces a false 'erased' proof"       *)
(* (org_erasure.py:142): with a receipt, all rows are gone, and all vectors *)
(* except those an ingestion wrote after the sweep.                         *)
(***************************************************************************)
ReceiptIsProof ==
  erasure.receipt # "none" =>
    /\ \A s \in Setups : ~HasRow(s)
    /\ \A t \in Texts : point[t] # NoPoint => point[t].late

(***************************************************************************)
(* "An expired setup removes only its OWN vectors and leaves the org's      *)
(* other, still-live setups intact" (qdrant.py:322).                        *)
(***************************************************************************)
LiveSetupsKeepVectors ==
  \A i \in Ingestions : \A f \in FilesOf[i] :
    collection /\ ing[i].at = "done" /\ setup[SetupOf[i]] = "live" /\ SetupOf[i] \notin swept =>
      \A t \in TextsOf[f] : point[t] # NoPoint
=============================================================================
