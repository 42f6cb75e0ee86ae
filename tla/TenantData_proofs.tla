-------------------------- MODULE TenantData_proofs --------------------------
(***************************************************************************)
(* Theorems about what an organisation keeps, for any value of the          *)
(* constants: that its vectors go with their rows, whatever fails or dies   *)
(* in between; that the lists of runs agree with the access to them; that   *)
(* each criterion comes from its first source and a request is refused for  *)
(* a reason; that the plans of the planner can be carried out, and that the *)
(* guardrail accepts a plan only if it can be.                              *)
(***************************************************************************)
EXTENDS VectorStore, RunAccess, CriteriaSetup, PlanGuardrail, WellFoundedInduction,
        FiniteSetTheorems, TLAPS

----------------------------------------------------------------------------
(* Vectors and rows *)

Working == [at : {"idle", "reading", "creating", "upserting", "done", "failed"},
            files : SUBSET DOMAIN TextsOf, texts : SUBSET Texts]

StoreTypeOK ==
  /\ setup \in [Setups -> {"none", "live", "expired", "deleted"}]
  /\ point \in [Texts -> Payload \cup {NoPoint}]
  /\ swept \in SUBSET Setups
  /\ ing \in [Ingestions -> Working]
  /\ job.todo \in SUBSET Setups /\ job.gone \in SUBSET Setups
  /\ job.at \in {"vectors", "counting", "dropping", "row"} => job.now \in Setups
  /\ job = [at |-> job.at, todo |-> job.todo, now |-> job.now, gone |-> job.gone]
  /\ erasure = [at |-> erasure.at, receipt |-> erasure.receipt]

\* The points that a setup has after its vectors have been swept were written since.
SweptAreLate == \A t \in Texts : point[t] # NoPoint /\ point[t].setup \in swept => point[t].late

\* The row goes after the vectors: the job's row to be deleted, the rows deleted in its
\* open transaction and the rows that are gone are all of swept setups.
RowsGoLast ==
  /\ job.at \in {"counting", "dropping", "row"} => job.now \in swept
  /\ job.gone \subseteq swept
  /\ \A s \in Setups : setup[s] = "deleted" => s \in swept

\* The same for all setups at once, and an erasure that is committed leaves no row.
ErasureGoesOn ==
  /\ erasure.at # "idle" => swept = Setups
  /\ Erased => \A s \in Setups : ~HasRow(s)
  /\ erasure.receipt # "none" => erasure.at = "done"

StoreInv == StoreTypeOK /\ SweptAreLate /\ RowsGoLast /\ ErasureGoesOn

\* Vectors are only deleted, and the setups swept meanwhile have none left.
LEMMA SweepStep ==
  ASSUME StoreInv, NEW gone \in SUBSET Texts, point' = Without(gone), swept' \in SUBSET Setups,
         \A t \in Texts : point[t] # NoPoint /\ point[t].setup \in swept' \ swept => t \in gone
  PROVE  point' \in [Texts -> Payload \cup {NoPoint}] /\ SweptAreLate'
BY DEF StoreInv, StoreTypeOK, Without, SweptAreLate

\* The steps of the retention job that write neither points nor rows.
LEMMA JobStep ==
  ASSUME StoreInv, NEW j, job' = j, UNCHANGED <<setup, used, ing, erasure>>,
         UNCHANGED <<point, swept>>,
         j = [at |-> j.at, todo |-> j.todo, now |-> j.now, gone |-> j.gone],
         j.todo \in SUBSET Setups, j.gone \in SUBSET swept,
         j.at \in {"vectors", "counting", "dropping", "row"} => j.now \in Setups,
         j.at \in {"counting", "dropping", "row"} => j.now \in swept
  PROVE  StoreInv'
BY DEF StoreInv, StoreTypeOK, SweptAreLate, RowsGoLast, ErasureGoesOn, Erased, HasRow

\* An ingestion moves on: its points are as late as its setup is swept.
LEMMA IngestStep ==
  ASSUME StoreInv, NEW i \in Ingestions, NEW w \in Working, ing' = [ing EXCEPT ![i] = w],
         UNCHANGED <<setup, used, swept, job, erasure>>,
         \/ UNCHANGED point
         \/ \E t \in Texts : point' = [point EXCEPT ![t] = [setup |-> SetupOf[i],
                                                            late |-> SetupOf[i] \in swept]]
  PROVE  StoreInv'
<1> DEFINE new == [setup |-> SetupOf[i], late |-> SetupOf[i] \in swept]
<1>1. new \in Payload /\ (new.setup \in swept => new.late)
  <2> DEFINE late == SetupOf[i] \in swept
  <2>1. late \in BOOLEAN /\ SetupOf[i] \in Setups
    BY StoreAssumption
  <2>2. new = [setup |-> SetupOf[i], late |-> late] /\ (SetupOf[i] \in swept => late)
    OBVIOUS
  <2> HIDE DEF late, new
  <2> QED BY <2>1, <2>2 DEF Payload
<1> HIDE DEF new
<1>2. UNCHANGED point \/ \E t \in Texts : point' = [point EXCEPT ![t] = new]
  BY DEF new
<1>3. point' \in [Texts -> Payload \cup {NoPoint}] /\ SweptAreLate'
  BY <1>1, <1>2 DEF StoreInv, StoreTypeOK, SweptAreLate
<1>4. ing' \in [Ingestions -> Working]
  BY DEF StoreInv, StoreTypeOK
<1> QED BY <1>3, <1>4 DEF StoreInv, StoreTypeOK, RowsGoLast, ErasureGoesOn, Erased, HasRow

\* Every call of ingestion, retention job and erasure, failed or not, preserves the invariant.
LEMMA StoreStep == StoreInv /\ [StoreNext]_storeVars => StoreInv'
<1> SUFFICES ASSUME StoreInv, [StoreNext]_storeVars PROVE StoreInv'
  OBVIOUS
<1> USE StoreAssumption
<1>t. StoreTypeOK
  BY DEF StoreInv
<1>1. ASSUME NEW s \in Setups, CreateSetup(s) PROVE StoreInv'
  BY <1>1 DEF CreateSetup, StoreInv, StoreTypeOK, SweptAreLate, RowsGoLast, ErasureGoesOn, Erased, HasRow
<1>2. ASSUME NEW s \in Setups, Age(s) PROVE StoreInv'
  BY <1>2 DEF Age, StoreInv, StoreTypeOK, SweptAreLate, RowsGoLast, ErasureGoesOn, Erased, HasRow
<1>3. ASSUME NEW s \in Setups, Refer(s) PROVE StoreInv'
  BY <1>3 DEF Refer, StoreInv, StoreTypeOK, SweptAreLate, RowsGoLast, ErasureGoesOn, Erased, HasRow
<1>4. ASSUME NEW i \in Ingestions, StartIngestion(i) PROVE StoreInv'
  <2> DEFINE w == [at |-> "reading", files |-> FilesOf[i], texts |-> {}]
  <2>1. w \in Working
    BY DEF Working
  <2> QED BY <1>4, <2>1, IngestStep DEF StartIngestion, NothingElse
<1>f. ASSUME NEW i \in Ingestions, Failed(i), UNCHANGED point, NothingElse PROVE StoreInv'
  <2> DEFINE w == [at |-> "failed", files |-> {}, texts |-> {}]
  <2>1. w \in Working
    BY DEF Working
  <2> QED BY <1>f, <2>1, IngestStep DEF Failed, NothingElse
<1>5. ASSUME NEW i \in Ingestions, ReadFile(i) PROVE StoreInv'
  <2>1. ing[i] \in Working
    BY <1>t DEF StoreTypeOK
  <2>2. CASE ing' = [ing EXCEPT ![i].at = "done"]
    <3> DEFINE w == [ing[i] EXCEPT !.at = "done"]
    <3>1. w \in Working
      BY <2>1 DEF Working
    <3>2. ing' = [ing EXCEPT ![i] = w]
      BY <1>t, <2>2 DEF StoreTypeOK
    <3> HIDE DEF w
    <3>3. UNCHANGED <<point, setup, used, swept, job, erasure>>
      BY <1>5 DEF ReadFile, NothingElse
    <3> QED BY <3>1, <3>2, <3>3, IngestStep
  <2>3. ASSUME NEW f \in ing[i].files,
               ing' = [ing EXCEPT ![i] = [at |-> IF TextsOf[f] = {} THEN "reading" ELSE "creating",
                                          files |-> @.files \ {f}, texts |-> TextsOf[f]]]
        PROVE  StoreInv'
    <3> DEFINE w == [at |-> IF TextsOf[f] = {} THEN "reading" ELSE "creating",
                     files |-> ing[i].files \ {f}, texts |-> TextsOf[f]]
    <3>1. f \in DOMAIN TextsOf /\ ing[i].files \in SUBSET DOMAIN TextsOf /\ TextsOf[f] \in SUBSET Texts
      BY <2>1 DEF Working, Texts
    <3>2. w \in Working
      BY <3>1 DEF Working
    <3>3. ing' = [ing EXCEPT ![i] = w]
      BY <1>t, <2>3 DEF StoreTypeOK
    <3> HIDE DEF w
    <3>4. UNCHANGED <<point, setup, used, swept, job, erasure>>
      BY <1>5 DEF ReadFile, NothingElse
    <3> QED BY <3>2, <3>3, <3>4, IngestStep
  <2> QED BY <1>5, <2>2, <2>3 DEF ReadFile
<1>6. ASSUME NEW i \in Ingestions, CreateCollection(i) PROVE StoreInv'
  <2>1. [ing[i] EXCEPT !.at = "upserting"] \in Working
    BY <1>t, ZenonT(30) DEF StoreTypeOK, Working
  <2> QED BY <1>6, <2>1, IngestStep DEF CreateCollection, NothingElse
<1>7. ASSUME NEW i \in Ingestions, Upsert(i) PROVE StoreInv'
  <2>1. PICK t \in ing[i].texts :
          IF collection
          THEN /\ point' = [point EXCEPT ![t] = [setup |-> SetupOf[i], late |-> SetupOf[i] \in swept]]
               /\ ing' = [ing EXCEPT ![i].texts = @ \ {t},
                                     ![i].at = IF ing[i].texts = {t} THEN "reading" ELSE @]
          ELSE Failed(i) /\ UNCHANGED point
    BY <1>7 DEF Upsert
  <2>2. ing[i] \in Working /\ t \in Texts
    BY <1>t, <2>1 DEF StoreTypeOK, Working
  <2>3. CASE collection
    <3> DEFINE w == [ing[i] EXCEPT !.texts = @ \ {t},
                                   !.at = IF ing[i].texts = {t} THEN "reading" ELSE @]
    <3>1. w \in Working
      BY <2>2 DEF Working
    <3>2. ing' = [ing EXCEPT ![i] = w]
      BY <1>t, <2>1, <2>2, <2>3 DEF StoreTypeOK, Working
    <3> HIDE DEF w
    <3> QED BY <1>7, <2>1, <2>2, <2>3, <3>1, <3>2, IngestStep DEF Upsert, NothingElse
  <2>4. CASE ~collection
    BY <1>7, <1>f, <2>1, <2>4 DEF Upsert
  <2> QED BY <2>3, <2>4
<1>8. ASSUME NEW i \in Ingestions, IngestionFails(i) PROVE StoreInv'
  BY <1>8, <1>f DEF IngestionFails
\* The retention job
<1>9. CASE SelectExpired
  <2> DEFINE due == {s \in Setups : setup[s] = "expired"}
             j   == [at |-> "next", todo |-> due, now |-> NoPoint, gone |-> {}]
  <2>1. job' = j /\ UNCHANGED <<setup, used, ing, erasure, point, swept>>
    BY <1>9 DEF SelectExpired, OnlyJob, Ready
  <2>2. due \in SUBSET Setups
    OBVIOUS
  <2> HIDE DEF due
  <2>3. /\ j = [at |-> j.at, todo |-> j.todo, now |-> j.now, gone |-> j.gone]
        /\ j.at = "next" /\ j.todo \in SUBSET Setups /\ j.gone \in SUBSET swept
    BY <2>2
  <2> HIDE DEF j
  <2> QED BY <2>1, <2>3, JobStep
<1>10. CASE NextSetup
  <2>1. PICK s \in job.todo : job' = [job EXCEPT !.at = "vectors", !.todo = @ \ {s}, !.now = s]
    BY <1>10 DEF NextSetup
  <2>2. job' = [at |-> "vectors", todo |-> job.todo \ {s}, now |-> s, gone |-> job.gone]
    BY <1>t, <2>1 DEF StoreTypeOK
  <2> DEFINE j == [at |-> "vectors", todo |-> job.todo \ {s}, now |-> s, gone |-> job.gone]
  <2>3. /\ j = [at |-> j.at, todo |-> j.todo, now |-> j.now, gone |-> j.gone]
        /\ j.at = "vectors" /\ j.todo \in SUBSET Setups /\ j.gone \in SUBSET swept /\ j.now \in Setups
    BY <1>t, <2>1 DEF StoreInv, StoreTypeOK, RowsGoLast
  <2> HIDE DEF j
  <2> QED BY <1>10, <2>2, <2>3, JobStep DEF NextSetup, OnlyJob, j
<1>a. ASSUME NEW at \in {"next", "counting", "dropping", "row"}, job' = [job EXCEPT !.at = at]
      PROVE  job' = [at |-> at, todo |-> job.todo, now |-> job.now, gone |-> job.gone]
  BY <1>a, <1>t DEF StoreTypeOK
<1>11. CASE DeleteSetupData
  <2> DEFINE own == Stored(LAMBDA p : p.setup = job.now)
  <2>1. job.now \in Setups /\ job.gone \subseteq swept
    BY <1>11, <1>t DEF DeleteSetupData, StoreInv, StoreTypeOK, RowsGoLast
  <2>2. CASE /\ point' = Without(own) /\ swept' = swept \cup {job.now}
             /\ job' = [job EXCEPT !.at = IF collection THEN "counting" ELSE "row"]
    <3>1. own \in SUBSET Texts /\ \A t \in Texts : point[t] # NoPoint /\ point[t].setup = job.now => t \in own
      BY DEF Stored
    <3> HIDE DEF own
    <3>2. swept' \in SUBSET Setups
      BY <1>t, <2>1, <2>2 DEF StoreTypeOK
    <3>3. point' \in [Texts -> Payload \cup {NoPoint}] /\ SweptAreLate'
      BY <2>2, <3>1, <3>2, SweepStep
    <3>4. /\ job'.at \in {"counting", "row"} /\ job'.todo = job.todo /\ job'.now = job.now
          /\ job'.gone = job.gone
          /\ job' = [at |-> job'.at, todo |-> job'.todo, now |-> job'.now, gone |-> job'.gone]
      BY <1>a, <2>2
    <3>5. swept \subseteq swept' /\ job.now \in swept' /\ UNCHANGED <<setup, used, ing, erasure>>
      BY <1>11, <2>2 DEF DeleteSetupData, OnlyJob
    <3>6. StoreTypeOK'
      BY <1>t, <2>1, <3>2, <3>3, <3>4, <3>5 DEF StoreTypeOK
    <3>7. RowsGoLast' /\ ErasureGoesOn'
      BY <2>1, <3>2, <3>4, <3>5 DEF StoreInv, RowsGoLast, ErasureGoesOn, Erased, HasRow
    <3> QED BY <3>3, <3>6, <3>7 DEF StoreInv
  <2>3. CASE job' = [job EXCEPT !.at = AfterFailure] /\ UNCHANGED <<point, swept>>
    <3>1. job' = [at |-> "next", todo |-> job.todo, now |-> job.now, gone |-> job.gone]
      BY <1>a, <2>3 DEF AfterFailure
    <3> QED BY <1>11, <1>t, <2>1, <2>3, <3>1, JobStep DEF DeleteSetupData, OnlyJob, StoreTypeOK
  <2> QED BY <1>11, <2>2, <2>3 DEF DeleteSetupData
<1>12. CASE CountPoints
  <2>1. PICK next \in {"next", "dropping", "row"} : job' = [job EXCEPT !.at = next]
    BY <1>12 DEF CountPoints, AfterFailure
  <2>2. job' = [at |-> next, todo |-> job.todo, now |-> job.now, gone |-> job.gone]
    BY <1>a, <2>1
  <2>3. job.now \in Setups /\ job.now \in swept /\ job.gone \subseteq swept
    BY <1>12, <1>t DEF CountPoints, StoreInv, StoreTypeOK, RowsGoLast
  <2> QED BY <1>12, <1>t, <2>2, <2>3, JobStep DEF CountPoints, OnlyJob, StoreTypeOK
<1>13. CASE DropCollection
  <2>1. job.now \in Setups /\ job.now \in swept /\ job.gone \subseteq swept
    BY <1>13, <1>t DEF DropCollection, StoreInv, StoreTypeOK, RowsGoLast
  <2>2. PICK at \in {"row", "next"} : job' = [job EXCEPT !.at = at]
    BY <1>13 DEF DropCollection, AfterFailure
  <2>3. job' = [at |-> at, todo |-> job.todo, now |-> job.now, gone |-> job.gone]
    BY <1>a, <2>2
  <2>4. point' \in [Texts -> Payload \cup {NoPoint}] /\ SweptAreLate'
    BY <1>13, <1>t, SweepStep DEF DropCollection, StoreInv, StoreTypeOK, SweptAreLate
  <2>5. UNCHANGED <<setup, used, ing, erasure, swept>>
    BY <1>13 DEF DropCollection, OnlyJob
  <2> QED BY <1>t, <2>1, <2>3, <2>4, <2>5
          DEF StoreInv, StoreTypeOK, RowsGoLast, ErasureGoesOn, Erased, HasRow
<1>r. ASSUME job' = Ready, OnlyJob, UNCHANGED <<point, swept>> PROVE StoreInv'
  BY <1>r, JobStep DEF OnlyJob, Ready
<1>14. CASE DeleteRow
  <2>1. CASE job.now \in used
    BY <1>14, <1>r, <2>1 DEF DeleteRow
  <2>2. CASE job.now \notin used
    <3>1. PICK g \in {job.gone, job.gone \cup {job.now}} : job' = [job EXCEPT !.at = "next", !.gone = g]
      BY <1>14, <2>2 DEF DeleteRow
    <3>2. job' = [at |-> "next", todo |-> job.todo, now |-> job.now, gone |-> g]
      BY <1>t, <3>1 DEF StoreTypeOK
    <3>3. g \subseteq swept
      BY <1>14, <3>1 DEF DeleteRow, StoreInv, RowsGoLast
    <3> QED BY <1>14, <1>t, <3>2, <3>3, JobStep DEF DeleteRow, OnlyJob, StoreTypeOK
  <2> QED BY <2>1, <2>2
<1>15. CASE CommitJob
  <2>1. job' = Ready /\ UNCHANGED <<point, swept, ing, erasure>>
        /\ setup' = [s \in Setups |-> IF s \in job.gone THEN "deleted" ELSE setup[s]]
    BY <1>15 DEF CommitJob
  <2> QED BY <1>t, <2>1
          DEF StoreInv, StoreTypeOK, SweptAreLate, RowsGoLast, ErasureGoesOn, Erased, HasRow, Ready
<1>16. CASE JobDies
  BY <1>16, <1>r DEF JobDies
\* The erasure
<1>17. CASE EraseVectors
  <2>1. point' \in [Texts -> Payload \cup {NoPoint}] /\ SweptAreLate'
    BY <1>17, SweepStep DEF EraseVectors
  <2>2. /\ UNCHANGED <<setup, ing, job>> /\ swept' = Setups
        /\ erasure' = [erasure EXCEPT !.at = IF collection THEN "counting" ELSE "purging"]
        /\ erasure.at = "idle"
    BY <1>17 DEF EraseVectors
  <2>3. erasure'.at \in {"counting", "purging"} /\ erasure'.receipt = erasure.receipt
        /\ erasure' = [at |-> erasure'.at, receipt |-> erasure'.receipt]
    BY <1>t, <2>2 DEF StoreTypeOK
  <2> QED BY <1>t, <2>1, <2>2, <2>3
          DEF StoreInv, StoreTypeOK, RowsGoLast, ErasureGoesOn, Erased, HasRow
<1>18. CASE EraseCollection
  <2>1. /\ erasure.at \in {"counting", "dropping"} /\ UNCHANGED <<setup, swept, ing, job>>
        /\ point' = point \/ point' = Without(Texts)
        /\ \E at \in {"idle", "dropping", "purging"} : erasure' = [erasure EXCEPT !.at = at]
    BY <1>18 DEF EraseCollection
  <2>2. erasure'.at \in {"idle", "dropping", "purging"} /\ erasure'.receipt = erasure.receipt
        /\ erasure' = [at |-> erasure'.at, receipt |-> erasure'.receipt]
    BY <1>t, <2>1 DEF StoreTypeOK
  <2>3. point' \in [Texts -> Payload \cup {NoPoint}] /\ SweptAreLate'
    BY <1>t, <2>1, SweepStep DEF StoreInv, StoreTypeOK, SweptAreLate
  <2> QED BY <1>t, <2>1, <2>2, <2>3
          DEF StoreInv, StoreTypeOK, RowsGoLast, ErasureGoesOn, Erased, HasRow
<1>19. CASE Purge
  <2>1. /\ erasure.at = "purging" /\ UNCHANGED <<point, swept, ing, job>>
        /\ \E at \in {"purged", "idle"} :
             /\ erasure' = [erasure EXCEPT !.at = at]
             /\ setup' = IF at = "idle" THEN setup
                         ELSE [s \in Setups |-> IF HasRow(s) THEN "deleted" ELSE setup[s]]
    BY <1>19 DEF Purge, FailedPurge
  <2>2. erasure'.at \in {"purged", "idle"} /\ erasure'.receipt = erasure.receipt
        /\ erasure' = [at |-> erasure'.at, receipt |-> erasure'.receipt]
        /\ setup' = IF erasure'.at = "idle" THEN setup
                    ELSE [s \in Setups |-> IF HasRow(s) THEN "deleted" ELSE setup[s]]
    BY <1>t, <2>1 DEF StoreTypeOK
  <2>3. swept = Setups
    BY <2>1 DEF StoreInv, ErasureGoesOn
  <2> QED BY <1>t, <2>1, <2>2, <2>3
          DEF StoreInv, StoreTypeOK, SweptAreLate, RowsGoLast, ErasureGoesOn, Erased, HasRow
<1>20. CASE WriteReceipt
  BY <1>20, <1>t
  DEF WriteReceipt, StoreInv, StoreTypeOK, SweptAreLate, RowsGoLast, ErasureGoesOn, Erased, HasRow
<1>21. CASE UNCHANGED storeVars
  BY <1>21, <1>t DEF storeVars, StoreInv, StoreTypeOK, SweptAreLate, RowsGoLast, ErasureGoesOn, Erased, HasRow
<1> QED
  BY <1>1, <1>2, <1>3, <1>4, <1>5, <1>6, <1>7, <1>8, <1>9, <1>10, <1>11, <1>12, <1>13, <1>14,
     <1>15, <1>16, <1>17, <1>18, <1>19, <1>20, <1>21
  DEF StoreNext

\* Every reachable state of the vectors and the rows satisfies the invariant.
LEMMA StoreInvariance == StoreSpec => []StoreInv
<1>1. StoreInit => StoreInv
  BY DEF StoreInit, Ready, StoreInv, StoreTypeOK, Working, SweptAreLate, RowsGoLast, ErasureGoesOn,
         Erased, HasRow
<1> QED BY <1>1, StoreStep, PTL DEF StoreSpec

\* cleanup.py:48: the vectors of a row that is gone were written after the sweep, by an
\* ingestion still going on; no failure, death or rollback leaves others.
THEOREM VectorsGoFirst == StoreSpec => []NoVectorOutlivesItsRow
<1>1. StoreInv => NoVectorOutlivesItsRow
  BY StoreAssumption DEF StoreInv, StoreTypeOK, SweptAreLate, RowsGoLast, NoVectorOutlivesItsRow, Payload
<1> QED BY <1>1, StoreInvariance, PTL

\* org_erasure.py:142: no receipt without the erasure of all rows, and of all vectors but those
\* an ingestion wrote after the sweep.
THEOREM ReceiptsAreTrue == StoreSpec => []ReceiptIsProof
<1>1. StoreInv => ReceiptIsProof
  BY StoreAssumption
  DEF StoreInv, StoreTypeOK, SweptAreLate, ErasureGoesOn, Erased, ReceiptIsProof, Payload
<1> QED BY <1>1, StoreInvariance, PTL

----------------------------------------------------------------------------
(* Access to runs *)

\* No two rows were created at one time.
AccessInv ==
  /\ started \in Nat
  /\ DOMAIN run = Runs
  /\ \A r \in Runs : run[r] # NoRun => run[r].at \in 1 .. started
  /\ \A q, r \in Runs : (run[q] # NoRun /\ run[r] # NoRun /\ q # r) => run[q].at # run[r].at

LEMMA AccessInvariance == AccessSpec => []AccessInv
<1>1. AccessInit => AccessInv
  BY DEF AccessInit, AccessInv
<1>2. AccessInv /\ [AccessNext]_accessVars => AccessInv'
  <2> SUFFICES ASSUME AccessInv, [AccessNext]_accessVars PROVE AccessInv'
    OBVIOUS
  <2>1. CASE UNCHANGED <<run, started>>
    BY <2>1, Zenon DEF AccessInv
  <2>2. ASSUME NEW u \in Users, NEW r \in Runs, StartRun(u, r) PROVE AccessInv'
    <3>1. PICK d : run' = [run EXCEPT ![r] = [org |-> OrgOf[u], by |-> u, dept |-> d,
                                              at |-> started + 1]]
      BY <2>2, Zenon DEF StartRun
    <3>2. started' = started + 1
      BY <2>2, Zenon DEF StartRun
    <3> QED BY <3>1, <3>2 DEF AccessInv
  <2>3. ASSUME NEW u \in Users, NEW r \in Runs, DeleteRun(u, r) PROVE AccessInv'
    <3>1. run' = [run EXCEPT ![r] = NoRun] /\ started' = started
      BY <2>3, Zenon DEF DeleteRun
    <3> QED BY <3>1 DEF AccessInv
  <2>4. ASSUME AccessNext,
               ~ \E u \in Users, r \in Runs : StartRun(u, r) \/ DeleteRun(u, r)
        PROVE  UNCHANGED <<run, started>>
    BY <2>4, Zenon
    DEF AccessNext, Review, Reviewed, SaveOverride, Login, Invite, Uninvite, AssignApprover,
        JoinDepartment, ChangeRole
  <2>5. CASE UNCHANGED accessVars
    BY <2>1, <2>5, Zenon DEF accessVars
  <2> QED BY <2>1, <2>2, <2>3, <2>4, <2>5, Zenon
<1> QED BY <1>1, <1>2, PTL DEF AccessSpec

\* A set of numbers that is not empty has a least one.
LEMMA LeastNumber ==
  ASSUME NEW T, T \subseteq Nat, T # {}
  PROVE  \E n \in T : \A m \in T : n <= m
<1> DEFINE R == OpToRel(<, Nat)
<1>1. \A x, y \in Nat : x < y => <<x, y>> \in R
  BY DEF OpToRel
<1>2. IsWellFoundedOn(R, Nat)
  BY NatLessThanWellFounded
<1> HIDE DEF R
<1>3. PICK n \in T : \A m \in T : ~ (<<m, n>> \in R)
  BY <1>2, WFMin
<1>4. \A m \in T : ~ (m < n)
  BY <1>1, <1>3, Zenon
<1> QED BY <1>4

\* The elements with fewer than limit newer ones.
NewestOf(S, at, limit) == {r \in S : Cardinality({q \in S : at[q] > at[r]}) < limit}

\* They are all elements, or the limit newest.
LEMMA FirstPage ==
  ASSUME NEW S, IsFiniteSet(S), NEW at \in [S -> Nat], NEW top \in Nat, NEW limit \in Nat,
         \A r \in S : at[r] \in 1 .. top,
         \A q, r \in S : q # r => at[q] # at[r]
  PROVE  \/ NewestOf(S, at, limit) = S
         \/ /\ Cardinality(NewestOf(S, at, limit)) = limit
            /\ \A q \in NewestOf(S, at, limit), r \in S \ NewestOf(S, at, limit) : at[q] > at[r]
<1> DEFINE page == NewestOf(S, at, limit)
<1> DEFINE After(n) == {r \in S : at[r] > n}
           Small    == {n \in Nat : Cardinality(After(n)) <= limit}
<1>1. \A n \in Nat : /\ After(n) \subseteq S /\ IsFiniteSet(After(n))
                     /\ Cardinality(After(n)) \in Nat
  <2> TAKE n \in Nat
  <2>1. After(n) \subseteq S
    OBVIOUS
  <2>2. IsFiniteSet(After(n))
    BY <2>1, FS_Subset
  <2> QED BY <2>1, <2>2, FS_CardinalityType
<1> HIDE DEF After, page
<1>2. Small # {}
  <2>1. After(top) = {}
    BY DEF After
  <2>2. Cardinality(After(top)) <= limit
    BY <2>1, FS_EmptySet
  <2>3. top \in Small
    BY <2>2
  <2> QED BY <2>3
<1> HIDE DEF Small
<1>3. PICK n \in Small : \A m \in Small : n <= m
  <2>1. Small \subseteq Nat
    BY DEF Small
  <2> QED BY <1>2, <2>1, LeastNumber
<1>4. n \in Nat /\ Cardinality(After(n)) <= limit
  BY <1>3 DEF Small
\* Of those newer than a time, each has fewer newer ones than there are.
<1>5. ASSUME NEW m \in Nat, Cardinality(After(m)) <= limit, NEW r \in After(m)
      PROVE  r \in page
  <2>1. r \in S /\ at[r] \in Nat
    BY <1>5 DEF After
  <2>2. After(at[r]) \subseteq After(m) \ {r}
    BY <1>5, <2>1 DEF After
  <2>3. /\ IsFiniteSet(After(m) \ {r})
        /\ Cardinality(After(m) \ {r}) = Cardinality(After(m)) - 1
    BY <1>1, <1>5, FS_RemoveElement
  <2>4. Cardinality(After(at[r])) <= Cardinality(After(m) \ {r})
    BY <2>2, <2>3, FS_Subset
  <2>5. Cardinality(After(at[r])) < limit
    BY <1>1, <1>5, <2>1, <2>3, <2>4
  <2> QED BY <2>1, <2>5 DEF After, page, NewestOf
<1>6. CASE n = 0
  <2>1. After(n) = S
    BY <1>6 DEF After
  <2>2. page \subseteq S
    BY DEF page, NewestOf
  <2>3. page = S
    BY <1>4, <1>5, <2>1, <2>2
  <2> QED BY <2>3 DEF page
<1>7. CASE n # 0
  <2>1. n - 1 \in Nat /\ n - 1 \notin Small
    BY <1>3, <1>4, <1>7
  <2>2. Cardinality(After(n - 1)) > limit
    BY <1>1, <2>1 DEF Small
  <2>3. PICK new \in S : at[new] = n
    <3>1. SUFFICES ASSUME \A r \in S : at[r] # n PROVE FALSE
      OBVIOUS
    <3>2. After(n - 1) = After(n)
      BY <1>4, <1>7, <3>1 DEF After
    <3> QED BY <1>1, <1>4, <2>2, <3>2
  <2>4. After(n - 1) = After(n) \cup {new} /\ new \notin After(n)
    BY <1>4, <1>7, <2>3 DEF After
  <2>5. Cardinality(After(n - 1)) = Cardinality(After(n)) + 1
    BY <1>1, <1>4, <2>4, FS_AddElement
  <2>6. Cardinality(After(n)) = limit
    <3>1. Cardinality(After(n)) \in Nat
      BY <1>1, <1>4
    <3> QED BY <1>4, <2>2, <2>5, <3>1
  <2>7. ASSUME NEW r \in S, r \notin After(n) PROVE r \notin page
    <3>1. at[r] \in Nat /\ After(n) \subseteq After(at[r])
      BY <1>4, <2>7 DEF After
    <3>2. limit <= Cardinality(After(at[r]))
      BY <1>1, <2>6, <3>1, FS_Subset
    <3>3. ~ (Cardinality(After(at[r])) < limit)
      BY <1>1, <3>1, <3>2
    <3> QED BY <3>3 DEF After, page, NewestOf
  <2>8. page = After(n)
    <3>1. page \subseteq S /\ After(n) \subseteq S
      BY <1>1, <1>4 DEF page, NewestOf
    <3> QED BY <1>4, <1>5, <2>7, <3>1
  <2>9. ASSUME NEW q \in page, NEW r \in S \ page PROVE at[q] > at[r]
    BY <1>4, <2>8, <2>9 DEF After
  <2> QED BY <2>6, <2>8, <2>9 DEF page
<1> QED BY <1>6, <1>7

\* rbac.py, visibility.py and the two queries of list_runs, for users whose token has a role
\* that may list at all: each entry of a list can be opened, and a run that can be opened is
\* on some list, or that list holds as many newer runs as it takes, however stale the token.
THEOREM ListsAgree == AccessSpec => []AccessAgrees
<1>1. AccessInv => AccessAgrees
  <2> SUFFICES ASSUME AccessInv, NEW u \in Users, token[u] \in Writing
               PROVE  /\ \A scope \in Scopes : \A r \in Listed(u, scope) : CanView(u, r)
                      /\ \A r \in Runs : CanView(u, r) =>
                           \E scope \in Scopes : OnOrFull(r, Listed(u, scope))
    BY DEF AccessAgrees
  <2>1. ASSUME NEW scope \in Scopes, NEW r \in Selected(u, scope)
        PROVE  r \in Runs /\ run[r] # NoRun /\ CanView(u, r)
    <3>1. CASE scope = "auto"
      BY <2>1, <3>1 DEF Selected, Rows, CanView, Writing
    <3>2. CASE scope # "auto"
      <4>1. r \in VisibleTo(u)
        BY <2>1, <3>2 DEF Selected, Scoped
      <4> QED BY <4>1 DEF VisibleTo, Rows, CanView
    <3> QED BY <3>1, <3>2
  <2>2. ASSUME NEW r \in Runs, CanView(u, r) PROVE \E scope \in Scopes : r \in Selected(u, scope)
    <3>1. CASE token[u] \in Wide \/ run[r].by = u
      <4>1. r \in Selected(u, "auto")
        BY <2>2, <3>1 DEF CanView, Selected, Wide, OrgWide, Rows
      <4> QED BY <4>1 DEF Scopes
    <3>2. CASE ~ (token[u] \in Wide \/ run[r].by = u)
      <4>1. r \in VisibleTo(u) /\ token[u] \notin OrgWide
        BY <2>2, <3>2 DEF CanView, Wide
      <4>2. CASE <<u, run[r].dept>> \in member
        <5>1. r \in Selected(u, "department")
          BY <4>1, <4>2 DEF Selected, Scoped
        <5> QED BY <5>1 DEF Scopes
      <4>3. CASE <<r, u>> \in invited
        <5>1. r \in Selected(u, "shared")
          BY <4>1, <4>3 DEF Selected, Scoped
        <5> QED BY <5>1 DEF Scopes
      <4>4. CASE <<r, u>> \in approver
        <5>1. r \in Selected(u, "approvals")
          BY <4>1, <4>4 DEF Selected, Scoped
        <5> QED BY <5>1 DEF Scopes
      <4> QED BY <3>2, <4>1, <4>2, <4>3, <4>4 DEF VisibleTo
    <3> QED BY <3>1, <3>2
  <2>3. ASSUME NEW scope \in Scopes, NEW r \in Listed(u, scope) PROVE CanView(u, r)
    <3>1. r \in Selected(u, scope)
      BY <2>3 DEF Listed
    <3> QED BY <2>1, <3>1
  <2>4. ASSUME NEW r \in Runs, CanView(u, r)
        PROVE  \E scope \in Scopes : OnOrFull(r, Listed(u, scope))
    <3>1. PICK scope \in Scopes : r \in Selected(u, scope)
      BY <2>2, <2>4
    <3> DEFINE S  == Selected(u, scope)
               at == [q \in S |-> run[q].at]
    <3>2. S \subseteq Runs /\ \A q \in S : run[q] # NoRun
      BY <2>1
    <3>3. IsFiniteSet(S)
      BY <3>2, AccessAssumption, FS_Subset
    <3>4. /\ at \in [S -> Nat]
          /\ \A q \in S : at[q] \in 1 .. started
          /\ \A p, q \in S : p # q => at[p] # at[q]
      BY <3>2 DEF AccessInv
    <3>5. Listed(u, scope) = NewestOf(S, at, ListLimit)
      <4>1. \A p \in S : {q \in S : Newer(q, p)} = {q \in S : at[q] > at[p]}
        BY DEF Newer
      <4> QED BY <4>1 DEF Listed, NewestOf
    <3>6. started \in Nat /\ ListLimit \in Nat
      BY AccessAssumption DEF AccessInv
    <3> DEFINE page == Listed(u, scope)
    <3> HIDE DEF S, at, page
    <3>7. \/ page = S
          \/ Cardinality(page) = ListLimit /\ \A q \in page, p \in S \ page : at[q] > at[p]
      BY <3>3, <3>4, <3>5, <3>6, FirstPage DEF page
    <3>8. \A q \in page, p \in S : at[q] > at[p] => Newer(q, p)
      <4>1. page \subseteq S
        BY DEF page, S, Listed
      <4> QED BY <4>1 DEF S, at, Newer
    <3>9. OnOrFull(r, page)
      BY <3>1, <3>7, <3>8 DEF OnOrFull, S
    <3> QED BY <3>9 DEF page
  <2> QED BY <2>3, <2>4
<1> QED BY <1>1, AccessInvariance, PTL

----------------------------------------------------------------------------
(* The criteria of a setup *)

\* The loop of AddAll after n rounds, as a recursion over the rounds.
Rounds(f, merged, list, n) ==
  f = [i \in 0 .. n |-> IF i = 0 THEN merged ELSE Add(f[i - 1], list[i])]

\* The recursion that defines AddAll has a solution.
LEMMA AddAllRounds ==
  ASSUME NEW merged, NEW list, Len(list) \in Nat
  PROVE  \E f : Rounds(f, merged, list, Len(list)) /\ AddAll(merged, list) = f[Len(list)]
<1> DEFINE Bad == {n \in Nat : ~ \E f : Rounds(f, merged, list, n)}
<1>1. Bad = {}
  <2> SUFFICES ASSUME Bad # {} PROVE FALSE
    OBVIOUS
  <2>1. PICK n \in Bad : \A m \in Bad : n <= m
    BY LeastNumber
  <2>2. CASE n = 0
    <3> DEFINE f == [i \in 0 .. 0 |-> merged]
    <3>1. Rounds(f, merged, list, 0)
      BY DEF Rounds
    <3> QED BY <2>1, <2>2, <3>1
  <2>3. CASE n # 0
    <3>1. n \in Nat /\ n - 1 \in Nat /\ n - 1 \notin Bad
      BY <2>1, <2>3
    <3>2. PICK g : Rounds(g, merged, list, n - 1)
      BY <3>1
    <3> DEFINE f == [i \in 0 .. n |-> IF i = n THEN Add(g[n - 1], list[n]) ELSE g[i]]
    <3>3. \A i \in 0 .. n - 1 : f[i] = g[i]
      BY <3>1
    <3>4. \A i \in 0 .. n : f[i] = IF i = 0 THEN merged ELSE Add(f[i - 1], list[i])
      <4> SUFFICES ASSUME NEW i \in 0 .. n
                   PROVE  f[i] = IF i = 0 THEN merged ELSE Add(f[i - 1], list[i])
        OBVIOUS
      <4>1. CASE i = n
        <5>1. f[i] = Add(g[n - 1], list[n])
          BY <4>1
        <5>2. f[n - 1] = g[n - 1]
          BY <3>1, <3>3
        <5> QED BY <2>3, <4>1, <5>1, <5>2
      <4>2. CASE i # n
        <5>1. i \in 0 .. n - 1 /\ (i # 0 => i - 1 \in 0 .. n - 1)
          BY <3>1, <4>2
        <5>2. g[i] = IF i = 0 THEN merged ELSE Add(g[i - 1], list[i])
          BY <3>2, <5>1 DEF Rounds
        <5>3. f[i] = g[i] /\ (i # 0 => f[i - 1] = g[i - 1])
          BY <3>3, <5>1
        <5> QED BY <5>2, <5>3
      <4> QED BY <4>1, <4>2
    <3>5. Rounds(f, merged, list, n)
      <4> HIDE DEF f
      <4>1. f = [i \in 0 .. n |-> f[i]]
        BY DEF f
      <4> QED BY <3>4, <4>1 DEF Rounds
    <3> QED BY <2>1, <3>5
  <2> QED BY <2>2, <2>3
<1>2. \E f : Rounds(f, merged, list, Len(list))
  BY <1>1
<1> DEFINE after == CHOOSE f : Rounds(f, merged, list, Len(list))
<1>3. Rounds(after, merged, list, Len(list))
  BY <1>2
<1>4. AddAll(merged, list) = after[Len(list)]
  BY DEF AddAll, Rounds
<1> QED BY <1>3, <1>4

\* What the first n rounds over the list of a source make of the merged list: they keep it,
\* append entries of the list, unless it is the organisation's only under new names, and
\* leave no name out.
Grown(merged, after, list, n, source) ==
  /\ Len(merged) <= Len(after)
  /\ \A i \in 1 .. Len(merged) : after[i] = merged[i]
  /\ \A i \in Len(merged) + 1 .. Len(after) :
       /\ \E j \in 1 .. n : after[i] = list[j]
       /\ source # "org" => \A h \in 1 .. i - 1 : after[h].name # after[i].name
  /\ \A j \in 1 .. n : \E i \in 1 .. Len(after) : after[i].name = list[j].name

\* One round of the loop.
LEMMA AddGrows ==
  ASSUME NEW S, NEW merged \in Seq(S), NEW before \in Seq(S), NEW list \in Seq(S), NEW source,
         NEW n \in 1 .. Len(list), list[n].source = source,
         Grown(merged, before, list, n - 1, source)
  PROVE  /\ Add(before, list[n]) \in Seq(S)
         /\ Grown(merged, Add(before, list[n]), list, n, source)
<1> DEFINE e == list[n]
           known == \E x \in In(before) : x.name = e.name
<1>1. e \in S /\ DOMAIN before = 1 .. Len(before) /\ Len(before) \in Nat /\ Len(merged) \in Nat
  OBVIOUS
<1>2. CASE e.source # "org" /\ known
  <2>1. Add(before, e) = before
    BY <1>2 DEF Add
  <2>2. \E i \in 1 .. Len(before) : before[i].name = e.name
    BY <1>1, <1>2 DEF In
  <2>3. ASSUME NEW j \in 1 .. n PROVE \E i \in 1 .. Len(before) : before[i].name = list[j].name
    BY <2>2 DEF Grown
  <2>4. \A i \in Len(merged) + 1 .. Len(before) : \E j \in 1 .. n : before[i] = list[j]
    BY DEF Grown
  <2> QED BY <2>1, <2>3, <2>4 DEF Grown
<1>3. CASE ~(e.source # "org" /\ known)
  <2> DEFINE after == Append(before, e)
  <2>1. Add(before, e) = after
    BY <1>3 DEF Add
  <2>2. /\ after \in Seq(S) /\ Len(after) = Len(before) + 1 /\ after[Len(before) + 1] = e
        /\ \A i \in 1 .. Len(before) : after[i] = before[i]
    BY <1>1
  <2> HIDE DEF after
  <2>3. \A i \in 1 .. Len(merged) : after[i] = merged[i]
    BY <1>1, <2>2 DEF Grown
  <2>4. ASSUME NEW i \in Len(merged) + 1 .. Len(after)
        PROVE  /\ \E j \in 1 .. n : after[i] = list[j]
               /\ source # "org" => \A h \in 1 .. i - 1 : after[h].name # after[i].name
    <3>1. CASE i = Len(before) + 1
      <4>1. after[i] = list[n]
        BY <2>2, <3>1
      <4>2. ASSUME source # "org", NEW h \in 1 .. i - 1 PROVE after[h].name # after[i].name
        <5>1. after[h] = before[h] /\ before[h] \in In(before)
          BY <1>1, <2>2, <3>1 DEF In
        <5> QED BY <1>3, <4>1, <4>2, <5>1
      <4> QED BY <4>1, <4>2
    <3>2. CASE i # Len(before) + 1
      <4>1. i \in Len(merged) + 1 .. Len(before)
        BY <1>1, <2>2, <3>2
      <4>2. after[i] = before[i] /\ \A h \in 1 .. i - 1 : after[h] = before[h]
        BY <1>1, <2>2, <4>1
      <4>3. \E j \in 1 .. n - 1 : before[i] = list[j]
        BY <4>1 DEF Grown
      <4>4. \E j \in 1 .. n : after[i] = list[j]
        BY <4>2, <4>3
      <4>5. source # "org" => \A h \in 1 .. i - 1 : before[h].name # before[i].name
        BY <4>1 DEF Grown
      <4>6. source # "org" => \A h \in 1 .. i - 1 : after[h].name # after[i].name
        BY <4>2, <4>5
      <4> QED BY <4>4, <4>6
    <3> QED BY <3>1, <3>2
  <2>5. ASSUME NEW j \in 1 .. n PROVE \E i \in 1 .. Len(after) : after[i].name = list[j].name
    <3>1. CASE j = n
      BY <1>1, <2>2, <3>1
    <3>2. CASE j # n
      <4>1. PICK i \in 1 .. Len(before) : before[i].name = list[j].name
        BY <3>2 DEF Grown
      <4>2. i \in 1 .. Len(after) /\ after[i] = before[i]
        BY <1>1, <2>2
      <4> QED BY <4>1, <4>2
    <3> QED BY <3>1, <3>2
  <2>6. Len(merged) <= Len(after)
    BY <1>1, <2>2 DEF Grown
  <2> QED BY <2>1, <2>2, <2>3, <2>4, <2>5, <2>6 DEF Grown
<1> QED BY <1>2, <1>3

\* The whole loop over the list of a source.
LEMMA AddAllGrows ==
  ASSUME NEW S, NEW merged \in Seq(S), NEW list \in Seq(S), NEW source,
         \A i \in 1 .. Len(list) : list[i].source = source
  PROVE  /\ AddAll(merged, list) \in Seq(S)
         /\ Grown(merged, AddAll(merged, list), list, Len(list), source)
<1> DEFINE L == Len(list)
<1>1. L \in Nat
  OBVIOUS
<1>2. PICK f : Rounds(f, merged, list, L) /\ AddAll(merged, list) = f[L]
  BY AddAllRounds
<1> DEFINE Good(n) == f[n] \in Seq(S) /\ Grown(merged, f[n], list, n, source)
           Bad == {n \in Nat : n <= L /\ ~Good(n)}
<1>3. Bad = {}
  <2> SUFFICES ASSUME Bad # {} PROVE FALSE
    OBVIOUS
  <2>1. PICK n \in Bad : \A m \in Bad : n <= m
    BY LeastNumber
  <2>2. CASE n = 0
    <3>1. f[0] = merged
      BY <1>1, <1>2 DEF Rounds
    <3>2. Grown(merged, merged, list, 0, source)
      BY DEF Grown
    <3> QED BY <2>1, <2>2, <3>1, <3>2
  <2>3. CASE n # 0
    <3>1. n \in 1 .. L /\ n - 1 \in Nat /\ n - 1 <= L /\ n - 1 \notin Bad
      BY <1>1, <2>1, <2>3
    <3>2. Good(n - 1)
      BY <3>1
    <3>3. f[n] = Add(f[n - 1], list[n])
      BY <1>1, <1>2, <3>1 DEF Rounds
    <3>4. Good(n)
      BY <3>1, <3>2, <3>3, AddGrows, SMTT(30)
    <3> QED BY <2>1, <3>4
  <2> QED BY <2>2, <2>3
<1>4. Good(L)
  BY <1>1, <1>3
<1> QED BY <1>2, <1>4

IsList(list) == list \in Seq(In(list))

\* FirstSourceWins for one kind: what a list says of the names that the sources list.
FirstOf(s, kind, name) == IF \E e \in In(s.org[kind]) : e.name = name THEN "org"
                          ELSE IF \E e \in In(s.dept[kind]) : e.name = name THEN "dept" ELSE "user"
OneSource(list, s, kind) ==
  \A src \in {"org", "dept", "user"} : \A e \in In(s[src][kind]) :
    /\ {list[i].source : i \in Places(list, e.name)} = {FirstOf(s, kind, e.name)}
    /\ FirstOf(s, kind, e.name) # "org" => \A i, j \in Places(list, e.name) : i = j

\* Where a list has its entries.
LEMMA ListedAt ==
  ASSUME NEW list, list \in Seq(In(list)), NEW source, \A e \in In(list) : e.source = source
  PROVE  /\ \A j \in 1 .. Len(list) : list[j] \in In(list) /\ list[j].source = source
         /\ \A e \in In(list) : \E j \in 1 .. Len(list) : e = list[j]
         /\ \A S : In(list) \subseteq S => list \in Seq(S)
<1>1. DOMAIN list = 1 .. Len(list)
  OBVIOUS
<1>2. \A j \in 1 .. Len(list) : list[j] \in In(list)
  BY <1>1 DEF In
<1>3. \A e \in In(list) : \E j \in 1 .. Len(list) : e = list[j]
  BY <1>1 DEF In
<1>4. ASSUME NEW S, In(list) \subseteq S PROVE list \in Seq(S)
  BY <1>2, <1>4
<1> QED BY <1>2, <1>3, <1>4

\* merge_criteria: the four loops one after the other give each name to its first source.
LEMMA MergeKeepsFirst ==
  ASSUME NEW s, NEW k \in Kinds, FromSource(s.org, "org"), FromSource(s.dept, "dept"),
         FromSource(s.user, "user"), FromSource(s.rfp, "rfp")
  PROVE  /\ IsList(MergedList(s, k)) /\ OneSource(MergedList(s, k), s, k)
         /\ \A i \in DOMAIN MergedList(s, k) : MergedList(s, k)[i].weight \in Int
<1> DEFINE org == s.org[k]  dept == s.dept[k]  user == s.user[k]  rfp == s.rfp[k]
           S  == In(org) \cup In(dept) \cup In(user) \cup In(rfp)
           m1 == AddAll(<<>>, org)
           m2 == AddAll(m1, dept)
           m3 == AddAll(m2, user)
           m4 == AddAll(m3, rfp)
<1>1. /\ org \in Seq(In(org)) /\ \A e \in In(org) : e.source = "org"
      /\ dept \in Seq(In(dept)) /\ \A e \in In(dept) : e.source = "dept"
      /\ user \in Seq(In(user)) /\ \A e \in In(user) : e.source = "user"
      /\ rfp \in Seq(In(rfp)) /\ \A e \in In(rfp) : e.source = "rfp"
  BY DEF FromSource
<1>2. \A e \in S : e.weight \in Int
  BY DEF FromSource
<1> DEFINE o == Len(m1)  d == Len(m2)  u == Len(m3)  r == Len(m4)
<1>3. m4 = MergedList(s, k)
  BY DEF MergedList
<1> HIDE DEF org, dept, user, rfp
<1>4. /\ org \in Seq(S) /\ dept \in Seq(S) /\ user \in Seq(S) /\ rfp \in Seq(S)
      /\ \A j \in 1 .. Len(rfp) : rfp[j].source = "rfp"
  BY <1>1, ListedAt, ZenonT(30)
<1>5. /\ \A j \in 1 .. Len(org) : org[j] \in In(org) /\ org[j].source = "org"
      /\ \A e \in In(org) : \E j \in 1 .. Len(org) : e = org[j]
  BY <1>1, ListedAt, ZenonT(30)
<1>6. /\ \A j \in 1 .. Len(dept) : dept[j] \in In(dept) /\ dept[j].source = "dept"
      /\ \A e \in In(dept) : \E j \in 1 .. Len(dept) : e = dept[j]
  BY <1>1, ListedAt, ZenonT(30)
<1>7. /\ \A j \in 1 .. Len(user) : user[j] \in In(user) /\ user[j].source = "user"
      /\ \A e \in In(user) : \E j \in 1 .. Len(user) : e = user[j]
  BY <1>1, ListedAt, ZenonT(30)
<1> HIDE DEF S
<1>8. m1 \in Seq(S) /\ Grown(<<>>, m1, org, Len(org), "org")
  <2>1. <<>> \in Seq(S)
    OBVIOUS
  <2> QED BY <1>5, <1>4, <2>1, AddAllGrows
<1>9. m2 \in Seq(S) /\ Grown(m1, m2, dept, Len(dept), "dept")
  <2> HIDE DEF m1
  <2> QED BY <1>6, <1>4, <1>8, AddAllGrows
<1>10. m3 \in Seq(S) /\ Grown(m2, m3, user, Len(user), "user")
  <2> HIDE DEF m2
  <2> QED BY <1>7, <1>4, <1>9, AddAllGrows
<1>11. m4 \in Seq(S) /\ Grown(m3, m4, rfp, Len(rfp), "rfp")
  <2> HIDE DEF m3
  <2> QED BY <1>4, <1>10, AddAllGrows
<1> HIDE DEF m1, m2, m3, m4
<1>12. o \in Nat /\ d \in Nat /\ u \in Nat /\ r \in Nat /\ o <= d /\ d <= u /\ u <= r
  BY <1>8, <1>9, <1>10, <1>11 DEF Grown
<1>13. /\ \A i \in 1 .. o : m2[i] = m1[i]
       /\ \A i \in 1 .. d : m3[i] = m2[i]
       /\ \A i \in 1 .. u : m4[i] = m3[i]
  BY <1>9, <1>10, <1>11 DEF Grown
<1>14. /\ \A i \in 1 .. o : m4[i] = m1[i]
       /\ \A i \in 1 .. d : m4[i] = m2[i]
  <2>1. ASSUME NEW i \in 1 .. d PROVE m4[i] = m2[i]
    BY <1>12, <1>13
  <2>2. ASSUME NEW i \in 1 .. o PROVE m4[i] = m1[i]
    <3>1. i \in 1 .. d
      BY <1>12
    <3> QED BY <1>13, <2>1, <3>1
  <2> QED BY <2>1, <2>2
\* Where the entries of each source are.
<1>15. \A i \in 1 .. o : m4[i] \in In(org) /\ m4[i].source = "org"
  <2> SUFFICES ASSUME NEW i \in 1 .. o PROVE m4[i] \in In(org) /\ m4[i].source = "org"
    OBVIOUS
  <2>1. PICK j \in 1 .. Len(org) : m1[i] = org[j]
    BY <1>8 DEF Grown
  <2> QED BY <1>14, <1>5, <2>1
<1>16. \A i \in o + 1 .. d : /\ m4[i] \in In(dept) /\ m4[i].source = "dept"
                           /\ \A h \in 1 .. i - 1 : m4[h].name # m4[i].name
  <2> SUFFICES ASSUME NEW i \in o + 1 .. d
               PROVE  /\ m4[i] \in In(dept) /\ m4[i].source = "dept"
                      /\ \A h \in 1 .. i - 1 : m4[h].name # m4[i].name
    OBVIOUS
  <2>1. m4[i] = m2[i] /\ \A h \in 1 .. i - 1 : m4[h] = m2[h]
    <3>1. i \in 1 .. d /\ \A h \in 1 .. i - 1 : h \in 1 .. d
      BY <1>12
    <3> QED BY <1>14, <3>1
  <2>2. PICK j \in 1 .. Len(dept) : m2[i] = dept[j]
    BY <1>9 DEF Grown
  <2>3. \A h \in 1 .. i - 1 : m2[h].name # m2[i].name
    BY <1>9 DEF Grown
  <2>4. m4[i] \in In(dept) /\ m4[i].source = "dept"
    BY <1>6, <2>1, <2>2
  <2>5. ASSUME NEW h \in 1 .. i - 1 PROVE m4[h].name # m4[i].name
    BY <2>1, <2>3
  <2> QED BY <2>4, <2>5
<1>17. \A i \in d + 1 .. u : /\ m4[i] \in In(user) /\ m4[i].source = "user"
                            /\ \A h \in 1 .. i - 1 : m4[h].name # m4[i].name
  <2> SUFFICES ASSUME NEW i \in d + 1 .. u
               PROVE  /\ m4[i] \in In(user) /\ m4[i].source = "user"
                      /\ \A h \in 1 .. i - 1 : m4[h].name # m4[i].name
    OBVIOUS
  <2>1. m4[i] = m3[i] /\ \A h \in 1 .. i - 1 : m4[h] = m3[h]
    <3>1. i \in 1 .. u /\ \A h \in 1 .. i - 1 : h \in 1 .. u
      BY <1>12
    <3> QED BY <1>13, <3>1
  <2>2. PICK j \in 1 .. Len(user) : m3[i] = user[j]
    BY <1>10 DEF Grown
  <2>3. \A h \in 1 .. i - 1 : m3[h].name # m3[i].name
    BY <1>10 DEF Grown
  <2>4. m4[i] \in In(user) /\ m4[i].source = "user"
    BY <1>7, <2>1, <2>2
  <2>5. ASSUME NEW h \in 1 .. i - 1 PROVE m4[h].name # m4[i].name
    BY <2>1, <2>3
  <2> QED BY <2>4, <2>5
<1>18. \A i \in u + 1 .. r : \A h \in 1 .. i - 1 : m4[h].name # m4[i].name
  BY <1>11 DEF Grown
<1>19. /\ \A e \in In(org) : \E i \in 1 .. o : m4[i].name = e.name
       /\ \A e \in In(dept) : \E i \in 1 .. d : m4[i].name = e.name
       /\ \A e \in In(user) : \E i \in 1 .. u : m4[i].name = e.name
  <2>1. \A e \in In(org) : \E i \in 1 .. o : m1[i].name = e.name
    <3> SUFFICES ASSUME NEW e \in In(org) PROVE \E i \in 1 .. o : m1[i].name = e.name
      OBVIOUS
    <3>1. PICK j \in 1 .. Len(org) : e = org[j]
      BY <1>5
    <3> QED BY <1>8, <3>1 DEF Grown
  <2>2. \A e \in In(dept) : \E i \in 1 .. d : m2[i].name = e.name
    <3> SUFFICES ASSUME NEW e \in In(dept) PROVE \E i \in 1 .. d : m2[i].name = e.name
      OBVIOUS
    <3>1. PICK j \in 1 .. Len(dept) : e = dept[j]
      BY <1>6
    <3> QED BY <1>9, <3>1 DEF Grown
  <2>3. \A e \in In(user) : \E i \in 1 .. u : m3[i].name = e.name
    <3> SUFFICES ASSUME NEW e \in In(user) PROVE \E i \in 1 .. u : m3[i].name = e.name
      OBVIOUS
    <3>1. PICK j \in 1 .. Len(user) : e = user[j]
      BY <1>7
    <3> QED BY <1>10, <3>1 DEF Grown
  <2> QED BY <1>13, <1>14, <2>1, <2>2, <2>3
<1>20. DOMAIN m4 = 1 .. r
  BY <1>11
<1>21. ASSUME NEW src \in {"org", "dept", "user"}, NEW e \in In(s[src][k])
       PROVE  /\ {m4[i].source : i \in Places(m4, e.name)} = {FirstOf(s, k, e.name)}
              /\ FirstOf(s, k, e.name) # "org" => \A i, j \in Places(m4, e.name) : i = j
  <2> DEFINE places == Places(m4, e.name)
             InOrg  == \E x \in In(org) : x.name = e.name
             InDept == \E x \in In(dept) : x.name = e.name
  <2>1. places = {i \in 1 .. r : m4[i].name = e.name}
    BY <1>20 DEF Places
  <2>2. FirstOf(s, k, e.name) = IF InOrg THEN "org" ELSE IF InDept THEN "dept" ELSE "user"
    BY DEF FirstOf, org, dept
  <2>3. \A i \in places : i > o => \A h \in 1 .. i - 1 : m4[h].name # m4[i].name
    <3>1. ASSUME NEW i \in places, i > o
          PROVE  i \in o + 1 .. d \/ i \in d + 1 .. u \/ i \in u + 1 .. r
      BY <1>12, <2>1, <3>1
    <3> QED BY <1>16, <1>17, <1>18, <3>1
  <2>4. CASE InOrg
    <3>1. PICK h \in 1 .. o : m4[h].name = e.name
      BY <1>19, <2>4
    <3>2. h \in places /\ \A i \in places : i \in 1 .. o
      BY <1>12, <2>1, <2>3, <3>1
    <3>3. \A i \in places : m4[i].source = "org"
      BY <1>15, <3>2
    <3>4. {m4[i].source : i \in places} = {"org"}
      BY <3>2, <3>3
    <3> QED BY <2>2, <2>4, <3>4
  <2>5. CASE ~InOrg
    <3>1. \A i \in places : i > o
      BY <1>12, <1>15, <2>1, <2>5
    <3>2. \A i, j \in places : i = j
      <4> SUFFICES ASSUME NEW i \in places, NEW j \in places, i < j PROVE FALSE
        BY <2>1, <1>12
      <4> QED BY <2>1, <2>3, <3>1
    <3>3. PICK h \in places : m4[h].source = IF InDept THEN "dept" ELSE "user"
      <4>1. CASE InDept
        <5>1. PICK h \in 1 .. d : m4[h].name = e.name
          BY <1>19, <4>1
        <5>2. h \in places /\ h \in o + 1 .. d
          BY <1>12, <2>1, <3>1, <5>1
        <5> QED BY <1>16, <4>1, <5>2
      <4>2. CASE ~InDept
        <5>1. e \in In(user)
          BY <2>5, <4>2 DEF org, dept, user
        <5>2. PICK h \in 1 .. u : m4[h].name = e.name
          BY <1>19, <5>1
        <5>3. h \in places /\ h \notin o + 1 .. d
          BY <1>12, <1>16, <2>1, <4>2, <5>2
        <5>4. h \in d + 1 .. u
          BY <1>12, <3>1, <5>2, <5>3
        <5> QED BY <1>17, <4>2, <5>3, <5>4
      <4> QED BY <4>1, <4>2
    <3>4. {m4[i].source : i \in places} = {m4[h].source}
      BY <3>2, <3>3
    <3> QED BY <2>2, <2>5, <3>2, <3>3, <3>4
  <2> QED BY <2>4, <2>5
<1>22. IsList(m4)
  <2>1. \A i \in 1 .. r : m4[i] \in In(m4)
    BY <1>20 DEF In
  <2> QED BY <1>11, <2>1 DEF IsList
<1>23. OneSource(m4, s, k)
  BY <1>21 DEF OneSource
<1>24. \A i \in 1 .. r : m4[i].weight \in Int
  BY <1>11, <1>2
<1> QED BY <1>3, <1>20, <1>22, <1>23, <1>24

\* The functions on a list that touch weights and guides only.
Alike(list, other) ==
  /\ DOMAIN other = DOMAIN list
  /\ \A i \in DOMAIN list : other[i].source = list[i].source /\ other[i].name = list[i].name

\* A function on the first numbers is a list.
LEMMA FunctionIsList ==
  ASSUME NEW n \in Nat, NEW list, list = [i \in 1 .. n |-> list[i]]
  PROVE  IsList(list)
<1>1. \A i \in 1 .. n : list[i] \in In(list)
  BY DEF In
<1>2. list \in [1 .. n -> In(list)]
  BY <1>1
<1> QED BY <1>2 DEF IsList

\* Sharing weights evenly or scaling them keeps sources and names.
LEMMA WeighedAlike ==
  ASSUME NEW list, IsList(list), NEW total
  PROVE  /\ IsList(Scaled(list, total)) /\ Alike(list, Scaled(list, total))
         /\ IsList(Evened(list)) /\ Alike(list, Evened(list))
<1>1. list \in Seq(In(list)) /\ Len(list) \in Nat /\ DOMAIN list = 1 .. Len(list)
  BY DEF IsList
<1>2. IsList(Scaled(list, total)) /\ Alike(list, Scaled(list, total))
  <2> DEFINE new == Scaled(list, total)
  <2>1. new = [i \in 1 .. Len(list) |-> Entry(list[i].source, list[i].name,
                                              Share(list[i].weight, total), list[i].guide)]
    BY <1>1 DEF Scaled, Reweighted
  <2> HIDE DEF new
  <2>2. /\ DOMAIN new = 1 .. Len(list) /\ new = [i \in 1 .. Len(list) |-> new[i]]
        /\ \A i \in 1 .. Len(list) : new[i].source = list[i].source /\ new[i].name = list[i].name
    BY <2>1 DEF Entry
  <2>3. IsList(new)
    BY <1>1, <2>2, FunctionIsList
  <2>4. Alike(list, new)
    BY <1>1, <2>2 DEF Alike
  <2> QED BY <2>3, <2>4 DEF new
<1>3. IsList(Evened(list)) /\ Alike(list, Evened(list))
  <2> DEFINE new == Evened(list)
  <2>1. new = [i \in 1 .. Len(list) |-> Entry(list[i].source, list[i].name,
                                              Share(1, Len(list)), list[i].guide)]
    BY <1>1 DEF Evened, Reweighted
  <2> HIDE DEF new
  <2>2. /\ DOMAIN new = 1 .. Len(list) /\ new = [i \in 1 .. Len(list) |-> new[i]]
        /\ \A i \in 1 .. Len(list) : new[i].source = list[i].source /\ new[i].name = list[i].name
    BY <2>1 DEF Entry
  <2>3. IsList(new)
    BY <1>1, <2>2, FunctionIsList
  <2>4. Alike(list, new)
    BY <1>1, <2>2 DEF Alike
  <2> QED BY <2>3, <2>4 DEF new
<1> QED BY <1>2, <1>3

\* Copying the RFP's guides keeps sources and names.
LEMMA EnrichedAlike ==
  ASSUME NEW list, IsList(list), NEW rfp
  PROVE  /\ IsList(Enriched(list, rfp)) /\ Alike(list, Enriched(list, rfp))
         /\ \A i \in DOMAIN list : Enriched(list, rfp)[i].weight = list[i].weight
<1>1. list \in Seq(In(list)) /\ Len(list) \in Nat /\ DOMAIN list = 1 .. Len(list)
  BY DEF IsList
<1> DEFINE new == Enriched(list, rfp)
<1>2. new = [i \in 1 .. Len(list) |->
               IF list[i].guide = "blank" /\ HasGuide(rfp, list[i].name)
               THEN Entry(list[i].source, list[i].name, list[i].weight, "rfp") ELSE list[i]]
  BY <1>1 DEF Enriched, Guided
<1> HIDE DEF new
<1>3. /\ DOMAIN new = 1 .. Len(list) /\ new = [i \in 1 .. Len(list) |-> new[i]]
      /\ \A i \in 1 .. Len(list) : new[i].source = list[i].source /\ new[i].name = list[i].name
  BY <1>2 DEF Entry
<1>4. IsList(new)
  BY <1>1, <1>3, FunctionIsList
<1>5. Alike(list, new)
  BY <1>1, <1>3 DEF Alike
<1>6. \A i \in 1 .. Len(list) : new[i].weight = list[i].weight
  BY <1>2 DEF Entry
<1> QED BY <1>1, <1>4, <1>5, <1>6 DEF new

\* Alike lists agree on who has a name.
LEMMA AlikeKeepsFirst ==
  ASSUME NEW list, NEW other, NEW s, NEW k, Alike(list, other), OneSource(list, s, k)
  PROVE  OneSource(other, s, k)
<1>1. \A name : Places(other, name) = Places(list, name)
  BY DEF Places, Alike
<1>2. ASSUME NEW name
      PROVE  {other[i].source : i \in Places(list, name)} = {list[i].source : i \in Places(list, name)}
  BY DEF Places, Alike
<1> QED BY <1>1, <1>2 DEF OneSource

\* A list without entries gives every name to its first source only if none has a name.
LEMMA EmptyKeepsFirst ==
  ASSUME NEW s, NEW k, OneSource(<<>>, s, k), NEW list
  PROVE  OneSource(list, s, k)
<1>1. \A name : Places(<<>>, name) = {}
  BY DEF Places
<1>2. ASSUME NEW src \in {"org", "dept", "user"}, NEW e \in In(s[src][k]) PROVE FALSE
  <2>1. {<<>>[i].source : i \in Places(<<>>, e.name)} = {FirstOf(s, k, e.name)}
    BY <1>2 DEF OneSource
  <2>2. {<<>>[i].source : i \in Places(<<>>, e.name)} = {}
    BY <1>1
  <2> QED BY <2>1, <2>2
<1> QED BY <1>2 DEF OneSource

----------------------------------------------------------------------------
(* The weights of a setup *)

\* The recursion that defines SumOf has a solution: the sums of the first numbers.
Sums(f, numbers, n) ==
  /\ f \in [0 .. n -> Int] /\ f[0] = 0
  /\ \A i \in 1 .. n : f[i] = f[i - 1] + numbers[i]

\* SumOf computes them.
LEMMA SumOfSums ==
  ASSUME NEW numbers \in Seq(Int)
  PROVE  \E f : Sums(f, numbers, Len(numbers)) /\ SumOf(numbers) = f[Len(numbers)]
<1> DEFINE L == Len(numbers)
           Bad == {n \in Nat : n <= L /\ ~ \E f : Sums(f, numbers, n)}
           Recursive(f) == f = [i \in 0 .. L |-> IF i = 0 THEN 0 ELSE f[i - 1] + numbers[i]]
<1>1. L \in Nat
  OBVIOUS
<1>2. Bad = {}
  <2> SUFFICES ASSUME Bad # {} PROVE FALSE
    OBVIOUS
  <2>1. PICK n \in Bad : \A m \in Bad : n <= m
    BY LeastNumber
  <2>2. CASE n = 0
    <3>1. Sums([i \in 0 .. 0 |-> 0], numbers, 0)
      BY DEF Sums
    <3> QED BY <2>1, <2>2, <3>1
  <2>3. CASE n # 0
    <3>1. n \in 1 .. L /\ n - 1 \in Nat /\ n - 1 <= L /\ n - 1 \notin Bad
      BY <1>1, <2>1, <2>3, SMTT(30)
    <3>2. PICK g : Sums(g, numbers, n - 1)
      BY <3>1
    <3> DEFINE f == [i \in 0 .. n |-> IF i = n THEN g[n - 1] + numbers[n] ELSE g[i]]
    <3>3. g[n - 1] \in Int /\ numbers[n] \in Int
      BY <3>1, <3>2 DEF Sums
    <3>4. \A i \in 0 .. n : f[i] \in Int
      BY <3>1, <3>2, <3>3 DEF Sums
    <3>5. f[0] = 0
      BY <3>1, <3>2 DEF Sums
    <3>6. ASSUME NEW i \in 1 .. n PROVE f[i] = f[i - 1] + numbers[i]
      <4>1. CASE i = n
        BY <3>1, <4>1
      <4>2. CASE i # n
        <5>1. i \in 1 .. n - 1 /\ i - 1 \in 0 .. n - 1
          BY <3>1, <4>2
        <5> QED BY <3>1, <3>2, <5>1 DEF Sums
      <4> QED BY <4>1, <4>2
    <3>7. Sums(f, numbers, n)
      BY <3>4, <3>5, <3>6 DEF Sums
    <3> QED BY <2>1, <3>7
  <2> QED BY <2>2, <2>3
<1>3. PICK g : Sums(g, numbers, L)
  BY <1>1, <1>2
<1>4. Recursive(g)
  <2>1. \A i \in 0 .. L : g[i] = IF i = 0 THEN 0 ELSE g[i - 1] + numbers[i]
    BY <1>1, <1>3 DEF Sums
  <2>2. g = [i \in 0 .. L |-> g[i]]
    BY <1>3 DEF Sums
  <2> QED BY <2>1, <2>2
<1> DEFINE sum == CHOOSE f : Recursive(f)
<1>5. SumOf(numbers) = sum[L]
  BY DEF SumOf
<1>6. Recursive(sum)
  BY <1>4
<1> HIDE DEF sum
<1>7. \A i \in 0 .. L : sum[i] = IF i = 0 THEN 0 ELSE sum[i - 1] + numbers[i]
  BY <1>6
<1> DEFINE Off == {n \in Nat : n <= L /\ sum[n] # g[n]}
<1>8. Off = {}
  <2> SUFFICES ASSUME Off # {} PROVE FALSE
    OBVIOUS
  <2>1. PICK n \in Off : \A m \in Off : n <= m
    BY LeastNumber
  <2>2. CASE n = 0
    BY <1>1, <1>3, <1>7, <2>1, <2>2 DEF Sums
  <2>3. CASE n # 0
    <3>1. n \in 1 .. L /\ n - 1 \in Nat /\ n - 1 <= L /\ n - 1 \notin Off
      BY <1>1, <2>1, <2>3
    <3>2. sum[n] = sum[n - 1] + numbers[n] /\ g[n] = g[n - 1] + numbers[n]
      BY <1>1, <1>3, <1>7, <3>1 DEF Sums
    <3> QED BY <2>1, <3>1, <3>2
  <2> QED BY <2>2, <2>3
<1>9. sum[L] = g[L]
  BY <1>1, <1>8
<1> QED BY <1>3, <1>5, <1>9

\* A sum of numbers is a number.
LEMMA SumIsInt == ASSUME NEW numbers \in Seq(Int) PROVE SumOf(numbers) \in Int
  BY SumOfSums DEF Sums

\* A linear combination of two numbers.
Combined(p, q, x, y) == p * x - q * y

\* A combination of numbers is a number.
LEMMA CombinedInt == \A p, q, x, y \in Int : Combined(p, q, x, y) \in Int
  BY DEF Combined

\* c combines a and b number by number.
Combines(c, p, q, a, b) == /\ Len(b) = Len(a) /\ Len(c) = Len(a)
                           /\ \A i \in 1 .. Len(a) : c[i] = Combined(p, q, a[i], b[i])

\* Sums are linear.
LEMMA SumsLinear ==
  ASSUME NEW a \in Seq(Int), NEW b \in Seq(Int), NEW c \in Seq(Int), NEW p \in Int, NEW q \in Int,
         Combines(c, p, q, a, b)
  PROVE  /\ SumOf(a) \in Int /\ SumOf(b) \in Int
         /\ SumOf(c) = Combined(p, q, SumOf(a), SumOf(b))
<1> USE DEF Combines
<1>1. PICK L \in Nat : L = Len(a)
  OBVIOUS
<1>2. PICK f : Sums(f, a, L) /\ SumOf(a) = f[L]
  BY <1>1, SumOfSums
<1>3. PICK g : Sums(g, b, L) /\ SumOf(b) = g[L]
  BY <1>1, SumOfSums
<1>4. PICK h : Sums(h, c, L) /\ SumOf(c) = h[L]
  BY <1>1, SumOfSums
<1>5. /\ \A i \in 0 .. L : f[i] \in Int /\ g[i] \in Int /\ h[i] \in Int
      /\ f[0] = 0 /\ g[0] = 0 /\ h[0] = 0
  BY <1>2, <1>3, <1>4 DEF Sums
<1>6. \A i \in 1 .. L : f[i] = f[i - 1] + a[i] /\ g[i] = g[i - 1] + b[i] /\ h[i] = h[i - 1] + c[i]
  BY <1>2, <1>3, <1>4 DEF Sums
<1>7. \A i \in 1 .. L : a[i] \in Int /\ b[i] \in Int
  BY <1>1
<1> DEFINE Sum(i) == Combined(p, q, f[i], g[i])
           Bad == {n \in Nat : n <= L /\ h[n] # Sum(n)}
<1>8. Bad = {}
  <2> SUFFICES ASSUME Bad # {} PROVE FALSE
    OBVIOUS
  <2>1. PICK n \in Bad : \A m \in Bad : n <= m
    BY LeastNumber
  <2>2. CASE n = 0
    <3>1. Sum(0) = 0
      BY <1>5 DEF Combined
    <3> QED BY <1>5, <2>1, <2>2, <3>1
  <2>3. CASE n # 0
    <3>1. n \in 1 .. L /\ n - 1 \in Nat /\ n - 1 <= L /\ n - 1 \notin Bad /\ n - 1 \in 0 .. L
      BY <2>1, <2>3
    <3>2. h[n - 1] = Sum(n - 1)
      BY <3>1
    <3>3. h[n] = h[n - 1] + c[n]
      BY <1>6, <3>1
    <3>4. c[n] = Combined(p, q, a[n], b[n])
      BY <1>1, <3>1
    <3>5. f[n] = f[n - 1] + a[n] /\ g[n] = g[n - 1] + b[n]
      BY <1>6, <3>1
    <3>6. f[n - 1] \in Int /\ g[n - 1] \in Int /\ a[n] \in Int /\ b[n] \in Int
      BY <1>5, <1>7, <3>1
    <3>7. Sum(n) = Sum(n - 1) + Combined(p, q, a[n], b[n])
      <4>1. PICK x \in Int, y \in Int, u \in Int, v \in Int :
              x = f[n - 1] /\ y = g[n - 1] /\ u = a[n] /\ v = b[n]
        BY <3>6
      <4>2. p * (x + u) - q * (y + v) = (p * x - q * y) + (p * u - q * v)
        <5>1. p * (x + u) = p * x + p * u /\ q * (y + v) = q * y + q * v
          OBVIOUS
        <5> QED BY <5>1
      <4> QED BY <3>5, <4>1, <4>2 DEF Combined
    <3>8. h[n] = Sum(n)
      BY <3>2, <3>3, <3>4, <3>7
    <3> QED BY <2>1, <3>8
  <2> QED BY <2>2, <2>3
<1>9. h[L] = Sum(L)
  BY <1>8
<1> QED BY <1>2, <1>3, <1>4, <1>5, <1>9

\* A bound on each number is one on the sum.
LEMMA SumBounded ==
  ASSUME NEW c \in Seq(Int), NEW d \in Int, \A i \in 1 .. Len(c) : c[i] <= d
  PROVE  SumOf(c) \in Int /\ SumOf(c) <= Len(c) * d
<1>1. PICK L \in Nat : L = Len(c)
  OBVIOUS
<1>2. PICK h : Sums(h, c, L) /\ SumOf(c) = h[L]
  BY <1>1, SumOfSums
<1>3. h[0] = 0 /\ \A i \in 0 .. L : h[i] \in Int
  BY <1>2 DEF Sums
<1>4. \A i \in 1 .. L : h[i] = h[i - 1] + c[i] /\ c[i] \in Int /\ c[i] <= d
  BY <1>1, <1>2 DEF Sums
<1> DEFINE Bad == {n \in Nat : n <= L /\ ~(h[n] <= n * d)}
<1>5. Bad = {}
  <2> SUFFICES ASSUME Bad # {} PROVE FALSE
    OBVIOUS
  <2>1. PICK n \in Bad : \A m \in Bad : n <= m
    BY LeastNumber
  <2>2. CASE n = 0
    <3>1. h[0] <= 0 * d
      BY <1>3
    <3> QED BY <2>1, <2>2, <3>1
  <2>3. CASE n # 0
    <3>1. n \in 1 .. L /\ n - 1 \in Nat /\ n - 1 <= L /\ n - 1 \notin Bad /\ n - 1 \in 0 .. L
      BY <2>1, <2>3
    <3>2. h[n - 1] <= (n - 1) * d /\ h[n - 1] \in Int
      BY <1>3, <3>1
    <3>3. h[n] = h[n - 1] + c[n] /\ c[n] \in Int /\ c[n] <= d
      BY <1>4, <3>1
    <3>4. PICK a \in Int, b \in Int : a = (n - 1) * d /\ b = n * d /\ b = a + d
      BY <3>1
    <3>5. h[n] <= n * d
      <4>1. h[n] <= a + d
        BY <3>2, <3>3, <3>4, SMTT(30)
      <4> QED BY <3>4, <4>1
    <3> QED BY <2>1, <3>5
  <2> QED BY <2>2, <2>3
<1>6. h[L] <= L * d
  BY <1>5
<1> QED BY <1>1, <1>2, <1>3, <1>6

\* A sum of negated numbers, and of as many ones.
LEMMA SumOfNegated ==
  ASSUME NEW a \in Seq(Int), NEW c \in Seq(Int), Len(c) = Len(a),
         \A i \in 1 .. Len(a) : c[i] = -a[i]
  PROVE  SumOf(a) \in Int /\ SumOf(c) = -SumOf(a)
<1>1. \A i \in 1 .. Len(a) : a[i] \in Int /\ c[i] \in Int
  OBVIOUS
<1>2. PICK p \in Int, q \in Int : p = -1 /\ q = 0
  OBVIOUS
<1>3. Combines(c, p, q, a, c)
  BY <1>1, <1>2 DEF Combines, Combined
<1>4. SumOf(a) \in Int /\ SumOf(c) \in Int /\ SumOf(c) = Combined(p, q, SumOf(a), SumOf(c))
  <2>1. SumOf(c) = Combined(p, q, SumOf(a), SumOf(c))
    BY <1>3, SumsLinear
  <2> QED BY <2>1, SumIsInt
<1>5. SumOf(c) = p * SumOf(a) - q * SumOf(c)
  BY <1>4 DEF Combined
<1> QED BY <1>2, <1>4, <1>5

\* A sum of ones.
LEMMA SumOfOnes ==
  ASSUME NEW n \in Nat, NEW ones \in Seq(Int), Len(ones) = n, \A i \in 1 .. n : ones[i] = 1
  PROVE  SumOf(ones) = n
<1> DEFINE c == [i \in 1 .. n |-> -1]
<1>1. c \in Seq(Int) /\ Len(c) = n /\ \A i \in 1 .. n : c[i] = -1 /\ c[i] = -ones[i]
  OBVIOUS
<1> HIDE DEF c
<1>2. SumOf(c) = -SumOf(ones) /\ SumOf(ones) \in Int
  BY <1>1, SumOfNegated
<1>3. SumOf(ones) <= n * 1
  BY SumBounded
<1>4. SumOf(c) <= n * (-1)
  <2>1. PICK d \in Int : d = -1
    OBVIOUS
  <2>2. \A i \in 1 .. Len(c) : c[i] <= d
    BY <1>1, <2>1
  <2>3. SumOf(c) <= Len(c) * d
    BY <1>1, <2>2, SumBounded
  <2> QED BY <1>1, <2>1, <2>3
<1> QED BY <1>2, <1>3, <1>4

\* A rounded share is off by half a thousandth at most.
Up(w, total) == (2000 * w + total) \div (2 * total)

Off(w, total) == (2 * total) * Up(w, total) - 2000 * w

\* Off is twice the total times that error.
LEMMA UpRounds ==
  ASSUME NEW w \in Int, NEW t \in Int, t > 0
  PROVE  Up(w, t) \in Int /\ Off(w, t) \in Int /\ -t <= Off(w, t) /\ Off(w, t) <= t
<1>1. PICK a \in Int, b \in Int : a = 2000 * w + t /\ b = 2 * t /\ b > 0
  OBVIOUS
<1>2. PICK r \in Int : r = a \div b /\ b * r <= a /\ a < b * r + b
  BY <1>1
<1>3. Up(w, t) = r
  BY <1>1, <1>2 DEF Up
<1>4. b * r \in Int /\ Off(w, t) = b * r - 2000 * w
  BY <1>1, <1>2, <1>3 DEF Off
<1> QED BY <1>1, <1>2, <1>3, <1>4

\* A bound on a multiple of a sum is one on the sum.
LEMMA Cancelled ==
  ASSUME NEW t \in Int, t > 0, NEW sum \in Int, NEW n \in Nat,
         (2 * t) * sum - 2000 * t <= n * t, 2000 * t - (2 * t) * sum <= n * t
  PROVE  2 * sum - 2000 <= n /\ 2000 - 2 * sum <= n
<1>1. ASSUME 2 * sum - 2000 > n PROVE FALSE
  <2>1. 2 * sum - 2000 >= n + 1
    BY <1>1
  <2>2. t * (2 * sum - 2000) >= t * (n + 1)
    BY <2>1
  <2> QED BY <2>2
<1>2. ASSUME 2000 - 2 * sum > n PROVE FALSE
  <2>1. 2000 - 2 * sum >= n + 1
    BY <1>2
  <2>2. t * (2000 - 2 * sum) >= t * (n + 1)
    BY <2>1
  <2> QED BY <2>2
<1> QED BY <1>1, <1>2

\* So the rounded shares of a list of weights sum to 1, give or take half a thousandth for
\* each of them.
LEMMA SharesSum ==
  ASSUME NEW w \in Seq(Int), NEW shares \in Seq(Int), Len(shares) = Len(w),
         NEW t \in Int, t > 0, SumOf(w) = t,
         \A i \in 1 .. Len(w) : shares[i] = Up(w[i], t)
  PROVE  /\ SumOf(shares) \in Int
         /\ 2 * SumOf(shares) - 2000 <= Len(w) /\ 2000 - 2 * SumOf(shares) <= Len(w)
<1>1. PICK n \in Nat : n = Len(w)
  OBVIOUS
<1>2. PICK y \in Int, k \in Int, z \in Int, m \in Int :
        y = 2 * t /\ k = 2000 /\ z = -(2 * t) /\ m = -2000
  OBVIOUS
<1>3. \A x \in Int : /\ Combined(m, z, x, Up(x, t)) = Off(x, t)
                      /\ Combined(k, y, x, Up(x, t)) = -Off(x, t)
  <2> SUFFICES ASSUME NEW x \in Int
               PROVE  /\ Combined(m, z, x, Up(x, t)) = Off(x, t)
                      /\ Combined(k, y, x, Up(x, t)) = -Off(x, t)
    OBVIOUS
  <2>1. Up(x, t) \in Int
    BY UpRounds
  <2> QED BY <1>2, <2>1 DEF Combined, Off
<1> DEFINE above == [i \in 1 .. n |-> Combined(m, z, w[i], shares[i])]
           below == [i \in 1 .. n |-> Combined(k, y, w[i], shares[i])]
<1>4. ASSUME NEW i \in 1 .. n
      PROVE  /\ Combined(m, z, w[i], shares[i]) \in Int
             /\ Combined(m, z, w[i], shares[i]) <= t
             /\ Combined(k, y, w[i], shares[i]) \in Int
             /\ Combined(k, y, w[i], shares[i]) <= t
  <2>1. shares[i] = Up(w[i], t) /\ w[i] \in Int
    BY <1>1
  <2>2. Off(w[i], t) \in Int /\ -t <= Off(w[i], t) /\ Off(w[i], t) <= t
    BY <2>1, UpRounds
  <2>3. /\ Combined(m, z, w[i], shares[i]) = Off(w[i], t)
        /\ Combined(k, y, w[i], shares[i]) = -Off(w[i], t)
    BY <1>3, <2>1
  <2> QED BY <2>2, <2>3
<1>5. above \in Seq(Int) /\ Len(above) = n /\ below \in Seq(Int) /\ Len(below) = n
  <2>1. above \in [1 .. n -> Int] /\ below \in [1 .. n -> Int]
    BY <1>4
  <2> HIDE DEF above, below
  <2> QED BY <2>1
<1>6. /\ \A i \in 1 .. n : above[i] = Combined(m, z, w[i], shares[i]) /\ above[i] <= t
      /\ \A i \in 1 .. n : below[i] = Combined(k, y, w[i], shares[i]) /\ below[i] <= t
  BY <1>4
<1> HIDE DEF above, below
<1>7. SumOf(shares) \in Int /\ SumOf(above) = Combined(m, z, SumOf(w), SumOf(shares))
  <2>1. Combines(above, m, z, w, shares)
    BY <1>1, <1>5, <1>6 DEF Combines
  <2>2. SumOf(above) = Combined(m, z, SumOf(w), SumOf(shares))
    BY <1>5, <2>1, SumsLinear
  <2> QED BY <2>2, SumIsInt
<1>8. SumOf(below) = Combined(k, y, SumOf(w), SumOf(shares))
  <2>1. Combines(below, k, y, w, shares)
    BY <1>1, <1>5, <1>6 DEF Combines
  <2> QED BY <1>5, <2>1, SumsLinear
<1>9. SumOf(above) <= n * t /\ SumOf(below) <= n * t
  BY <1>5, <1>6, SumBounded
<1>10. PICK sum \in Int : sum = SumOf(shares)
  BY <1>7
<1>11. (2 * t) * sum - 2000 * t <= n * t /\ 2000 * t - (2 * t) * sum <= n * t
  BY <1>2, <1>7, <1>8, <1>9, <1>10 DEF Combined
<1>12. 2 * sum - 2000 <= n /\ 2000 - 2 * sum <= n
  BY <1>11, Cancelled
<1> QED BY <1>1, <1>10, <1>12

\* What a merge does to the weights: with at most 20 criteria they sum to 1 within the
\* interval that is validated.
Summed(list) == /\ IsList(list)
                /\ \A i \in DOMAIN list : list[i].weight \in Int
                /\ Len(list) \in 1 .. 20 => Within(TotalWeight(list), 10)

\* The weights of a list are numbers.
LEMMA WeightsAreNumbers ==
  ASSUME NEW list, IsList(list), \A i \in DOMAIN list : list[i].weight \in Int
  PROVE  /\ Weights(list) \in Seq(Int) /\ Len(Weights(list)) = Len(list) /\ Len(list) \in Nat
         /\ DOMAIN list = 1 .. Len(list)
         /\ \A i \in 1 .. Len(list) : Weights(list)[i] = list[i].weight
         /\ TotalWeight(list) \in Int
<1>1. list \in Seq(In(list)) /\ Len(list) \in Nat /\ DOMAIN list = 1 .. Len(list)
  BY DEF IsList
<1>2. Weights(list) = [i \in 1 .. Len(list) |-> list[i].weight]
  BY <1>1 DEF Weights
<1>3. Weights(list) \in Seq(Int)
  BY <1>1, <1>2
<1>4. TotalWeight(list) \in Int
  BY <1>3, SumOfSums, SMTT(30) DEF TotalWeight, Sums
<1> QED BY <1>1, <1>2, <1>3, <1>4

\* Scaled weights.
LEMMA ScaledSum ==
  ASSUME NEW list, IsList(list), \A i \in DOMAIN list : list[i].weight \in Int,
         TotalWeight(list) # 0
  PROVE  Summed(Scaled(list, TotalWeight(list)))
<1> DEFINE total == TotalWeight(list)
           n     == Len(list)
           new   == Scaled(list, total)
           w     == Weights(list)
<1>1. /\ w \in Seq(Int) /\ Len(w) = n /\ n \in Nat /\ DOMAIN list = 1 .. n
      /\ \A i \in 1 .. n : w[i] = list[i].weight
      /\ total \in Int /\ total # 0 /\ total = SumOf(w)
  BY WeightsAreNumbers DEF TotalWeight
<1>2. new = [i \in 1 .. n |-> Entry(list[i].source, list[i].name, Share(list[i].weight, total),
                                    list[i].guide)]
  BY <1>1 DEF Scaled, Reweighted
<1> HIDE DEF total, n, new, w
<1>3. /\ DOMAIN new = 1 .. n /\ new = [i \in 1 .. n |-> new[i]]
      /\ \A i \in 1 .. n : new[i].weight = Share(w[i], total)
  BY <1>1, <1>2 DEF Entry
<1>4. IsList(new) /\ Len(new) = n
  BY <1>1, <1>3, FunctionIsList
<1>5. \A i \in 1 .. n : w[i] \in Int
  BY <1>1
<1> DEFINE t == IF total > 0 THEN total ELSE -total
           v == IF total > 0 THEN w ELSE [i \in 1 .. n |-> -w[i]]
<1>6. t \in Int /\ t > 0 /\ v \in Seq(Int) /\ Len(v) = n
  BY <1>1, <1>5
<1>7. SumOf(v) = t
  <2>1. CASE total > 0
    BY <1>1, <2>1
  <2>2. CASE ~(total > 0)
    <3> DEFINE m == [i \in 1 .. n |-> -w[i]]
    <3>1. m \in Seq(Int) /\ Len(m) = n /\ \A i \in 1 .. n : m[i] = -w[i]
      BY <1>1, <1>5
    <3> HIDE DEF m
    <3>2. SumOf(m) = -SumOf(w)
      BY <1>1, <3>1, SumOfNegated
    <3>3. v = m
      BY <2>2 DEF m
    <3> QED BY <1>1, <2>2, <3>2, <3>3
  <2> QED BY <2>1, <2>2
<1>8. \A i \in 1 .. n : Share(w[i], total) = Up(v[i], t)
  BY DEF Share, Up
<1> HIDE DEF t, v
<1>9. \A i \in 1 .. n : v[i] \in Int
  BY <1>6
<1>10. \A i \in 1 .. n : new[i].weight = Up(v[i], t) /\ Up(v[i], t) \in Int
  <2>1. \A i \in 1 .. n : Up(v[i], t) \in Int
    BY <1>6, <1>9, UpRounds
  <2> QED BY <1>3, <1>8, <2>1
<1>11. /\ Weights(new) \in Seq(Int) /\ Len(Weights(new)) = n
       /\ \A i \in 1 .. n : Weights(new)[i] = Up(v[i], t)
  BY <1>3, <1>4, <1>10, WeightsAreNumbers
<1>12. /\ SumOf(Weights(new)) \in Int
       /\ 2 * SumOf(Weights(new)) - 2000 <= n /\ 2000 - 2 * SumOf(Weights(new)) <= n
  <2> DEFINE x == Weights(new)
  <2>1. x \in Seq(Int) /\ v \in Seq(Int) /\ Len(x) = Len(v) /\ Len(v) = n
    BY <1>6, <1>11
  <2>2. \A i \in 1 .. Len(v) : x[i] = Up(v[i], t)
    BY <1>11, <2>1
  <2> HIDE DEF x
  <2>3. SumOf(x) \in Int /\ 2 * SumOf(x) - 2000 <= Len(v) /\ 2000 - 2 * SumOf(x) <= Len(v)
    BY <1>6, <1>7, <2>1, <2>2, SharesSum, SMTT(30)
  <2> QED BY <2>1, <2>3 DEF x
<1>13. n \in 1 .. 20 => Within(TotalWeight(new), 10)
  BY <1>12 DEF Within, TotalWeight
<1> QED BY <1>3, <1>4, <1>10, <1>13 DEF Summed, new, total

\* Weights shared evenly.
LEMMA EvenedSum ==
  ASSUME NEW list, IsList(list)
  PROVE  Summed(Evened(list))
<1> DEFINE n     == Len(list)
           new   == Evened(list)
           ones  == [i \in 1 .. n |-> 1]
<1>1. list \in Seq(In(list)) /\ n \in Nat /\ DOMAIN list = 1 .. n
  BY DEF IsList
<1>2. new = [i \in 1 .. n |-> Entry(list[i].source, list[i].name, Share(1, n), list[i].guide)]
  BY <1>1 DEF Evened, Reweighted
<1>3. ones \in Seq(Int) /\ Len(ones) = n /\ \A i \in 1 .. n : ones[i] = 1
  BY <1>1
<1> HIDE DEF n, new, ones
<1>4. /\ DOMAIN new = 1 .. n /\ new = [i \in 1 .. n |-> new[i]]
      /\ \A i \in 1 .. n : new[i].weight = Share(1, n)
  BY <1>1, <1>2 DEF Entry
<1>5. IsList(new) /\ Len(new) = n
  BY <1>1, <1>4, FunctionIsList
<1>6. CASE n = 0
  BY <1>4, <1>5, <1>6 DEF Summed, new
<1>7. CASE n # 0
  <2>1. n \in Int /\ n > 0
    BY <1>1, <1>7
  <2>2. Share(1, n) = Up(1, n) /\ Up(1, n) \in Int
    <3>1. Share(1, n) = Up(1, n)
      BY <2>1 DEF Share, Up
    <3> QED BY <2>1, <3>1, UpRounds
  <2>3. \A i \in DOMAIN new : new[i].weight \in Int
    BY <1>4, <2>2
  <2>4. /\ Weights(new) \in Seq(Int) /\ Len(Weights(new)) = n
        /\ \A i \in 1 .. n : Weights(new)[i] = Up(ones[i], n)
    <3>1. /\ Weights(new) \in Seq(Int) /\ Len(Weights(new)) = n
          /\ \A i \in 1 .. n : Weights(new)[i] = new[i].weight
      BY <1>5, <2>3, WeightsAreNumbers
    <3> QED BY <1>3, <1>4, <2>2, <3>1
  <2>5. SumOf(ones) = n
    BY <1>1, <1>3, SumOfOnes
  <2>6. /\ SumOf(Weights(new)) \in Int
        /\ 2 * SumOf(Weights(new)) - 2000 <= n /\ 2000 - 2 * SumOf(Weights(new)) <= n
    BY <1>3, <2>1, <2>4, <2>5, SharesSum
  <2>7. n \in 1 .. 20 => Within(TotalWeight(new), 10)
    BY <2>6 DEF Within, TotalWeight
  <2> QED BY <1>5, <2>3, <2>7 DEF Summed, new
<1> QED BY <1>6, <1>7

\* Whatever merge_criteria does to the weights of a list.
LEMMA NormalisedSum ==
  ASSUME NEW list, IsList(list), \A i \in DOMAIN list : list[i].weight \in Int
  PROVE  Summed(Normalised(list))
<1> DEFINE total == TotalWeight(list)
<1>1. CASE total = 0
  BY <1>1, EvenedSum DEF Normalised
<1>2. CASE total # 0 /\ ~Within(total, 10)
  BY <1>2, ScaledSum DEF Normalised
<1>3. CASE total # 0 /\ Within(total, 10)
  BY <1>3 DEF Normalised, Summed
<1> QED BY <1>1, <1>2, <1>3

Sourced(s) == /\ DOMAIN s = {"org", "dept", "user", "rfp"}
              /\ \A src \in {"org", "dept", "user", "rfp"} : FromSource(s[src], src)

\* What a merge makes of the sources.
LEMMA MergedKeepsFirst ==
  ASSUME NEW s, Sourced(s), NEW k \in Kinds
  PROVE  /\ IsList(Merged(s)[k]) /\ OneSource(Merged(s)[k], s, k)
         /\ k = "criterion" => Summed(Merged(s)[k])
<1>1. /\ IsList(MergedList(s, k)) /\ OneSource(MergedList(s, k), s, k)
      /\ \A i \in DOMAIN MergedList(s, k) : MergedList(s, k)[i].weight \in Int
  BY MergeKeepsFirst DEF Sourced
<1>2. CASE k = "check"
  BY <1>1, <1>2 DEF Merged
<1>3. CASE k = "criterion"
  <2> DEFINE guided == Enriched(MergedList(s, k), s.rfp.criterion)
  <2>1. IsList(guided) /\ OneSource(guided, s, k)
    BY <1>1, EnrichedAlike, AlikeKeepsFirst
  <2>2. \A i \in DOMAIN guided : guided[i].weight \in Int
    BY <1>1, EnrichedAlike DEF Alike
  <2>3. Merged(s)[k] = Normalised(guided)
    BY <1>3 DEF Merged
  <2> HIDE DEF guided
  <2> DEFINE total == TotalWeight(guided)
  <2>4. \/ Normalised(guided) = Evened(guided)
        \/ Normalised(guided) = Scaled(guided, total)
        \/ Normalised(guided) = guided
    BY DEF Normalised
  <2> HIDE DEF total
  <2>5. Summed(Normalised(guided))
    BY <2>1, <2>2, NormalisedSum
  <2>6. IsList(Normalised(guided)) /\ OneSource(Normalised(guided), s, k)
    BY <2>1, <2>4, WeighedAlike, AlikeKeepsFirst
  <2> QED BY <2>3, <2>5, <2>6
<1> QED BY <1>2, <1>3 DEF Kinds

\* The weights of a sheet are scaled, its sources kept.
LEMMA SheetScaledSourced ==
  ASSUME NEW lists, FromSource(lists, "user"),
         lists = [check |-> lists.check, criterion |-> lists.criterion]
  PROVE  FromSource(SheetScaled(lists), "user")
<1> DEFINE total == TotalWeight(lists.criterion)
           new   == SheetScaled(lists)
<1>1. IsList(lists.criterion) /\ \A i \in DOMAIN lists.criterion : lists.criterion[i].weight \in Int
  BY DEF FromSource, IsList, Kinds, In
<1>2. /\ new.check = lists.check
      /\ \/ new.criterion = lists.criterion
         \/ total > 0 /\ new.criterion = Scaled(lists.criterion, total)
  BY DEF SheetScaled
<1> HIDE DEF new
<1>3. CASE new.criterion = lists.criterion
  BY <1>2, <1>3 DEF FromSource, Kinds, new
<1>4. CASE total > 0 /\ new.criterion = Scaled(lists.criterion, total)
  <2> DEFINE scaled == Scaled(lists.criterion, total)
  <2>1. IsList(scaled) /\ Alike(lists.criterion, scaled)
    BY <1>1, WeighedAlike
  <2>2. Summed(scaled)
    BY <1>1, <1>4, ScaledSum
  <2> HIDE DEF scaled
  <2>3. \A e \in In(scaled) : e.source = "user" /\ e.weight \in Int
    BY <2>1, <2>2 DEF Alike, In, FromSource, Kinds, Summed
  <2>4. new.criterion = scaled
    BY <1>4 DEF scaled
  <2>5. FromSource(new, "user")
    BY <1>2, <2>1, <2>3, <2>4 DEF FromSource, Kinds, IsList
  <2> QED BY <2>5 DEF new
<1> QED BY <1>2, <1>3, <1>4 DEF new

\* While a request is prepared its lists name the first sources, and nothing is stored before
\* the sources have been read.
CriteriaInv ==
  /\ Sourced(sources)
  /\ request = "none" => stored = NoSetup /\ refinement = "none"
  /\ request \in {"guides", "checks", "save"} =>
       \A k \in Kinds : IsList(draft[k]) /\ OneSource(draft[k], sources, k)
  /\ (stored # NoSetup /\ stored.source # "manually_edited") =>
       \A k \in Kinds : OneSource(stored[k], sources, k)

\* The last conjunct is FirstSourceWins, one kind at a time.
LEMMA WinsByKind ==
  ASSUME (stored # NoSetup /\ stored.source # "manually_edited") =>
           \A k \in Kinds : OneSource(stored[k], sources, k)
  PROVE  FirstSourceWins
<1> SUFFICES ASSUME stored # NoSetup, stored.source # "manually_edited",
                    NEW s \in {"org", "dept", "user"}, NEW k \in Kinds,
                    NEW e \in In(sources[s][k])
             PROVE  LET places == Places(stored[k], e.name) IN
                    /\ {stored[k][i].source : i \in places} = {FirstSource(k, e.name)}
                    /\ FirstSource(k, e.name) # "org" => \A i, j \in places : i = j
  BY DEF FirstSourceWins
<1>1. FirstOf(sources, k, e.name) = FirstSource(k, e.name)
  BY DEF FirstOf, FirstSource, Lists
<1>2. OneSource(stored[k], sources, k)
  OBVIOUS
<1> QED BY <1>1, <1>2 DEF OneSource

\* Another extraction of the RFP changes nothing for the other sources.
LEMMA RfpIsLast ==
  ASSUME NEW rfp, FromSource(rfp, "rfp"), Sourced(sources)
  PROVE  /\ Sourced([sources EXCEPT !.rfp = rfp])
         /\ \A list, k : OneSource(list, [sources EXCEPT !.rfp = rfp], k) => OneSource(list, sources, k)
<1> DEFINE s == [sources EXCEPT !.rfp = rfp]
<1>1. /\ DOMAIN s = DOMAIN sources /\ s.rfp = rfp
      /\ s.org = sources.org /\ s.dept = sources.dept /\ s.user = sources.user
  BY DEF Sourced
<1> HIDE DEF s
<1>2. Sourced(s)
  BY <1>1 DEF Sourced
<1>3. \A k, name : FirstOf(s, k, name) = FirstOf(sources, k, name)
  BY <1>1 DEF FirstOf
<1>4. \A list, k : OneSource(list, s, k) => OneSource(list, sources, k)
  BY <1>1, <1>3, ZenonT(30) DEF OneSource
<1> QED BY <1>2, <1>4 DEF s

\* An extraction that fails has no entries of any source.
LEMMA NothingFromSource == \A source : FromSource(NoEntries, source)
<1>1. In(<<>>) = {} /\ <<>> \in Seq({})
  BY DEF In
<1>2. \A k \in Kinds : NoEntries[k] = <<>>
  BY DEF NoEntries, Kinds
<1> QED BY <1>1, <1>2 DEF FromSource

\* A read of the sources.
LEMMA SubmitStep ==
  ASSUME CriteriaInv, SubmitRequest
  PROVE  CriteriaInv'
<1> USE DEF SubmitRequest, CriteriaInv
<1>1. PICK org \in OrgCriteria, dept \in DeptCriteria, sheet \in SheetCriteria \cup {NoEntries},
           rfp \in RfpCriteria \cup {NoEntries} :
        /\ \E user \in SheetRead(sheet) :
             sources' = [org |-> org, dept |-> dept, user |-> user, rfp |-> rfp]
        /\ draft' = Merged(sources')
  OBVIOUS
<1>u. PICK user \in SheetRead(sheet) :
        sources' = [org |-> org, dept |-> dept, user |-> user, rfp |-> rfp]
  BY <1>1
<1>2. FromSource(org, "org") /\ FromSource(dept, "dept") /\ FromSource(rfp, "rfp")
  BY CriteriaAssumption, NothingFromSource
<1>3. FromSource(user, "user")
  <2>1. FromSource(sheet, "user") /\ sheet = [check |-> sheet.check, criterion |-> sheet.criterion]
    BY CriteriaAssumption, NothingFromSource DEF NoEntries
  <2> QED BY <2>1, SheetScaledSourced DEF SheetRead
<1>4. Sourced(sources')
  BY <1>u, <1>2, <1>3 DEF Sourced
<1>5. \A k \in Kinds : IsList(draft'[k]) /\ OneSource(draft'[k], sources', k)
  BY <1>1, <1>4, MergedKeepsFirst
<1> QED BY <1>4, <1>5

\* The two calls that fill gaps.
LEMMA GuidesStep ==
  ASSUME CriteriaInv, FillGuides
  PROVE  CriteriaInv'
<1> USE DEF FillGuides, CriteriaInv
<1> DEFINE list == draft.criterion
<1>1. PICK named \in IF \E e \in In(draft.criterion) : e.guide = "blank"
                     THEN SUBSET {e.name : e \in In(draft.criterion)} ELSE {{}} :
        draft' = [check     |-> draft.check,
                  criterion |-> Guided(list, LAMBDA e : e.name \in named, "generated")]
  OBVIOUS
<1>2. /\ IsList(draft.check) /\ OneSource(draft.check, sources, "check")
      /\ IsList(list) /\ OneSource(list, sources, "criterion")
  BY DEF Kinds
<1>3. Len(list) \in Nat /\ DOMAIN list = 1 .. Len(list)
  BY <1>2 DEF IsList
<1> DEFINE new == draft'.criterion
<1>4. new = [i \in 1 .. Len(list) |->
               IF list[i].name \in named
               THEN Entry(list[i].source, list[i].name, list[i].weight, "generated") ELSE list[i]]
  BY <1>1, <1>3 DEF Guided
<1>5. draft'.check = draft.check
  BY <1>1
<1> HIDE DEF new, list
<1>6. /\ DOMAIN new = 1 .. Len(list) /\ new = [i \in 1 .. Len(list) |-> new[i]]
      /\ \A i \in 1 .. Len(list) : new[i].source = list[i].source /\ new[i].name = list[i].name
  BY <1>4 DEF Entry
<1>7. IsList(new) /\ Alike(list, new)
  BY <1>3, <1>6, FunctionIsList DEF Alike
<1>8. OneSource(new, sources, "criterion")
  BY <1>2, <1>7, AlikeKeepsFirst
<1>9. \A k \in Kinds : IsList(draft'[k]) /\ OneSource(draft'[k], sources', k)
  BY <1>2, <1>5, <1>7, <1>8 DEF Kinds, new
<1> QED BY <1>9

\* The call that suggests checks adds to an empty list only.
LEMMA ChecksStep ==
  ASSUME CriteriaInv, SuggestChecks
  PROVE  CriteriaInv'
<1> USE DEF SuggestChecks, CriteriaInv
<1>1. /\ IsList(draft.check) /\ OneSource(draft.check, sources, "check")
      /\ IsList(draft.criterion) /\ OneSource(draft.criterion, sources, "criterion")
  BY DEF Kinds
<1>2. PICK n \in IF draft.check = <<>> THEN 0 .. Cardinality(Suggested) ELSE {0} :
        \E names \in [1 .. n -> Suggested] :
          draft' = [check |-> draft.check \o [i \in 1 .. n |-> Check("generated", names[i])],
                    criterion |-> draft.criterion]
  OBVIOUS
<1>3. PICK names \in [1 .. n -> Suggested] :
        draft' = [check |-> draft.check \o [i \in 1 .. n |-> Check("generated", names[i])],
                  criterion |-> draft.criterion]
  BY <1>2
<1> DEFINE more == [i \in 1 .. n |-> Check("generated", names[i])]
<1>4. draft'.check = draft.check \o more /\ draft'.criterion = draft.criterion
  BY <1>3
<1>5. IsList(draft'.check) /\ OneSource(draft'.check, sources, "check")
  <2>1. CASE draft.check = <<>>
    <3>1. n \in Nat
      BY <1>2, <2>1
    <3>2. IsList(more)
      <4>1. more = [i \in 1 .. n |-> more[i]]
        OBVIOUS
      <4> HIDE DEF more
      <4> QED BY <3>1, <4>1, FunctionIsList
    <3>3. <<>> \o more = more
      <4> HIDE DEF more
      <4> QED BY <3>2 DEF IsList
    <3> HIDE DEF more
    <3> QED BY <1>1, <1>4, <2>1, <3>2, <3>3, EmptyKeepsFirst
  <2>2. CASE draft.check # <<>>
    <3>1. n = 0
      BY <1>2, <2>2
    <3>2. more = <<>>
      BY <3>1
    <3> HIDE DEF more
    <3>3. draft.check \o <<>> = draft.check
      BY <1>1 DEF IsList
    <3> QED BY <1>1, <1>4, <3>2, <3>3
  <2> QED BY <2>1, <2>2
<1>6. \A k \in Kinds : IsList(draft'[k]) /\ OneSource(draft'[k], sources', k)
  BY <1>1, <1>4, <1>5 DEF Kinds
<1> QED BY <1>6

\* What is missing altogether has a default, and is missing in every source.
LEMMA SaveStep ==
  ASSUME CriteriaInv, SaveStart
  PROVE  CriteriaInv'
<1> USE DEF SaveStart, CriteriaInv
<1> DEFINE saved == WithDefaults(draft)
<1>1. request' \in {"rejected", "failed", "pending_confirm"} /\ sources' = sources
  OBVIOUS
<1>2. CASE stored' = stored
  BY <1>1, <1>2
<1>3. CASE stored' = saved
  <2>1. ASSUME NEW k \in Kinds PROVE OneSource(saved[k], sources, k)
    <3>1. OneSource(draft[k], sources, k) /\ (saved[k] = draft[k] \/ draft[k] = <<>>)
      BY DEF WithDefaults, Kinds
    <3> HIDE DEF saved
    <3> QED BY <3>1, EmptyKeepsFirst
  <2> HIDE DEF saved
  <2>2. \A k \in Kinds : OneSource(stored'[k], sources', k)
    BY <1>1, <1>3, <2>1
  <2> QED BY <1>1, <2>2
<1> QED BY <1>2, <1>3

\* What a merge leaves empty, and the refinement therefore keeps as it was, has no name of
\* these sources.
LEMMA RefineStep ==
  ASSUME CriteriaInv, RefineSetup
  PROVE  CriteriaInv'
<1> USE DEF RefineSetup, CriteriaInv
<1>1. PICK rfp \in RfpCriteria \cup {NoEntries} :
        LET merged == Merged([sources EXCEPT !.rfp = rfp])
        IN  stored' = IF merged = NoEntries THEN stored
                      ELSE [check     |-> IF merged.check # <<>> THEN merged.check ELSE stored.check,
                            criterion |-> IF merged.criterion # <<>> THEN merged.criterion
                                                                    ELSE stored.criterion,
                            targets   |-> Targets(merged),
                            source    |-> IF merged.criterion # <<>> THEN "merged"
                                                                    ELSE "merged_empty"]
  OBVIOUS
<1> DEFINE s      == [sources EXCEPT !.rfp = rfp]
           merged == Merged(s)
<1>2. FromSource(rfp, "rfp")
  BY CriteriaAssumption, NothingFromSource
<1>3. Sourced(s) /\ \A list, k : OneSource(list, s, k) => OneSource(list, sources, k)
  BY <1>2, RfpIsLast
<1> HIDE DEF s
<1>4. \A k \in Kinds : OneSource(merged[k], sources, k)
  BY <1>3, MergedKeepsFirst
<1>5. stored' = stored \/ \A k \in Kinds : stored'[k] = merged[k] \/ merged[k] = <<>>
  BY <1>1 DEF Kinds, s
<1> HIDE DEF merged
<1>6. CASE stored' = stored
  BY <1>6
<1>7. CASE \A k \in Kinds : stored'[k] = merged[k] \/ merged[k] = <<>>
  <2>1. \A k \in Kinds : OneSource(stored'[k], sources, k)
    BY <1>4, <1>7, EmptyKeepsFirst
  <2> QED BY <2>1
<1> QED BY <1>5, <1>6, <1>7

\* The customer's actions store nothing that the property speaks of.
LEMMA CustomerStep ==
  ASSUME CriteriaInv,
         EditSetup \/ ConfirmSetup \/ LoadSetup \/ UNCHANGED criteriaVars
  PROVE  CriteriaInv'
<1> USE DEF CriteriaInv
<1>1. CASE EditSetup
  <2>1. request = "pending_confirm" /\ request' = request /\ sources' = sources
        /\ stored'.source = "manually_edited"
    BY <1>1 DEF EditSetup
  <2> QED BY <2>1
<1>2. CASE ConfirmSetup \/ LoadSetup
  <2>1. request' \in {"running", "evaluating", "blocked"} /\ sources' = sources /\ stored' = stored
    BY <1>2 DEF ConfirmSetup, LoadSetup
  <2> QED BY <2>1
<1>3. CASE UNCHANGED criteriaVars
  BY <1>3 DEF criteriaVars
<1> QED BY <1>1, <1>2, <1>3

\* CriteriaInv is inductive.
LEMMA CriteriaInvHolds == CriteriaSpec => []CriteriaInv
<1>1. CriteriaInit => CriteriaInv
  <2> SUFFICES ASSUME CriteriaInit PROVE CriteriaInv
    OBVIOUS
  <2>1. Sourced(sources)
    BY NothingFromSource DEF CriteriaInit, Sourced
  <2> QED BY <2>1 DEF CriteriaInit, CriteriaInv
<1>2. CriteriaInv /\ [CriteriaNext]_criteriaVars => CriteriaInv'
  BY SubmitStep, GuidesStep, ChecksStep, SaveStep, RefineStep, CustomerStep DEF CriteriaNext
<1> QED BY <1>1, <1>2, PTL DEF CriteriaSpec

\* POST /start and the refinement: each name of the organisation, the department or the
\* sheet is stored from its first source, whatever the extractions and the LLM reply.
THEOREM FirstSourcesWin == CriteriaSpec => []FirstSourceWins
<1>1. CriteriaInv => FirstSourceWins
  BY WinsByKind DEF CriteriaInv
<1> QED BY <1>1, CriteriaInvHolds, PTL

\* While a request is prepared its weights sum to 1, unless it has more than 20 criteria.
WeightsInv ==
  /\ request \in {"guides", "checks", "save"} =>
       /\ Summed(draft.criterion)
       /\ draft = [check |-> draft.check, criterion |-> draft.criterion]
  /\ RefusedForAReason

\* The default criteria are valid.
LEMMA DefaultsSum == TotalWeight(DefaultCriteria) = 1000
<1> DEFINE w == Weights(DefaultCriteria)
<1>1. w \in Seq(Int) /\ Len(w) = 2 /\ w[1] = 500 /\ w[2] = 500
  BY DEF Weights, DefaultCriteria, Criterion, Entry
<1> HIDE DEF w
<1>2. PICK f : Sums(f, w, 2) /\ SumOf(w) = f[2]
  <2>1. \E f : Sums(f, w, Len(w)) /\ SumOf(w) = f[Len(w)]
    BY <1>1, SumOfSums, ZenonT(30)
  <2> QED BY <1>1, <2>1
<1>3. f[0] = 0 /\ f[1] = f[0] + w[1] /\ f[2] = f[1] + w[2]
  <2>1. \A i \in 1 .. 2 : f[i] = f[i - 1] + w[i]
    BY <1>2 DEF Sums
  <2>2. f[0] = 0
    BY <1>2 DEF Sums
  <2> QED BY <2>1, <2>2
<1> QED BY <1>1, <1>2, <1>3 DEF TotalWeight, w

\* What EvaluationSetup refuses.
LEMMA InvalidForAReason ==
  ASSUME Summed(draft.criterion), draft = [check |-> draft.check, criterion |-> draft.criterion],
         ~Valid(WithDefaults(draft))
  PROVE  \/ \E e \in In(draft.criterion) : e.weight \notin 1 .. 1000
         \/ draft.criterion # <<>> /\ draft.check = <<>>
         \/ TooManyToRound(draft.criterion)
<1> DEFINE list  == draft.criterion
           saved == WithDefaults(draft)
<1> SUFFICES ASSUME \A e \in In(list) : e.weight \in 1 .. 1000,
                    list = <<>> \/ draft.check # <<>>,
                    ~TooManyToRound(list)
             PROVE  Valid(saved)
  OBVIOUS
<1>1. \A e \in In(saved.criterion) : e.weight \in 1 .. 1000
  <2>1. CASE list = <<>>
    <3>1. saved.criterion = DefaultCriteria
      BY <2>1 DEF WithDefaults
    <3>2. \A e \in In(DefaultCriteria) : e.weight = 500
      BY DEF DefaultCriteria, Criterion, Entry, In
    <3> QED BY <3>1, <3>2
  <2>2. CASE list # <<>>
    BY <2>2 DEF WithDefaults
  <2> QED BY <2>1, <2>2
<1>2. Within(TotalWeight(saved.criterion), 10)
  <2>1. CASE list = <<>>
    <3>1. saved.criterion = DefaultCriteria
      BY <2>1 DEF WithDefaults
    <3> QED BY <3>1, DefaultsSum DEF Within
  <2>2. CASE list # <<>>
    <3>1. saved.criterion = list
      BY <2>2 DEF WithDefaults
    <3>2. Len(list) \in Nat /\ Len(list) # 0
      BY <2>2 DEF Summed, IsList
    <3>3. Len(list) \in 1 .. 20 \/ Within(TotalWeight(list), 10)
      <4> DEFINE n == Len(list)  near == Within(TotalWeight(list), 10)
      <4>1. ~(n > 20 /\ ~near) /\ n \in Nat /\ n # 0
        BY <3>2, Zenon DEF TooManyToRound
      <4> HIDE DEF n, near
      <4>2. n \in 1 .. 20 \/ near
        BY <4>1, SMTT(30)
      <4> QED BY <4>2 DEF n, near
    <3> QED BY <3>1, <3>3 DEF Summed
  <2> QED BY <2>1, <2>2
<1>3. TargetsOf("check", saved.check) \subseteq saved.targets
  <2>1. CASE draft = NoEntries
    BY <2>1 DEF WithDefaults, NoEntries
  <2>2. CASE draft # NoEntries
    <3>1. draft.check # <<>>
      BY <2>2 DEF NoEntries
    <3>2. saved.check = draft.check /\ saved.targets = Targets(draft)
      BY <2>2, <3>1 DEF WithDefaults
    <3>3. TargetsOf("check", draft.check) \subseteq Targets(draft)
      BY DEF Targets, Kinds
    <3> QED BY <3>2, <3>3
  <2> QED BY <2>1, <2>2
<1> QED BY <1>1, <1>2, <1>3 DEF Valid

\* Each step keeps WeightsInv.
LEMMA WeightsStep ==
  ASSUME WeightsInv, CriteriaInv, [CriteriaNext]_criteriaVars
  PROVE  WeightsInv'
<1> USE DEF WeightsInv
<1>1. CASE SubmitRequest
  <2>1. PICK org \in OrgCriteria, dept \in DeptCriteria, sheet \in SheetCriteria \cup {NoEntries},
             rfp \in RfpCriteria \cup {NoEntries} : draft' = Merged(sources')
    BY <1>1 DEF SubmitRequest
  <2>2. Sourced(sources')
    BY <1>1, SubmitStep DEF CriteriaInv
  <2>3. Summed(draft'.criterion)
    <3>1. Summed(Merged(sources')["criterion"])
      BY <2>2, MergedKeepsFirst DEF Kinds
    <3> QED BY <2>1, <3>1
  <2>4. draft' = [check |-> draft'.check, criterion |-> draft'.criterion]
    BY <2>1 DEF Merged
  <2>5. request' = "guides"
    BY <1>1 DEF SubmitRequest
  <2> QED BY <2>3, <2>4, <2>5 DEF RefusedForAReason
<1>2. CASE FillGuides
  <2> DEFINE list == draft.criterion
  <2>1. request = "guides" /\ request' = "checks"
    BY <1>2 DEF FillGuides
  <2>2. Summed(list)
    BY <2>1
  <2>3. PICK named \in IF \E e \in In(draft.criterion) : e.guide = "blank"
                       THEN SUBSET {e.name : e \in In(draft.criterion)} ELSE {{}} :
          draft' = [check     |-> draft.check,
                    criterion |-> Guided(list, LAMBDA e : e.name \in named, "generated")]
    BY <1>2 DEF FillGuides
  <2>4. Len(list) \in Nat /\ DOMAIN list = 1 .. Len(list)
    BY <2>2 DEF Summed, IsList
  <2> DEFINE new == draft'.criterion
  <2>5. new = [i \in 1 .. Len(list) |->
                 IF list[i].name \in named
                 THEN Entry(list[i].source, list[i].name, list[i].weight, "generated") ELSE list[i]]
    BY <2>3, <2>4 DEF Guided
  <2>6. draft' = [check |-> draft'.check, criterion |-> draft'.criterion]
    BY <2>3
  <2> HIDE DEF new, list
  <2>7. /\ DOMAIN new = 1 .. Len(list) /\ new = [i \in 1 .. Len(list) |-> new[i]]
        /\ \A i \in 1 .. Len(list) : new[i].weight = list[i].weight
    BY <2>5 DEF Entry
  <2>8. IsList(new) /\ Len(new) = Len(list)
    BY <2>4, <2>7, FunctionIsList
  <2>9. Weights(new) = Weights(list)
    BY <2>4, <2>7 DEF Weights
  <2>10. Summed(new)
    BY <2>2, <2>4, <2>7, <2>8, <2>9 DEF Summed, TotalWeight
  <2>11. Summed(draft'.criterion)
    BY <2>10 DEF new
  <2>12. RefusedForAReason'
    BY <2>1 DEF RefusedForAReason
  <2> QED BY <2>6, <2>11, <2>12
<1>3. CASE SuggestChecks
  <2>1. request = "checks" /\ request' = "save" /\ draft'.criterion = draft.criterion
        /\ draft' = [check |-> draft'.check, criterion |-> draft'.criterion]
    BY <1>3 DEF SuggestChecks
  <2> QED BY <2>1 DEF RefusedForAReason
<1>4. CASE SaveStart
  <2>1. CASE Valid(WithDefaults(draft))
    BY <1>4, <2>1 DEF SaveStart, RefusedForAReason
  <2>2. CASE ~Valid(WithDefaults(draft))
    <3>1. request = "save" /\ request' = "rejected" /\ draft' = draft
      BY <1>4, <2>2 DEF SaveStart
    <3>2. RefusedForAReason'
      BY <2>2, <3>1, InvalidForAReason DEF RefusedForAReason
    <3> QED BY <3>1, <3>2
  <2> QED BY <2>1, <2>2
<1>5. CASE EditSetup \/ ConfirmSetup \/ RefineSetup \/ LoadSetup \/ UNCHANGED criteriaVars
  <2>1. draft' = draft /\ (request' = request \/ request' \in {"running", "evaluating", "blocked"})
    BY <1>5 DEF EditSetup, ConfirmSetup, RefineSetup, LoadSetup, criteriaVars
  <2>2. RefusedForAReason'
    BY <2>1 DEF RefusedForAReason
  <2>3. CASE request' = request
    BY <2>1, <2>2, <2>3
  <2>4. CASE request' \in {"running", "evaluating", "blocked"}
    BY <2>2, <2>4
  <2> QED BY <2>1, <2>3, <2>4
<1> QED BY <1>1, <1>2, <1>3, <1>4, <1>5 DEF CriteriaNext

\* POST /start: a request is only refused for a weight out of range, for criteria without any
\* check, or for the rounding of more than 20 weights.
THEOREM RefusedForReasons == CriteriaSpec => []RefusedForAReason
<1>1. CriteriaInit => WeightsInv
  BY DEF CriteriaInit, WeightsInv, RefusedForAReason
<1>2. WeightsInv => RefusedForAReason
  BY DEF WeightsInv
<1>3. WeightsInv /\ CriteriaInv /\ [CriteriaNext]_criteriaVars => WeightsInv'
  BY WeightsStep
<1> QED BY <1>1, <1>2, <1>3, CriteriaInvHolds, PTL DEF CriteriaSpec

----------------------------------------------------------------------------
(* The planner *)

\* For every setup and every vendor the plan has its tasks in an order that can be kept.
PlanIsSound ==
  (plan # NoPlan /\ plan.planned /\ plan.request.vendors # {}) =>
    /\ Schedulable(plan.tasks)
    /\ plan.request.checks \subseteq Covered(plan.tasks, "check")
    /\ plan.request.criteria \subseteq Covered(plan.tasks, "score")

\* The graph has six layers, and each task waits for tasks of an earlier one.
LEMMA PlanForSound ==
  ASSUME NEW r
  PROVE  /\ Schedulable(PlanFor(r))
         /\ r.checks \subseteq Covered(PlanFor(r), "check")
         /\ r.criteria \subseteq Covered(PlanFor(r), "score")
<1> DEFINE retrieve == Ids("retrieve", r.vendors)
           extract  == Ids("extract", r.vendors)
           check    == Ids("check", r.checks)
           score    == Ids("score", r.criteria)
           tail     == Ids("tail", {"compare", "decide", "explain"})
           tasks    == PlanFor(r)
\* Which tasks there are, and what they wait for.
<1>1. \A id : /\ id \in retrieve => id[1] = "retrieve"
              /\ id \in extract => id[1] = "extract"
              /\ id \in check => id[1] = "check"
              /\ id \in score => id[1] = "score"
              /\ id \in tail => id[1] = "tail"
  BY DEF Ids
<1>2. \A id \in tail : id \in {<<"tail", "compare">>, <<"tail", "decide">>, <<"tail", "explain">>}
  BY DEF Ids
<1>3. DOMAIN tasks = retrieve \cup extract \cup check \cup score \cup tail
  BY DEF PlanFor
<1>4. /\ \A id \in retrieve : tasks[id].deps = {}
      /\ \A id \in extract : tasks[id].deps = {<<"retrieve", id[2]>>}
      /\ \A id \in check : tasks[id].deps = extract
      /\ \A id \in score : tasks[id].deps = check
  BY <1>1 DEF PlanFor, Task
<1>5. /\ tasks[<<"tail", "compare">>].deps = score
      /\ tasks[<<"tail", "decide">>].deps = {<<"tail", "compare">>}
      /\ tasks[<<"tail", "explain">>].deps = {<<"tail", "decide">>}
  <2>1. /\ <<"tail", "compare">> \in tail /\ <<"tail", "decide">> \in tail
        /\ <<"tail", "explain">> \in tail
    BY DEF Ids
  <2> QED BY <1>1, <2>1 DEF PlanFor, Task
<1>6. \A id \in DOMAIN tasks : tasks[id].type = id[1] /\ tasks[id].item = id[2]
  BY DEF PlanFor, Task
<1> HIDE DEF retrieve, extract, check, score, tail, tasks
<1>7. ASSUME NEW waiting \in (SUBSET DOMAIN tasks) \ {{}}
      PROVE  \E id \in waiting : tasks[id].deps \cap waiting = {}
  <2>1. CASE \E id \in waiting : id \in retrieve
    BY <1>4, <2>1
  <2>2. CASE (\A id \in waiting : id \notin retrieve) /\ \E id \in waiting : id \in extract
    <3>1. PICK id \in waiting : id \in extract
      BY <2>2
    <3>2. <<"retrieve", id[2]>> \in retrieve
      BY <3>1 DEF extract, retrieve, Ids
    <3>3. tasks[id].deps = {<<"retrieve", id[2]>>} /\ <<"retrieve", id[2]>> \notin waiting
      BY <1>4, <2>2, <3>1, <3>2
    <3>4. tasks[id].deps \cap waiting = {}
      BY <3>3
    <3> QED BY <3>1, <3>4, Zenon
  <2>3. CASE (\A id \in waiting : id \notin extract) /\ \E id \in waiting : id \in check
    BY <1>4, <2>3
  <2>4. CASE (\A id \in waiting : id \notin check) /\ \E id \in waiting : id \in score
    BY <1>4, <2>4
  <2>5. CASE \A id \in waiting : id \notin score /\ id \in tail
    <3>1. CASE <<"tail", "compare">> \in waiting
      BY <1>5, <2>5, <3>1
    <3>2. CASE <<"tail", "compare">> \notin waiting /\ <<"tail", "decide">> \in waiting
      BY <1>5, <3>2
    <3>3. CASE <<"tail", "compare">> \notin waiting /\ <<"tail", "decide">> \notin waiting
      BY <1>2, <1>5, <2>5, <3>3
    <3> QED BY <3>1, <3>2, <3>3
  <2>6. \A id \in tail : id \notin score
    BY <1>1 DEF tail, score
  <2> QED BY <1>3, <2>1, <2>2, <2>3, <2>4, <2>5, <2>6
<1>8. ASSUME NEW c \in r.checks PROVE c \in Covered(tasks, "check")
  <2>1. <<"check", c>> \in DOMAIN tasks
    BY <1>3 DEF check, Ids
  <2> QED BY <1>6, <2>1 DEF Covered
<1>9. ASSUME NEW c \in r.criteria PROVE c \in Covered(tasks, "score")
  <2>1. <<"score", c>> \in DOMAIN tasks
    BY <1>3 DEF score, Ids
  <2> QED BY <1>6, <2>1 DEF Covered
<1> QED BY <1>7, <1>8, <1>9 DEF Schedulable, tasks

\* run_planner: whatever the setup, the plan for at least one vendor has no set of tasks that
\* waits for itself, and a task for each of its mandatory checks and criteria.
THEOREM PlansCanBeDone == PlanSpec => []PlanIsSound
<1>1. PlanInit => PlanIsSound
  BY DEF PlanInit, PlanIsSound
<1>2. ASSUME PlanIsSound, [PlanNext]_plan PROVE PlanIsSound'
  <2>1. CASE RunPlanner
    <3>1. PICK r \in PlanRequests :
            plan' = [request |-> r, planned |-> TRUE,
                     tasks |-> IF r.vendors = {} THEN <<>> ELSE PlanFor(r)]
      BY <2>1 DEF RunPlanner
    <3> QED BY <3>1, PlanForSound DEF PlanIsSound
  <2>2. CASE TakePlan
    BY <2>2 DEF TakePlan, PlanIsSound
  <2>3. CASE UNCHANGED plan
    BY <1>2, <2>3 DEF PlanIsSound
  <2> QED BY <1>2, <2>1, <2>2, <2>3 DEF PlanNext
<1> QED BY <1>1, <1>2, PTL DEF PlanSpec

----------------------------------------------------------------------------
(* The guardrail of the planner *)

\* What the rounds make of every loop, n of them at most, as a recursion over n.
StageOf(tasks, n, before) ==
  [loop \in SearchLoops(tasks) |->
     IF n = 0 \/ loop.todo = {} THEN [found |-> FALSE, visited |-> loop.visited]
     ELSE SearchRound(tasks, before, loop)]

Stages(f, tasks, n) == f = [i \in 0 .. n |-> StageOf(tasks, i, f[i - 1])]

\* The recursion that defines Search has a solution.
LEMMA SearchStages ==
  ASSUME NEW tasks, SearchBound(tasks) \in Nat
  PROVE  \E f : Stages(f, tasks, SearchBound(tasks)) /\ Search(tasks) = f[SearchBound(tasks)]
<1> DEFINE Bad == {n \in Nat : ~ \E f : Stages(f, tasks, n)}
<1>1. Bad = {}
  <2> SUFFICES ASSUME Bad # {} PROVE FALSE
    OBVIOUS
  <2>1. PICK n \in Bad : \A m \in Bad : n <= m
    BY LeastNumber
  <2>2. \A before : StageOf(tasks, 0, before) = StageOf(tasks, 0, <<>>)
    BY DEF StageOf
  <2>3. CASE n = 0
    <3> DEFINE f == [i \in 0 .. 0 |-> StageOf(tasks, 0, <<>>)]
    <3>1. f = [i \in 0 .. 0 |-> StageOf(tasks, i, f[i - 1])]
      BY <2>2
    <3> QED BY <2>1, <2>3, <3>1 DEF Stages
  <2>4. CASE n # 0
    <3>1. n \in Nat /\ n - 1 \in Nat /\ n - 1 \notin Bad
      BY <2>1, <2>4
    <3>2. PICK g : Stages(g, tasks, n - 1)
      BY <3>1
    <3> DEFINE f == [i \in 0 .. n |-> IF i = n THEN StageOf(tasks, n, g[n - 1]) ELSE g[i]]
    <3>3. \A i \in 0 .. n - 1 : f[i] = g[i]
      BY <3>1
    <3>4. \A i \in 0 .. n : f[i] = StageOf(tasks, i, f[i - 1])
      <4> SUFFICES ASSUME NEW i \in 0 .. n PROVE f[i] = StageOf(tasks, i, f[i - 1])
        OBVIOUS
      <4>1. CASE i = n
        <5>1. f[i] = StageOf(tasks, n, g[n - 1])
          BY <4>1
        <5>2. f[n - 1] = g[n - 1]
          BY <3>1, <3>3
        <5> QED BY <4>1, <5>1, <5>2
      <4>2. CASE i # n
        <5>1. i \in 0 .. n - 1 /\ (i # 0 => i - 1 \in 0 .. n - 1)
          BY <3>1, <4>2
        <5>2. g[i] = StageOf(tasks, i, g[i - 1])
          BY <3>2, <5>1 DEF Stages
        <5>3. f[i] = g[i]
          BY <3>3, <5>1
        <5>4. CASE i = 0
          BY <2>2, <5>2, <5>3, <5>4
        <5>5. CASE i # 0
          <6>1. f[i - 1] = g[i - 1]
            BY <3>3, <5>1, <5>5
          <6> QED BY <5>2, <5>3, <6>1
        <5> QED BY <5>4, <5>5
      <4> QED BY <4>1, <4>2
    <3>5. Stages(f, tasks, n)
      <4> HIDE DEF f
      <4>1. f = [i \in 0 .. n |-> f[i]]
        BY DEF f
      <4> QED BY <3>4, <4>1 DEF Stages
    <3> QED BY <2>1, <3>5
  <2> QED BY <2>3, <2>4
<1> DEFINE search == CHOOSE f : Stages(f, tasks, SearchBound(tasks))
<1>2. Stages(search, tasks, SearchBound(tasks))
  BY <1>1
<1>3. Search(tasks) = search[SearchBound(tasks)]
  BY DEF Search, Stages, StageOf
<1> QED BY <1>2, <1>3

\* What the search has done with: the visited ids that are not on its path.  They wait for
\* one another only, and no set of them waits for itself.
DoneWith(tasks, visited, path) ==
  /\ \A id \in (DOMAIN tasks \cap visited) \ path : tasks[id].deps \subseteq visited \ path
  /\ \A waiting \in SUBSET ((DOMAIN tasks \cap visited) \ path) :
       waiting # {} => \E id \in waiting : tasks[id].deps \cap waiting = {}

\* A loop the search can be in: the path is visited, and each of its tasks depends on another
\* one of it or on what the loop looks at.
Legal(tasks, loop) ==
  /\ loop \in SearchLoops(tasks)
  /\ loop.path \subseteq loop.visited \cap DOMAIN tasks
  /\ \A next \in loop.todo, id \in loop.path : tasks[id].deps \cap (loop.path \cup {next}) # {}
  /\ DoneWith(tasks, loop.visited, loop.path)

\* What it means when a loop finds something, and when it does not.
Answers(tasks, loop, answer) ==
  IF answer.found THEN ~Schedulable(tasks)
  ELSE /\ loop.visited \cup loop.todo \subseteq answer.visited
       /\ answer.visited \subseteq PlanIds(tasks)
       /\ loop.todo \cap loop.path = {}
       /\ DoneWith(tasks, answer.visited, loop.path)

\* The rounds a loop can still take.
RoundsLeft(tasks, loop) ==
  Cardinality(PlanIds(tasks) \ loop.visited) * (Cardinality(PlanIds(tasks)) + 1)
    + Cardinality(loop.todo)

\* The call for an id takes rounds from what its loop had left, and so does what follows.
LEMMA RoundsDecrease ==
  ASSUME NEW tasks, IsFiniteSet(PlanIds(tasks)),
         NEW loop \in SearchLoops(tasks), NEW next \in SearchLoops(tasks),
         loop.visited \subseteq next.visited,
         \/ \E id \in loop.todo : next.todo = loop.todo \ {id}
         \/ \E id \in next.visited : id \notin loop.visited
  PROVE  /\ RoundsLeft(tasks, loop) \in Nat /\ RoundsLeft(tasks, next) \in Nat
         /\ RoundsLeft(tasks, next) < RoundsLeft(tasks, loop)
<1> DEFINE ids == PlanIds(tasks)
           k == Cardinality(ids) + 1
           u == Cardinality(ids \ loop.visited)
           v == Cardinality(ids \ next.visited)
           s == Cardinality(loop.todo)
           t == Cardinality(next.todo)
<1>1. /\ loop.todo \subseteq ids /\ next.todo \subseteq ids
      /\ loop.visited \subseteq ids /\ next.visited \subseteq ids
  BY DEF SearchLoops
<1>2. /\ IsFiniteSet(ids \ loop.visited) /\ IsFiniteSet(ids \ next.visited)
      /\ IsFiniteSet(loop.todo) /\ IsFiniteSet(next.todo)
  BY <1>1, FS_Subset
<1>3. k \in Nat /\ u \in Nat /\ v \in Nat /\ s \in Nat /\ t \in Nat
  BY <1>2, FS_CardinalityType
<1>4. t <= k - 1
  <2>1. t <= Cardinality(ids)
    BY <1>1, FS_Subset
  <2>2. Cardinality(ids) \in Nat
    BY FS_CardinalityType
  <2> QED BY <1>3, <2>1, <2>2
<1>5. ids \ next.visited \subseteq ids \ loop.visited
  OBVIOUS
<1>6. v <= u
  BY <1>2, <1>5, FS_Subset
<1> HIDE DEF k, u, v, s, t
<1>7. u * k \in Nat /\ v * k \in Nat
  BY <1>3
<1>8. RoundsLeft(tasks, loop) = u * k + s /\ RoundsLeft(tasks, next) = v * k + t
  BY DEF RoundsLeft, k, u, v, s, t
<1>9. CASE \E id \in loop.todo : next.todo = loop.todo \ {id}
  <2>1. t = s - 1
    BY <1>2, <1>9, FS_RemoveElement DEF s, t
  <2>2. v * k <= u * k
    BY <1>3, <1>6
  <2> QED BY <1>3, <1>7, <1>8, <2>1, <2>2
<1>10. CASE \E id \in next.visited : id \notin loop.visited
  <2>1. PICK id \in next.visited : id \notin loop.visited
    BY <1>10
  <2>2. ids \ next.visited # ids \ loop.visited
    BY <1>1, <2>1
  <2>3. v < u
    <3>1. v # u
      BY <1>2, <1>5, <2>2, FS_Subset, Zenon DEF u, v
    <3> QED BY <1>3, <1>6, <3>1
  <2>4. v * k <= (u - 1) * k
    BY <1>3, <2>3
  <2>5. (u - 1) * k = u * k - k
    BY <1>3
  <2> QED BY <1>3, <1>4, <1>7, <1>8, <2>4, <2>5
<1> QED BY <1>9, <1>10

\* One round, when what it calls answers right.
LEMMA RoundAnswers ==
  ASSUME NEW tasks, IsFiniteSet(PlanIds(tasks)), NEW search, NEW n \in Nat,
         \A l : Legal(tasks, l) /\ RoundsLeft(tasks, l) < n => Answers(tasks, l, search[l]),
         NEW loop, Legal(tasks, loop), RoundsLeft(tasks, loop) <= n, loop.todo # {}
  PROVE  Answers(tasks, loop, SearchRound(tasks, search, loop))
<1> DEFINE ids   == PlanIds(tasks)
           id    == CHOOSE i \in loop.todo : TRUE
           rest  == loop.todo \ {id}
           seen  == loop.visited \cup {id}
           call  == SearchLoop(tasks[id].deps, loop.path \cup {id}, seen)
           below == search[call]
\* What the definitions say.
<1>1. id \in loop.todo
  OBVIOUS
<1>2. /\ loop \in SearchLoops(tasks)
      /\ loop.todo \subseteq ids /\ loop.path \subseteq ids /\ loop.visited \subseteq ids
      /\ loop.path \subseteq loop.visited /\ loop.path \subseteq DOMAIN tasks
  BY DEF Legal, SearchLoops
<1>3. SearchRound(tasks, search, loop) =
        IF id \in loop.path THEN [found |-> TRUE, visited |-> loop.visited]
        ELSE IF id \in loop.visited \/ id \notin DOMAIN tasks
        THEN search[SearchLoop(rest, loop.path, seen)]
        ELSE IF below.found THEN below
        ELSE search[SearchLoop(rest, loop.path, below.visited)]
  BY DEF SearchRound, ClosesCycle
<1>4. \A i \in DOMAIN tasks : i \in ids /\ tasks[i].deps \subseteq ids
  BY DEF PlanIds
<1>5. \A todo, path, visited :
        /\ SearchLoop(todo, path, visited).todo = todo
        /\ SearchLoop(todo, path, visited).path = path
        /\ SearchLoop(todo, path, visited).visited = visited
        /\ (todo \subseteq ids /\ path \subseteq ids /\ visited \subseteq ids) =>
             SearchLoop(todo, path, visited) \in SearchLoops(tasks)
  BY DEF SearchLoop, SearchLoops
<1>6. \A next \in loop.todo, i \in loop.path : tasks[i].deps \cap (loop.path \cup {next}) # {}
  BY DEF Legal
<1>7. DoneWith(tasks, loop.visited, loop.path)
  BY DEF Legal
<1> HIDE DEF id
\* The id is on the path: the path waits for itself.
<1>8. CASE id \in loop.path
  <2>1. \A i \in loop.path : tasks[i].deps \cap loop.path # {}
    BY <1>1, <1>6, <1>8
  <2>2. ~Schedulable(tasks)
    BY <1>2, <1>8, <2>1 DEF Schedulable
  <2> QED BY <1>3, <1>8, <2>2 DEF Answers
\* The rest of the loop, once the id is done with.
<1>9. ASSUME NEW visited, seen \subseteq visited, visited \subseteq ids, id \notin loop.path,
             DoneWith(tasks, visited, loop.path)
      PROVE  Answers(tasks, loop, search[SearchLoop(rest, loop.path, visited)])
  <2> DEFINE next == SearchLoop(rest, loop.path, visited)
  <2>1. next.todo = rest /\ next.path = loop.path /\ next.visited = visited
    BY <1>5
  <2>2. next \in SearchLoops(tasks)
    BY <1>2, <1>5, <1>9
  <2> HIDE DEF next
  <2>3. Legal(tasks, next)
    BY <1>2, <1>6, <1>9, <2>1, <2>2 DEF Legal
  <2>4. RoundsLeft(tasks, loop) \in Nat /\ RoundsLeft(tasks, next) \in Nat
        /\ RoundsLeft(tasks, next) < RoundsLeft(tasks, loop)
    BY <1>1, <1>2, <1>9, <2>1, <2>2, RoundsDecrease
  <2>5. Answers(tasks, next, search[next])
    BY <2>3, <2>4
  <2>6. Answers(tasks, loop, search[next])
    BY <1>1, <1>9, <2>1, <2>5 DEF Answers
  <2> QED BY <2>6 DEF next
\* The id was visited before, or there is no such task.
<1>10. CASE id \notin loop.path /\ (id \in loop.visited \/ id \notin DOMAIN tasks)
  <2>1. DoneWith(tasks, seen, loop.path)
    <3>1. (DOMAIN tasks \cap seen) \ loop.path = (DOMAIN tasks \cap loop.visited) \ loop.path
      BY <1>10
    <3> QED BY <1>7, <3>1 DEF DoneWith
  <2>2. seen \subseteq ids
    BY <1>1, <1>2
  <2> QED BY <1>3, <1>9, <1>10, <2>1, <2>2
\* The id is visited for the first time.
<1>11. CASE id \notin loop.path /\ id \notin loop.visited /\ id \in DOMAIN tasks
  <2>1. /\ call.todo = tasks[id].deps /\ call.path = loop.path \cup {id} /\ call.visited = seen
        /\ call \in SearchLoops(tasks)
    BY <1>1, <1>2, <1>4, <1>5, <1>11
  <2> HIDE DEF call
  <2>2. Legal(tasks, call)
    <3>1. ASSUME NEW next \in call.todo, NEW i \in call.path
          PROVE  tasks[i].deps \cap (call.path \cup {next}) # {}
      BY <1>1, <1>6, <2>1, <3>1
    <3>2. seen \ call.path = loop.visited \ loop.path
      BY <1>11, <2>1
    <3>3. (DOMAIN tasks \cap seen) \ call.path = (DOMAIN tasks \cap loop.visited) \ loop.path
      BY <1>11, <2>1
    <3>4. DoneWith(tasks, seen, call.path)
      BY <1>7, <3>2, <3>3 DEF DoneWith
    <3> QED BY <1>2, <1>11, <2>1, <3>1, <3>4 DEF Legal
  <2>3. RoundsLeft(tasks, loop) \in Nat /\ RoundsLeft(tasks, call) \in Nat
        /\ RoundsLeft(tasks, call) < RoundsLeft(tasks, loop)
    BY <1>2, <1>11, <2>1, RoundsDecrease
  <2>4. Answers(tasks, call, below)
    BY <2>2, <2>3
  <2> HIDE DEF below
  <2>5. CASE below.found
    BY <1>3, <1>11, <2>4, <2>5 DEF Answers
  <2>6. CASE ~below.found
    <3>1. /\ seen \cup tasks[id].deps \subseteq below.visited /\ below.visited \subseteq ids
          /\ tasks[id].deps \cap (loop.path \cup {id}) = {}
          /\ DoneWith(tasks, below.visited, loop.path \cup {id})
      BY <2>1, <2>4, <2>6 DEF Answers
    <3> DEFINE before == (DOMAIN tasks \cap below.visited) \ (loop.path \cup {id})
               after  == (DOMAIN tasks \cap below.visited) \ loop.path
    <3>2. after = before \cup {id} /\ id \notin before
      BY <1>11, <3>1
    <3>3. \A i \in before : tasks[i].deps \subseteq below.visited \ (loop.path \cup {id})
      BY <3>1 DEF DoneWith
    <3>4. \A waiting \in SUBSET before :
            waiting # {} => \E i \in waiting : tasks[i].deps \cap waiting = {}
      BY <3>1 DEF DoneWith
    <3> HIDE DEF before, after
    <3>5. ASSUME NEW i \in after PROVE tasks[i].deps \subseteq below.visited \ loop.path
      BY <3>1, <3>2, <3>3, <3>5
    <3>6. ASSUME NEW waiting \in SUBSET after, waiting # {}
          PROVE  \E i \in waiting : tasks[i].deps \cap waiting = {}
      <4>1. CASE waiting \ {id} = {}
        <5>1. waiting = {id}
          BY <3>6, <4>1
        <5> QED BY <3>1, <5>1
      <4>2. CASE waiting \ {id} # {}
        <5>1. waiting \ {id} \in SUBSET before
          BY <3>2, <3>6
        <5>2. PICK i \in waiting \ {id} : tasks[i].deps \cap (waiting \ {id}) = {}
          BY <3>4, <4>2, <5>1
        <5>3. id \notin tasks[i].deps
          BY <3>3, <5>1, <5>2
        <5> QED BY <5>2, <5>3
      <4> QED BY <4>1, <4>2
    <3>7. DoneWith(tasks, below.visited, loop.path)
      BY <3>5, <3>6 DEF DoneWith, after
    <3>8. Answers(tasks, loop, search[SearchLoop(rest, loop.path, below.visited)])
      BY <1>9, <1>11, <3>1, <3>7
    <3> QED BY <1>3, <1>11, <2>6, <3>8
  <2> QED BY <2>5, <2>6
<1> QED BY <1>8, <1>10, <1>11

\* Every loop that has rounds enough.
LEMMA SearchAnswers ==
  ASSUME NEW tasks, IsFiniteSet(PlanIds(tasks)), NEW f, NEW N \in Nat, Stages(f, tasks, N),
         NEW n \in 0 .. N, NEW loop, Legal(tasks, loop), RoundsLeft(tasks, loop) <= n
  PROVE  Answers(tasks, loop, f[n][loop])
<1> DEFINE Right(m) == \A l : Legal(tasks, l) /\ RoundsLeft(tasks, l) <= m =>
                                Answers(tasks, l, f[m][l])
           Bad == {m \in 0 .. N : ~Right(m)}
<1>1. ASSUME NEW m \in 0 .. N, NEW l, Legal(tasks, l)
      PROVE  /\ l \in SearchLoops(tasks)
             /\ f[m][l] = IF m = 0 \/ l.todo = {}
                          THEN [found |-> FALSE, visited |-> l.visited]
                          ELSE SearchRound(tasks, f[m - 1], l)
  <2>1. l \in SearchLoops(tasks)
    BY <1>1 DEF Legal
  <2>2. f[m] = StageOf(tasks, m, f[m - 1])
    BY DEF Stages
  <2> QED BY <2>1, <2>2 DEF StageOf
<1>2. ASSUME NEW l, Legal(tasks, l), l.todo = {}
      PROVE  Answers(tasks, l, [found |-> FALSE, visited |-> l.visited])
  BY <1>2 DEF Answers, Legal, SearchLoops
<1>3. ASSUME NEW l, Legal(tasks, l)
      PROVE  RoundsLeft(tasks, l) \in Nat /\ (RoundsLeft(tasks, l) <= 0 => l.todo = {})
  <2> DEFINE k == Cardinality(PlanIds(tasks)) + 1
             u == Cardinality(PlanIds(tasks) \ l.visited)
  <2>1. l.todo \subseteq PlanIds(tasks)
    BY <1>3 DEF Legal, SearchLoops
  <2>2. IsFiniteSet(l.todo) /\ IsFiniteSet(PlanIds(tasks) \ l.visited)
    BY <2>1, FS_Subset
  <2>3. k \in Nat /\ u \in Nat /\ Cardinality(l.todo) \in Nat
    BY <2>2, FS_CardinalityType
  <2>4. RoundsLeft(tasks, l) = u * k + Cardinality(l.todo)
    BY DEF RoundsLeft
  <2> HIDE DEF u, k
  <2>5. u * k \in Nat
    BY <2>3
  <2>6. Cardinality(l.todo) = 0 => l.todo = {}
    BY <2>2, FS_EmptySet
  <2> QED BY <2>3, <2>4, <2>5, <2>6
<1>4. Bad = {}
  <2> SUFFICES ASSUME Bad # {} PROVE FALSE
    OBVIOUS
  <2> HIDE DEF Right
  <2>1. PICK m \in Bad : \A j \in Bad : m <= j
    <3>1. Bad \subseteq Nat
      OBVIOUS
    <3> HIDE DEF Bad
    <3> QED BY <3>1, LeastNumber
  <2>2. PICK l : Legal(tasks, l) /\ RoundsLeft(tasks, l) <= m /\ ~Answers(tasks, l, f[m][l])
    BY <2>1 DEF Right
  <2>3. m # 0 /\ l.todo # {}
    <3> SUFFICES ASSUME m = 0 \/ l.todo = {} PROVE FALSE
      OBVIOUS
    <3>1. l.todo = {}
      BY <1>3, <2>2
    <3>2. f[m][l] = [found |-> FALSE, visited |-> l.visited]
      BY <1>1, <2>2, <3>1
    <3> QED BY <1>2, <2>2, <3>1, <3>2
  <2>4. m - 1 \in 0 .. N /\ m \in Nat
    BY <2>1, <2>3
  <2>5. Right(m - 1)
    BY <2>1, <2>4
  <2>6. \A x : Legal(tasks, x) /\ RoundsLeft(tasks, x) < m => Answers(tasks, x, f[m - 1][x])
    BY <1>3, <2>4, <2>5 DEF Right
  <2>7. Answers(tasks, l, SearchRound(tasks, f[m - 1], l))
    BY <2>2, <2>3, <2>4, <2>6, RoundAnswers
  <2>8. f[m][l] = SearchRound(tasks, f[m - 1], l)
    BY <1>1, <2>1, <2>2, <2>3
  <2> QED BY <2>2, <2>7, <2>8
<1>5. Right(n)
  BY <1>4
<1> QED BY <1>5

\* has_cycle over all tasks finds a cycle exactly when some tasks wait for one another.
LEMMA CycleMeansWaiting ==
  ASSUME NEW tasks, IsFiniteSet(PlanIds(tasks))
  PROVE  CycleDetected(tasks) <=> ~Schedulable(tasks)
<1> DEFINE bound == SearchBound(tasks)
           loop  == SearchLoop(DOMAIN tasks, {}, {})
           k     == Cardinality(PlanIds(tasks)) + 1
<1>1. k \in Nat /\ k - 1 = Cardinality(PlanIds(tasks)) /\ k - 1 \in Nat
  BY FS_CardinalityType
<1>2. loop.todo = DOMAIN tasks /\ loop.path = {} /\ loop.visited = {}
  BY DEF SearchLoop
<1>3. loop \in SearchLoops(tasks)
  BY DEF SearchLoop, SearchLoops, PlanIds
<1> HIDE DEF loop
<1>4. Legal(tasks, loop)
  BY <1>2, <1>3 DEF Legal, DoneWith
<1>5. bound \in Nat /\ RoundsLeft(tasks, loop) <= bound
  <2>1. Cardinality(DOMAIN tasks) <= k - 1 /\ Cardinality(DOMAIN tasks) \in Nat
    <3>1. DOMAIN tasks \subseteq PlanIds(tasks)
      BY DEF PlanIds
    <3> QED BY <1>1, <3>1, FS_Subset, FS_CardinalityType
  <2>2. PlanIds(tasks) \ {} = PlanIds(tasks)
    OBVIOUS
  <2>3. RoundsLeft(tasks, loop) = (k - 1) * k + Cardinality(DOMAIN tasks)
    BY <1>1, <1>2, <2>2 DEF RoundsLeft
  <2>4. bound = k * k
    BY DEF SearchBound
  <2> HIDE DEF k, bound
  <2>5. (k - 1) * k = k * k - k /\ k * k \in Nat
    BY <1>1
  <2> QED BY <1>1, <2>1, <2>3, <2>4, <2>5
<1>6. PICK f : Stages(f, tasks, bound) /\ Search(tasks) = f[bound]
  BY <1>5, SearchStages
<1> HIDE DEF bound
<1>7. Answers(tasks, loop, f[bound][loop])
  <2>1. bound \in 0 .. bound
    BY <1>5
  <2> QED BY <1>4, <1>5, <1>6, <2>1, SearchAnswers
<1>8. CycleDetected(tasks) = f[bound][loop].found
  BY <1>6 DEF CycleDetected, loop
<1>9. CASE f[bound][loop].found
  BY <1>7, <1>8, <1>9 DEF Answers
<1>10. CASE ~f[bound][loop].found
  <2> DEFINE visited == f[bound][loop].visited
  <2>1. DOMAIN tasks \subseteq visited /\ DoneWith(tasks, visited, {})
    BY <1>2, <1>7, <1>10 DEF Answers
  <2> HIDE DEF visited
  <2>2. (DOMAIN tasks \cap visited) \ {} = DOMAIN tasks
    BY <2>1
  <2>3. Schedulable(tasks)
    BY <2>1, <2>2 DEF DoneWith, Schedulable
  <2> QED BY <1>8, <1>10, <2>3
<1> QED BY <1>9, <1>10

\* A function of a finite domain has finitely many values.
LEMMA FiniteRange ==
  ASSUME NEW f, IsFiniteSet(DOMAIN f)
  PROVE  IsFiniteSet({f[x] : x \in DOMAIN f})
<1> DEFINE T == {f[x] : x \in DOMAIN f}
           g == [x \in DOMAIN f |-> f[x]]
<1>1. g \in Surjection(DOMAIN f, T)
  BY DEF Surjection
<1> QED BY <1>1, FS_Surjection

LEMMA FiniteIds ==
  ASSUME NEW tasks, IsFiniteSet(DOMAIN tasks),
         \A id \in DOMAIN tasks : IsFiniteSet(tasks[id].deps)
  PROVE  IsFiniteSet(PlanIds(tasks))
<1> DEFINE deps == [id \in DOMAIN tasks |-> tasks[id].deps]
           all  == {deps[id] : id \in DOMAIN deps}
<1>1. IsFiniteSet(all)
  <2>1. IsFiniteSet(DOMAIN deps)
    OBVIOUS
  <2> HIDE DEF deps
  <2> QED BY <2>1, FiniteRange
<1>2. \A d \in all : IsFiniteSet(d)
  OBVIOUS
<1>3. IsFiniteSet(UNION all)
  <2> HIDE DEF all
  <2> QED BY <1>1, <1>2, FS_UNION
<1>4. PlanIds(tasks) = DOMAIN tasks \cup UNION all
  BY DEF PlanIds
<1> HIDE DEF all
<1> QED BY <1>3, <1>4, FS_Union, ZenonT(30)

\* A plan of the planner has tasks, finitely many for a finite setup.
LEMMA PlanForFinite ==
  ASSUME NEW r, IsFiniteSet(r.vendors), IsFiniteSet(r.checks), IsFiniteSet(r.criteria)
  PROVE  IsFiniteSet(PlanIds(PlanFor(r))) /\ DOMAIN PlanFor(r) # {}
<1> DEFINE retrieve == Ids("retrieve", r.vendors)
           extract  == Ids("extract", r.vendors)
           check    == Ids("check", r.checks)
           score    == Ids("score", r.criteria)
           tail     == Ids("tail", {"compare", "decide", "explain"})
           tasks    == PlanFor(r)
<1>1. ASSUME NEW type, NEW items, IsFiniteSet(items) PROVE IsFiniteSet(Ids(type, items))
  <2> DEFINE f == [i \in items |-> <<type, i>>]
  <2>1. IsFiniteSet(DOMAIN f)
    BY <1>1
  <2>2. Ids(type, items) = {f[i] : i \in DOMAIN f}
    BY DEF Ids
  <2> HIDE DEF f
  <2> QED BY <2>1, <2>2, FiniteRange
<1>2. IsFiniteSet({"compare", "decide", "explain"})
  <2>1. IsFiniteSet({"compare"} \cup {"decide"})
    BY FS_Singleton, FS_AddElement
  <2>2. IsFiniteSet({"compare"} \cup {"decide"} \cup {"explain"})
    BY <2>1, FS_AddElement
  <2>3. {"compare", "decide", "explain"} = {"compare"} \cup {"decide"} \cup {"explain"}
    OBVIOUS
  <2> QED BY <2>2, <2>3
<1>3. /\ IsFiniteSet(retrieve) /\ IsFiniteSet(extract) /\ IsFiniteSet(check)
      /\ IsFiniteSet(score) /\ IsFiniteSet(tail)
  BY <1>1, <1>2
<1>4. DOMAIN tasks = retrieve \cup extract \cup check \cup score \cup tail
  BY DEF PlanFor
<1>5. <<"tail", "compare">> \in tail
  BY DEF Ids
<1> HIDE DEF retrieve, extract, check, score, tail
<1>6. IsFiniteSet(DOMAIN tasks)
  <2>1. IsFiniteSet(retrieve \cup extract)
    BY <1>3, FS_Union
  <2>2. IsFiniteSet(retrieve \cup extract \cup check)
    BY <1>3, <2>1, FS_Union
  <2>3. IsFiniteSet(retrieve \cup extract \cup check \cup score)
    BY <1>3, <2>2, FS_Union
  <2> QED BY <1>3, <1>4, <2>3, FS_Union, ZenonT(30)
<1>7. ASSUME NEW id \in DOMAIN tasks PROVE IsFiniteSet(tasks[id].deps)
  <2>1. /\ IsFiniteSet({}) /\ IsFiniteSet({<<"retrieve", id[2]>>})
        /\ IsFiniteSet({<<"tail", "compare">>}) /\ IsFiniteSet({<<"tail", "decide">>})
    BY FS_EmptySet, FS_Singleton
  <2>2. \/ tasks[id].deps \in {{}, {<<"retrieve", id[2]>>}, {<<"tail", "compare">>},
                              {<<"tail", "decide">>}}
        \/ tasks[id].deps \in {extract, check, score}
    <3>1. tasks[id].deps =
            CASE id \in retrieve -> {}
              [] id \in extract  -> {<<"retrieve", id[2]>>}
              [] id \in check    -> extract
              [] id \in score    -> check
              [] id = <<"tail", "compare">> -> score
              [] id = <<"tail", "decide">>  -> {<<"tail", "compare">>}
              [] id = <<"tail", "explain">> -> {<<"tail", "decide">>}
      BY <1>4 DEF PlanFor, Task, retrieve, extract, check, score, tail
    <3>2. id \in tail => id \in {<<"tail", "compare">>, <<"tail", "decide">>, <<"tail", "explain">>}
      BY DEF tail, Ids
    <3> HIDE DEF tasks
    <3> QED BY <1>4, <3>1, <3>2
  <2> QED BY <1>3, <2>1, <2>2
<1> HIDE DEF tasks
<1>8. IsFiniteSet(PlanIds(tasks))
  BY <1>6, <1>7, FiniteIds
<1> QED BY <1>4, <1>5, <1>8 DEF tasks

\* Where a plan comes from.
PlanShape ==
  plan # NoPlan =>
    \/ \E r \in PlanRequests :
         plan = [request |-> r, planned |-> TRUE,
                 tasks |-> IF r.vendors = {} THEN <<>> ELSE PlanFor(r)]
    \/ \E p \in OtherPlans :
         plan = [request |-> p.request, planned |-> FALSE, tasks |-> p.tasks]

LEMMA ShapeIsFinite == plan # NoPlan /\ PlanShape => IsFiniteSet(PlanIds(plan.tasks))
<1> SUFFICES ASSUME plan # NoPlan, PlanShape PROVE IsFiniteSet(PlanIds(plan.tasks))
  OBVIOUS
<1>1. ASSUME NEW r \in PlanRequests, plan.tasks = IF r.vendors = {} THEN <<>> ELSE PlanFor(r)
      PROVE  IsFiniteSet(PlanIds(plan.tasks))
  <2>1. CASE r.vendors = {}
    <3>1. PlanIds(<<>>) = {}
      BY DEF PlanIds
    <3> QED BY <1>1, <2>1, <3>1, FS_EmptySet
  <2>2. CASE r.vendors # {}
    BY <1>1, <2>2, PlanForFinite, GuardrailAssumption
  <2> QED BY <2>1, <2>2
<1>2. ASSUME NEW p \in OtherPlans, plan.tasks = p.tasks
      PROVE  IsFiniteSet(PlanIds(plan.tasks))
  BY <1>2, FiniteIds, GuardrailAssumption
<1> QED BY <1>1, <1>2 DEF PlanShape

LEMMA ShapeIsSound == PlanShape => AcceptedPlansAreSound
<1> SUFFICES ASSUME PlanShape, plan # NoPlan
             PROVE  /\ "cycle" \in PlanErrors <=> ~Schedulable(plan.tasks)
                    /\ ~PlanBlocked =>
                         /\ plan.request.checks \subseteq Covered(plan.tasks, "check")
                         /\ plan.request.criteria \subseteq Covered(plan.tasks, "score")
                    /\ (plan.planned /\ plan.request.vendors # {}) =>
                         (PlanBlocked <=> Cardinality(DOMAIN plan.tasks) \notin MinTasks .. MaxTasks)
  BY DEF AcceptedPlansAreSound
<1>1. \A e : e \in PlanErrors <=>
        \/ e = "few" /\ Cardinality(DOMAIN plan.tasks) < MinTasks
        \/ e = "many" /\ Cardinality(DOMAIN plan.tasks) > MaxTasks
        \/ e = "checks" /\ plan.request.checks \ Covered(plan.tasks, "check") # {}
        \/ e = "criteria" /\ plan.request.criteria \ Covered(plan.tasks, "score") # {}
        \/ e = "cycle" /\ CycleDetected(plan.tasks)
  BY DEF PlanErrors
<1>2. IsFiniteSet(PlanIds(plan.tasks))
  BY ShapeIsFinite
<1>3. CycleDetected(plan.tasks) <=> ~Schedulable(plan.tasks)
  BY <1>2, CycleMeansWaiting
<1>4. ~PlanBlocked => /\ plan.request.checks \subseteq Covered(plan.tasks, "check")
                      /\ plan.request.criteria \subseteq Covered(plan.tasks, "score")
  BY <1>1 DEF PlanBlocked
<1>5. ASSUME plan.planned, plan.request.vendors # {}
      PROVE  PlanBlocked <=> Cardinality(DOMAIN plan.tasks) \notin MinTasks .. MaxTasks
  <2>1. PICK r \in PlanRequests : plan.request = r /\ plan.tasks = PlanFor(r)
    BY <1>5 DEF PlanShape
  <2>2. DOMAIN PlanFor(r) # {}
    BY <2>1, PlanForFinite, GuardrailAssumption
  <2>3. plan.tasks # <<>>
    <3>1. DOMAIN <<>> = {}
      OBVIOUS
    <3> QED BY <2>1, <2>2, <3>1
  <2>4. /\ Schedulable(plan.tasks)
        /\ plan.request.checks \subseteq Covered(plan.tasks, "check")
        /\ plan.request.criteria \subseteq Covered(plan.tasks, "score")
    BY <2>1, PlanForSound
  <2>5. PlanBlocked <=> \/ Cardinality(DOMAIN plan.tasks) < MinTasks
                        \/ Cardinality(DOMAIN plan.tasks) > MaxTasks
    BY <1>1, <1>3, <1>5, <2>3, <2>4 DEF PlanBlocked
  <2>6. Cardinality(DOMAIN plan.tasks) \in Nat
    <3>1. DOMAIN plan.tasks \subseteq PlanIds(plan.tasks)
      BY DEF PlanIds
    <3> QED BY <1>2, <3>1, FS_Subset, FS_CardinalityType
  <2> QED BY <2>5, <2>6, GuardrailAssumption
<1> QED BY <1>1, <1>3, <1>4, <1>5

\* validate_plan: whatever the graph of a plan, the search with one visited set reports a cycle
\* exactly when some of its tasks wait for one another; a plan that is let through has a task
\* for every check and criterion; the planner's own plan is refused for its size only.
THEOREM GuardrailIsSound == PlanSpec => []AcceptedPlansAreSound
<1>1. PlanInit => PlanShape
  BY DEF PlanInit, PlanShape
<1>2. PlanShape /\ [PlanNext]_plan => PlanShape'
  <2>1. ASSUME PlanShape, RunPlanner PROVE PlanShape'
    BY <2>1 DEF RunPlanner, PlanShape
  <2>2. ASSUME PlanShape, TakePlan PROVE PlanShape'
    BY <2>2 DEF TakePlan, PlanShape
  <2>3. ASSUME PlanShape, UNCHANGED plan PROVE PlanShape'
    BY <2>3 DEF PlanShape
  <2> QED BY <2>1, <2>2, <2>3 DEF PlanNext
<1> QED BY <1>1, <1>2, ShapeIsSound, PTL DEF PlanSpec
==============================================================================
