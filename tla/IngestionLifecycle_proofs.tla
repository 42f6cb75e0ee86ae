---------------------- MODULE IngestionLifecycle_proofs ----------------------
(***************************************************************************)
(* Theorems about IngestionLifecycle, for any vendors, contents, number of  *)
(* overlapping ticks, dropped files and faults: its safety properties, and  *)
(* that it implements RfpLifecycle.                                         *)
(***************************************************************************)
EXTENDS IngestionLifecycle, FiniteSetTheorems, WellFoundedInduction, TLAPS

\* A job whose version of the document counts: it is neither gone nor replaced.
Current == {"received", "queued", "processing", "facts_ready", "failed"}

\* Files are numbered without gaps, and only a dropped file has an event or a job.
FileOK ==
  /\ \E n \in 0 .. MaxDrops : Dropped = 1 .. n
  /\ inbox \subseteq Dropped
  /\ \A d \in Drops : jobs[d].status # "none" => d \in Dropped
  /\ \A d \in inbox : jobs[d].status = "none"

\* The file the watcher is at has no job yet, or the one a first attempt gave it.
WatchOK ==
  /\ watcher.pc = "idle" => watcher = Idle
  /\ watcher.pc # "idle" =>
       /\ watcher.drop \in Dropped \ inbox
       /\ watcher.attempt \in {1, 2}
       /\ watcher.pc = "retry" => watcher.attempt = 2
  /\ watcher.pc \in {"insert", "retry"} =>
       LET job == jobs[watcher.drop] IN
       \/ job.status = "none"
       \/ job.status \in Current \cup {"superseded"} /\ job.vendor = file[watcher.drop].folder
  /\ watcher.pc = "supersede" =>
       /\ jobs[watcher.drop].status \in Current
       /\ jobs[watcher.drop].vendor = file[watcher.drop].folder

\* What a tick knows stays true while it acts on it.
TickOK ==
  \A t \in Ticks :
    /\ tick[t].pc # "work" => tick[t].own = {}
    /\ tick[t].pc = "queue" => rfp.status # "open"
    /\ tick[t].pc = "flip" => Has({"facts_ready"}) # {}

\* The announcement is one tick's, whose UPDATE hit the row.
EmitOK ==
  /\ announced = 1 => rfp.status = "facts_ready"
  /\ \A t \in Ticks : tick[t].pc = "emit" =>
       /\ rfp.status = "facts_ready" /\ announced = 0
       /\ \A u \in Ticks \ {t} : tick[u].pc # "emit"

\* The successor of a superseded version is one that counts.
SuccessorOK ==
  \A d \in Has({"superseded"}) :
    \E e \in Drops : jobs[e].vendor = jobs[d].vendor /\ jobs[e].status \in Current

AdminOK == admin = NoAssign \/ admin.drop \in Drops

IInv == /\ TypeOK /\ FileOK /\ WatchOK /\ TickOK /\ EmitOK /\ SuccessorOK /\ AdminOK
        /\ ProcessedOnce /\ WindowProtectsDrafts
----------------------------------------------------------------------------
(* Files and jobs *)

\* A set of naturals has a least element: the watcher's queue has a head.
LEMMA NatMin ==
  ASSUME NEW S \in SUBSET Nat, S # {}
  PROVE  \E m \in S : \A n \in S : m <= n
<1> DEFINE R == OpToRel(<, Nat)
<1>1. \A x, y \in Nat : <<x, y>> \in R <=> x < y
  BY DEF OpToRel
<1>2. IsWellFoundedOn(R, Nat)
  BY NatLessThanWellFounded
<1> HIDE DEF R
<1>3. PICK m \in S : \A n \in S : ~ (<<n, m>> \in R)
  BY <1>2, WFMin
<1>4. \A n \in S : ~ (n < m)
  BY <1>1, <1>3, Zenon
<1> QED BY <1>4

\* WatchRead handles an event that is in the queue.
LEMMA HeadOfInbox ==
  ASSUME inbox \subseteq Drops, inbox # {}
  PROVE  (CHOOSE d \in inbox : \A e \in inbox : d <= e) \in inbox
<1>1. inbox \in SUBSET Nat
  BY DEF Drops
<1> QED BY <1>1, NatMin

\* A new file takes the next number.
LEMMA NextFile ==
  ASSUME FileOK
  PROVE  Cardinality(Dropped) + 1 \notin Dropped
<1>1. PICK n \in 0 .. MaxDrops : Dropped = 1 .. n
  BY DEF FileOK
<1>2. Cardinality(Dropped) = n
  BY <1>1, FS_Interval
<1> QED BY <1>1, <1>2

\* The invariant holds before the first file is dropped.
LEMMA IInvInit == Init => IInv
<1> SUFFICES ASSUME Init PROVE IInv
  OBVIOUS
<1> USE LimitsAssumption DEF Init, NoJob, NoFile, NoTick, Idle, NoAssign, Folders
<1>1. TypeOK
  BY DEF TypeOK
<1>2. Dropped = 1 .. 0
  BY DEF Dropped
<1>3. FileOK
  <2>1. 0 \in 0 .. MaxDrops
    OBVIOUS
  <2>2. inbox = {} /\ \A d \in Drops : jobs[d].status = "none"
    OBVIOUS
  <2> QED BY <1>2, <2>1, <2>2 DEF FileOK
<1>4. WatchOK /\ TickOK /\ EmitOK /\ AdminOK
  BY DEF WatchOK, TickOK, EmitOK, AdminOK
<1>5. SuccessorOK /\ ProcessedOnce /\ WindowProtectsDrafts
  BY DEF SuccessorOK, Has, ProcessedOnce, WindowProtectsDrafts
<1> QED BY <1>1, <1>3, <1>4, <1>5 DEF IInv

----------------------------------------------------------------------------
(* What a step does to one job, one tick and the RFP *)

JobStatus == {"none"} \cup Open \cup Settled \cup Triage
Job       == [vendor : Folders, status : JobStatus, byAdmin : BOOLEAN]
TickPc    == {"idle", "select", "queue", "list", "work", "flip", "emit"}
TickState == [pc : TickPc, todo : SUBSET Drops, own : SUBSET Drops]

Stays(d)     == jobs'[d] = jobs[d]
Turns(d, st) == /\ jobs'[d].status = st
                /\ jobs'[d].vendor = jobs[d].vendor /\ jobs'[d].byAdmin = jobs[d].byAdmin

Enters(d)   == /\ WatchInsert /\ d = watcher.drop /\ jobs[d].status = "none"
               /\ jobs'[d] = [vendor |-> file[d].folder, status |-> Received(d), byAdmin |-> FALSE]
Replaced(d) == WatchSupersede /\ d \in Prior(watcher.drop) /\ Turns(d, "superseded")
Admitted(d) == /\ jobs[d].status \in Triage
               /\ jobs'[d].status \in {"received", "queued"} /\ jobs'[d].byAdmin = TRUE
Enqueued(d) == jobs[d].status = "received" /\ rfp.status # "open" /\ Turns(d, "queued")
Claimed(d)  == jobs[d].status = "queued" /\ Turns(d, "processing")
Finished(d) == /\ \E t \in Ticks : d \in tick[t].own /\ tick'[t].own = tick[t].own \ {d}
               /\ Turns(d, "facts_ready") \/ Turns(d, "failed")

\* An action with a single assignment to the row of one job.
LEMMA OneJob ==
  ASSUME jobs \in [Drops -> Job], NEW d \in Drops, NEW j \in Job, jobs' = [jobs EXCEPT ![d] = j]
  PROVE  jobs' \in [Drops -> Job] /\ jobs'[d] = j /\ \A e \in Drops \ {d} : Stays(e)
BY DEF Stays

\* A step that sets the status of one row leaves its other fields and all other rows alone.
LEMMA OneStatus ==
  ASSUME jobs \in [Drops -> Job], NEW d \in Drops, NEW st \in JobStatus,
         jobs' = [jobs EXCEPT ![d].status = st]
  PROVE  jobs' \in [Drops -> Job] /\ Turns(d, st) /\ \A e \in Drops \ {d} : Stays(e)
BY DEF Job, Turns, Stays

\* Move changes the program counter of one tick.
LEMMA OneMove ==
  ASSUME tick \in [Ticks -> TickState], NEW t \in Ticks, NEW pc \in TickPc, Move(t, pc)
  PROVE  /\ tick' \in [Ticks -> TickState]
         /\ tick'[t].pc = pc /\ tick'[t].own = tick[t].own /\ tick'[t].todo = tick[t].todo
         /\ \A u \in Ticks \ {t} : tick'[u] = tick[u]
BY DEF Move, TickState

\* What TypeOK says of jobs and ticks, by the names used below.
LEMMA TypedParts ==
  ASSUME TypeOK
  PROVE  jobs \in [Drops -> Job] /\ tick \in [Ticks -> TickState]
BY DEF TypeOK, Job, JobStatus, TickState, TickPc

\* QueueReceived: every received job of the RFP is queued.
LEMMA QueueEffect ==
  ASSUME TypeOK, TickOK, NEW t \in Ticks, QueueReceived(t)
  PROVE  /\ jobs' \in [Drops -> Job] /\ tick' \in [Ticks -> TickState]
         /\ \A d \in Drops : Stays(d) \/ Enqueued(d)
<1>1. jobs' \in [Drops -> Job]
  BY TypedParts DEF QueueReceived, Job, JobStatus, Open
<1>2. ASSUME NEW d \in Drops PROVE Stays(d) \/ Enqueued(d)
  BY TypedParts DEF QueueReceived, Job, TickOK, Stays, Enqueued, Turns
<1>3. tick' \in [Ticks -> TickState]
  BY TypedParts, OneMove DEF QueueReceived, TickPc
<1> QED BY <1>1, <1>2, <1>3

\* _claim_for_processing
LEMMA ClaimEffect ==
  ASSUME TypeOK, NEW t \in Ticks, NEW d \in Drops, Claim(t, d)
  PROVE  /\ jobs' \in [Drops -> Job] /\ tick' \in [Ticks -> TickState]
         /\ \A e \in Drops \ {d} : Stays(e)
         /\ \A u \in Ticks \ {t} : tick'[u] = tick[u]
         /\ tick'[t].pc = "work"
         /\ \/ Claimed(d) /\ tick'[t].own = tick[t].own \cup {d}
            \/ Stays(d) /\ tick'[t].own = tick[t].own
<1>1. CASE Claimable(d)
  <2>1. jobs' = [jobs EXCEPT ![d].status = "processing"]
    BY <1>1 DEF Claim
  <2>2. /\ jobs' \in [Drops -> Job] /\ Claimed(d) /\ \A e \in Drops \ {d} : Stays(e)
    BY <1>1, <2>1, TypedParts, OneStatus DEF Claimable, Claimed, JobStatus, Open
  <2>3. /\ tick' \in [Ticks -> TickState]
        /\ \A u \in Ticks \ {t} : tick'[u] = tick[u]
        /\ tick'[t].pc = "work" /\ tick'[t].own = tick[t].own \cup {d}
    BY <1>1, TypedParts DEF Claim, TickState
  <2> QED BY <2>2, <2>3
<1>2. CASE ~Claimable(d)
  <2>1. jobs' \in [Drops -> Job] /\ \A e \in Drops : Stays(e)
    BY <1>2, TypedParts DEF Claim, Stays
  <2>2. /\ tick' \in [Ticks -> TickState]
        /\ \A u \in Ticks \ {t} : tick'[u] = tick[u]
        /\ tick'[t].pc = "work" /\ tick'[t].own = tick[t].own
    BY <1>2, TypedParts DEF Claim, TickState
  <2> QED BY <2>1, <2>2
<1> QED BY <1>1, <1>2

\* process_job
LEMMA FinishEffect ==
  ASSUME TypeOK, NEW t \in Ticks, NEW d \in Drops, FinishJob(t, d)
  PROVE  /\ jobs' \in [Drops -> Job] /\ tick' \in [Ticks -> TickState]
         /\ Finished(d) /\ \A e \in Drops \ {d} : Stays(e)
         /\ \A u \in Ticks \ {t} : tick'[u] = tick[u]
         /\ tick'[t].pc = "work" /\ tick'[t].own = tick[t].own \ {d}
<1>1. PICK st \in {"facts_ready", "failed"} : jobs' = [jobs EXCEPT ![d].status = st]
  BY DEF FinishJob
<1>2. jobs' \in [Drops -> Job] /\ Turns(d, st) /\ \A e \in Drops \ {d} : Stays(e)
  BY <1>1, TypedParts, OneStatus DEF JobStatus, Settled
<1>3. /\ tick' \in [Ticks -> TickState]
      /\ \A u \in Ticks \ {t} : tick'[u] = tick[u]
      /\ tick'[t].pc = "work" /\ tick'[t].own = tick[t].own \ {d}
  BY TypedParts DEF FinishJob, TickState
<1> QED BY <1>1, <1>2, <1>3 DEF Finished, FinishJob

\* The actions of the watcher, the only ones that add rows or supersede one.
LEMMA InsertEffect ==
  ASSUME TypeOK, WatchOK, WatchInsert
  PROVE  jobs' \in [Drops -> Job] /\ \A d \in Drops : Stays(d) \/ Enters(d)
<1> DEFINE d == watcher.drop
           new == [vendor |-> file[d].folder, status |-> Received(d), byAdmin |-> FALSE]
<1>1. d \in Drops /\ d \in Dropped
  BY DEF WatchInsert, WatchOK, Dropped
<1>2. CASE Duplicate(d, file[d].folder)
  BY <1>2, TypedParts DEF WatchInsert, Stays
<1>3. CASE ~Duplicate(d, file[d].folder)
  <2>1. jobs' = [jobs EXCEPT ![d] = new]
    BY <1>3 DEF WatchInsert
  <2>2. new \in Job
    BY <1>1 DEF TypeOK, Job, JobStatus, Received, Open, Triage
  <2>3. jobs[d].status = "none"
    <3>1. jobs[d].status # "none" => jobs[d].vendor = file[d].folder
      BY DEF WatchInsert, WatchOK
    <3> QED BY <1>1, <1>3, <3>1 DEF Duplicate
  <2>4. Enters(d) /\ \A e \in Drops \ {d} : Stays(e)
    BY <1>1, <2>1, <2>2, <2>3, TypedParts, OneJob DEF Enters
  <2> QED BY <1>1, <2>1, <2>2, <2>4, TypedParts, OneJob
<1> QED BY <1>2, <1>3

\* WatchSupersede: the earlier versions of a file are superseded, the other rows stay.
LEMMA SupersedeEffect ==
  ASSUME TypeOK, WatchSupersede
  PROVE  /\ jobs' \in [Drops -> Job]
         /\ \A d \in Drops : IF d \in Prior(watcher.drop) THEN Replaced(d) ELSE Stays(d)
<1>1. jobs' \in [Drops -> Job]
  BY TypedParts DEF WatchSupersede, Job, JobStatus, Settled
<1>2. ASSUME NEW d \in Drops
      PROVE  IF d \in Prior(watcher.drop) THEN Replaced(d) ELSE Stays(d)
  <2>1. CASE d \in Prior(watcher.drop)
    <3>1. jobs'[d] = [jobs[d] EXCEPT !.status = "superseded"] /\ jobs[d] \in Job
      BY <2>1, TypedParts DEF WatchSupersede
    <3> QED BY <2>1, <3>1 DEF Replaced, Turns, Job
  <2>2. CASE d \notin Prior(watcher.drop)
    BY <2>2 DEF WatchSupersede, Stays
  <2> QED BY <2>1, <2>2
<1> QED BY <1>1, <1>2

\* assign_attribution and accept_late_addendum
LEMMA AdminEffect ==
  ASSUME TypeOK, AdminOK, AssignWrite \/ \E d \in Drops : AcceptLate(d)
  PROVE  jobs' \in [Drops -> Job] /\ \A d \in Drops : Stays(d) \/ Admitted(d)
<1>1. CASE AssignWrite
  <2> DEFINE d == admin.drop
             hit == /\ jobs[d].status = "needs_attribution"
                    /\ jobs[d].vendor = admin.vendor \/ ~Duplicate(d, admin.vendor)
             new == [vendor |-> admin.vendor, byAdmin |-> TRUE,
                     status |-> IF admin.open THEN "received" ELSE "queued"]
  <2>1. d \in Drops
    BY <1>1 DEF AssignWrite, AdminOK
  <2>2. new \in Job
    BY DEF TypeOK, Job, JobStatus, Open
  <2>3. CASE hit
    <3>1. jobs' = [jobs EXCEPT ![d] = new]
      BY <1>1, <2>3 DEF AssignWrite
    <3>2. Admitted(d)
      BY <2>1, <2>2, <2>3, <3>1, TypedParts, OneJob DEF Admitted, Triage
    <3> QED BY <2>1, <2>2, <3>1, <3>2, TypedParts, OneJob
  <2>4. CASE ~hit
    BY <1>1, <2>4, TypedParts DEF AssignWrite, Stays
  <2> QED BY <2>3, <2>4
<1>2. ASSUME NEW d \in Drops, AcceptLate(d)
      PROVE  jobs' \in [Drops -> Job] /\ \A e \in Drops : Stays(e) \/ Admitted(e)
  <2>1. /\ jobs' \in [Drops -> Job]
        /\ jobs'[d].status = "queued" /\ jobs'[d].byAdmin = TRUE
        /\ \A e \in Drops \ {d} : jobs'[e] = jobs[e]
    BY <1>2, TypedParts DEF AcceptLate, Job, JobStatus, Open
  <2> QED BY <1>2, <2>1 DEF AcceptLate, Stays, Admitted, Triage
<1> QED BY <1>1, <1>2

\* Of all actions, those that leave ingestion_jobs alone.
JobsAlone == \/ \E f \in Folders, c \in Contents : Drop(f, c)
             \/ DeadlinePasses \/ SetDeadline \/ WatchRead \/ WatchError \/ WatcherCrash
             \/ \E v \in Vendors : Invite(v)
             \/ \E d \in Drops, v \in Vendors : AssignRead(d, v)
             \/ \E t \in Ticks : \/ CloseExpired(t) \/ SelectClosed(t) \/ ListQueued(t)
                                 \/ CountJobs(t) \/ Flip(t) \/ Emit(t) \/ TickDies(t)
             \/ UNCHANGED vars

\* Only eight actions write ingestion_jobs.
LEMMA Actions ==
  ASSUME [Next]_vars
  PROVE  \/ JobsAlone /\ UNCHANGED jobs
         \/ WatchInsert \/ WatchSupersede
         \/ AssignWrite \/ \E d \in Drops : AcceptLate(d)
         \/ \E t \in Ticks : \/ QueueReceived(t)
                             \/ \E d \in Drops : Claim(t, d) \/ FinishJob(t, d)
<1>1. JobsAlone => UNCHANGED jobs
  BY DEF JobsAlone, Drop, DeadlinePasses, SetDeadline, WatchRead, WatchError, WatcherCrash, Invite,
         AssignRead, CloseExpired, SelectClosed, ListQueued, CountJobs, Flip, Emit, TickDies, vars
<1> QED BY <1>1 DEF Next, Customer, WatchStep, TickStep, JobStep, JobsAlone

\* The eight ways of a row of ingestion_jobs.
LEMMA JobEffect ==
  ASSUME TypeOK, WatchOK, TickOK, AdminOK, [Next]_vars, NEW d \in Drops
  PROVE  \/ Stays(d) \/ Enters(d) \/ Replaced(d) \/ Admitted(d)
         \/ Enqueued(d) \/ Claimed(d) \/ Finished(d)
<1>1. CASE UNCHANGED jobs
  BY <1>1 DEF Stays
<1>2. CASE WatchInsert \/ WatchSupersede
  BY <1>2, InsertEffect, SupersedeEffect
<1>3. CASE AssignWrite \/ \E e \in Drops : AcceptLate(e)
  BY <1>3, AdminEffect
<1>4. ASSUME NEW t \in Ticks, QueueReceived(t) PROVE Stays(d) \/ Enqueued(d)
  BY <1>4, QueueEffect
<1>5. ASSUME NEW t \in Ticks, NEW e \in Drops, Claim(t, e) PROVE Stays(d) \/ Claimed(d)
  BY <1>5, ClaimEffect
<1>6. ASSUME NEW t \in Ticks, NEW e \in Drops, FinishJob(t, e) PROVE Stays(d) \/ Finished(d)
  BY <1>6, FinishEffect
<1> QED BY <1>1, <1>2, <1>3, <1>4, <1>5, <1>6, Actions

\* Every step leaves well-formed rows behind.
LEMMA JobsType ==
  ASSUME TypeOK, WatchOK, TickOK, AdminOK, [Next]_vars
  PROVE  jobs' \in [Drops -> Job]
BY TypedParts, Actions, InsertEffect, SupersedeEffect, AdminEffect, QueueEffect, ClaimEffect,
   FinishEffect

\* A tick changes its own state only.
LEMMA TickEffect ==
  ASSUME TypeOK, [Next]_vars
  PROVE  /\ tick' \in [Ticks -> TickState]
         /\ \A t \in Ticks : tick'[t] = tick[t] \/ TickStep(t) \/ TickDies(t)
<1> DEFINE Goal == /\ tick' \in [Ticks -> TickState]
                   /\ \A t \in Ticks : tick'[t] = tick[t] \/ TickStep(t) \/ TickDies(t)
<1> USE TypedParts
<1>1. CASE UNCHANGED tick
  BY <1>1
<1>2. ASSUME NEW t \in Ticks, TickStep(t) PROVE Goal
  <2>1. ASSUME NEW pc \in TickPc, Move(t, pc) PROVE Goal
    BY <1>2, <2>1, OneMove
  <2>2. CASE CloseExpired(t) \/ SelectClosed(t) \/ QueueReceived(t) \/ CountJobs(t) \/ Flip(t)
             \/ Emit(t)
    BY <2>1, <2>2
    DEF CloseExpired, SelectClosed, QueueReceived, CountJobs, Flip, Emit, TickPc
  <2>3. CASE ListQueued(t)
    <3>1. [pc |-> "work", todo |-> Queued, own |-> {}] \in TickState
      BY DEF TickState, TickPc, Queued, Has
    <3> QED BY <1>2, <2>3, <3>1 DEF ListQueued
  <2>4. CASE JobStep(t)
    BY <1>2, <2>4, ClaimEffect, FinishEffect DEF JobStep
  <2> QED BY <1>2, <2>2, <2>3, <2>4 DEF TickStep
<1>3. ASSUME NEW t \in Ticks, TickDies(t) PROVE Goal
  <2>1. NoTick \in TickState
    BY DEF NoTick, TickState, TickPc
  <2> QED BY <1>3, <2>1 DEF TickDies
<1>4. CASE AssignWrite \/ WatchStep \/ WatchError \/ WatcherCrash \/ Customer \/ UNCHANGED vars
  <2>1. UNCHANGED tick
    BY <1>4 DEF AssignWrite, WatchStep, WatchRead, WatchInsert, WatchSupersede, WatchError,
       WatcherCrash, Customer, Drop, DeadlinePasses, SetDeadline, Invite, AcceptLate, AssignRead, vars
  <2> QED BY <1>1, <2>1
<1> QED BY <1>2, <1>3, <1>4 DEF Next

\* The status of the RFP changes in one direction.
LEMMA RfpEffect ==
  ASSUME TypeOK, [Next]_vars
  PROVE  /\ rfp' \in [status : {"open", "closed", "processing", "facts_ready"},
                      mode : {"manual", "auto"}, expired : BOOLEAN]
         /\ \/ rfp'.status = rfp.status
            \/ rfp.status = "open" /\ rfp'.status = "closed"
            \/ rfp.status = "closed" /\ rfp'.status = "processing"
            \/ /\ rfp.status = "processing" /\ rfp'.status = "facts_ready"
               /\ \E t \in Ticks : Flip(t)
<1> USE DEF TypeOK
<1>1. CASE DeadlinePasses \/ SetDeadline
  BY <1>1 DEF DeadlinePasses, SetDeadline
<1>2. ASSUME NEW t \in Ticks, CloseExpired(t) \/ QueueReceived(t) \/ Flip(t)
      PROVE  /\ rfp' \in [status : {"open", "closed", "processing", "facts_ready"},
                          mode : {"manual", "auto"}, expired : BOOLEAN]
             /\ \/ rfp'.status = rfp.status
                \/ rfp.status = "open" /\ rfp'.status = "closed"
                \/ rfp.status = "closed" /\ rfp'.status = "processing"
                \/ rfp.status = "processing" /\ rfp'.status = "facts_ready" /\ Flip(t)
  BY <1>2 DEF CloseExpired, QueueReceived, Flip
<1>3. \/ DeadlinePasses \/ SetDeadline \/ UNCHANGED rfp
      \/ \E t \in Ticks : CloseExpired(t) \/ QueueReceived(t) \/ Flip(t)
  BY DEF Next, AssignWrite, WatchStep, WatchRead, WatchInsert, WatchSupersede, WatchError,
     WatcherCrash, Customer, Drop, Invite, AcceptLate, AssignRead, vars, scheduleVars,
     TickStep, JobStep, Claim, FinishJob, SelectClosed, ListQueued, CountJobs, Emit, TickDies
<1> QED BY <1>1, <1>2, <1>3

\* No job leaves the status facts_ready, nor any other status of a settled job.
LEMMA SettledStep ==
  ASSUME TypeOK, WatchOK, TickOK, AdminOK, ProcessedOnce, [Next]_vars,
         NEW d \in Drops, jobs[d].status \in Settled
  PROVE  jobs'[d] = jobs[d]
<1>1. ~ \E t \in Ticks : d \in tick[t].own
  BY DEF ProcessedOnce, Settled
<1> QED
  BY <1>1, JobEffect DEF Stays, Enters, Replaced, Admitted, Enqueued, Claimed, Finished, Settled,
     Triage, Prior

\* An RFP that has facts keeps some: a settled row does not change.
LEMMA FactsStay ==
  ASSUME TypeOK, WatchOK, TickOK, AdminOK, ProcessedOnce, [Next]_vars, Has({"facts_ready"}) # {}
  PROVE  Has({"facts_ready"})' # {}
BY SettledStep DEF Has, Settled
----------------------------------------------------------------------------
(* The invariant is inductive *)

\* A file that is dropped is a new one, and only one with an event gets a job.
LEMMA FileOKStep ==
  ASSUME TypeOK, FileOK, WatchOK, TickOK, AdminOK, ProcessedOnce, [Next]_vars
  PROVE  FileOK'
<1>1. CASE ~ \E f \in Folders, c \in Contents : Drop(f, c)
  <2>1. Dropped' = Dropped /\ inbox' \subseteq inbox
    <3>1. UNCHANGED file /\ inbox' \subseteq inbox
      BY <1>1
      DEF Next, AssignWrite, WatchStep, WatchRead, WatchInsert, WatchSupersede, WatchError,
          WatcherCrash, Customer, DeadlinePasses, SetDeadline, Invite, AcceptLate, AssignRead,
          vars, watchVars, TickStep, JobStep, Claim, FinishJob, CloseExpired, SelectClosed,
          QueueReceived, ListQueued, CountJobs, Flip, Emit, TickDies
    <3> QED BY <3>1 DEF Dropped
  <2>2. ASSUME NEW d \in Drops, jobs[d].status = "none", jobs'[d].status # "none"
        PROVE  d \in Dropped \ inbox
    <3>1. Enters(d)
      BY <2>2, JobEffect, TypedParts
      DEF Stays, Replaced, Admitted, Enqueued, Claimed, Finished, Prior, Triage, ProcessedOnce, Turns
    <3> QED BY <3>1 DEF Enters, WatchInsert, WatchOK
  <2> QED BY <2>1, <2>2 DEF FileOK, Dropped
<1>2. ASSUME NEW f \in Folders, NEW c \in Contents, Drop(f, c) PROVE FileOK'
  <2> DEFINE d == Cardinality(Dropped) + 1
  <2>1. PICK n \in 0 .. MaxDrops : Dropped = 1 .. n
    BY DEF FileOK
  <2>2. d = n + 1 /\ d \in Drops
    <3>1. Cardinality(1 .. n) = n
      BY FS_Interval
    <3> QED BY <1>2, <2>1, <3>1 DEF Drop
  <2>3. Dropped' = Dropped \cup {d}
    <3>1. file' = [file EXCEPT ![d] = [folder |-> f, content |-> c]]
      BY <1>2 DEF Drop
    <3> HIDE DEF d
    <3>2. DOMAIN file = Drops
      BY DEF TypeOK
    <3>3. \A e \in Drops : file'[e] = IF e = d THEN [folder |-> f, content |-> c] ELSE file[e]
      BY <3>1, <3>2
    <3>4. file'[d].content = c /\ c # "none"
      BY <2>2, <3>3, ContentsAssumption
    <3>5. \A e \in Drops : e # d => file'[e].content = file[e].content
      BY <3>3
    <3> QED BY <2>2, <3>4, <3>5 DEF Dropped
  <2>4. Dropped' = 1 .. (n + 1) /\ n + 1 \in 0 .. MaxDrops
    BY <2>1, <2>2, <2>3, LimitsAssumption DEF Drops
  <2>5. inbox' = inbox \cup {d} /\ UNCHANGED jobs
    BY <1>2 DEF Drop
  <2>6. jobs[d].status = "none"
    BY <2>2, NextFile DEF FileOK
  <2> QED BY <2>3, <2>4, <2>5, <2>6 DEF FileOK
<1> QED BY <1>1, <1>2

\* Whatever the others do, the row of the watcher's file stays the one it knows.
LEMMA WatchOKStep ==
  ASSUME TypeOK, FileOK, WatchOK, TickOK, AdminOK, ProcessedOnce, [Next]_vars
  PROVE  WatchOK'
<1>1. CASE WatchRead
  <2>1. UNCHANGED <<jobs, file>> /\ Dropped' = Dropped
    BY <1>1 DEF WatchRead, Dropped
  <2>2. CASE watcher.pc = "idle"
    <3> DEFINE d == CHOOSE d \in inbox : \A e \in inbox : d <= e
    <3>1. inbox' = inbox \ {d} /\ inbox # {}
          /\ watcher' = [pc |-> "insert", drop |-> d, open |-> WindowOpen, attempt |-> 1]
      BY <1>1, <2>2 DEF WatchRead
    <3>2. d \in inbox
      BY <3>1, HeadOfInbox DEF TypeOK
    <3> HIDE DEF d
    <3> QED BY <2>1, <3>1, <3>2 DEF FileOK, WatchOK
  <2>3. CASE watcher.pc = "retry"
    <3>1. /\ watcher'.pc = "insert" /\ watcher'.drop = watcher.drop
          /\ watcher'.attempt = watcher.attempt /\ UNCHANGED inbox
      BY <1>1, <2>3 DEF WatchRead, TypeOK
    <3> QED BY <2>1, <2>3, <3>1 DEF WatchOK
  <2> QED BY <1>1, <2>2, <2>3 DEF WatchRead
<1>2. CASE WatchInsert
  <2> DEFINE d == watcher.drop
  <2>1. UNCHANGED <<file, inbox>> /\ Dropped' = Dropped /\ d \in Drops
    BY <1>2 DEF WatchInsert, WatchOK, Dropped
  <2>2. CASE watcher' = Idle
    BY <2>2 DEF WatchOK, Idle
  <2>3. CASE watcher' # Idle
    <3>1. watcher' = [watcher EXCEPT !.pc = "supersede"] /\ Received(d) = "received"
          /\ jobs' = [jobs EXCEPT ![d] = [vendor |-> file[d].folder, status |-> Received(d),
                                          byAdmin |-> FALSE]]
      BY <1>2, <2>3 DEF WatchInsert
    <3>2. jobs'[d].status = "received" /\ jobs'[d].vendor = file[d].folder
      BY <2>1, <3>1 DEF TypeOK
    <3>3. /\ watcher'.pc = "supersede" /\ watcher'.drop = d
          /\ watcher'.attempt = watcher.attempt
      BY <3>1 DEF TypeOK
    <3> QED BY <1>2, <2>1, <3>2, <3>3 DEF WatchOK, WatchInsert, Current
  <2> QED BY <2>2, <2>3
<1>3. CASE WatchSupersede \/ WatcherCrash
  BY <1>3 DEF WatchSupersede, WatcherCrash, WatchOK, Idle
<1>4. CASE WatchError
  <2>1. UNCHANGED <<jobs, file, inbox>> /\ Dropped' = Dropped
    BY <1>4 DEF WatchError, Dropped
  <2>2. CASE watcher' = Idle
    BY <2>2 DEF WatchOK, Idle
  <2>3. CASE watcher' # Idle
    <3>1. /\ watcher'.pc = "retry" /\ watcher'.attempt = 2 /\ watcher'.drop = watcher.drop
          /\ watcher.pc # "idle"
      BY <1>4, <2>3 DEF WatchError, TypeOK
    <3> QED BY <2>1, <3>1 DEF WatchOK, TypeOK
  <2> QED BY <2>2, <2>3
<1>5. CASE UNCHANGED watcher /\ ~WatchInsert /\ ~WatchSupersede /\ ~WatchRead
  <2> DEFINE d == watcher.drop
  <2> SUFFICES ASSUME watcher.pc # "idle" PROVE WatchOK'
    BY <1>5 DEF WatchOK
  <2>1. d \in Dropped \ inbox /\ d \in Drops
    BY DEF WatchOK, Dropped
  <2>2. d \in Dropped' \ inbox' /\ file'[d] = file[d]
    <3>1. CASE UNCHANGED <<file, inbox>>
      BY <2>1, <3>1 DEF Dropped
    <3>2. ASSUME NEW f \in Folders, NEW c \in Contents, Drop(f, c)
          PROVE  d \in Dropped' \ inbox' /\ file'[d] = file[d]
      <4>1. d # Cardinality(Dropped) + 1
        BY <2>1, NextFile
      <4> QED BY <2>1, <3>2, <4>1 DEF Drop, Dropped, TypeOK
    <3>3. UNCHANGED <<file, inbox>> \/ (\E f \in Folders, c \in Contents : Drop(f, c))
          \/ WatcherCrash
      BY <1>5, ZenonT(30) DEF Next, AssignWrite, WatchStep, WatchError,
         Customer, DeadlinePasses, SetDeadline, Invite, AcceptLate, AssignRead,
         vars, watchVars, TickStep, JobStep, Claim, FinishJob, CloseExpired, SelectClosed,
         QueueReceived, ListQueued, CountJobs, Flip, Emit, TickDies
    <3>4. WatcherCrash => FALSE
      BY <1>5 DEF WatcherCrash, Idle
    <3> QED BY <3>1, <3>2, <3>3, <3>4
  <2>3. Stays(d) \/ Admitted(d) \/ Enqueued(d) \/ Claimed(d) \/ Finished(d)
    BY <1>5, <2>1, JobEffect DEF Enters, Replaced
  <2>4. Finished(d) => jobs[d].status = "processing"
    BY DEF Finished, ProcessedOnce
  <2> QED
    BY <1>5, <2>1, <2>2, <2>3, <2>4
    DEF WatchOK, Stays, Admitted, Enqueued, Claimed, Finished, Turns, Current, Triage
<1>6. WatchRead \/ WatchInsert \/ WatchSupersede \/ WatchError \/ WatcherCrash \/ UNCHANGED watcher
  BY ZenonT(30) DEF Next, AssignWrite, WatchStep, Customer, Drop, DeadlinePasses, SetDeadline, Invite,
     AcceptLate, AssignRead, vars, watchVars, TickStep, JobStep, Claim, FinishJob, CloseExpired,
     SelectClosed, QueueReceived, ListQueued, CountJobs, Flip, Emit, TickDies
<1> QED BY <1>1, <1>2, <1>3, <1>4, <1>5, <1>6

\* Types of the variables that only few actions write; announced is EmitOK's doing.
LEMMA TypeOKStep ==
  ASSUME TypeOK, FileOK, WatchOK, TickOK, EmitOK, AdminOK, [Next]_vars
  PROVE  TypeOK'
<1>1. /\ rfp' \in [status : {"open", "closed", "processing", "facts_ready"},
                   mode : {"manual", "auto"}, expired : BOOLEAN]
      /\ jobs' \in [Drops -> [vendor : Folders, byAdmin : BOOLEAN,
                              status : {"none"} \cup Open \cup Settled \cup Triage]]
      /\ tick' \in [Ticks -> [pc : {"idle", "select", "queue", "list", "work", "flip", "emit"},
                              todo : SUBSET Drops, own : SUBSET Drops]]
  BY RfpEffect, JobsType, TickEffect DEF Job, JobStatus, TickState, TickPc
<1>2. invited' \in SUBSET Vendors
  <2>1. UNCHANGED invited \/ \E v \in Vendors : invited' = invited \cup {v}
    BY ZenonT(30) DEF Next, AssignWrite, WatchStep, WatchRead, WatchInsert, WatchSupersede, WatchError,
       WatcherCrash, Customer, Drop, DeadlinePasses, SetDeadline, Invite, AcceptLate, AssignRead,
       vars, scheduleVars, TickStep, JobStep, Claim, FinishJob, CloseExpired, SelectClosed,
       QueueReceived, ListQueued, CountJobs, Flip, Emit, TickDies
  <2> QED BY <2>1 DEF TypeOK
<1>3. file' \in [Drops -> [folder : Folders, content : Contents \cup {"none"}]]
      /\ inbox' \in SUBSET Drops
  <2>1. ASSUME NEW f \in Folders, NEW c \in Contents, Drop(f, c)
        PROVE  file' \in [Drops -> [folder : Folders, content : Contents \cup {"none"}]]
               /\ inbox' \in SUBSET Drops
    BY <2>1 DEF Drop, TypeOK
  <2>2. CASE UNCHANGED file /\ inbox' \subseteq inbox
    BY <2>2 DEF TypeOK
  <2>3. \/ \E f \in Folders, c \in Contents : Drop(f, c)
        \/ UNCHANGED file /\ inbox' \subseteq inbox
    BY ZenonT(30) DEF Next, AssignWrite, WatchStep, WatchRead, WatchInsert, WatchSupersede, WatchError,
       WatcherCrash, Customer, DeadlinePasses, SetDeadline, Invite, AcceptLate, AssignRead,
       vars, watchVars, TickStep, JobStep, Claim, FinishJob, CloseExpired, SelectClosed,
       QueueReceived, ListQueued, CountJobs, Flip, Emit, TickDies
  <2> QED BY <2>1, <2>2, <2>3
<1>4. watcher' \in [pc : {"idle", "insert", "supersede", "retry"}, drop : {0} \cup Drops,
                    open : BOOLEAN, attempt : 0 .. 2]
  <2> DEFINE W == [pc : {"idle", "insert", "supersede", "retry"}, drop : {0} \cup Drops,
                   open : BOOLEAN, attempt : 0 .. 2]
  <2>a. watcher \in W /\ Idle \in W /\ WindowOpen \in BOOLEAN
    BY DEF TypeOK, Idle, WindowOpen
  <2>1. CASE WatchRead
    <3>1. CASE watcher.pc = "idle"
      <4> DEFINE d == CHOOSE d \in inbox : \A e \in inbox : d <= e
      <4>1. d \in Drops
        BY <2>1, <3>1, HeadOfInbox DEF WatchRead, TypeOK
      <4>2. watcher' = [pc |-> "insert", drop |-> d, open |-> WindowOpen, attempt |-> 1]
        BY <2>1, <3>1 DEF WatchRead
      <4> HIDE DEF d
      <4> QED BY <2>a, <4>1, <4>2
    <3>2. CASE watcher.pc # "idle"
      BY <2>1, <2>a, <3>2 DEF WatchRead
    <3> QED BY <3>1, <3>2
  <2>2. CASE WatchInsert \/ WatchSupersede \/ WatchError \/ WatcherCrash
    <3>1. \/ watcher' = Idle
          \/ watcher' = [watcher EXCEPT !.pc = "supersede"]
          \/ watcher' = [watcher EXCEPT !.pc = "retry", !.attempt = 2]
      BY <2>2 DEF WatchInsert, WatchSupersede, WatchError, WatcherCrash
    <3>2. [watcher EXCEPT !.pc = "supersede"] \in W
      BY <2>a
    <3>4. [watcher EXCEPT !.pc = "retry", !.attempt = 2] \in W
      <4> DEFINE pcs == {"idle", "insert", "supersede", "retry"}
                 attempts == 0 .. 2
                 two == 2
      <4>1. two \in attempts /\ "retry" \in pcs
        OBVIOUS
      <4>2. W = [pc : pcs, drop : {0} \cup Drops, open : BOOLEAN, attempt : attempts]
        OBVIOUS
      <4> HIDE DEF pcs, attempts, two, W
      <4>3. [watcher EXCEPT !.pc = "retry", !.attempt = two] \in W
        BY <2>a, <4>1, <4>2
      <4> QED BY <4>3 DEF two
    <3> QED BY <2>a, <3>1, <3>2, <3>4
  <2>3. WatchRead \/ WatchInsert \/ WatchSupersede \/ WatchError \/ WatcherCrash
        \/ UNCHANGED watcher
    BY ZenonT(30) DEF Next, AssignWrite, WatchStep, Customer, Drop, DeadlinePasses, SetDeadline, Invite,
       AcceptLate, AssignRead, vars, watchVars, TickStep, JobStep, Claim, FinishJob, CloseExpired,
       SelectClosed, QueueReceived, ListQueued, CountJobs, Flip, Emit, TickDies
  <2> QED BY <2>1, <2>2, <2>3 DEF TypeOK
<1>5. admin' \in [drop : {0} \cup Drops, vendor : Folders, open : BOOLEAN]
  <2>1. UNCHANGED admin \/ admin' = NoAssign \/ \E d \in Drops, v \in Vendors : AssignRead(d, v)
    BY ZenonT(30) DEF Next, AssignWrite, WatchStep, WatchRead, WatchInsert, WatchSupersede, WatchError,
       WatcherCrash, Customer, Drop, DeadlinePasses, SetDeadline, Invite, AcceptLate,
       vars, TickStep, JobStep, Claim, FinishJob, CloseExpired, SelectClosed,
       QueueReceived, ListQueued, CountJobs, Flip, Emit, TickDies
  <2>2. ASSUME NEW d \in Drops, NEW v \in Vendors, AssignRead(d, v)
        PROVE  admin' \in [drop : {0} \cup Drops, vendor : Folders, open : BOOLEAN]
    <3> DEFINE open == rfp.status = "open"
    <3>1. open \in BOOLEAN
      OBVIOUS
    <3>2. admin' = [drop |-> d, vendor |-> v, open |-> open]
      BY <2>2 DEF AssignRead
    <3> HIDE DEF open
    <3> QED BY <3>1, <3>2 DEF Folders
  <2>3. NoAssign \in [drop : {0} \cup Drops, vendor : Folders, open : BOOLEAN]
    BY DEF NoAssign, Folders
  <2> QED BY <2>1, <2>2, <2>3 DEF TypeOK
<1>6. announced' \in 0 .. 1
  <2>1. CASE \E t \in Ticks : Emit(t)
    BY <2>1 DEF Emit, EmitOK
  <2>2. (\E t \in Ticks : Emit(t)) \/ UNCHANGED announced
    BY DEF Next, AssignWrite, WatchStep, WatchRead, WatchInsert, WatchSupersede, WatchError,
       WatcherCrash, Customer, Drop, DeadlinePasses, SetDeadline, Invite, AcceptLate, AssignRead,
       vars, TickStep, JobStep, Claim, FinishJob, CloseExpired, SelectClosed,
       QueueReceived, ListQueued, CountJobs, Flip, TickDies
  <2> QED BY <2>1, <2>2 DEF TypeOK
<1>7. faults' \in 0 .. MaxFaults
  <2>1. UNCHANGED faults \/ Fault
    BY DEF Next, AssignWrite, WatchStep, WatchRead, WatchInsert, WatchSupersede, WatchError,
       WatcherCrash, Customer, Drop, DeadlinePasses, SetDeadline, Invite, AcceptLate, AssignRead,
       vars, TickStep, JobStep, Claim, FinishJob, CloseExpired, SelectClosed,
       QueueReceived, ListQueued, CountJobs, Flip, Emit, TickDies
  <2> QED BY <2>1, LimitsAssumption DEF TypeOK, Fault
<1> QED BY <1>1, <1>2, <1>3, <1>4, <1>5, <1>6, <1>7 DEF TypeOK

\* Another tick may advance the RFP meanwhile, but never takes back what was read.
LEMMA TickOKStep ==
  ASSUME TypeOK, FileOK, WatchOK, TickOK, AdminOK, ProcessedOnce, [Next]_vars
  PROVE  TickOK'
<1> SUFFICES ASSUME NEW t \in Ticks
             PROVE  /\ tick'[t].pc # "work" => tick'[t].own = {}
                    /\ tick'[t].pc = "queue" => rfp'.status # "open"
                    /\ tick'[t].pc = "flip" => Has({"facts_ready"})' # {}
  BY DEF TickOK
<1>1. rfp.status # "open" => rfp'.status # "open"
  BY RfpEffect
<1>2. CASE tick'[t] = tick[t] \/ TickDies(t)
  BY <1>1, <1>2, FactsStay DEF TickOK, TickDies, NoTick, TypeOK
<1>3. CASE TickStep(t)
  <2> USE TypedParts
  <2>1. ASSUME NEW pc \in TickPc, Move(t, pc), tick[t].own = {}, pc \notin {"queue", "flip"}
        PROVE  tick'[t].own = {} /\ tick'[t].pc \notin {"queue", "flip"}
    BY <2>1, OneMove
  <2>2. CASE CloseExpired(t) \/ QueueReceived(t) \/ Flip(t) \/ Emit(t)
    BY <2>1, <2>2 DEF CloseExpired, QueueReceived, Flip, Emit, TickPc, TickOK
  <2>3. CASE SelectClosed(t)
    BY <2>1, <2>3, OneMove DEF SelectClosed, Selectable, TickPc, TickOK, scheduleVars
  <2>4. CASE CountJobs(t)
    BY <2>1, <2>4, OneMove, FactsStay DEF CountJobs, AllTerminal, TickPc, TickOK
  <2>5. CASE ListQueued(t)
    BY <2>5 DEF ListQueued
  <2>6. CASE JobStep(t)
    BY <2>6, ClaimEffect, FinishEffect DEF JobStep
  <2> QED BY <1>3, <2>2, <2>3, <2>4, <2>5, <2>6 DEF TickStep
<1> QED BY <1>2, <1>3, TickEffect

\* Only one UPDATE to facts_ready hits the row, and only its tick announces it.
LEMMA EmitOKStep ==
  ASSUME TypeOK, EmitOK, [Next]_vars
  PROVE  EmitOK'
<1> USE TypedParts
<1>1. rfp.status = "facts_ready" => rfp'.status = "facts_ready"
  BY RfpEffect
<1>2. ASSUME NEW t \in Ticks, tick'[t].pc = "emit", tick[t].pc # "emit"
      PROVE  /\ Flip(t) /\ rfp.status = "processing" /\ rfp'.status = "facts_ready"
             /\ UNCHANGED announced /\ \A u \in Ticks \ {t} : tick'[u] = tick[u]
  <2>1. TickStep(t)
    BY <1>2, TickEffect DEF TickDies, NoTick
  <2>2. ASSUME NEW pc \in TickPc, Move(t, pc) PROVE pc = "emit"
    BY <1>2, <2>2, OneMove
  <2>3. Flip(t) /\ FlipWon
    BY <1>2, <2>1, <2>2, ClaimEffect, FinishEffect
    DEF TickStep, JobStep, CloseExpired, SelectClosed, QueueReceived, ListQueued, CountJobs, Flip,
        Emit, TickPc
  <2> QED BY <2>3, OneMove DEF Flip, FlipWon, TypeOK, TickPc
<1>3. CASE \E t \in Ticks : Emit(t)
  <2>1. PICK t \in Ticks : Emit(t)
    BY <1>3
  <2>2. tick'[t].pc = "idle" /\ \A u \in Ticks \ {t} : tick'[u] = tick[u]
    BY <2>1, OneMove DEF Emit, TickPc
  <2>3. announced' = 1 /\ rfp'.status = "facts_ready"
    BY <1>1, <2>1 DEF Emit, EmitOK
  <2> QED BY <2>1, <2>2, <2>3 DEF EmitOK, Emit
<1>4. CASE ~ \E t \in Ticks : Emit(t)
  <2>1. UNCHANGED announced
    BY <1>4 DEF Next, AssignWrite, WatchStep, WatchRead, WatchInsert, WatchSupersede, WatchError,
       WatcherCrash, Customer, Drop, DeadlinePasses, SetDeadline, Invite, AcceptLate, AssignRead,
       vars, TickStep, JobStep, Claim, FinishJob, CloseExpired, SelectClosed,
       QueueReceived, ListQueued, CountJobs, Flip, TickDies
  <2>2. ASSUME NEW t \in Ticks, tick'[t].pc = "emit"
        PROVE  /\ rfp'.status = "facts_ready" /\ announced' = 0
               /\ \A u \in Ticks \ {t} : tick'[u].pc # "emit"
    <3>1. CASE tick[t].pc = "emit"
      BY <1>1, <1>2, <2>1, <2>2, <3>1 DEF EmitOK
    <3>2. CASE tick[t].pc # "emit"
      BY <1>2, <2>1, <2>2, <3>2 DEF EmitOK, TypeOK
    <3> QED BY <3>1, <3>2
  <2> QED BY <1>1, <2>1, <2>2 DEF EmitOK
<1> QED BY <1>3, <1>4

\* supersede_prior_received replaces a version by one that counts, never the newest.
LEMMA SuccessorOKStep ==
  ASSUME TypeOK, FileOK, WatchOK, TickOK, AdminOK, SuccessorOK, ProcessedOnce, [Next]_vars
  PROVE  SuccessorOK'
<1> USE TypedParts
<1>1. ASSUME NEW e \in Drops, jobs[e].status \in Current
      PROVE  \E f \in Drops : jobs'[f].vendor = jobs[e].vendor /\ jobs'[f].status \in Current
  <2>1. CASE Replaced(e)
    <3> DEFINE d == watcher.drop
    <3>1. /\ WatchSupersede /\ d \in Drops /\ jobs[d].status \in Current
          /\ jobs[e].vendor = jobs[d].vendor
      BY <2>1 DEF Replaced, WatchSupersede, WatchOK, Dropped, Prior
    <3>2. d \notin Prior(d)
      BY DEF Prior
    <3>3. Stays(d)
      BY <3>1, <3>2, SupersedeEffect
    <3> QED BY <3>1, <3>3 DEF Stays
  <2>2. CASE ~Replaced(e)
    <3>1. jobs'[e].vendor = jobs[e].vendor /\ jobs'[e].status \in Current
      BY <1>1, <2>2, JobEffect
      DEF Stays, Enters, Admitted, Enqueued, Claimed, Finished, Turns, Current, Triage
    <3> QED BY <3>1
  <2> QED BY <2>1, <2>2
<1>2. ASSUME NEW d \in Drops, jobs'[d].status = "superseded"
      PROVE  \E e \in Drops : jobs[e].vendor = jobs'[d].vendor /\ jobs[e].status \in Current
  <2>1. CASE jobs[d].status = "superseded" /\ Stays(d)
    BY <2>1 DEF SuccessorOK, Has, Stays
  <2>2. CASE Replaced(d)
    BY <2>2 DEF Replaced, Turns, Prior, WatchSupersede, WatchOK, Dropped
  <2>3. Stays(d) => jobs[d].status = "superseded"
    BY <1>2 DEF Stays
  <2>4. ~Enters(d)
    <3>1. Received(d) # "superseded"
      BY DEF Received
    <3> QED BY <1>2, <3>1 DEF Enters
  <2>5. ~Admitted(d) /\ ~Enqueued(d) /\ ~Claimed(d) /\ ~Finished(d)
    BY <1>2 DEF Admitted, Enqueued, Claimed, Finished, Turns
  <2> QED BY <2>1, <2>2, <2>3, <2>4, <2>5, JobEffect
<1> QED BY <1>1, <1>2 DEF SuccessorOK, Has

\* An admin's assignment is about the file it has read.
LEMMA AdminOKStep ==
  ASSUME AdminOK, [Next]_vars
  PROVE  AdminOK'
<1>1. UNCHANGED admin \/ admin' = NoAssign \/ \E d \in Drops, v \in Vendors : AssignRead(d, v)
  BY DEF Next, AssignWrite, WatchStep, WatchRead, WatchInsert, WatchSupersede, WatchError,
     WatcherCrash, Customer, Drop, DeadlinePasses, SetDeadline, Invite, AcceptLate,
     vars, TickStep, JobStep, Claim, FinishJob, CloseExpired, SelectClosed,
     QueueReceived, ListQueued, CountJobs, Flip, Emit, TickDies
<1>2. ASSUME NEW d \in Drops, NEW v \in Vendors, AssignRead(d, v) PROVE admin'.drop = d
  BY <1>2 DEF AssignRead
<1> QED BY <1>1, <1>2 DEF AdminOK

\* Only a claim puts a job into a tick's hands, and it claims for one tick alone.
LEMMA OwnGrows ==
  ASSUME TypeOK, TickOK, [Next]_vars, NEW t \in Ticks, NEW d \in Drops,
         d \in tick'[t].own, d \notin tick[t].own
  PROVE  Claimed(d) /\ \A u \in Ticks \ {t} : tick'[u] = tick[u]
<1> USE TypedParts
<1>1. TickStep(t)
  BY TickEffect DEF TickDies, NoTick
<1>2. ASSUME NEW pc \in TickPc, Move(t, pc) PROVE FALSE
  BY <1>2, OneMove
<1>3. JobStep(t)
  BY <1>1, <1>2 DEF TickStep, CloseExpired, SelectClosed, QueueReceived, ListQueued, CountJobs,
     Flip, Emit, TickPc
<1>4. PICK e \in Drops : Claim(t, e) \/ FinishJob(t, e)
  BY <1>3 DEF JobStep
<1> QED BY <1>4, ClaimEffect, FinishEffect

\* _claim_for_processing is the only way in, and settling a job the only way out.
LEMMA ProcessedOnceStep ==
  ASSUME TypeOK, WatchOK, TickOK, AdminOK, ProcessedOnce, [Next]_vars
  PROVE  ProcessedOnce'
<1> SUFFICES ASSUME NEW t \in Ticks, NEW d \in tick'[t].own
             PROVE  /\ jobs'[d].status = "processing"
                    /\ \A u \in Ticks \ {t} : d \notin tick'[u].own
  BY DEF ProcessedOnce
<1>0. d \in Drops
  BY TickEffect DEF TickState
<1>1. CASE d \in tick[t].own
  <2>1. jobs[d].status = "processing" /\ \A u \in Ticks \ {t} : d \notin tick[u].own
    BY <1>1 DEF ProcessedOnce
  <2>2. ~Claimed(d) /\ ~Enters(d) /\ ~Replaced(d) /\ ~Admitted(d) /\ ~Enqueued(d)
    BY <2>1 DEF Claimed, Enters, Replaced, Prior, Admitted, Triage, Enqueued
  <2>3. ~Finished(d)
    BY <1>1, <2>1 DEF Finished
  <2>4. Stays(d)
    BY <1>0, <2>2, <2>3, JobEffect
  <2>5. \A u \in Ticks \ {t} : d \notin tick'[u].own
    BY <1>0, <2>1, <2>2, OwnGrows
  <2> QED BY <2>1, <2>4, <2>5 DEF Stays
<1>2. CASE d \notin tick[t].own
  <2>1. Claimed(d) /\ \A u \in Ticks \ {t} : tick'[u] = tick[u]
    BY <1>0, <1>2, OwnGrows
  <2>2. \A u \in Ticks : d \notin tick[u].own
    BY <2>1 DEF Claimed, ProcessedOnce
  <2> QED BY <2>1, <2>2 DEF Claimed, Turns
<1> QED BY <1>1, <1>2

\* While the RFP is open, only a job an admin let in can go ahead.
LEMMA WindowStep ==
  ASSUME TypeOK, WatchOK, TickOK, AdminOK, ProcessedOnce, WindowProtectsDrafts, [Next]_vars
  PROVE  WindowProtectsDrafts'
<1> DEFINE Advanced == {"queued", "processing", "facts_ready", "failed"}
<1> SUFFICES ASSUME rfp'.status = "open", NEW d \in Drops, jobs'[d].status \in Advanced
             PROVE  jobs'[d].byAdmin
  BY DEF WindowProtectsDrafts
<1>1. rfp.status = "open"
  BY RfpEffect
<1>2. ~Enqueued(d) /\ ~Replaced(d)
  BY <1>1 DEF Enqueued, Replaced, Turns
<1>3. ~Enters(d)
  <2>1. Received(d) \notin Advanced
    BY DEF Received
  <2> QED BY <2>1 DEF Enters
<1>4. CASE Admitted(d)
  BY <1>4 DEF Admitted
<1>5. CASE Stays(d)
  BY <1>1, <1>5 DEF Stays, WindowProtectsDrafts
<1>6. CASE Claimed(d)
  BY <1>1, <1>6 DEF Claimed, Turns, WindowProtectsDrafts
<1>7. CASE Finished(d)
  <2>1. jobs[d].status = "processing"
    BY <1>7 DEF Finished, ProcessedOnce
  <2> QED BY <1>1, <1>7, <2>1 DEF Finished, Turns, WindowProtectsDrafts
<1> QED BY <1>2, <1>3, <1>4, <1>5, <1>6, <1>7, JobEffect

\* Every step of the watcher, of a tick, of an admin or of a customer keeps the invariant.
LEMMA IInvStep == IInv /\ [Next]_vars => IInv'
BY TypeOKStep, FileOKStep, WatchOKStep, TickOKStep, EmitOKStep, SuccessorOKStep, AdminOKStep,
   ProcessedOnceStep, WindowStep DEF IInv

----------------------------------------------------------------------------
(* Theorems *)

\* The inductive invariant holds throughout.
THEOREM Invariance == Spec => []IInv
BY IInvInit, IInvStep, PTL DEF Spec

\* Every variable keeps its shape, and readiness is announced at most once.
THEOREM TypeCorrect == Spec => []TypeOK
<1>1. IInv => TypeOK
  BY DEF IInv
<1> QED BY <1>1, Invariance, PTL

\* deadline_processor.py:57: however many ticks overlap, crash or are cancelled, no
\* document is in the hands of two of them.
THEOREM ProcessedAtMostOnce == Spec => []ProcessedOnce
<1>1. IInv => ProcessedOnce
  BY DEF IInv
<1> QED BY <1>1, Invariance, PTL

\* No document is paid for while the RFP is open, unless an admin accepted it.
THEOREM DraftsCostNothing == Spec => []WindowProtectsDrafts
<1>1. IInv => WindowProtectsDrafts
  BY DEF IInv
<1> QED BY <1>1, Invariance, PTL

\* No vendor drops out because a newer version replaced its document.
THEOREM NoVendorDropsOut == Spec => []SupersededHasSuccessor
<1>1. IInv => SupersededHasSuccessor
  BY DEF IInv, SuccessorOK, SupersededHasSuccessor, Current
<1> QED BY <1>1, Invariance, PTL

\* A job that is done, failed or superseded is never written again.
THEOREM SettledForGood == Spec => SettledJobsStay
<1>1. IInv /\ [Next]_vars => [\A d \in Drops : jobs[d].status \in Settled => jobs'[d] = jobs[d]]_vars
  BY SettledStep DEF IInv
<1> QED BY <1>1, Invariance, PTL DEF Spec, SettledJobsStay

\* What one step means to a reader of rfps and event_log.
LEMMA LifecycleStep ==
  ASSUME IInv, [Next]_vars
  PROVE  [Lifecycle!Next]_(Lifecycle!vars)
<1> DEFINE facts == Has({"facts_ready"}) # {}
<1> USE DEF Lifecycle!Next, Lifecycle!vars
<1>1. facts \in BOOLEAN /\ facts' \in BOOLEAN /\ (facts => facts')
  BY FactsStay DEF IInv
<1>2. ASSUME NEW t \in Ticks, CloseExpired(t) PROVE [Lifecycle!Next]_(Lifecycle!vars)
  <2>1. UNCHANGED jobs /\ UNCHANGED announced
    BY <1>2 DEF CloseExpired
  <2>2. facts' = facts
    BY <2>1 DEF Has
  <2>3. rfp'.status = rfp.status \/ (rfp.status = "open" /\ rfp'.status = "closed")
    BY <1>2 DEF CloseExpired, IInv, TypeOK
  <2> QED BY <2>1, <2>2, <2>3 DEF Lifecycle!Close
<1>3. ASSUME NEW t \in Ticks, QueueReceived(t) PROVE [Lifecycle!Next]_(Lifecycle!vars)
  <2>1. UNCHANGED announced
    BY <1>3 DEF QueueReceived
  <2>2. facts' = facts
    BY <1>3, QueueEffect DEF Has, IInv, Stays, Enqueued, Turns
  <2>3. rfp'.status = rfp.status \/ (rfp.status = "closed" /\ rfp'.status = "processing")
    BY <1>3 DEF QueueReceived, IInv, TypeOK
  <2> QED BY <2>1, <2>2, <2>3 DEF Lifecycle!Process
<1>4. ASSUME NEW t \in Ticks, Flip(t) PROVE [Lifecycle!Next]_(Lifecycle!vars)
  <2>1. UNCHANGED jobs /\ UNCHANGED announced /\ facts
    BY <1>4 DEF Flip, IInv, TickOK
  <2>2. facts' = facts
    BY <2>1 DEF Has
  <2>3. rfp'.status = rfp.status \/ (rfp.status = "processing" /\ rfp'.status = "facts_ready")
    BY <1>4 DEF Flip, IInv, TypeOK
  <2> QED BY <2>1, <2>2, <2>3 DEF Lifecycle!Ready
<1>5. ASSUME NEW t \in Ticks, Emit(t) PROVE [Lifecycle!Next]_(Lifecycle!vars)
  <2>1. UNCHANGED jobs /\ UNCHANGED rfp
    BY <1>5 DEF Emit, scheduleVars
  <2>2. facts' = facts
    BY <2>1 DEF Has
  <2>3. rfp.status = "facts_ready" /\ announced = 0 /\ announced' = 1
    BY <1>5 DEF Emit, IInv, EmitOK
  <2> QED BY <2>1, <2>2, <2>3 DEF Lifecycle!Announce
<1>6. CASE ~ \E t \in Ticks : CloseExpired(t) \/ QueueReceived(t) \/ Flip(t) \/ Emit(t)
  <2>1. UNCHANGED announced /\ (UNCHANGED rfp \/ DeadlinePasses \/ SetDeadline)
    BY <1>6 DEF Next, AssignWrite, WatchStep, WatchRead, WatchInsert, WatchSupersede, WatchError,
       WatcherCrash, Customer, Drop, DeadlinePasses, SetDeadline, Invite, AcceptLate, AssignRead,
       vars, scheduleVars, TickStep, JobStep, Claim, FinishJob, SelectClosed, ListQueued,
       CountJobs, TickDies
  <2>2. rfp'.status = rfp.status
    BY <2>1 DEF DeadlinePasses, SetDeadline, IInv, TypeOK
  <2>3. facts' = facts \/ facts' = TRUE
    BY <1>1
  <2> QED BY <2>1, <2>2, <2>3 DEF Lifecycle!Learn
<1> QED BY <1>2, <1>3, <1>4, <1>5, <1>6

\* The tables keep the promise of RfpLifecycle: the RFP goes forward only, is ready only
\* once a document has its facts, and is announced once, afterwards.
THEOREM RefinesRfpLifecycle == Spec => ImplementsRfpLifecycle
<1>1. Init => Lifecycle!Init
  BY DEF Init, Lifecycle!Init, Has, NoJob
<1>2. IInv /\ [Next]_vars => [Lifecycle!Next]_(Lifecycle!vars)
  BY LifecycleStep
<1> QED BY <1>1, <1>2, Invariance, PTL DEF Spec, ImplementsRfpLifecycle, Lifecycle!Spec

=============================================================================
