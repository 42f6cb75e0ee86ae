------------------------- MODULE IngestionLifecycle -------------------------
(***************************************************************************)
(* Background ingestion of one RFP: the watcher that receives dropped files *)
(* (jobs/ingestion_watcher.py), the ticks of the deadline processor with    *)
(* the jobs they run (jobs/deadline_processor.py, pipeline/                 *)
(* ingestion_graph.py) and the admin endpoints (api/admin_routes.py,        *)
(* api/rfp_routes.py).  They are separate processes sharing the tables      *)
(* rfps, invited_vendors, ingestion_jobs and event_log; one action is one   *)
(* database transaction, and what a transaction read may be stale in the    *)
(* next one of the same process.                                           *)
(***************************************************************************)
EXTENDS Integers, FiniteSets

CONSTANTS Vendors, Unknown,   \* vendor ids, and "_unknown_" for a file at the RFP's root
          Contents,           \* content hashes
          Ticks,              \* concurrently running deadline-processor processes
          MaxDrops,           \* bound: files dropped
          MaxFaults           \* bound: crashes and database errors

ASSUME UnknownAssumption == Unknown \notin Vendors
ASSUME ContentsAssumption == "none" \notin Contents
ASSUME LimitsAssumption == MaxDrops \in Nat /\ MaxFaults \in Nat

VARIABLES
  rfp,        \* the rfps row: status, mode, and whether its deadline has passed
  invited,    \* invited_vendors
  file,       \* the files on disk, numbered as they were dropped
  inbox,      \* the watcher's unhandled creation events, in memory
  watcher,    \* the event being handled
  jobs,       \* ingestion_jobs, one row per file that got one
  tick,       \* the deadline-processor processes
  admin,      \* an assign_attribution request between its read and its write
  announced,  \* lifecycle events emitted (which one depends on autonomy_mode)
  faults

scheduleVars == <<rfp, invited>>
watchVars == <<file, inbox, watcher>>
vars == <<scheduleVars, watchVars, jobs, tick, admin, announced, faults>>

Drops   == 1 .. MaxDrops
Folders == Vendors \cup {Unknown}
Open     == {"received", "queued", "processing"}
Settled  == {"facts_ready", "failed", "superseded"}
Triage   == {"needs_attribution", "rejected_late"}
NoJob    == [vendor |-> Unknown, status |-> "none", byAdmin |-> FALSE]
NoFile   == [folder |-> Unknown, content |-> "none"]
NoTick   == [pc |-> "idle", todo |-> {}, own |-> {}]
Idle     == [pc |-> "idle", drop |-> 0, open |-> FALSE, attempt |-> 0]
NoAssign == [drop |-> 0, vendor |-> Unknown, open |-> FALSE]

Dropped == {d \in Drops : file[d].content # "none"}
Has(st) == {d \in Drops : jobs[d].status \in st}

Init == /\ \E mode \in {"manual", "auto"} :
             rfp = [status |-> "open", mode |-> mode, expired |-> FALSE]
        /\ invited = {}
        /\ file = [d \in Drops |-> NoFile]
        /\ inbox = {} /\ watcher = Idle
        /\ jobs = [d \in Drops |-> NoJob]
        /\ tick = [t \in Ticks |-> NoTick]
        /\ admin = NoAssign
        /\ announced = 0 /\ faults = 0

Fault == faults < MaxFaults /\ faults' = faults + 1

----------------------------------------------------------------------------
(* The world, and the RFP endpoints *)

\* A file appears below the drop root; the observer queues the event.
Drop(f, c) ==
  LET d == Cardinality(Dropped) + 1 IN
  /\ d \in Drops
  /\ file' = [file EXCEPT ![d] = [folder |-> f, content |-> c]]
  /\ inbox' = inbox \cup {d}
  /\ UNCHANGED <<scheduleVars, watcher, jobs, tick, admin, announced, faults>>

DeadlinePasses ==
  /\ ~rfp.expired
  /\ rfp' = [rfp EXCEPT !.expired = TRUE]
  /\ UNCHANGED <<invited, watchVars, jobs, tick, admin, announced, faults>>

\* set_deadline: one conditional UPDATE, so the endpoint's own check never matters.
SetDeadline ==
  /\ rfp.status = "open"
  /\ \E expired \in BOOLEAN : rfp' = [rfp EXCEPT !.expired = expired]
  /\ UNCHANGED <<invited, watchVars, jobs, tick, admin, announced, faults>>

\* invite_vendor
Invite(v) ==
  /\ invited' = invited \cup {v}
  /\ UNCHANGED <<rfp, watchVars, jobs, tick, admin, announced, faults>>

----------------------------------------------------------------------------
(* The watcher: one thread, one event after the other. *)

WindowOpen == rfp.status = "open" /\ ~rfp.expired

\* handle_dropped_file reads the RFP, for a new event or for the one retry.
WatchRead ==
  /\ \/ /\ watcher.pc = "idle" /\ inbox # {}
        /\ LET d == CHOOSE d \in inbox : \A e \in inbox : d <= e IN
             /\ inbox' = inbox \ {d}
             /\ watcher' = [pc |-> "insert", drop |-> d, open |-> WindowOpen, attempt |-> 1]
     \/ /\ watcher.pc = "retry"
        /\ watcher' = [watcher EXCEPT !.pc = "insert", !.open = WindowOpen]
        /\ UNCHANGED inbox
  /\ UNCHANGED <<scheduleVars, file, jobs, tick, admin, announced, faults>>

\* UNIQUE (rfp_id, vendor_id, content_hash), for a row of drop d and vendor v.
Duplicate(d, v) == \E e \in Drops : /\ jobs[e].status # "none" /\ jobs[e].vendor = v
                                    /\ file[e].content = file[d].content

\* The status a file gets, from what the watcher read before.
Received(d) == IF ~watcher.open THEN "rejected_late"
               ELSE IF file[d].folder \in invited THEN "received" ELSE "needs_attribution"

\* enqueue_ingestion_job; a conflict inserts nothing, and then nothing is superseded.
WatchInsert ==
  LET d == watcher.drop
      v == file[d].folder
      st == Received(d)
      isNew == ~Duplicate(d, v)
  IN
  /\ watcher.pc = "insert"
  /\ jobs' = IF isNew THEN [jobs EXCEPT ![d] = [vendor |-> v, status |-> st, byAdmin |-> FALSE]]
             ELSE jobs
  /\ watcher' = IF isNew /\ st = "received" THEN [watcher EXCEPT !.pc = "supersede"] ELSE Idle
  /\ UNCHANGED <<scheduleVars, file, inbox, tick, admin, announced, faults>>

\* Plausible bug: the new row is not left out.
PriorBug(d) == {e \in Drops : jobs[e].vendor = jobs[d].vendor /\ jobs[e].status = "received"}

\* Plausible bug: whatever its status, an older version is superseded.
PriorAnyBug(d) == {e \in Drops \ {d} : jobs[e].vendor = jobs[d].vendor /\ jobs[e].status # "none"}

\* The rows supersede_prior_received updates for the new row d.
Prior(d) == {e \in Drops \ {d} : jobs[e].vendor = jobs[d].vendor /\ jobs[e].status = "received"}

WatchSupersede ==
  /\ watcher.pc = "supersede"
  /\ LET old == Prior(watcher.drop) IN
       jobs' = [e \in Drops |-> IF e \in old THEN [jobs[e] EXCEPT !.status = "superseded"]
                                ELSE jobs[e]]
  /\ watcher' = Idle
  /\ UNCHANGED <<scheduleVars, file, inbox, tick, admin, announced, faults>>

\* on_created: an OperationalError is retried once, from the start, then logged.
WatchError ==
  /\ watcher.pc # "idle" /\ Fault
  /\ watcher' = IF watcher.attempt = 1 THEN [watcher EXCEPT !.pc = "retry", !.attempt = 2]
                ELSE Idle
  /\ UNCHANGED <<scheduleVars, file, inbox, jobs, tick, admin, announced>>

\* The events are gone with the process; the files stay where they are.
WatcherCrash ==
  /\ Fault
  /\ inbox # {} \/ watcher # Idle
  /\ inbox' = {} /\ watcher' = Idle
  /\ UNCHANGED <<scheduleVars, file, jobs, tick, admin, announced>>

----------------------------------------------------------------------------
(* A tick of the deadline processor *)

Move(t, pc) == tick' = [tick EXCEPT ![t].pc = pc]

Scheduled == rfp.mode # "manual"

\* _close_expired_rfps
CloseExpired(t) ==
  /\ tick[t].pc = "idle"
  /\ Move(t, "select")
  /\ rfp' = IF rfp.status = "open" /\ rfp.expired /\ Scheduled
            THEN [rfp EXCEPT !.status = "closed"] ELSE rfp
  /\ UNCHANGED <<invited, watchVars, jobs, admin, announced, faults>>

\* Plausible bug: RFPs that are still open are selected too.
SelectableBug == rfp.status \in {"open", "closed"} /\ Scheduled

Selectable == rfp.status = "closed" /\ Scheduled

\* _queue_received_jobs: the SELECT.
SelectClosed(t) ==
  /\ tick[t].pc = "select"
  /\ Move(t, IF Selectable THEN "queue" ELSE "list")
  /\ UNCHANGED <<scheduleVars, watchVars, jobs, admin, announced, faults>>

\* _queue_received_jobs: the UPDATEs, for an RFP another tick may have advanced.
QueueReceived(t) ==
  /\ tick[t].pc = "queue"
  /\ Move(t, "list")
  /\ jobs' = [d \in Drops |-> IF jobs[d].status = "received"
                              THEN [jobs[d] EXCEPT !.status = "queued"] ELSE jobs[d]]
  /\ rfp' = IF rfp.status = "closed" THEN [rfp EXCEPT !.status = "processing"] ELSE rfp
  /\ UNCHANGED <<invited, watchVars, admin, announced, faults>>

\* Plausible bug: only jobs of RFPs in processing are listed.
QueuedBug == {d \in Has({"queued"}) : rfp.status = "processing"}

\* _list_queued_jobs: of every RFP, whatever its status or mode.
Queued == Has({"queued"})

ListQueued(t) ==
  /\ tick[t].pc = "list"
  /\ tick' = [tick EXCEPT ![t] = [pc |-> "work", todo |-> Queued, own |-> {}]]
  /\ UNCHANGED <<scheduleVars, watchVars, jobs, admin, announced, faults>>

\* Plausible bug: the claim is not conditional on the status.
ClaimableBug(d) == jobs[d].status \in {"queued", "processing"}

Claimable(d) == jobs[d].status = "queued"

\* _claim_for_processing: a job that is no longer queued is passed over.
Claim(t, d) ==
  /\ tick[t].pc = "work" /\ d \in tick[t].todo
  /\ IF Claimable(d)
     THEN /\ jobs' = [jobs EXCEPT ![d].status = "processing"]
          /\ tick' = [tick EXCEPT ![t].todo = @ \ {d}, ![t].own = @ \cup {d}]
     ELSE /\ tick' = [tick EXCEPT ![t].todo = @ \ {d}]
          /\ UNCHANGED jobs
  /\ UNCHANGED <<scheduleVars, watchVars, admin, announced, faults>>

\* process_job: _mark_facts_ready or _mark_failed, conditional on the job_id only.
FinishJob(t, d) ==
  /\ tick[t].pc = "work" /\ d \in tick[t].own
  /\ \E st \in {"facts_ready", "failed"} : jobs' = [jobs EXCEPT ![d].status = st]
  /\ tick' = [tick EXCEPT ![t].own = @ \ {d}]
  /\ UNCHANGED <<scheduleVars, watchVars, admin, announced, faults>>

\* Plausible bug: a status nobody leaves by itself is waited for, too.
AllTerminalBug == /\ Has(Open \cup Triage \cup {"failed", "superseded"}) = {}
                  /\ Has({"facts_ready"}) # {}

\* Nothing is open, and something has succeeded.
AllTerminal == Has(Open) = {} /\ Has({"facts_ready"}) # {}

\* _finalize_completed_rfps, once the gather is over: candidates and counts.
CountJobs(t) ==
  /\ tick[t].pc = "work" /\ tick[t].todo = {} /\ tick[t].own = {}
  /\ Move(t, IF rfp.status = "processing" /\ AllTerminal THEN "flip" ELSE "idle")
  /\ UNCHANGED <<scheduleVars, watchVars, jobs, admin, announced, faults>>

\* Plausible bug: whoever counted emits, whether its UPDATE hit a row or not.
FlipWonBug == TRUE

\* rowcount > 0 of the conditional UPDATE.
FlipWon == rfp.status = "processing"

Flip(t) ==
  /\ tick[t].pc = "flip"
  /\ rfp' = IF rfp.status = "processing" THEN [rfp EXCEPT !.status = "facts_ready"] ELSE rfp
  /\ Move(t, IF FlipWon THEN "emit" ELSE "idle")
  /\ UNCHANGED <<invited, watchVars, jobs, admin, announced, faults>>

\* emit_event, in a transaction of its own.
Emit(t) ==
  /\ tick[t].pc = "emit"
  /\ announced' = announced + 1
  /\ Move(t, "idle")
  /\ UNCHANGED <<scheduleVars, watchVars, jobs, admin, faults>>

\* The process dies, or a statement outside process_job's try raises and the event
\* loop cancels the other jobs: nobody touches their rows any more.
TickDies(t) ==
  /\ tick[t].pc # "idle" /\ Fault
  /\ tick' = [tick EXCEPT ![t] = NoTick]
  /\ UNCHANGED <<scheduleVars, watchVars, jobs, admin, announced>>

----------------------------------------------------------------------------
(* The admin endpoints *)

\* assign_attribution reads the job and the RFP, and invites the vendor ...
AssignRead(d, v) ==
  /\ admin = NoAssign /\ jobs[d].status = "needs_attribution"
  /\ admin' = [drop |-> d, vendor |-> v, open |-> rfp.status = "open"]
  /\ invited' = invited \cup {v}
  /\ UNCHANGED <<rfp, watchVars, jobs, tick, announced, faults>>

\* ... and writes the status it chose then, unless the row is gone or the vendor
\* has this content already.
AssignWrite ==
  LET d == admin.drop
      v == admin.vendor
      hit == /\ jobs[d].status = "needs_attribution"
             /\ jobs[d].vendor = v \/ ~Duplicate(d, v)
  IN
  /\ admin # NoAssign
  /\ jobs' = IF hit THEN [jobs EXCEPT ![d] = [vendor |-> v, byAdmin |-> TRUE,
                            status |-> IF admin.open THEN "received" ELSE "queued"]]
             ELSE jobs
  /\ admin' = NoAssign
  /\ UNCHANGED <<scheduleVars, watchVars, tick, announced, faults>>

\* accept_late_addendum
AcceptLate(d) ==
  /\ jobs[d].status = "rejected_late"
  /\ jobs' = [jobs EXCEPT ![d].status = "queued", ![d].byAdmin = TRUE]
  /\ UNCHANGED <<scheduleVars, watchVars, tick, admin, announced, faults>>

----------------------------------------------------------------------------
WatchStep == WatchRead \/ WatchInsert \/ WatchSupersede

JobStep(t) == \E d \in Drops : Claim(t, d) \/ FinishJob(t, d)

TickStep(t) == \/ CloseExpired(t) \/ SelectClosed(t) \/ QueueReceived(t) \/ ListQueued(t)
               \/ JobStep(t) \/ CountJobs(t) \/ Flip(t) \/ Emit(t)

Customer == \/ \E f \in Folders, c \in Contents : Drop(f, c)
            \/ DeadlinePasses \/ SetDeadline
            \/ \E v \in Vendors : Invite(v)
            \/ \E d \in Drops : AcceptLate(d)
            \/ \E d \in Drops, v \in Vendors : AssignRead(d, v)

Next == \/ Customer \/ AssignWrite
        \/ WatchStep \/ WatchError \/ WatcherCrash
        \/ \E t \in Ticks : TickStep(t) \/ TickDies(t)

\* The cron starts a tick every five minutes, agent calls return, and the watcher's
\* thread goes on; nobody has to drop a file or call an endpoint.
Fairness == /\ WF_vars(WatchStep)
            /\ WF_vars(AssignWrite)
            /\ \A t \in Ticks : WF_vars(TickStep(t))

Spec == Init /\ [][Next]_vars /\ Fairness

----------------------------------------------------------------------------
(* Properties *)

\* Shapes of all variables.
TypeOK ==
  /\ rfp \in [status : {"open", "closed", "processing", "facts_ready"},
              mode : {"manual", "auto"}, expired : BOOLEAN]
  /\ invited \in SUBSET Vendors
  /\ file \in [Drops -> [folder : Folders, content : Contents \cup {"none"}]]
  /\ inbox \in SUBSET Drops
  /\ watcher \in [pc : {"idle", "insert", "supersede", "retry"}, drop : {0} \cup Drops,
                  open : BOOLEAN, attempt : 0 .. 2]
  /\ jobs \in [Drops -> [vendor : Folders, status : {"none"} \cup Open \cup Settled \cup Triage,
                         byAdmin : BOOLEAN]]
  /\ tick \in [Ticks -> [pc : {"idle", "select", "queue", "list", "work", "flip", "emit"},
                         todo : SUBSET Drops, own : SUBSET Drops]]
  /\ admin \in [drop : {0} \cup Drops, vendor : Folders, open : BOOLEAN]
  /\ announced \in 0 .. 1
  /\ faults \in 0 .. MaxFaults

\* deadline_processor.py:57, "safe to call concurrently": no document is ever in the
\* hands of two ticks, and one in the hands of a tick is in no other status.
ProcessedOnce ==
  \A t \in Ticks : \A d \in tick[t].own :
    /\ jobs[d].status = "processing"
    /\ \A u \in Ticks \ {t} : d \notin tick[u].own

\* "Zero LLM cost during submission window": while the RFP is open, nothing is
\* processed except what an admin has accepted.
WindowProtectsDrafts ==
  rfp.status = "open" => \A d \in Drops : jobs[d].status \in {"queued", "processing",
                                             "facts_ready", "failed"} => jobs[d].byAdmin

\* ingestion_jobs: a job that is done, failed or superseded stays so, whoever else is
\* still at work.
SettledJobsStay ==
  [][\A d \in Drops : jobs[d].status \in Settled => jobs'[d] = jobs[d]]_vars

\* supersede_prior_received: for every superseded version there is another version of
\* the same vendor that is not; no vendor drops out by re-uploading.
SupersededHasSuccessor ==
  \A d \in Has({"superseded"}) :
    \E e \in Drops : jobs[e].vendor = jobs[d].vendor /\ jobs[e].status \notin {"none", "superseded"}

\* RfpLifecycle, the promise to whoever reads rfps and event_log.
Lifecycle == INSTANCE RfpLifecycle WITH
  status <- rfp.status,
  facts <- Has({"facts_ready"}) # {}

\* _finalize_completed_rfps and the conditional UPDATEs of the ticks implement it.
ImplementsRfpLifecycle == Lifecycle!Spec

\* A job whose tick died in the middle of it.
Orphaned(d) == jobs[d].status = "processing" /\ \A t \in Ticks : d \notin tick[t].own

\* tick: every queued document, an addendum accepted late included, is processed.
JobsAreDrained ==
  \A d \in Drops : jobs[d].status = "queued" ~> (jobs[d].status \in Settled \/ Orphaned(d))

\* What keeps an RFP in processing for good: a row received too late for the queue,
\* an orphaned job, or not a single document with facts ("admin needs to triage").
NeedsAdmin == \/ Has({"received"}) # {} \/ \E d \in Drops : Orphaned(d)
              \/ Has({"facts_ready"}) = {}

\* tick: past its deadline, a scheduled RFP gets ready or needs an admin.
RfpGetsReady ==
  (rfp.expired /\ Scheduled) ~> (\/ rfp.status = "facts_ready" \/ ~rfp.expired
                                 \/ rfp.status = "processing" /\ NeedsAdmin)

=============================================================================
