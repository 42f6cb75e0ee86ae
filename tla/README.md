# Verification of agenticRag-rfp

The program evaluates vendors' answers to a request for proposal (RFP). A
customer uploads an RFP and vendor documents through an API; a LangGraph
pipeline of LLM agents retrieves, extracts, scores, compares, decides and
explains, each agent under a critic; a background service receives dropped
files and extracts their facts after the submission deadline. This directory
holds TLA+ models of the parts whose correctness depends on order, concurrency
and failure, TLC runs over small instances, and TLAPS proofs.

## 1. Inventory

| component | state it keeps | operations | interacts with |
|---|---|---|---|
| evaluation pipeline (`app/pipeline`, `_evaluation/pipeline.py`) | `PipelineState` of one graph execution; module-level semaphore | 13 graph nodes, four of them fanned out per vendor; per-vendor critic retries; report retry loop | called as a background task by the run endpoints; writes `evaluation_runs`; reads `extracted_facts` |
| critic (`agents/critic.py`) | none | one check per agent: flags and a verdict | called by every node |
| run life cycle (`evaluation_routes.py`, `_evaluation/db.py`, `_evaluation/refinement.py`, `main.py`) | tables `evaluation_runs`, `evaluation_setups`; background tasks in memory | start, update setup, confirm, rerun, re-evaluate, cancel, delete; setup refinement; startup sweep | starts pipelines; one process, one event loop |
| background ingestion (`jobs/ingestion_watcher.py`, `jobs/deadline_processor.py`, `pipeline/ingestion_graph.py`, admin and RFP endpoints) | tables `rfps`, `invited_vendors`, `ingestion_jobs`, `event_log`; the watcher's event queue in memory | drop, receive, supersede; close, queue, claim, process, finalise, announce; invite, set deadline, assign, accept late | three kinds of process that meet in PostgreSQL only |
| fact store (`db/fact_store.py`, `schema.sql`) | PostgreSQL: six fact tables, and the tables of the above | save and read a vendor's facts; conditional updates, unique constraints | all of the above |
| extraction and evaluation of one vendor (`agents/extraction.py`, `agents/_extraction`, `agents/evaluation.py`) | `FactsState`, the retried keys, compliance decisions, scores | judge facts per type, check and scored target; replace them by one focused retry; vote on a check; search the chunks for it; score | inside the pipeline's branches; the evaluation asks which retries the extraction made |
| other agents (`ingestion`, `retrieval`, `comparator`, `decision`, `explanation`) | none between calls | one LLM-backed function each | called by the nodes |
| planner (`agents/planner.py`) | none | task graph of a setup, validation of a plan | first node of the pipeline; a refused plan blocks the run |
| LLM calls (`providers/llm.py`, `llm_cache.py`, `infra/rate_limiter.py`, `cost_tracker.py`, `circuit_breaker.py`) | response cache (table), limiter's time stamps, cost accumulator per run, breaker state, all shared | look up, take a slot, call with retries, store, record; open, report and clear a run's costs | every agent of every pipeline; the breaker has no caller in `app/` |
| accounts (`api/auth_routes.py`, `auth/`) | `users`, `auth_sessions`, `auth_onetime_tokens` | sign up, log in and out, invite, accept, request and confirm a reset, deactivate; check a request | every request |
| tenant isolation (`db/session.py`, `api/middleware.py`) | a setting and a marker per pooled connection, a ContextVar per request | bind, stamp at checkout, SET LOCAL, return | every SQL statement under row-level security |
| run access and review (`auth/rbac.py`, `domain/visibility.py`, `domain/override.py`) | `user_departments`, `rfp_collaborators`, `approval_assignments`, corrections | list, open, invite, join, assign, change a role, override, correct | every run endpoint |
| criteria (`domain/criteria.py`, `schemas/schema_setup.py`, refinement) | `evaluation_setups.setup_json` | merge four sources, fill gaps, validate, edit, confirm, refine, load | `/start`, the confirm page, a background task and the pipeline share one row |
| organisation settings (`domain/org_settings.py`) | table `org_settings`, a cached copy per process | read through, update, reset, invalidate | every agent |
| vectors (`agents/ingestion.py`, `retrieval/`, `jobs/cleanup.py`, `domain/org_erasure.py`) | a Qdrant collection per organisation; rows of setups; the erasure receipt | ingest, expire, erase | three processes that meet in Qdrant and PostgreSQL |
| audit, delivery, output, other providers, chat, configuration, frontend, benchmark, tools | append-only tables, external services, or none | see `PROJECT.json`, "components" | |

What is hard here: vendors' branches fail and retry independently and are joined
by reducers; retry loops are nested; a run's outcome is written in several
transactions, any of which may fail or be cut off by a crash; endpoints neither
stop nor wait for the pipelines they talk about; the watcher, two overlapping
scheduler ticks and the admins change the same rows after reading them earlier;
caches, limiters, pooled connections and tokens are shared by requests that know
nothing of each other; vectors and rows live in two stores without a common
transaction; a setup has four writers and one reader.
`PROJECT.json` lists each hazard at its line with the properties that would catch
it.

What makes each part correct, in one line each:

- pipeline: no vendor is lost, no score without facts, the decision covers what
  was scored and never moves again, a complete run has a sound report, the run ends;
- run life cycle: 'complete' means a decision of this run, 'running' means that its
  newest pipeline is alive or its end was lost, a deleted run stays deleted, a setup
  outlives the runs that use it;
- background ingestion: nothing is processed twice or during the submission
  window, an RFP becomes ready once, with facts, and is announced at most once
  and after the fact; queued documents are processed;
- evidence of one vendor: a retry is made once and touches its own facts only, a
  verdict rests on a majority or on a chunk and never on contradicted evidence;
- shared services: a window never grants more slots than allowed, a run is
  charged its own calls, settings are never older than their time to live, an open
  breaker is probed, a link works once, a reset ends all sessions, a
  statement runs as its own tenant;
- tenant data: no vector survives its row unnoticed, a receipt proves an erasure,
  lists and handlers agree who sees a run, the first source of a criterion wins,
  an accepted plan covers the setup and can be carried out.

## 2. Modules

| module | what it is |
|---|---|
| `VendorFates` | abstract: the fate of each vendor in one run |
| `EvaluationGraph` | one execution of the pipeline; implements `VendorFates` |
| `EvaluationGraph_proofs` | its theorems |
| `RunLife` | abstract: the life of a run, as a reader of its row sees it |
| `EvaluationRun`, `EvaluationRun_proofs` | runs, overlapping pipelines, crashes and restarts whose sweep may fail; implements `RunLife`; its theorems |
| `FactStore` | extracted facts: saved, read and deleted by overlapping pipelines |
| `FactStore_proofs` | its theorems |
| `RfpLifecycle` | abstract: status of one RFP, its announcement |
| `IngestionLifecycle` | watcher, ticks, jobs and admin endpoints; implements `RfpLifecycle` |
| `IngestionLifecycle_proofs` | its theorems |
| `EvidenceLoop`, `EvidenceLoop_proofs` | one vendor's evidence: extraction critic, mandatory checks, scores; its theorems |
| `LlmCalls`, `CircuitBreaker`, `OrgSettings`, `Accounts`, `TenantStamp` | the objects all requests of a process share; composed by `MCServices` |
| `Services_proofs`, `TenantStamp_proofs` | theorems about the first four, and about the stamp |
| `VectorStore`, `RunAccess`, `CriteriaSetup`, `Planner` | what an organisation keeps; composed by `MCTenantData` |
| `PlanGuardrail` | what accepts or refuses a plan: `validate_plan` with its cycle search |
| `TenantData_proofs` | theorems about `VectorStore`, `RunAccess`, `CriteriaSetup`, `Planner` and `PlanGuardrail` |
| `MC*` | symmetry sets and the choice of bounds for TLC; the `.cfg` files give the constants |

Definitions ending in `Bug` are variants of the definition after them, as a
plausible mistake would make it; no specification uses them. They document which
mistake each property detects.

### EvaluationGraph

A node is a pair of `stage` and `phase`. A fan-out stage goes "start" (`FanOut`,
one Send per vendor), "vendors" (branches run), "done" (`Join` has applied the
reducers); the explanation stage has "critic" besides. A branch goes "waiting",
"working" (it holds a slot of `vendor_slot`), "returned"; its update stays in
`result` until all have returned, because LangGraph applies the updates of one
superstep together. The dictionaries `*_output_objects` are sets of vendors,
since only their keys route the graph; a narrative keeps its attempt and its
grounding quality, since the report and the critic look at both; ranking order,
scores and texts are left out. LLM answers are choices: a branch succeeds, is
hard-blocked or crashes. The critics that read the outputs' structure are
modelled by their flags (`ComparatorFlags`, `DecisionFlags`,
`ExplanationVerdicts`) and `Verdict`. `row` is what the run writes to
`evaluation_runs`; with `DbFaults` any statement may fail: the ones inside a
best-effort wrapper are lost, the ones outside a try raise out of the graph
(`Ingestion`, `LookupRaises`, `PipelineTailRaises`).

The semaphore is shared by all runs of the process. The model has one run; other
runs only delay it, and the safety properties do not depend on when a slot is
free.

### EvaluationRun

The API is one event loop with synchronous SQL: code between two awaits is
atomic for the other coroutines, and only a crash falls between two of its
commits. Each endpoint is therefore one action, and the tail of `_run_pipeline`
is the three steps `SaveDecision`, `SaveExplanation`, `FinishTask` that hold
`busy`. A column that stores a result holds the number of the task that computed
it, so that properties can say whose result it is. What happens inside the graph
is one of its ends: blocked, silently blocked, or decided. What a setup holds, with
the edits of `update_setup` and the refinement, which change nothing else, is the
subject of `CriteriaSetup`; here a setup is there or gone.

A pipeline that fails writes its status in a statement that may fail too, and the
`except` branch passes over that (`EndTask`): it is then "silent", as after an
exhausted report critic, and its row is never told. A sweep that raises is printed
and the server serves (`Restart`); `swept` says whether the last one went through.
`RunningIsDriven` and `RunsEnd` name these two cases and no others (`Forsaken`).

`RunLife` is what is left of this for a reader of `evaluation_runs`: a run is
decided only by an evaluation that was launched for it and has not ended yet, one
that is launched again has no decision, and a deleted one never comes back. Its
`open` is the number of the run's pipelines that may still decide (`Undecided`),
so its steps say what overlapping pipelines may do together: two of them may
decide one after the other, a cancelled one may decide too, a crash ends all of
them at once and the sweep shows it later.

### FactStore

A row of the fact tables is abstracted to the extraction attempt that saved it
and its kind: "standard" (the five typed tables, read by vendor alone) or
"custom" (`extracted_facts`, which names a setup). A branch remembers the kinds
of facts in the output object it handed on (`kept`), which need not be what is
stored: the evaluation reads the tables, not the object. Of `EvaluationRun` it
keeps statuses, setups and pipelines; a crash is one of the ways in which
`EndTask` ends a pipeline. `save_extraction_output` is one transaction: it adds
all rows or none. A commit whose acknowledgement gets lost is not modelled.
`OwnFactsAreEvaluated` says that an evaluation reads what its own pipeline accepted;
it may read older rows of the vendor besides, as `get_vendor_facts` does.

### IngestionLifecycle

One action is one transaction. A tick is `CloseExpired`, `SelectClosed`,
`QueueReceived`, `ListQueued`, then `Claim` and `FinishJob` for the listed jobs
in any order, `CountJobs`, `Flip`, `Emit`; `Ticks` of them overlap. The select
and the update of the queue step, and the count and the flip of the last step,
are separate actions, because PostgreSQL's read-committed isolation lets others
commit between two statements of one transaction. The watcher is one thread:
`WatchRead` (RFP and window), `WatchInsert`, `WatchSupersede`, with the single
retry of `on_created`. A file's name, path and text are left out; its folder and
its content hash are kept, as `UNIQUE (rfp_id, vendor_id, content_hash)` is
about them. The deadline is a Boolean, and `SetDeadline` may move it either way.
`SupersededHasSuccessor` says that a vendor's document is never lost; that a tick
between insert and supersede processes two versions is possible, and no property
forbids it.

### EvidenceLoop

Facts are kept in buckets: one per standard fact type, one per custom target, as
`_get_facts_for_target` reads them; of a bucket's content the model keeps who
wrote it and whether it holds anything. The critic's three phases (types, custom
checks, scored targets) are one queue `todo`, in the order of the code; `Judge*`
and `Retry*` are one action each, because a retry replaces facts after an await
that nobody else uses. A check is `EvaluateCheck` (all samples, the vote, the
contradiction rule, the decision to search), then up to two passes of
`SearchChunks` and `VerifyChunks`; an exception drops it. A reply of the LLM is a
choice of decision and contradiction. `Shortlisted` and `ForReview` say what the
decision agent makes of this vendor; the coverage of the criteria is compared with
one half, `min_coverage_for_trust`, by their weights and without the rounding to
four digits.

`MCEvidence` explores `FactStore` and `EvidenceLoop` one per behaviour (`part`): they
share no state.

### The services

Each module is one shared object with its callers as processes; a step is what
runs between two awaits, under one lock or in one transaction. `LlmCalls` takes a
call from the cache over the limiter (which sleeps with its lock held) and the
attempts to the store and the accounting, under pipelines that open and clear the
cost accumulator of a run and an admin who purges entries of the cache.
`CircuitBreaker` records outcomes apart from the look at the state; a
BaseException in the call passes both handlers (`CutOff`), and a probe it cuts off
leaves its flag set, so that everybody is refused until a late call ends, as
`BreakerProbes` says. In `OrgSettings` a query runs outside the lock, and an
update writes back the whole value it has read. In `Accounts` the handlers are
atomic, since they await nothing and one worker serves them, but the check of the
caller (`Authenticate`) is a step before the handler, and registering a session is
a transaction that may fail. `TenantStamp` tells the setting of a session from the
one of an open transaction, and the pool's rollback, which resets the second only,
is external code. Time is counted in ticks where the code compares times.
`MCServices` explores one object per behaviour (`part`): they share no state, so
their product would show nothing more.

### VectorStore

The retention job, the erasure and every ingestion are processes whose steps are
single calls to Qdrant or the database, each of which may fail. A point's id
stands for organisation, vendor and text, as in the code; its payload names the
setup that wrote it last. `late` and `swept` are history: whether a point was
written after its setup's vectors had been swept. Setups expire in the order of
`created_at` (`older`).

### RunAccess

One action per endpoint that changes who sees a run. `VisibleTo` is the SQL
function `runs_visible_to`, `CanView` is `require_run_access`, `Selected` is what
`list_runs` asks for, with its scopes and its older query without one, and `Listed`
the newest `ListLimit` rows of it (100 in the code). All of them go by the role in the
user's token (`token`), which a later change of the row (`role`) does not reach until
the next login. `created_at` counts the rows created, so no two are equal.

### CriteriaSetup, Planner and PlanGuardrail

Merged criteria are two lists, as in the code, one of the checks and one of the
scored criteria. An entry is its source, normalised name, weight in thousandths
and whether its score guide is blank (the four bands of a guide are one); ids are
computed from source, kind and name as in the code, so equal names of one source
share an id. `AddAll` is the loop over the entries of one source, `Share` the
rounding of one weight. `/start` is `SubmitRequest`, `FillGuides`,
`SuggestChecks`, `SaveStart`, one step for each LLM call; nothing is shared before
the save. The weights of a CSV or Excel sheet are scaled when it is read, those of
a PDF or Word sheet are not (`SheetRead`). `RefineSetup` is the end of the
background task: the second merge and its save. `Planner` has the plan of
`run_planner` as a function of the setup; `PlanGuardrail` has `validate_plan`,
with `has_cycle` as it is written, one visited set for all starting points. A call
of it and a round of its loop are one notion, a loop over the ids still to be
looked at (`SearchLoop`): a round calls the search for one id, which loops over
what that depends on, and goes on with the rest (`SearchRound`). `Search` is a
recursive function over the number of rounds that may follow one another;
`SearchBound` of them are enough for any graph, as the proof shows.

## 3. Runs

All bounds are constants of the configurations. CHECK_DEADLOCK is off: a run
closes, and the bounded worlds of the other models run out of tasks or files.

| run | instance | shows |
|---|---|---|
| `graph_safety` | 3 vendors, 2 slots, 1 retry of each kind, failing database | the safety properties of one pipeline |
| `graph_outcome` | 2 vendors, 1 slot | it implements `VendorFates`, whose fairness says that it ends; no branch waits for its slot for good |
| `run_lifecycle` | 2 runs, 3 pipelines, 2 crashes | the life cycle's properties over all interleavings, and that it implements `RunLife` |
| `ingestion_safety` | 1 vendor, 2 files, 2 contents, 2 ticks, 2 faults | safety, and that it implements `RfpLifecycle` |
| `ingestion_progress` | 1 vendor, 2 files, 1 tick, 1 fault | queued jobs are processed, an expired RFP gets on |
| `evidence` | facts: 2 runs, 2 pipelines, 1 vendor, 1 retry; loop: 1 standard type with 2 targets, 2 custom targets, up to 2 checks, up to 2 scored targets, 3 samples | accepted facts are stored, read and not lost with another run; retries, votes, contradictions and the search |
| `services` | limiter: 4 calls, 3 pipelines, 2 runs, 1 slot per 2 ticks, 2 attempts; breaker: 3 threads, threshold 2; settings: 3 tasks, 2 processes, TTL 2; accounts: 2 e-mails, 2 organisations, 2 links, 2 sessions, 3 changes; stamp: 2 connections, 3 workers, 2 tenants | one property or two for each shared object |
| `tenant_data` | vectors: 2 setups, 3 ingestions, 2 files; access: 3 users, 2 organisations, 2 runs, lists of 1 row, 2 departments, 2 changes; criteria: a few entries of each source; plans: up to 3 vendors, 2 checks, 2 criteria, and all graphs over 3 tasks | the properties of tenant data |
| `evidence_undecided_check`, `evidence_second_search` | as `evidence` | disagreements 1 and 2 below |
| `tenant_live_vectors`, `setup_overwritten` | as `tenant_data` | disagreements 3 and 4 below |

Why the bounds are enough for the cases of interest. Three vendors over two slots
make one branch wait while two work, and let one vendor succeed, one fail early
and one retry in the same stage. One retry gives first, repeated and exhausted
attempts; one report retry gives a second attempt that may crash where the first
succeeded. Three pipelines over two runs give a cancelled pipeline that overlaps
its successor, and a rerun that shares a setup; two crashes give a sweep that
fails and one that makes up for it. In `FactStore` two runs share a setup or do
not, and two pipelines overlap on it; vendors share no rows, so one is enough. Two
files of one vendor give a version and its successor, duplicates (equal contents),
and a stray file to be attributed; two ticks give every overlap of two schedulers,
and two faults a death after a failed retry. `Unknown` is the folder of stray
files. Symmetry is used for vendors, contents, ticks and runs, in runs without
liveness properties only.

`evidence` lets checks and criteria share a type, share a target, or name
neighbours in one list. In `services` two pipelines evaluate one run while a
third evaluates another; a slot every other tick makes callers sleep and overtake;
two threads can end an old call during a third one's probe; two tasks of one
process and one of another overlap queries and updates; two links and two sessions
give the newer and the older of each; more workers than connections make them
reuse one. In `tenant_data` two setups share a document, one of them ingests
twice, and an archive holds a file without text; the organisation's names may
collide, and one name serves a check and a criterion. A list of one row is full with
the first of two runs. `MaxAccessChanges` bounds deletions, memberships, roles and
reviews together. `MinTasks` 3 and `MaxTasks`
12 stand for 5 and 500, so that both limits are crossed. A customer's PUT carries
the whole setup, so one stands for many in a row.

Some properties are conjunctions of named parts that belong together:
`RecordsAreTruthful` (report and telemetry) and `StatusIsTruthful` (what the
status column says). `TypeOK` of a module states the shapes. The invariants that
the proofs of section 4 rest on were checked by TLC on these instances first
(`SlotInv` excepted, which quantifies over all numbers).

### Fairness

`FactStore`, `EvidenceLoop`, the services and the tenant data have safety
properties only and state none.

- Pipeline: weak fairness of the next step. Agent calls return or raise (the
  LLM client has a time-out) and the event loop schedules ready coroutines. As
  every step is progress, more is not needed.
- Runs: weak fairness per pipeline and of the restart (the container's
  supervisor). No endpoint is fair; a run that nobody confirms may wait for ever.
- Ingestion: weak fairness of the watcher's thread, of a request that has begun
  and of every tick: the cron starts a tick every five minutes, so the steps of
  a tick and the start of the next are one fair action. Drops, deadlines and
  endpoints are not fair.

### Disagreements the runs show

1. `evidence_undecided_check`: a mandatory check whose evaluation raises is
   dropped with a warning; what is left decides, and the vendor can be
   shortlisted without a review, although it must have passed all checks
   "or be rejected outright" (`schema_setup.py:18`).
2. `evidence_second_search`: no chunk search is meant to follow a failure whose facts
   were "already retried by the extraction critic (which would mean the failure is
   genuine)" (`evaluation.py:371`). Line 374 compares the bare fact type with
   keys that begin with `custom:` or `scoring:` for everything but a standard type's
   own retry: a check on a custom target whose facts were fetched again fails on them
   and passes on a chunk. What the line does give, for standard types, is
   `RetriedTypesStand`.
3. `tenant_live_vectors`: the second setup that ingests a document takes the
   points of the first over, and its expiry deletes them, although an expired
   setup "removes only its OWN vectors" (`qdrant.py:321`). Counting the
   points that are left and dropping the collection are two calls besides.
4. `setup_overwritten`: the refinement saves over the customer's edits and over a
   confirmed setup. It also takes back generated guides, and keeps generated or
   default checks while it replaces their targets: such a setup does not validate,
   and the pipeline is blocked.

### Disagreements without a run

Pipeline and runs: when the report critic has used up its retries the graph ends
blocked and nothing is written, although `_run_pipeline` assumes the node did; the
`except` branch passes over a failure of its own status write (`pipeline.py:243`),
and a row that is told nothing says 'running' until the next sweep; a sweep that raises is
printed and swallowed (`main.py:155`), although "any run still 'running' was orphaned",
and its rows say 'running' until the next start (`StatusIsTruthful` and
`RunsEnd` except these cases and no others); an empty ranking is
HARD, but the missing-vendors flag raised with it escalates and stops nothing;
`delete_run` compares with 'completed' while the status is 'complete'; cancel,
then delete, removes a run under its pipeline; `run.deleted` is audited with a run
id that is gone; a vendor whose extraction is skipped because its facts exist is
failed by the evaluation (only tests reach this today).

Background ingestion: insert and supersede are two transactions, and a tick in
between queues both versions; manual RFPs are said to be skipped, but a late
addendum of one is processed once accepted; an event lost to a crash between
`Flip` and `Emit` is never emitted again; a row 'received' after the queue step,
or a job whose tick died, keeps its RFP in 'processing' for good (`NeedsAdmin`);
the status 'duplicate' is read but never written; `real_agents` calls
`run_retrieval_agent` with arguments it does not take, so every job of the
deployed agents fails, and it ignores the verdict of the ingestion critic.

Facts and evidence: no unique key, so `ON CONFLICT DO NOTHING` never meets a
conflict and a re-evaluation doubles a vendor's facts; a contradiction only a losing sample names is dropped by the vote; retries are said
to judge "against each mandatory check" of a type, but only the first is passed;
a criterion whose scoring call fails is dropped: the ranking goes by what is left,
without a reason for review unless less than half was covered.

LLM calls and services: an ordinary call that ends late breaks "only one trial
call probes recovery" (`circuit_breaker.py:19`; `BreakerProbes` excepts it); the
retries of `call_with_backoff` send requests without a slot; with the Anthropic
client no error is retried; the cache key leaves out `max_tokens`, and two
concurrent misses are both paid for and may differ, though the first stored
answer stays; a failing store loses a paid answer; overlapping pipelines of one
run share and clear its accumulator; the fields a tier preset sets are dropped
from an update; deactivating a user ends no session, and a role in a token
outlives its change; the comments that call the listener at checkout unreliable
(`evaluation_routes.py:212` and `365`) are older than the commit at `session.py:96`,
which keeps a rollback from taking the setting back (`OwnTenantOnly`).

Tenant data: deleting the row of a setup that was ever used raises (foreign keys
without cascade, against the comment at `cleanup.py:58`) and rolls all rows
back while the vectors are gone; retrieval filters by organisation and vendor,
not by RFP; `update_setup` and `delete_run` do not require a writing role; an
auditor who created a run before, or whose organisation invited it, still opens it
(`docs/dev/55.md:35` says "blocked from every run-content path"), which is why
`AccessAgrees` speaks of writing roles; collaborators of other organisations are
accepted, to no effect; a run behind 100 newer ones is on no list; nothing resolves an approval; a correction is three
transactions, and an override leaves the decision row as it is.

Criteria and plans: "Normalise weights to sum to 1.0" (`criteria.py:511`) rounds each
weight for itself: 23 criteria without weights get 0.043 each, 0.989 in all, which
the validator of the setup refuses and `/start` with it (20 criteria are
never too many, as `RefusedForReasons` proves); criteria without any check, when none can be suggested, make
`/start` fail, as the default check's target is missing; a weight of 0 does so
too; the default criteria's targets do not exist; blank cells of a sheet become
"nan" and are never filled; a generated guide may replace an own one of an equal
name; `is_locked` is not enforced by `update_setup`; without mandatory checks the
scoring tasks depend on nothing (the graph is validated, not executed).

## 4. Theorems

Every safety property of every passing run is proved for all values of the
constants, from the assumptions the modules name; so are two of the three
refinements, and of the third (`VendorFates`) everything but its fairness. The
assumptions say that sets are finite where they are counted (`VendorsAssumption`,
`GuardrailAssumption`: a plan is a finite list of tasks), bounds and limits are numbers, positive where the code
makes them so, marks such as `NoRun`, `Unset` or `Unknown` are none of the values
they stand beside, and functions given as constants have their types. The bounds
of the models (`MaxTasks`, `MaxDrops`, `MaxFaults`, ...) are arbitrary numbers, so
the theorems hold for any number of pipelines, files and faults. What the modules
composed by `MCServices` and `MCTenantData` prove, they prove for their own
specification (`BreakerSpec`, `SettingsSpec`, `AccountsSpec`, `LlmSpec`,
`StampSpec`, `StoreSpec`, `AccessSpec`, `CriteriaSpec`, `PlanSpec`).

A proof has an invariant that its steps keep, one lemma or step for each action,
and a last step that combines them. None of the properties below is inductive
alone, except where it is said.

**EvaluationGraph.** `EveryVendorAccountedFor` speaks of the stages after the
evaluation; to know it there one must know that before the join no vendor has a
fate (`FateOK`), that a returned branch has an output only if it had its input
(`BranchOK`), and that branches exist only between a fan-out and its join
(`Shape`). `CompleteMeansSound` needs what holds when the graph has ended
unblocked (`EndOK`), which rests on the decision having been made before the
explanation stage (`CommitOK`). `RecordsAreTruthful` needs what each round of the
report loop leaves behind (`RoundsOK`: a narrative or a failure of each vendor),
and that no vendor has facts before the join that writes the metrics
(`TelemetryOK`). `RefinesVendorFates` shows that each step is a step of
`VendorFates!Safety` or leaves it alone; its fairness stays with TLC.

**EvaluationRun.** 'complete' and 'running' are claims about tasks, so the
invariant couples both tables: a pipeline between its commits holds the event
loop, and unless its run was deleted the row's decision is its own (`TaskOK`); a
decision is one of this run's pipelines (`RowOK`); an explanation of an earlier
decision only remains where the later pipeline has not stored its own
(`ExplainedOK`). The rest is part of `StatusIsTruthful` itself: that the newest
pipeline is behind a 'running' row (`RunningIsDriven`) is kept by every launch, which
makes its pipeline the newest, and by every status that a failed write leaves behind.
`RefinesRunLife` is the whole of `ImplementsRunLife`; `DeletedStays` says a little
more of deleted runs, whose rows no step changes at all. Each launch adds one to the
number of undecided pipelines and each end takes one away (`OpenGrows` and its
like, which are facts about cardinalities); that a late failure only ever finds a
complete row needs one more invariant (`AtWork`): between the commits of its tail a
pipeline has the event loop to itself, so nobody has changed the status since.

**IngestionLifecycle.** `TickOK` says which of a tick's readings are still true
when it acts on them: that the RFP is closed, and that there are facts; of the
jobs it listed it knows nothing, and the conditional claim makes up for it.
`EmitOK`: only the tick whose update hit the row announces. `SuccessorOK` is
stronger than `SupersededHasSuccessor`, which is not inductive: the successor must
have a status that counts (`Current`), not one an admin's triage left behind. It
needs `WatchOK` and `FileOK`: a file whose job is about to supersede others has
such a status itself.
`RefinesRfpLifecycle` is the whole of `ImplementsRfpLifecycle`.

**FactStore.** `OwnFactsAreEvaluated` needs to know at the moment of reading what
the extraction stored earlier, so the invariant says it of every state in between
(`AcceptedOK`). That a deletion does not break it rests on the foreign key: a
pipeline whose branch has moved belongs to a run that was started, so a run on the
deleted setup is the deleted one or was deleted before (`LostFacts`). All branch
actions have one of three effects (`BranchEffect`).

**EvidenceLoop.** `CriticInv`: the item being fetched again, and nothing else, is
marked as retried without a call (`Fetching`); that is what bounds the calls per
reason by one. The phases of an item and its bucket fit each other (`ItemOK`), for
any assignment of targets to types, so a retry replaces facts of its own bucket.
`VerdictInv`: every verdict is one of `Earned`, and a check that waits for chunks
has no contradiction and may be asked for them (`Askable`), since a retried bucket
is not searched: `RetriedTypesAreFinal`, which says nothing of custom targets and of
retries for a criterion, where it would be false. `OutcomesAreEarned` is the lemma about the vote.

**The services.** `CircuitBreaker`: a breaker that is half open has its trial call
under way, and one that is not closed is one failure from opening (`BreakerInv`).
`OrgSettings`: a copy that differs from the row, and a value on its way into one,
is at least as old as the last change. `Accounts`: one live link per purpose and
e-mail; a redeemed link is spent; an active session belongs to an account with the
same user, organisation and password. `LlmCalls`, in two invariants: an
accumulator has an open pipeline, a pipeline alone has no open peer, and only an
open one has calls under way (`CostInv`); the slots granted within the window are
the limiter's time stamps without those that have left it, and the one caller
that may sleep does so until the oldest is out (`SlotInv`). `TenantStamp`: the
marker of an idle connection equals its setting or was never written (`InStep`),
and no transaction setting survives the return to the pool, so that an equal
marker at checkout vouches for the setting.

**Tenant data.** `VectorStore`: every row the job has deleted, or is about to,
is of a setup whose vectors have been swept, and an erasure under way has swept
all of them (`RowsGoLast`, `ErasureGoesOn`); points of swept setups are late ones
(`SweptAreLate`). `RunAccess`: that the four queries agree on single runs follows
from their definitions, and a difference between the SQL function and the handlers'
check would break it; that a list which leaves a run out is full of newer ones needs
rows with different times (`AccessInv`) and an argument about cardinalities
(`FirstPage`). `CriteriaSetup`: while a
request is prepared its lists already name the first sources (`CriteriaInv`), and
its weights sum to 1 unless it has more than 20 criteria (`WeightsInv`): a rounded
weight is off by half a thousandth at most, so n of them by n/2 (`SharesSum`),
negative weights included. `Planner`: the tasks of `run_planner` can be done
one after the other, and cover the setup (`PlansCanBeDone`).

`PlanGuardrail`: `GuardrailIsSound` says that a plan is refused for a cycle exactly
when its tasks cannot be carried out, that is, when some set of tasks waits for
itself only (`Schedulable`). The search looks at an id once, so it must be known
that what was visited earlier cannot be part of a cycle found nowhere: visited ids
that are not on the path depend on such ids only, and no set of them waits for
itself (`DoneWith`). A loop keeps that, and each task of its path depends on another
one of it or on what the loop looks at (`Legal`), so an id found on the path gives a
set that waits for itself, and a search that ends without a find has visited all
tasks and waits for nothing (`RoundAnswers`). That `SearchBound` rounds are enough
is an argument of its own: a call visits an id for the first time, and a loop shrinks
(`RoundsDecrease`).

The loop `AddAll`, the sum `SumOf` and `Search` are recursive functions. What is
proved of them goes by least counterexample (`LeastNumber`): of the rounds of a loop
that break a claim there would be a first, and the one before it keeps the claim.

### Only model-checked

- Liveness: `NoBranchStarves`, `RunsEnd`, `JobsAreDrained`, `RfpGetsReady`, and the fairness that
  `ImplementsVendorFates` claims of `VendorFates`. They need ENABLED, which the
  installed provers do not handle.
- The disagreements of section 3, which are counterexamples.

## 5. Not modelled

Prompts, parsing, chunking, embedding, search and score fusion, score arithmetic,
rendering, delivery, configuration, read-only endpoints, audit, chat, frontend,
benchmark and the scripts under `tools/`: they keep no state across calls, or
state that no other part writes. Their failures are part of the models as choices.
The deployment runs one API worker, so the handlers of `Accounts` and
`EvaluationRun` do not overlap within a synchronous stretch; several workers are
modelled for `OrgSettings` only.

## 6. Plan

Done: the pipeline first, as it is what the program is for; the life of a run
around it; background ingestion and the facts that runs share; the evidence of a
vendor; the shared services; vectors, access, criteria and plans.

Next for the models: the scores' arithmetic and the approval tiers as operators
over bounded inputs; liveness of the limiter (no caller sleeps for ever) and of
the retention job.

Next theorems: `VectorStore`, the points left after an erasure are of ingestions
that were under way at the sweep; `Accounts`, an abstract session (opened, valid,
ended) that the handlers implement; `EvaluationRun`, which setup a decision was
made with. TLC first, on the runs that exist.
