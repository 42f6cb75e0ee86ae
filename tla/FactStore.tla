----------------------------- MODULE FactStore -----------------------------
(***************************************************************************)
(* The extracted facts in PostgreSQL: what the extraction branches of       *)
(* overlapping pipelines save, what their evaluation branches read back,    *)
(* and what the deletion of a run removes.  Runs, setups and pipelines are  *)
(* those of EvaluationRun, with as much of them as the fact tables see: a   *)
(* pipeline counts from the moment it is queued, and a crash is one of the  *)
(* ways it can end.                                                         *)
(***************************************************************************)
EXTENDS Integers, FiniteSets

CONSTANTS Runs,         \* run ids
          NoRun,
          Vendors,
          MaxTasks,     \* bound: pipelines ever started
          MaxRetries    \* generation_critic_max_retries

ASSUME RunsAssumption == NoRun \notin Runs
ASSUME VendorsAssumption == IsFiniteSet(Vendors) /\ Vendors # {}
ASSUME BoundsAssumption == MaxTasks \in Nat /\ MaxRetries \in Nat

VARIABLES
  status,   \* evaluation_runs.status, "none" and "deleted" for no row
  setupOf,  \* evaluation_runs.setup_id, named by the run that created the setup
  runOf,    \* the run of each pipeline ever started
  over,     \* pipelines that have ended
  stored,    \* rows of the fact tables, by the extraction attempt that saved them
  branch    \* the branch of a vendor in a pipeline, [TaskIds -> [Vendors -> Branch]]

runVars == <<status, setupOf, runOf, over>>
factVars == <<runVars, stored, branch>>

TaskIds == 1 .. MaxTasks
RunStatuses == {"pending_confirm", "running", "complete", "blocked", "interrupted"}

\* "standard": certifications, insurance, SLAs, projects, pricing.  "custom": the
\* rows of extracted_facts, which alone name their setup.
Kinds  == {"standard", "custom"}
Fact   == [task : TaskIds, vendor : Vendors, try : 0 .. MaxRetries, kind : Kinds]
\* kept: the kinds of facts in the output object that was handed on.
Branch == [pc : {"extract", "evaluate", "scoring", "scored", "failed"},
           tries : 0 .. MaxRetries, retries : 0 .. MaxRetries, kept : SUBSET Kinds]

NewBranch == [pc |-> "extract", tries |-> 0, retries |-> 0, kept |-> {}]

Present(r) == status[r] \in RunStatuses
Live(t) == runOf[t] # NoRun /\ t \notin over
SetupOf(t) == setupOf[runOf[t]]

\* The foreign key of evaluation_runs keeps a setup while a run refers to it, and
\* the deletion of its last run takes it away.
SetupExists(s) == \E r \in Runs : Present(r) /\ setupOf[r] = s

FactsInit == /\ status = [r \in Runs |-> "none"]
             /\ setupOf = [r \in Runs |-> r]
             /\ runOf = [t \in TaskIds |-> NoRun]
             /\ over = {}
             /\ stored = {}
             /\ branch = [t \in TaskIds |-> [v \in Vendors |-> NewBranch]]

SetBranch(t, v, new) == branch' = [branch EXCEPT ![t][v] = new]

----------------------------------------------------------------------------
(* Extraction of one vendor *)

RowsOf(t, v, kinds) ==
  {[task |-> t, vendor |-> v, try |-> branch[t][v].tries, kind |-> k] : k \in kinds}

\* extracted_facts.setup_id REFERENCES evaluation_setups: with the setup gone the
\* insert of a custom fact fails, and the transaction with all the rest of it.
Persistable(t, kinds) == "custom" \in kinds => SetupExists(SetupOf(t))

\* Plausible bug: facts are saved before anyone looks at the verdict.
SavesBug(verdict, persisted) == persisted

\* run_extraction_agent, step 8: "only if not blocked".
Saves(verdict, persisted) == verdict # "blocked" /\ persisted

\* Plausible bug: a failed save is only logged.
AcceptsBug(verdict, persisted) == verdict # "blocked"

\* A failed save adds a HARD flag to the critic's own, which blocks.
Accepts(verdict, persisted) == verdict # "blocked" /\ persisted

AttemptsLeft(n) == n < MaxRetries

\* One attempt of extraction_per_vendor, from the answer of its last LLM call on;
\* the save may fail for other reasons as well.
Extract(t, v) ==
  /\ Live(t) /\ branch[t][v].pc = "extract"
  /\ \E verdict \in {"approved", "blocked"}, kinds \in SUBSET Kinds, persisted \in BOOLEAN :
       /\ persisted => Persistable(t, kinds)
       /\ stored' = IF Saves(verdict, persisted) THEN stored \cup RowsOf(t, v, kinds) ELSE stored
       /\ \/ /\ Accepts(verdict, persisted)
             /\ SetBranch(t, v, [branch[t][v] EXCEPT !.pc = "evaluate", !.kept = kinds])
          \/ /\ ~Accepts(verdict, persisted) /\ AttemptsLeft(branch[t][v].tries)
             /\ SetBranch(t, v, [branch[t][v] EXCEPT !.tries = @ + 1])
          \/ /\ ~Accepts(verdict, persisted) /\ ~AttemptsLeft(branch[t][v].tries)
             /\ SetBranch(t, v, [branch[t][v] EXCEPT !.pc = "failed"])
  /\ UNCHANGED runVars

\* No retrieval output, or an attempt that raised.
ExtractRaises(t, v) ==
  /\ Live(t) /\ branch[t][v].pc = "extract"
  /\ SetBranch(t, v, [branch[t][v] EXCEPT !.pc = "failed"])
  /\ UNCHANGED <<runVars, stored>>

----------------------------------------------------------------------------
(* Evaluation of one vendor *)

\* get_vendor_facts: standard facts by vendor, custom facts by vendor and setup.
VendorFacts(t, v) ==
  {f \in stored : f.vendor = v /\ (f.kind = "custom" => SetupOf(f.task) = SetupOf(t))}

\* The evaluation fan-out starts when every extraction branch has returned; an
\* attempt begins by reading the tables, not the extraction output.
ReadFacts(t, v) ==
  /\ Live(t) /\ branch[t][v].pc = "evaluate"
  /\ \A w \in Vendors : branch[t][w].pc # "extract"
  /\ SetBranch(t, v, [branch[t][v] EXCEPT !.pc = "scoring"])
  /\ UNCHANGED <<runVars, stored>>

\* The LLM calls and the critic's verdict; a retry reads the tables anew.
Score(t, v) ==
  /\ Live(t) /\ branch[t][v].pc = "scoring"
  /\ \/ SetBranch(t, v, [branch[t][v] EXCEPT !.pc = "scored"])
     \/ SetBranch(t, v, [branch[t][v] EXCEPT !.pc = "failed"])
     \/ /\ AttemptsLeft(branch[t][v].retries)
        /\ SetBranch(t, v, [branch[t][v] EXCEPT !.pc = "evaluate", !.retries = @ + 1])
  /\ UNCHANGED <<runVars, stored>>

----------------------------------------------------------------------------
(* Runs and pipelines around the facts *)

\* background_tasks.add_task(_run_pipeline, run_id, org_id)
AddTask(r) ==
  \E t \in TaskIds : /\ runOf[t] = NoRun /\ \A u \in TaskIds : u < t => runOf[u] # NoRun
                     /\ runOf' = [runOf EXCEPT ![t] = r]

\* start_evaluation
Start(r) ==
  /\ status[r] = "none"
  /\ status' = [status EXCEPT ![r] = "pending_confirm"]
  /\ UNCHANGED <<setupOf, runOf, over, stored, branch>>

\* confirm_run, re_evaluate (which takes a pending run as well)
Evaluate(r) ==
  /\ Present(r) /\ status[r] # "running"
  /\ status' = [status EXCEPT ![r] = "running"]
  /\ AddTask(r)
  /\ UNCHANGED <<setupOf, over, stored, branch>>

\* rerun_evaluation: a new run on the setup of the original.
Rerun(r, new) ==
  /\ status[r] \in {"complete", "blocked"} /\ status[new] = "none"
  /\ status' = [status EXCEPT ![new] = "running"]
  /\ setupOf' = [setupOf EXCEPT ![new] = setupOf[r]]
  /\ AddTask(new)
  /\ UNCHANGED <<over, stored, branch>>

\* cancel_run: the pipeline is not told.
Cancel(r) ==
  /\ status[r] = "running"
  /\ status' = [status EXCEPT ![r] = "interrupted"]
  /\ UNCHANGED <<setupOf, runOf, over, stored, branch>>

\* Plausible bug: the setup goes, and its facts, whoever still refers to it.
DeletableBug(r) == TRUE

\* With another run on the setup its DELETE fails, and with it the transaction.
Deletable(r) == \A q \in Runs \ {r} : Present(q) => setupOf[q] # setupOf[r]

\* delete_run removes the facts that name the run's setup; the rows of the five
\* standard tables name none and stay.
Delete(r) ==
  /\ Present(r) /\ status[r] # "running" /\ Deletable(r)
  /\ status' = [status EXCEPT ![r] = "deleted"]
  /\ stored' = {f \in stored : ~(f.kind = "custom" /\ SetupOf(f.task) = setupOf[r])}
  /\ UNCHANGED <<setupOf, runOf, over, branch>>

\* A pipeline ends: completed after its last branch, blocked or broken off at any
\* moment, leaving its row as it is if that is gone or cannot be written.
EndTask(t) ==
  LET r == runOf[t]
      finished == \A v \in Vendors : branch[t][v].pc \in {"scored", "failed"} IN
  /\ Live(t)
  /\ over' = over \cup {t}
  /\ \/ \E s \in {"blocked", "interrupted"} \cup IF finished THEN {"complete"} ELSE {} :
          Present(r) /\ status' = [status EXCEPT ![r] = s]
     \/ UNCHANGED status
  /\ UNCHANGED <<setupOf, runOf, stored, branch>>

FactsNext ==
  \/ \E t \in TaskIds, v \in Vendors :
       Extract(t, v) \/ ExtractRaises(t, v) \/ ReadFacts(t, v) \/ Score(t, v)
  \/ \E t \in TaskIds : EndTask(t)
  \/ \E r \in Runs : Start(r) \/ Evaluate(r) \/ Cancel(r) \/ Delete(r)
  \/ \E r, new \in Runs : Rerun(r, new)

FactsSpec == FactsInit /\ [][FactsNext]_factVars

----------------------------------------------------------------------------
(* Properties *)

\* Shapes of all variables.
FactsTypeOK == /\ status \in [Runs -> RunStatuses \cup {"none", "deleted"}]
               /\ setupOf \in [Runs -> Runs]
               /\ runOf \in [TaskIds -> Runs \cup {NoRun}]
               /\ over \subseteq TaskIds
               /\ stored \subseteq Fact
               /\ branch \in [TaskIds -> [Vendors -> Branch]]

\* run_extraction_agent, step 8: an evaluation reads all that its own pipeline
\* extracted, whatever failed to be saved and whatever other runs on the same setup
\* do meanwhile; only the deletion of this very run may take custom facts away.
OwnFactsAreEvaluated ==
  [][\A t \in TaskIds, v \in Vendors :
       (branch[t][v].pc = "evaluate" /\ branch'[t][v].pc = "scoring") =>
          \A f \in RowsOf(t, v, branch[t][v].kept) :
             \/ f \in VendorFacts(t, v)
             \/ f.kind = "custom" /\ status[runOf[t]] = "deleted"]_factVars

\* run_extraction_agent, extraction_per_vendor: an attempt the critic refused leaves
\* no facts behind, so retries never mix two attempts of one pipeline.
OnlyAcceptedFactsAreStored ==
  \A f \in stored : LET b == branch[f.task][f.vendor] IN
    b.pc # "extract" /\ f.try = b.tries /\ f.kind \in b.kept

\* delete_run: facts disappear only when the run that extracted them is deleted, not
\* with another run on the same setup.
FactsLostOnlyWithTheirRun ==
  [][\A f \in stored \ stored' : status'[runOf[f.task]] = "deleted"]_factVars

============================================================================
