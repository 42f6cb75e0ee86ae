-------------------------- MODULE EvaluationGraph --------------------------
(***************************************************************************)
(* One execution of the LangGraph evaluation pipeline (app/pipeline) inside *)
(* _run_pipeline (app/api/_evaluation/pipeline.py).                         *)
(*                                                                         *)
(* A graph node is the pair <<stage, phase>>.  The four fan-out stages run  *)
(* one branch per vendor between "start" and "done"; LangGraph applies the  *)
(* branches' state updates together when the last one has returned.  LLM    *)
(* answers, critic flags and database faults are nondeterministic.          *)
(***************************************************************************)
EXTENDS Integers, FiniteSets

CONSTANTS Vendors,         \* state["vendor_ids"]
          MaxSlots,        \* MAX_VENDOR_CONCURRENCY
          MaxRetries,      \* generation_critic_max_retries
          MaxExplRetries,  \* _EXPLANATION_MAX_RETRIES
          DbFaults         \* may a PostgreSQL statement of the run fail?

\* The planner's critic blocks a run without vendors, so none reaches a fan-out.
ASSUME VendorsAssumption == IsFiniteSet(Vendors) /\ Vendors # {}
\* _read_concurrency_limit: "Never allow 0".
ASSUME SlotsAssumption == MaxSlots \in Nat \ {0}
ASSUME RetriesAssumption == MaxRetries \in Nat /\ MaxExplRetries \in Nat
ASSUME FaultsAssumption == DbFaults \in BOOLEAN

VARIABLES
  stage, phase,          \* the node about to run
  branch, result, tries, \* per-vendor branch of the running fan-out
  preExtracted,          \* vendors for which facts_already_extracted() holds
  retrieved, extracted, evaluated,   \* keys of the *_output_objects dicts
  failed,                \* failed_vendors, one record per appended entry
  metrics,               \* critic_metrics_accum
  narratives,            \* vendor_narratives_accum, keyed by vendor and attempt
  comparison, decision, report,      \* the single-writer outputs
  explRetries, blocked,
  row                    \* the columns of evaluation_runs the run writes

branchVars == <<branch, result, tries>>
outputVars == <<retrieved, extracted, evaluated, failed, metrics, narratives>>
verdictVars == <<comparison, decision, report, explRetries>>
vars == <<stage, phase, branchVars, preExtracted, outputVars, verdictVars,
          blocked, row>>

FanOutStages == {"retrieval", "extraction", "evaluation", "explanation"}
CriticStages == {"extraction", "evaluation"}
Stages == FanOutStages \cup {"planner", "ingestion", "comparator", "decision"}
Qualities == {"grounded", "partial", "ungrounded"}
Attempts == 1 .. (MaxExplRetries + 1)

NextStage == [planner    |-> "ingestion",  ingestion  |-> "retrieval",
              retrieval  |-> "extraction", extraction |-> "evaluation",
              evaluation |-> "comparator", comparator |-> "decision",
              decision   |-> "explanation"]

Narrative == [vendor : Vendors, attempt : Attempts, quality : Qualities]
Failure   == [vendor : Vendors, stage : FanOutStages, attempt : Attempts]
Metric    == [blocks : 0 .. (MaxRetries + 1), retries : 0 .. MaxRetries,
              recovered : BOOLEAN, exhausted : BOOLEAN, ran : BOOLEAN]
NoMetric  == [blocks |-> 0, retries |-> 0, recovered |-> FALSE,
              exhausted |-> FALSE, ran |-> FALSE]
NoComparison == [made |-> FALSE, ranking |-> {}]
NoDecision   == [made |-> FALSE, shortlisted |-> {}, rejected |-> {}]
NoReport     == [made |-> FALSE, narratives |-> {}, limitations |-> {}]

----------------------------------------------------------------------------
(* The critic.  A flag is its severity and whether its recommendation says  *)
(* "escalate"; soft flags never change the routing and are left out.        *)

\* _verdict: one escalating HARD flag turns the whole verdict into ESCALATED.
Verdict(flags) == IF \E f \in flags : f.escalate THEN "escalated"
                  ELSE IF flags # {} THEN "blocked" ELSE "approved"

\* critic_after_comparator
ComparatorFlags(ranking) ==
  {f \in {[check |-> "empty_ranking", escalate |-> FALSE]} : ranking = {}} \cup
  {f \in {[check |-> "vendors_missing_from_ranking", escalate |-> TRUE]} :
      Vendors \ ranking # {}}

\* critic_after_decision.  _build_rejection_notice falls back on the reasons,
\* so rejection_without_evidence cannot be raised by the decision agent.
DecisionFlags(shortlisted, rejected) ==
  {f \in {[check |-> "all_vendors_rejected", escalate |-> TRUE]} :
      shortlisted = {} /\ rejected # {}}

\* critic_after_explanation: an ungrounded narrative is a HARD flag by itself;
\* partly grounded ones may pull grounding_completeness below the threshold.
ExplanationVerdicts(rep) ==
  IF \E n \in rep.narratives : n.quality = "ungrounded" THEN {"blocked"}
  ELSE IF \E n \in rep.narratives : n.quality = "partial"
       THEN {"blocked", "approved"} ELSE {"approved"}

----------------------------------------------------------------------------
Init ==
  /\ stage = "planner" /\ phase = "start"
  /\ branch = [v \in Vendors |-> "idle"]
  /\ result = [v \in Vendors |-> "none"]
  /\ tries = [v \in Vendors |-> 0]
  /\ preExtracted \in SUBSET Vendors
  /\ retrieved = {} /\ extracted = {} /\ evaluated = {}
  /\ failed = {} /\ narratives = {}
  /\ metrics = [v \in Vendors |-> [s \in CriticStages |-> NoMetric]]
  /\ comparison = NoComparison /\ decision = NoDecision /\ report = NoReport
  /\ explRetries = 0 /\ blocked = FALSE
  /\ row = [status |-> "running", decision |-> FALSE, explanation |-> FALSE]

\* A statement either takes effect or, when the database may fail, does not.
MayWrite(newRow) == row' \in {newRow} \cup {r \in {row} : DbFaults}

\* _block_update followed by _route_after: mark the run blocked, go to END.
BlockUpdate == /\ blocked' = TRUE
               /\ MayWrite([row EXCEPT !.status = "blocked"])

BlockAndEnd == /\ BlockUpdate
               /\ stage' = "end"
               /\ UNCHANGED <<phase, branchVars, preExtracted, outputVars, verdictVars>>

Continue == /\ stage' = NextStage[stage]
            /\ phase' = "start"

----------------------------------------------------------------------------
(* The nodes before the fan-outs. *)

\* planner_node
Planner ==
  /\ stage = "planner"
  /\ \/ /\ Continue
        /\ UNCHANGED <<branchVars, preExtracted, outputVars, verdictVars, blocked, row>>
     \/ BlockAndEnd

\* ingestion_node: nothing to ingest, and nothing that can block, when every
\* vendor's facts are there already.  That query is outside the try block.
Ingestion ==
  /\ stage = "ingestion"
  /\ \/ /\ Continue
        /\ UNCHANGED <<branchVars, preExtracted, outputVars, verdictVars, blocked, row>>
     \/ preExtracted # Vendors /\ BlockAndEnd
     \/ /\ DbFaults
        /\ stage' = "raised"
        /\ UNCHANGED <<phase, branchVars, preExtracted, outputVars, verdictVars,
                       blocked, row>>

----------------------------------------------------------------------------
(* Fan-out, branches and the join. *)

\* *_start and _fan_out: one Send per vendor.
FanOut ==
  /\ stage \in FanOutStages /\ phase = "start"
  /\ phase' = "vendors"
  /\ branch' = [v \in Vendors |-> "waiting"]
  /\ result' = [v \in Vendors |-> "none"]
  /\ tries' = [v \in Vendors |-> 0]
  /\ UNCHANGED <<stage, preExtracted, outputVars, verdictVars, blocked, row>>

\* Plausible bug: evaluation takes any vendor that was retrieved.
HasInputBug(v) == \/ stage = "retrieval"
                  \/ stage \in {"extraction", "evaluation"} /\ v \in retrieved
                  \/ stage = "explanation" /\ v \in evaluated

\* The upstream output each *_per_vendor node looks for.
HasInput(v) == \/ stage = "retrieval"
               \/ stage = "extraction"  /\ v \in retrieved
               \/ stage = "evaluation"  /\ v \in extracted
               \/ stage = "explanation" /\ v \in evaluated

Skips(v) == stage = "extraction" /\ v \in preExtracted

Return(v, r) == /\ branch' = [branch EXCEPT ![v] = "returned"]
                /\ result' = [result EXCEPT ![v] = r]

graphUnchanged == <<stage, phase, preExtracted, outputVars, verdictVars, blocked, row>>

\* extraction_per_vendor finds the facts in PostgreSQL and returns {}.
SkipExtraction(v) ==
  /\ phase = "vendors" /\ branch[v] = "waiting" /\ Skips(v)
  /\ Return(v, "skipped")
  /\ UNCHANGED <<tries, graphUnchanged>>

\* Nothing came from the stage before: a failed_vendors entry, no attempt.
NoInput(v) ==
  /\ phase = "vendors" /\ branch[v] = "waiting" /\ ~Skips(v) /\ ~HasInput(v)
  /\ Return(v, "no_input")
  /\ UNCHANGED <<tries, graphUnchanged>>

\* vendor_slot: the module-level semaphore.
SlotFree == Cardinality({v \in Vendors : branch[v] = "working"}) < MaxSlots

AcquireSlot(v) ==
  /\ phase = "vendors" /\ branch[v] = "waiting" /\ ~Skips(v) /\ HasInput(v)
  /\ SlotFree
  /\ branch' = [branch EXCEPT ![v] = "working"]
  /\ UNCHANGED <<result, tries, graphUnchanged>>

\* The agent answers and its critic does not block.
Succeed(v) ==
  /\ branch[v] = "working"
  /\ \E r \in IF stage = "explanation" THEN Qualities ELSE {"output"} : Return(v, r)
  /\ UNCHANGED <<tries, graphUnchanged>>

\* The agent raises: the branch becomes a failed_vendors entry at once.
Crash(v) ==
  /\ branch[v] = "working"
  /\ Return(v, "failed")
  /\ UNCHANGED <<tries, graphUnchanged>>

RetriesLeft(v) == tries[v] < MaxRetries

\* Plausible bug: an attempt that is blocked does not count as one.
HardBlockBug(v) ==
  /\ branch[v] = "working" /\ stage \in CriticStages
  /\ branch' = [branch EXCEPT ![v] = "waiting"]
  /\ UNCHANGED <<result, tries, graphUnchanged>>

\* run_with_critic_retry: a HARD verdict gives the slot back and tries again
\* with feedback, until the retries are used up.
HardBlock(v) ==
  /\ branch[v] = "working" /\ stage \in CriticStages
  /\ tries' = [tries EXCEPT ![v] = @ + 1]
  /\ \/ /\ RetriesLeft(v)
        /\ branch' = [branch EXCEPT ![v] = "waiting"]
        /\ UNCHANGED result
     \/ /\ ~RetriesLeft(v)
        /\ Return(v, "failed")
  /\ UNCHANGED graphUnchanged

\* extraction_per_vendor asks for the facts outside any try block: a failing
\* query raises out of the graph, and LangGraph cancels the other branches.
LookupRaises(v) ==
  /\ DbFaults
  /\ phase = "vendors" /\ stage = "extraction"
  /\ branch[v] = "waiting" /\ tries[v] = 0
  /\ stage' = "raised"
  /\ branch' = [w \in Vendors |-> "idle"]
  /\ result' = [w \in Vendors |-> "none"]
  /\ UNCHANGED <<phase, tries, preExtracted, outputVars, verdictVars, blocked, row>>

BranchStep(v) == \/ SkipExtraction(v) \/ NoInput(v) \/ AcquireSlot(v)
                 \/ Succeed(v) \/ Crash(v) \/ HardBlock(v) \/ LookupRaises(v)

\* The vendors whose branch of stage s returned the output r.
Returned(s, r) == {v \in Vendors : stage = s /\ result[v] = r}

Lost(v) == result[v] \in {"failed", "no_input"}

\* _metric; a vendor without input, or skipped, never enters the retry engine.
MetricOf(v) == IF result[v] \in {"output", "failed"}
               THEN [blocks    |-> tries[v],
                     retries   |-> IF tries[v] > MaxRetries THEN MaxRetries ELSE tries[v],
                     recovered |-> result[v] = "output" /\ tries[v] > 0,
                     exhausted |-> result[v] = "failed",
                     ran       |-> TRUE]
               ELSE NoMetric

\* _merge_critic_metrics: one level deep.
MergeMetrics(m) ==
  [v \in Vendors |-> [s \in CriticStages |-> IF s = stage THEN MetricOf(v) ELSE m[v][s]]]

\* Plausible bug: a vendor that failed upstream is not reported again.
FailuresBug == {[vendor |-> v, stage |-> stage, attempt |-> explRetries + 1] :
                   v \in {w \in Vendors : result[w] = "failed"}}

\* The failed_vendors entries the branches return (attempt is 1 before the report).
Failures == {[vendor |-> v, stage |-> stage, attempt |-> explRetries + 1] :
                v \in {w \in Vendors : Lost(w)}}

\* vendor_narratives_accum["{vid}@attempt{n}"]
NewNarratives == {[vendor |-> v, attempt |-> explRetries + 1, quality |-> result[v]] :
                     v \in {w \in Vendors : stage = "explanation" /\ result[w] \in Qualities}}

\* Plausible bug: the stage goes on when the first branch has returned.
AllReturnedBug == \E v \in Vendors : branch[v] = "returned"

AllReturned == \A v \in Vendors : branch[v] = "returned"

\* The join: the reducers apply all branches' updates.
Join ==
  /\ phase = "vendors" /\ AllReturned
  /\ phase' = "done"
  /\ retrieved' = retrieved \cup Returned("retrieval", "output")
  /\ extracted' = extracted \cup Returned("extraction", "output")
  /\ evaluated' = evaluated \cup Returned("evaluation", "output")
  /\ failed' = failed \cup Failures
  /\ metrics' = IF stage \in CriticStages THEN MergeMetrics(metrics) ELSE metrics
  /\ narratives' = narratives \cup NewNarratives
  /\ branch' = [v \in Vendors |-> "idle"]
  /\ result' = [v \in Vendors |-> "none"]
  /\ tries' = [v \in Vendors |-> 0]
  /\ UNCHANGED <<stage, preExtracted, verdictVars, blocked, row>>

\* retrieval_done, extraction_done, evaluation_done only emit.
StageDone ==
  /\ phase = "done" /\ stage \in FanOutStages \ {"explanation"}
  /\ Continue
  /\ UNCHANGED <<branchVars, preExtracted, outputVars, verdictVars, blocked, row>>

----------------------------------------------------------------------------
(* The cross-vendor nodes. *)

\* Plausible bug: vendors without an evaluation are ranked last.
RankedBug == Vendors

\* overall_ranking: only vendors with an evaluation, their order left out.
Ranked == evaluated

\* comparator_node
Comparator ==
  /\ stage = "comparator"
  /\ \/ /\ Verdict(ComparatorFlags(Ranked)) # "blocked"
        /\ comparison' = [made |-> TRUE, ranking |-> Ranked]
        /\ Continue
        /\ UNCHANGED <<branchVars, preExtracted, outputVars, decision, report,
                       explRetries, blocked, row>>
     \/ BlockAndEnd

\* decision_node: which vendors fail a mandatory check is the agents' finding.
Decision ==
  /\ stage = "decision"
  /\ \/ \E rejected \in SUBSET evaluated :
          /\ Verdict(DecisionFlags(evaluated \ rejected, rejected)) # "blocked"
          /\ decision' = [made |-> TRUE, shortlisted |-> evaluated \ rejected,
                          rejected |-> rejected]
          /\ Continue
          /\ UNCHANGED <<branchVars, preExtracted, outputVars, comparison, report,
                         explRetries, blocked, row>>
     \/ BlockAndEnd

\* The highest attempt per vendor, whichever attempt is current.
Latest == {n \in narratives :
             \A m \in narratives : m.vendor = n.vendor => m.attempt <= n.attempt}

\* The ExplanationOutput that explanation_finalise stitches.
ReportOf == [made |-> TRUE,
             narratives |-> Latest,
             limitations |-> {f \in failed : f.stage = "explanation"}]

\* explanation_finalise; a crash of the aggregation blocks the run, and the
\* edge to explanation_critic is taken all the same.
Finalise ==
  /\ stage = "explanation" /\ phase = "done"
  /\ phase' = "critic"
  /\ \/ report' = ReportOf /\ UNCHANGED <<blocked, row>>
     \/ BlockUpdate /\ UNCHANGED report
  /\ UNCHANGED <<stage, branchVars, preExtracted, outputVars, comparison, decision,
                 explRetries>>

CriticNoReport ==
  /\ stage = "explanation" /\ phase = "critic" /\ ~report.made
  /\ blocked' = TRUE
  /\ stage' = "end"
  /\ UNCHANGED <<phase, branchVars, preExtracted, outputVars, verdictVars, row>>

CriticApproves ==
  /\ stage = "explanation" /\ phase = "critic" /\ report.made
  /\ "approved" \in ExplanationVerdicts(report)
  /\ stage' = "end"
  /\ UNCHANGED <<phase, branchVars, preExtracted, outputVars, verdictVars, blocked, row>>

\* Plausible bug: a retry goes back to the evaluation of the vendors.
RetryStageBug == "evaluation"

NextRetry == explRetries + 1

\* _route_after_explanation_critic: "retry" is explanation_start.
RetryStage == "explanation"

CriticRetries ==
  /\ stage = "explanation" /\ phase = "critic" /\ report.made
  /\ "blocked" \in ExplanationVerdicts(report)
  /\ explRetries < MaxExplRetries
  /\ explRetries' = NextRetry
  /\ report' = NoReport
  /\ stage' = RetryStage /\ phase' = "start"
  /\ UNCHANGED <<branchVars, preExtracted, outputVars, comparison, decision, blocked, row>>

\* The retries are used up.  Unlike _block_update, nothing is written to the row.
CriticExhausted ==
  /\ stage = "explanation" /\ phase = "critic" /\ report.made
  /\ "blocked" \in ExplanationVerdicts(report)
  /\ explRetries >= MaxExplRetries
  /\ blocked' = TRUE
  /\ stage' = "end"
  /\ UNCHANGED <<phase, branchVars, preExtracted, outputVars, verdictVars, row>>

----------------------------------------------------------------------------
(* _run_pipeline around the graph. *)

graphVars == <<phase, branchVars, preExtracted, outputVars, verdictVars, blocked>>

\* The graph raised: the except branch marks the run blocked.
PipelineExcept ==
  /\ stage = "raised"
  /\ stage' = "closed"
  /\ MayWrite([row EXCEPT !.status = "blocked"])
  /\ UNCHANGED graphVars

\* Plausible bug: the blocked flag of the final state is not looked at.
EndedBlockedBug == FALSE

EndedBlocked == blocked

PipelineBlocked ==
  /\ stage = "end" /\ EndedBlocked
  /\ stage' = "closed"
  /\ UNCHANGED <<graphVars, row>>

\* The success path writes the decision (and with it status 'complete'), the
\* explanation as best effort, then the final event and the status.
PipelineCompletes ==
  /\ stage = "end" /\ ~EndedBlocked
  /\ stage' = "closed"
  /\ \E saved \in {TRUE, ~DbFaults} :
       row' = [status |-> "complete", decision |-> TRUE, explanation |-> saved]
  /\ UNCHANGED graphVars

\* One of its statements fails: the decision may or may not be saved by then.
PipelineTailRaises ==
  /\ DbFaults
  /\ stage = "end" /\ ~EndedBlocked
  /\ stage' = "closed"
  /\ \E rest \in {[decision |-> FALSE, explanation |-> FALSE]} \cup
                 [decision : {TRUE}, explanation : BOOLEAN],
        status \in {"blocked", "unwritten"} :
       row' = [status |-> IF status = "blocked" THEN "blocked"
                          ELSE IF rest.decision THEN "complete" ELSE row.status,
               decision |-> rest.decision, explanation |-> rest.explanation]
  /\ UNCHANGED graphVars

Next == \/ Planner \/ Ingestion \/ FanOut
        \/ \E v \in Vendors : BranchStep(v)
        \/ Join \/ StageDone \/ Comparator \/ Decision \/ Finalise
        \/ CriticNoReport \/ CriticApproves \/ CriticRetries \/ CriticExhausted
        \/ PipelineExcept \/ PipelineBlocked \/ PipelineCompletes \/ PipelineTailRaises

\* Every agent call returns or raises, and the event loop goes on.
Fairness == WF_vars(Next)

Spec == Init /\ [][Next]_vars /\ Fairness

----------------------------------------------------------------------------
(* Properties *)

\* Shapes of all variables.
TypeOK ==
  /\ stage \in Stages \cup {"end", "raised", "closed"}
  /\ phase \in {"start", "vendors", "done", "critic"}
  /\ branch \in [Vendors -> {"idle", "waiting", "working", "returned"}]
  /\ result \in [Vendors -> {"none", "output", "skipped", "no_input", "failed"} \cup Qualities]
  /\ tries \in [Vendors -> 0 .. (MaxRetries + 1)]
  /\ preExtracted \in SUBSET Vendors
  /\ retrieved \in SUBSET Vendors
  /\ extracted \in SUBSET Vendors
  /\ evaluated \in SUBSET Vendors
  /\ failed \in SUBSET Failure
  /\ metrics \in [Vendors -> [CriticStages -> Metric]]
  /\ narratives \in SUBSET Narrative
  /\ comparison \in [made : BOOLEAN, ranking : SUBSET Vendors]
  /\ decision \in [made : BOOLEAN, shortlisted : SUBSET Vendors, rejected : SUBSET Vendors]
  /\ report \in [made : BOOLEAN, narratives : SUBSET Narrative, limitations : SUBSET Failure]
  /\ explRetries \in 0 .. MaxExplRetries
  /\ blocked \in BOOLEAN
  /\ row \in [status : {"running", "blocked", "complete"}, decision : BOOLEAN,
              explanation : BOOLEAN]

FailedAt(v, s) == \E f \in failed : f.vendor = v /\ f.stage = s

PastEvaluation == stage \in {"comparator", "decision", "explanation"}

\* nodes.py, per-vendor nodes: once the evaluation stage is over, every vendor
\* is either scored or on record as having failed it, never both and never
\* neither, whatever happened to it in the stages before.
EveryVendorAccountedFor ==
  PastEvaluation => \A v \in Vendors : v \in evaluated <=> ~FailedAt(v, "evaluation")

\* nodes.py: a score rests on facts extracted in this run, the facts on chunks
\* retrieved in this run, and a narrative on a score.
ScoresRestOnFacts == /\ extracted \subseteq retrieved
                     /\ evaluated \subseteq extracted
                     /\ \A n \in narratives : n.vendor \in evaluated

\* comparator_node, decision_node: the ranking, and the split into shortlisted
\* and rejected, cover exactly the scored vendors, also after report retries.
DecisionCoversScores ==
  /\ comparison.made => comparison.ranking = evaluated
  /\ decision.made => /\ comparison.made
                      /\ decision.shortlisted \cup decision.rejected = evaluated
                      /\ decision.shortlisted \cap decision.rejected = {}

\* explanation_finalise: every vendor of the run is narrated or listed in the
\* limitations, over all attempts of the retry loop.
ReportAccountsForEveryVendor ==
  report.made => \A v \in Vendors : \/ \E n \in report.narratives : n.vendor = v
                                    \/ \E f \in report.limitations : f.vendor = v

\* explanation_finalise's comment: a narrative of an earlier attempt survives
\* only where the vendor's later attempts all crashed.
OldNarrativeOnlyAfterCrash ==
  report.made => \A n \in report.narratives : \A a \in (n.attempt + 1) .. (explRetries + 1) :
                    [vendor |-> n.vendor, stage |-> "explanation", attempt |-> a]
                      \in report.limitations

\* explanation_critic and _run_pipeline: a run that is stored as complete has its
\* decision stored, and if a report was stored too, it is one that the critic let
\* pass: no ungrounded narrative, even one kept from an earlier attempt.
CompleteMeansSound ==
  row.status = "complete" =>
    /\ row.decision /\ decision.made /\ ~blocked
    /\ row.explanation => \A n \in report.narratives : n.quality # "ungrounded"

\* critic_retry.py: the telemetry of a vendor and stage tells what became of it and how many
\* attempts that took, and the extraction bucket survives the evaluation stage.
TelemetryTruthful ==
  \A v \in Vendors, s \in CriticStages :
    LET m == metrics[v][s] IN
      /\ m.recovered => m.blocks \in 1 .. MaxRetries /\ m.retries = m.blocks /\ ~m.exhausted
      /\ m.blocks > MaxRetries => m.exhausted
      /\ m.exhausted => FailedAt(v, s)
      /\ (m.ran /\ ~m.exhausted) <=> v \in IF s = "extraction" THEN extracted ELSE evaluated

\* What the run leaves to its readers, the report and the telemetry, tells what became
\* of each vendor, over all attempts of both retry loops.
RecordsAreTruthful == /\ ReportAccountsForEveryVendor
                      /\ OldNarrativeOnlyAfterCrash
                      /\ TelemetryTruthful

\* vendor_slot, run_with_critic_retry: no branch is starved of a slot by the retries of the
\* others: one that waits, at first or again after a HARD verdict, returns in the end, or the
\* graph raises and every branch is cancelled.
NoBranchStarves ==
  \A v \in Vendors : branch[v] = "waiting" ~> branch[v] \in {"returned", "idle"}

\* graph.py: the retry loop re-enters the explanation stage only; what was scored,
\* ranked and decided never changes once the decision is made.
RetryNeverReopensDecision ==
  [][decision.made => UNCHANGED <<retrieved, extracted, evaluated, comparison, decision>>]_vars

----------------------------------------------------------------------------
(* VendorFates, the promise this pipeline implements. *)

\* A branch of the evaluation stage that has returned has settled its vendor,
\* before the join makes it visible.
FateOf(v) ==
  IF stage = "evaluation" /\ branch[v] = "returned"
  THEN IF result[v] = "output" THEN "scored" ELSE "lost"
  ELSE IF v \in evaluated THEN "scored"
  ELSE IF FailedAt(v, "evaluation") THEN "lost" ELSE "pending"

OutcomeOf ==
  IF stage = "raised" \/ blocked \/ (stage = "closed" /\ ~decision.made) THEN "aborted"
  ELSE IF stage \in {"end", "closed"} THEN "reported"
  ELSE IF decision.made THEN "decided" ELSE "open"

Fates == INSTANCE VendorFates WITH
  fate <- [v \in Vendors |-> FateOf(v)],
  outcome <- OutcomeOf,
  narrated <- IF OutcomeOf = "reported" THEN {n.vendor : n \in report.narratives} ELSE {}

\* Each vendor settles once, alone; the decision waits for all of them; the report
\* speaks of scored vendors only; the run ends, whatever agents, critics and database do.
ImplementsVendorFates == Fates!Spec

============================================================================
