----------------------- MODULE EvaluationGraph_proofs -----------------------
(***************************************************************************)
(* Theorems about EvaluationGraph: type correctness and safety for every    *)
(* set of vendors and every limit.  IInv is the inductive invariant they    *)
(* share; each of its conjuncts is shown to be preserved by a lemma of its  *)
(* own, with one step per action.                                           *)
(***************************************************************************)
EXTENDS EvaluationGraph, FiniteSetTheorems, TLAPS

Quiet == \A v \in Vendors : branch[v] = "idle" /\ result[v] = "none"

\* Branches exist only between the fan-out and the join of a fan-out stage.
Shape == /\ Quiet \/ (phase = "vendors" /\ stage \in FanOutStages)
         /\ stage \in Stages \ FanOutStages => phase = "start"
         /\ stage \in FanOutStages \ {"explanation"} => phase # "critic"

\* What a branch may hold, given where it is.
BranchOK ==
  \A v \in Vendors :
    /\ branch[v] \in {"waiting", "working"} => tries[v] <= MaxRetries
    /\ branch[v] = "working" => HasInput(v)
    /\ branch[v] = "returned" <=> result[v] # "none"
    /\ result[v] = "output" => stage # "explanation" /\ HasInput(v) /\ tries[v] <= MaxRetries
    /\ result[v] \in Qualities => stage = "explanation" /\ HasInput(v)
    /\ result[v] = "skipped" => stage = "extraction"

\* Before the join of the evaluation stage no vendor has a fate, after it each.
FateOK ==
  /\ stage \in {"planner", "ingestion", "retrieval", "extraction"} \/
     (stage = "evaluation" /\ phase # "done")
       => evaluated = {} /\ \A v \in Vendors : ~FailedAt(v, "evaluation")
  /\ stage = "evaluation" /\ phase = "done"
       => \A v \in Vendors : v \in evaluated <=> ~FailedAt(v, "evaluation")
  /\ EveryVendorAccountedFor

\* When the ranking and the decision exist, and what a finished graph carries.
CommitOK ==
  /\ comparison.made => stage \in {"decision", "explanation", "end", "closed"}
  /\ decision.made => stage \in {"explanation", "end", "closed"}
  /\ stage = "decision" => comparison.made
  /\ stage = "explanation" => decision.made
  /\ DecisionCoversScores

EndOK ==
  /\ row.status = "complete" => stage = "closed"
  /\ blocked => stage \in {"explanation", "end", "closed"}
  /\ stage = "explanation" /\ blocked => phase = "critic" /\ ~report.made
  /\ report.made => stage \in {"end", "closed"} \/ (stage = "explanation" /\ phase = "critic")
  /\ stage = "end" /\ ~blocked =>
       decision.made /\ \A n \in report.narratives : n.quality # "ungrounded"
  /\ CompleteMeansSound

\* The telemetry of a stage is written once, by its join; no vendor has facts before.
TelemetryOK ==
  /\ stage \in {"planner", "ingestion", "retrieval"} \/ (stage = "extraction" /\ phase # "done")
       => extracted = {}
  /\ TelemetryTruthful

\* The attempts at a report whose branches have been joined, while the stage lasts.
Rounds == IF stage = "explanation" /\ phase \in {"done", "critic"}
          THEN explRetries + 1 ELSE explRetries

Narrated(v, a) == \E n \in narratives : n.vendor = v /\ n.attempt = a

CrashedAt(v, a) == [vendor |-> v, stage |-> "explanation", attempt |-> a] \in failed

\* Each round so far has left a narrative or a failure of each vendor, later ones nothing;
\* a report sums up the rounds until the critic sends it back.
RoundsOK ==
  /\ stage \in Stages \ {"explanation"} => explRetries = 0 /\ narratives = {}
  /\ stage = "explanation" =>
       /\ \A n \in narratives : n.attempt <= Rounds
       /\ \A v \in Vendors, a \in 1 .. Rounds : Narrated(v, a) \/ CrashedAt(v, a)
  /\ ReportAccountsForEveryVendor
  /\ OldNarrativeOnlyAfterCrash
  /\ \A n \in report.narratives : n.vendor \in evaluated

IInv == /\ TypeOK /\ Shape /\ BranchOK /\ ScoresRestOnFacts
        /\ FateOK /\ CommitOK /\ EndOK /\ TelemetryOK /\ RoundsOK
----------------------------------------------------------------------------
(* Type correctness *)

\* The metric of a vendor that never ran is a metric.
LEMMA NoMetricType == NoMetric \in Metric
BY RetriesAssumption DEF NoMetric, Metric

\* TypeOK holds when _run_pipeline enters the graph.
LEMMA TypeOKInit == Init => TypeOK
<1> SUFFICES ASSUME Init PROVE TypeOK
  OBVIOUS
<1>1. tries \in [Vendors -> 0 .. (MaxRetries + 1)] /\ explRetries \in 0 .. MaxExplRetries
  BY RetriesAssumption DEF Init
<1>2. metrics \in [Vendors -> [CriticStages -> Metric]]
  BY NoMetricType DEF Init
<1>3. /\ comparison \in [made : BOOLEAN, ranking : SUBSET Vendors]
      /\ decision \in [made : BOOLEAN, shortlisted : SUBSET Vendors, rejected : SUBSET Vendors]
      /\ report \in [made : BOOLEAN, narratives : SUBSET Narrative, limitations : SUBSET Failure]
  BY DEF Init, NoComparison, NoDecision, NoReport
<1> QED
  BY <1>1, <1>2, <1>3 DEF Init, TypeOK, Stages

\* Every node, branch and except path keeps the types.
LEMMA TypeOKStep ==
  ASSUME TypeOK, Shape, BranchOK, [Next]_vars
  PROVE  TypeOK'
<1> USE RetriesAssumption DEF TypeOK, branchVars, outputVars, verdictVars, graphUnchanged, graphVars
<1> USE DEF Stages, FanOutStages, Qualities
<1>1. CASE Planner
  BY <1>1, ZenonT(30) DEF Planner, BlockAndEnd, BlockUpdate, MayWrite, Continue, NextStage
<1>2. CASE Ingestion
  BY <1>2, ZenonT(30) DEF Ingestion, BlockAndEnd, BlockUpdate, MayWrite, Continue, NextStage
<1>3. CASE FanOut
  BY <1>3 DEF FanOut
<1>4. ASSUME NEW v \in Vendors, BranchStep(v) PROVE TypeOK'
  <2>1. CASE SkipExtraction(v)  BY <2>1 DEF SkipExtraction, Return
  <2>2. CASE NoInput(v)         BY <2>2 DEF NoInput, Return
  <2>3. CASE AcquireSlot(v)     BY <2>3 DEF AcquireSlot
  <2>4. CASE Succeed(v)         BY <2>4 DEF Succeed, Return
  <2>5. CASE Crash(v)           BY <2>5 DEF Crash, Return
  <2>6. CASE HardBlock(v)
    <3>1. tries[v] + 1 \in 0 .. (MaxRetries + 1)
      BY <2>6 DEF HardBlock, BranchOK
    <3>2. /\ tries' \in [Vendors -> 0 .. (MaxRetries + 1)]
          /\ branch' \in [Vendors -> {"idle", "waiting", "working", "returned"}]
          /\ result' \in [Vendors -> {"none", "output", "skipped", "no_input", "failed"}
                                        \cup Qualities]
      BY <2>6, <3>1 DEF HardBlock, Return
    <3> QED BY <2>6, <3>2 DEF HardBlock
  <2>7. CASE LookupRaises(v)    BY <2>7 DEF LookupRaises
  <2> QED BY <1>4, <2>1, <2>2, <2>3, <2>4, <2>5, <2>6, <2>7 DEF BranchStep
<1>5. CASE Join
  <2>1. stage \in FanOutStages
    BY <1>5, VendorsAssumption DEF Join, AllReturned, Shape, Quiet
  <2>2. explRetries + 1 \in Attempts
    BY DEF Attempts
  <2>3. Failures \subseteq Failure
    BY <2>1, <2>2 DEF Failures, Failure
  <2>4. NewNarratives \subseteq Narrative
    BY <2>2 DEF NewNarratives, Narrative
  <2>5. metrics' \in [Vendors -> [CriticStages -> Metric]]
    <3>1. ASSUME NEW v \in Vendors PROVE MetricOf(v) \in Metric
      <4>1. tries[v] \in 0 .. (MaxRetries + 1)
        OBVIOUS
      <4> QED BY <4>1, NoMetricType DEF MetricOf, Metric
    <3> QED BY <1>5, <3>1 DEF Join, MergeMetrics
  <2>6. /\ tries' \in [Vendors -> 0 .. (MaxRetries + 1)]
        /\ branch' \in [Vendors -> {"idle", "waiting", "working", "returned"}]
        /\ result' \in [Vendors -> {"none", "output", "skipped", "no_input", "failed"}
                                      \cup Qualities]
    BY <1>5 DEF Join
  <2>7. /\ retrieved' \in SUBSET Vendors /\ extracted' \in SUBSET Vendors
        /\ evaluated' \in SUBSET Vendors
    BY <1>5 DEF Join, Returned
  <2> QED
    BY <1>5, <2>3, <2>4, <2>5, <2>6, <2>7 DEF Join
<1>6. CASE StageDone
  BY <1>6 DEF StageDone, Continue, NextStage
<1>7. CASE Comparator
  <2>1. CASE BlockAndEnd
    BY <2>1 DEF BlockAndEnd, BlockUpdate, MayWrite
  <2>2. CASE /\ comparison' = [made |-> TRUE, ranking |-> Ranked]
             /\ Continue
             /\ UNCHANGED <<branchVars, preExtracted, outputVars, decision, report,
                            explRetries, blocked, row>>
    <3>1. comparison' \in [made : BOOLEAN, ranking : SUBSET Vendors]
      BY <2>2 DEF Ranked
    <3> QED BY <1>7, <2>2, <3>1 DEF Comparator, Continue, NextStage
  <2> QED BY <1>7, <2>1, <2>2 DEF Comparator
<1>8. CASE Decision
  <2>1. CASE BlockAndEnd
    BY <2>1 DEF BlockAndEnd, BlockUpdate, MayWrite
  <2>2. ASSUME NEW rejected \in SUBSET evaluated,
               decision' = [made |-> TRUE, shortlisted |-> evaluated \ rejected,
                            rejected |-> rejected],
               Continue,
               UNCHANGED <<branchVars, preExtracted, outputVars, comparison, report,
                           explRetries, blocked, row>>
        PROVE  TypeOK'
    <3>1. decision' \in [made : BOOLEAN, shortlisted : SUBSET Vendors,
                         rejected : SUBSET Vendors]
      BY <2>2
    <3> QED BY <1>8, <2>2, <3>1 DEF Decision, Continue, NextStage
  <2> QED BY <1>8, <2>1, <2>2 DEF Decision
<1>9. CASE Finalise
  <2>1. ReportOf \in [made : BOOLEAN, narratives : SUBSET Narrative,
                      limitations : SUBSET Failure]
    BY DEF ReportOf, Latest
  <2>2. row' \in [status : {"running", "blocked", "complete"}, decision : BOOLEAN,
                  explanation : BOOLEAN]
    BY <1>9 DEF Finalise, BlockUpdate, MayWrite
  <2> QED BY <1>9, <2>1, <2>2 DEF Finalise, BlockUpdate
<1>10. CASE CriticNoReport \/ CriticApproves \/ CriticExhausted
  BY <1>10 DEF CriticNoReport, CriticApproves, CriticExhausted
<1>11. CASE CriticRetries
  BY <1>11 DEF CriticRetries, NextRetry, RetryStage, NoReport
<1>12. CASE PipelineExcept
  BY <1>12 DEF PipelineExcept, MayWrite
<1>13. CASE PipelineBlocked \/ PipelineCompletes \/ PipelineTailRaises
  <2>1. row' \in [status : {"running", "blocked", "complete"}, decision : BOOLEAN,
                  explanation : BOOLEAN]
    <3>1. CASE PipelineBlocked    BY <3>1 DEF PipelineBlocked
    <3>2. CASE PipelineCompletes
      <4>1. PICK saved \in {TRUE, ~DbFaults} :
              row' = [status |-> "complete", decision |-> TRUE, explanation |-> saved]
        BY <3>2 DEF PipelineCompletes
      <4>2. saved \in BOOLEAN
        BY Zenon
      <4> QED BY <4>1, <4>2
    <3>3. CASE PipelineTailRaises
      <4>1. PICK rest \in {[decision |-> FALSE, explanation |-> FALSE]} \cup
                           [decision : {TRUE}, explanation : BOOLEAN],
                 status \in {"blocked", "unwritten"} :
              row' = [status |-> IF status = "blocked" THEN "blocked"
                                 ELSE IF rest.decision THEN "complete" ELSE row.status,
                      decision |-> rest.decision, explanation |-> rest.explanation]
        BY <3>3 DEF PipelineTailRaises
      <4>2. rest.decision \in BOOLEAN /\ rest.explanation \in BOOLEAN
        <5>1. CASE rest = [decision |-> FALSE, explanation |-> FALSE]  BY <5>1
        <5>2. CASE rest \in [decision : {TRUE}, explanation : BOOLEAN]  BY <5>2
        <5> QED BY <4>1, <5>1, <5>2
      <4>3. row.status \in {"running", "blocked", "complete"}
        OBVIOUS
      <4>4. (IF status = "blocked" THEN "blocked"
             ELSE IF rest.decision THEN "complete" ELSE row.status)
              \in {"running", "blocked", "complete"}
        BY <4>3
      <4> QED BY <4>1, <4>2, <4>4
    <3> QED BY <1>13, <3>1, <3>2, <3>3
  <2> QED BY <1>13, <2>1, ZenonT(30) DEF PipelineBlocked, PipelineCompletes, PipelineTailRaises
<1>14. CASE UNCHANGED vars
  BY <1>14 DEF vars
<1> QED
  BY <1>1, <1>2, <1>3, <1>4, <1>5, <1>6, <1>7, <1>8, <1>9, <1>10, <1>11, <1>12, <1>13, <1>14
  DEF Next
----------------------------------------------------------------------------
(* The branches *)

\* No action of a branch and no join happens outside a fan-out stage.
LEMMA OnlyInFanOut ==
  ASSUME TypeOK, Shape, NEW v \in Vendors,
         branch[v] # "idle" \/ BranchStep(v) \/ Join
  PROVE  phase = "vendors" /\ stage \in FanOutStages
BY DEF TypeOK, Shape, Quiet, BranchStep, SkipExtraction, NoInput, AcquireSlot, Succeed, Crash,
   HardBlock, LookupRaises, Join, AllReturned

\* Shape: where the graph is, which phase it may be in and which branches may run.
LEMMA ShapeStep ==
  ASSUME TypeOK, Shape, [Next]_vars
  PROVE  Shape'
<1> USE DEF Shape, Quiet, TypeOK, branchVars, outputVars, verdictVars, graphUnchanged, graphVars
<1> USE DEF Stages, FanOutStages
<1>1. CASE Planner \/ Ingestion \/ StageDone \/ Comparator \/ Decision
  BY <1>1, ZenonT(30) DEF Planner, Ingestion, StageDone, Comparator, Decision, BlockAndEnd, Continue, NextStage
<1>2. CASE FanOut
  BY <1>2 DEF FanOut
<1>3. ASSUME NEW v \in Vendors, BranchStep(v) PROVE Shape'
  <2>1. phase = "vendors" /\ stage \in FanOutStages
    BY <1>3, OnlyInFanOut
  <2>2. CASE LookupRaises(v)
    BY <2>1, <2>2 DEF LookupRaises
  <2>3. CASE ~LookupRaises(v)
    BY <1>3, <2>1, <2>3
    DEF BranchStep, SkipExtraction, NoInput, AcquireSlot, Succeed, Crash, HardBlock
  <2> QED BY <2>2, <2>3
<1>4. CASE Join
  BY <1>4, VendorsAssumption, OnlyInFanOut DEF Join
<1>5. CASE Finalise
  BY <1>5 DEF Finalise
<1>6. CASE CriticNoReport \/ CriticApproves \/ CriticExhausted
  BY <1>6 DEF CriticNoReport, CriticApproves, CriticExhausted
<1>7. CASE CriticRetries
  BY <1>7 DEF CriticRetries, RetryStage
<1>8. CASE PipelineExcept \/ PipelineBlocked \/ PipelineCompletes \/ PipelineTailRaises
  BY <1>8, ZenonT(30) DEF PipelineExcept, PipelineBlocked, PipelineCompletes, PipelineTailRaises
<1>9. CASE UNCHANGED vars
  BY <1>9 DEF vars
<1> QED
  BY <1>1, <1>2, <1>3, <1>4, <1>5, <1>6, <1>7, <1>8, <1>9 DEF Next

\* BranchOK with no branches at all.
LEMMA QuietBranchOK ==
  ASSUME Quiet'
  PROVE  BranchOK'
BY DEF Quiet, BranchOK, Qualities

\* BranchOK: a branch that returned an output had the input for it.
LEMMA BranchOKStep ==
  ASSUME TypeOK, Shape, BranchOK, [Next]_vars
  PROVE  BranchOK'
<1> USE DEF BranchOK, TypeOK, branchVars, outputVars, verdictVars, graphUnchanged, graphVars
<1> USE DEF Stages, FanOutStages, Qualities
<1>1. ASSUME Quiet, UNCHANGED branchVars PROVE BranchOK'
  BY <1>1, QuietBranchOK DEF Quiet
<1>2. CASE Planner \/ Ingestion \/ StageDone \/ Comparator \/ Decision
  BY <1>1, <1>2 DEF Shape, Planner, Ingestion, StageDone, Comparator, Decision, BlockAndEnd, Continue
<1>3. CASE FanOut
  BY <1>3, RetriesAssumption DEF FanOut
<1>4. ASSUME NEW v \in Vendors, BranchStep(v) PROVE BranchOK'
  <2>1. CASE SkipExtraction(v)  BY <2>1 DEF SkipExtraction, Skips, Return, HasInput
  <2>2. CASE NoInput(v)         BY <2>2 DEF NoInput, Return, HasInput
  <2>3. CASE AcquireSlot(v)     BY <2>3 DEF AcquireSlot, HasInput
  <2>4. CASE Succeed(v)         BY <2>4 DEF Succeed, Return, HasInput
  <2>5. CASE Crash(v)           BY <2>5 DEF Crash, Return, HasInput
  <2>6. CASE HardBlock(v)
    BY <2>6, RetriesAssumption DEF HardBlock, RetriesLeft, Return, HasInput
  <2>7. CASE LookupRaises(v)
    BY <2>7, QuietBranchOK DEF LookupRaises, Quiet
  <2> QED BY <1>4, <2>1, <2>2, <2>3, <2>4, <2>5, <2>6, <2>7 DEF BranchStep
<1>5. CASE Join
  BY <1>5, QuietBranchOK DEF Join, Quiet
<1>6. CASE Finalise \/ CriticNoReport \/ CriticApproves \/ CriticExhausted \/ CriticRetries
  BY <1>1, <1>6 DEF Shape, Finalise, CriticNoReport, CriticApproves, CriticExhausted, CriticRetries
<1>7. CASE PipelineExcept \/ PipelineBlocked \/ PipelineCompletes \/ PipelineTailRaises
  BY <1>1, <1>7 DEF Shape, PipelineExcept, PipelineBlocked, PipelineCompletes, PipelineTailRaises
<1>8. CASE UNCHANGED vars
  BY <1>8 DEF vars, HasInput
<1> QED
  BY <1>2, <1>3, <1>4, <1>5, <1>6, <1>7, <1>8 DEF Next

\* ScoresRestOnFacts: a branch that has an output has had its input.
LEMMA ScoresRestOnFactsStep ==
  ASSUME TypeOK, Shape, BranchOK, ScoresRestOnFacts, [Next]_vars
  PROVE  ScoresRestOnFacts'
<1> USE DEF ScoresRestOnFacts, branchVars, outputVars, verdictVars, graphUnchanged, graphVars
<1>1. CASE Join
  <2>1. extracted' \subseteq retrieved'
    BY <1>1 DEF Join, Returned, BranchOK, HasInput
  <2>2. evaluated' \subseteq extracted'
    BY <1>1 DEF Join, Returned, BranchOK, HasInput
  <2>3. ASSUME NEW n \in narratives' PROVE n.vendor \in evaluated'
    <3>1. CASE n \in narratives
      BY <1>1, <3>1 DEF Join
    <3>2. CASE n \in NewNarratives
      <4>1. n.vendor \in Vendors /\ result[n.vendor] \in Qualities
        BY <3>2 DEF NewNarratives
      <4>2. HasInput(n.vendor) /\ stage = "explanation"
        BY <4>1 DEF BranchOK
      <4> QED BY <1>1, <4>2 DEF Join, HasInput
    <3> QED BY <1>1, <2>3, <3>1, <3>2 DEF Join
  <2> QED BY <2>1, <2>2, <2>3
<1>2. CASE ~Join
  <2>1. UNCHANGED outputVars
    BY <1>2 DEF Next, Planner, Ingestion, BlockAndEnd, FanOut, BranchStep, SkipExtraction, NoInput,
       AcquireSlot, Succeed, Crash, HardBlock, LookupRaises, StageDone, Comparator, Decision,
       Finalise, CriticNoReport, CriticApproves, CriticRetries, CriticExhausted, PipelineExcept,
       PipelineBlocked, PipelineCompletes, PipelineTailRaises, vars
  <2> QED BY <2>1
<1> QED BY <1>1, <1>2

----------------------------------------------------------------------------
(* The way through the graph *)

\* Stay in the stage, go to the next one, leave the graph, or close the run.
LEMMA StageMoves ==
  ASSUME TypeOK, Shape, [Next]_vars
  PROVE  \/ /\ stage' = stage
            /\ \/ stage # "evaluation" \/ Join \/ phase' = phase
               \/ phase = "start" /\ phase' = "vendors"
         \/ /\ stage \in Stages \ {"explanation"}
            /\ stage \in FanOutStages => phase = "done"
            /\ stage' = NextStage[stage] /\ phase' = "start"
         \/ stage \in Stages /\ stage' = "end"
         \/ stage \in {"ingestion", "extraction"} /\ stage' = "raised"
         \/ stage \in {"end", "raised"} /\ stage' = "closed"
<1> USE DEF branchVars, outputVars, verdictVars, graphUnchanged, graphVars, Stages, FanOutStages
<1>1. CASE Planner \/ Ingestion \/ StageDone \/ Comparator \/ Decision
  BY <1>1 DEF Planner, Ingestion, StageDone, Comparator, Decision, BlockAndEnd, Continue
<1>2. CASE FanOut \/ Join
  BY <1>2 DEF FanOut, Join
<1>3. ASSUME NEW v \in Vendors, BranchStep(v)
      PROVE  \/ UNCHANGED <<stage, phase>>
             \/ stage = "extraction" /\ stage' = "raised"
  BY <1>3 DEF BranchStep, SkipExtraction, NoInput, AcquireSlot, Succeed, Crash, HardBlock,
     LookupRaises
<1>4. CASE \/ Finalise \/ CriticNoReport \/ CriticApproves \/ CriticRetries \/ CriticExhausted
  BY <1>4 DEF Finalise, CriticNoReport, CriticApproves, CriticRetries, RetryStage, CriticExhausted
<1>5. CASE PipelineExcept \/ PipelineBlocked \/ PipelineCompletes \/ PipelineTailRaises
  BY <1>5 DEF PipelineExcept, PipelineBlocked, PipelineCompletes, PipelineTailRaises
<1>6. CASE UNCHANGED vars
  BY <1>6 DEF vars
<1> QED BY <1>1, <1>2, <1>3, <1>4, <1>5, <1>6 DEF Next

----------------------------------------------------------------------------
(* The fate of the vendors *)

\* EveryVendorAccountedFor: the join of the evaluation stage settles all of them.
LEMMA FateOKStep ==
  ASSUME TypeOK, Shape, BranchOK, FateOK, [Next]_vars
  PROVE  FateOK'
<1> USE DEF branchVars, outputVars, verdictVars, graphUnchanged, graphVars
<1> USE DEF TypeOK, Stages, FanOutStages
<1> DEFINE FailedThere(v) == FailedAt(v, "evaluation")
<1>1. CASE Join
  <2>1. stage \in FanOutStages /\ phase = "vendors" /\ phase' = "done" /\ stage' = stage
    BY <1>1, VendorsAssumption, OnlyInFanOut DEF Join
  <2>2. \A v \in Vendors : FailedThere(v)' <=> FailedThere(v) \/ (stage = "evaluation" /\ Lost(v))
    <3>1. failed' = failed \cup Failures
      BY <1>1 DEF Join
    <3>2. ASSUME NEW v \in Vendors
          PROVE  (\E f \in Failures : f.vendor = v /\ f.stage = "evaluation")
                   <=> stage = "evaluation" /\ Lost(v)
      <4> DEFINE entry == [vendor |-> v, stage |-> stage, attempt |-> explRetries + 1]
      <4>1. Lost(v) => entry \in Failures
        BY DEF Failures
      <4>2. \A f \in Failures : f.stage = stage /\ Lost(f.vendor)
        BY DEF Failures
      <4> QED BY <4>1, <4>2
    <3> QED BY <3>1, <3>2 DEF FailedAt
  <2>3. evaluated' = evaluated \cup Returned("evaluation", "output")
    BY <1>1 DEF Join
  <2>4. CASE stage = "evaluation"
    <3>1. evaluated = {} /\ \A v \in Vendors : ~FailedThere(v)
      BY <2>1, <2>4 DEF FateOK
    <3>2. \A v \in Vendors : Lost(v) <=> result[v] # "output"
      BY <1>1, <2>4 DEF Join, AllReturned, BranchOK, Lost, Qualities
    <3>3. \A v \in Vendors : v \in evaluated' <=> ~FailedThere(v)'
      BY <2>2, <2>3, <2>4, <3>1, <3>2 DEF Returned
    <3> QED BY <2>1, <2>4, <3>3 DEF FateOK, EveryVendorAccountedFor, PastEvaluation
  <2>5. CASE stage # "evaluation"
    <3>1. evaluated' = evaluated /\ \A v \in Vendors : FailedThere(v)' <=> FailedThere(v)
      BY <2>2, <2>3, <2>5 DEF Returned
    <3> QED BY <2>1, <2>5, <3>1 DEF FateOK, EveryVendorAccountedFor, PastEvaluation
  <2> QED BY <2>4, <2>5
<1>2. CASE ~Join
  <2>1. UNCHANGED <<evaluated, failed>>
    BY <1>2 DEF Next, Planner, Ingestion, BlockAndEnd, FanOut, BranchStep, SkipExtraction, NoInput,
       AcquireSlot, Succeed, Crash, HardBlock, LookupRaises, StageDone, Comparator, Decision,
       Finalise, CriticNoReport, CriticApproves, CriticRetries, CriticExhausted, PipelineExcept,
       PipelineBlocked, PipelineCompletes, PipelineTailRaises, vars
  <2>2. \A v \in Vendors : FailedThere(v)' <=> FailedThere(v)
    BY <2>1 DEF FailedAt
  <2> QED
    BY <1>2, <2>1, <2>2, StageMoves
    DEF FateOK, EveryVendorAccountedFor, PastEvaluation, NextStage
<1> QED BY <1>1, <1>2

----------------------------------------------------------------------------
(* What the run commits to *)

\* evaluated is written by the join of the evaluation stage only.
LEMMA ScoresSettled ==
  ASSUME TypeOK, Shape, [Next]_vars, stage # "evaluation"
  PROVE  UNCHANGED evaluated
BY DEF Next, Planner, Ingestion, BlockAndEnd, FanOut, BranchStep, SkipExtraction, NoInput,
   AcquireSlot, Succeed, Crash, HardBlock, LookupRaises, Join, Returned, StageDone, Comparator,
   Decision, Finalise, CriticNoReport, CriticApproves, CriticRetries, CriticExhausted,
   PipelineExcept, PipelineBlocked, PipelineCompletes, PipelineTailRaises, vars, branchVars,
   outputVars, verdictVars, graphUnchanged, graphVars

\* CommitOK: what comparator and decision wrote covers the scored vendors.
LEMMA CommitOKStep ==
  ASSUME TypeOK, Shape, CommitOK, [Next]_vars
  PROVE  CommitOK'
<1> USE DEF CommitOK, DecisionCoversScores, branchVars, outputVars, verdictVars, graphUnchanged,
            graphVars
<1>1. CASE Comparator
  <2>1. CASE BlockAndEnd  BY <1>1, <2>1 DEF Comparator, BlockAndEnd
  <2>2. CASE ~BlockAndEnd BY <1>1, <2>2 DEF Comparator, Continue, NextStage, Ranked
  <2> QED BY <2>1, <2>2
<1>2. CASE Decision
  <2>1. CASE BlockAndEnd  BY <1>2, <2>1 DEF Decision, BlockAndEnd
  <2>2. CASE ~BlockAndEnd
    <3>1. PICK rejected \in SUBSET evaluated :
            decision' = [made |-> TRUE, shortlisted |-> evaluated \ rejected,
                         rejected |-> rejected]
      BY <1>2, <2>2 DEF Decision
    <3>2. /\ decision'.made /\ decision'.shortlisted \cup decision'.rejected = evaluated
          /\ decision'.shortlisted \cap decision'.rejected = {}
      BY <3>1
    <3>3. UNCHANGED <<evaluated, comparison>> /\ stage = "decision" /\ stage' = "explanation"
      BY <1>2, <2>2 DEF Decision, Continue, NextStage
    <3> QED BY <3>2, <3>3
  <2> QED BY <2>1, <2>2
<1>3. CASE ~(Comparator \/ Decision)
  <2>1. UNCHANGED <<comparison, decision>>
    BY <1>3 DEF Next, Planner, Ingestion, BlockAndEnd, FanOut, BranchStep, SkipExtraction, NoInput,
       AcquireSlot, Succeed, Crash, HardBlock, LookupRaises, Join, StageDone, Finalise,
       CriticNoReport, CriticApproves, CriticRetries, CriticExhausted, PipelineExcept,
       PipelineBlocked, PipelineCompletes, PipelineTailRaises, vars
  <2>2. \/ stage' = stage
        \/ stage \notin {"decision", "explanation", "end", "closed"}
           /\ stage' \notin {"decision", "explanation"}
        \/ stage \in {"explanation", "end"} /\ stage' \in {"end", "closed"}
    <3>1. stage \notin {"comparator", "decision"} \/ stage' = stage
      BY <1>3 DEF Next, Planner, Ingestion, FanOut, BranchStep, SkipExtraction, NoInput,
         AcquireSlot, Succeed, Crash, HardBlock, LookupRaises, Join, StageDone, Finalise,
         CriticNoReport, CriticApproves, CriticRetries, CriticExhausted, PipelineExcept,
         PipelineBlocked, PipelineCompletes, PipelineTailRaises, vars, FanOutStages
    <3> QED BY <3>1, StageMoves DEF NextStage, Stages, FanOutStages
  <2>3. stage # "evaluation" => evaluated' = evaluated
    BY ScoresSettled
  <2> QED BY <2>1, <2>2, <2>3
<1> QED BY <1>1, <1>2, <1>3
----------------------------------------------------------------------------
(* The end of the run *)

\* EndOK: what can be said of the report and the row on the way out of the graph.
LEMMA EndOKStep ==
  ASSUME TypeOK, Shape, CommitOK, EndOK, [Next]_vars
  PROVE  EndOK'
<1> USE DEF EndOK, CompleteMeansSound, branchVars, outputVars, verdictVars, graphUnchanged, graphVars
<1> USE DEF Stages, FanOutStages
<1>1. CASE BlockAndEnd /\ stage \in Stages
  BY <1>1 DEF BlockAndEnd, BlockUpdate, MayWrite, TypeOK
<1>2. CASE (Planner \/ Ingestion \/ StageDone \/ Comparator \/ Decision) /\ ~BlockAndEnd
  <2>1. stage \in Stages \ {"explanation"} /\ UNCHANGED <<blocked, row>>
    BY <1>2 DEF Planner, Ingestion, StageDone, Comparator, Decision
  <2>2. Continue \/ stage' = "raised"
    BY <1>2 DEF Planner, Ingestion, StageDone, Comparator, Decision
  <2>3. Continue => stage' \in Stages
    BY <2>1 DEF Continue, NextStage
  <2>4. UNCHANGED report
    BY <1>2 DEF Planner, Ingestion, StageDone, Comparator, Decision
  <2> QED BY <2>1, <2>2, <2>3, <2>4
<1>3. CASE FanOut \/ Join
  <2>1. stage \in FanOutStages /\ phase \in {"start", "vendors"} /\ stage' = stage
    BY <1>3, VendorsAssumption, OnlyInFanOut DEF FanOut, Join
  <2>2. UNCHANGED <<report, decision, blocked, row>>
    BY <1>3 DEF FanOut, Join
  <2> QED BY <2>1, <2>2
<1>4. ASSUME NEW v \in Vendors, BranchStep(v) PROVE EndOK'
  <2>1. stage \in FanOutStages /\ phase = "vendors" /\ phase' = phase
    BY <1>4, OnlyInFanOut DEF BranchStep, SkipExtraction, NoInput, AcquireSlot, Succeed, Crash,
       HardBlock, LookupRaises
  <2>2. UNCHANGED <<report, decision, blocked, row>> /\ (stage' = stage \/ stage' = "raised")
    BY <1>4 DEF BranchStep, SkipExtraction, NoInput, AcquireSlot, Succeed, Crash, HardBlock,
       LookupRaises
  <2>3. stage' = "raised" => stage = "extraction" \/ stage' = stage
    BY <1>4 DEF BranchStep, SkipExtraction, NoInput, AcquireSlot, Succeed, Crash, HardBlock,
       LookupRaises
  <2> QED BY <2>1, <2>2, <2>3
<1>5. CASE Finalise
  <2>1. CASE BlockUpdate
    <3>1. row'.status # "complete"
      BY <1>5, <2>1 DEF Finalise, BlockUpdate, MayWrite, TypeOK
    <3>2. ~report.made
      BY <1>5 DEF Finalise
    <3> QED BY <1>5, <2>1, <3>1, <3>2 DEF Finalise, BlockUpdate
  <2>2. CASE ~BlockUpdate
    BY <1>5, <2>2 DEF Finalise
  <2> QED BY <2>1, <2>2
<1>6. CASE CriticNoReport \/ CriticExhausted
  BY <1>6 DEF CriticNoReport, CriticExhausted
<1>7. CASE CriticApproves
  <2>1. \A n \in report.narratives : n.quality # "ungrounded"
    BY <1>7 DEF CriticApproves, ExplanationVerdicts
  <2> QED BY <1>7, <2>1 DEF CriticApproves, CommitOK
<1>8. CASE CriticRetries
  BY <1>8 DEF CriticRetries, RetryStage, NoReport
<1>9. CASE PipelineExcept
  <2>1. row'.status # "complete"
    BY <1>9 DEF PipelineExcept, MayWrite, TypeOK
  <2> QED BY <1>9, <2>1 DEF PipelineExcept
<1>10. CASE PipelineBlocked
  BY <1>10 DEF PipelineBlocked, EndedBlocked
<1>11. CASE PipelineCompletes
  BY <1>11 DEF PipelineCompletes, EndedBlocked
<1>12. CASE PipelineTailRaises
  BY <1>12 DEF PipelineTailRaises, EndedBlocked
<1>13. CASE UNCHANGED vars
  BY <1>13 DEF vars
<1> QED
  BY <1>1, <1>2, <1>3, <1>4, <1>5, <1>6, <1>7, <1>8, <1>9, <1>10, <1>11, <1>12, <1>13
  DEF Next, Planner, Ingestion, StageDone, Comparator, Decision

----------------------------------------------------------------------------
(* What the run leaves to its readers *)

\* Only the join of a stage writes what the vendors' branches have returned.
LEMMA OutputsSettled ==
  ASSUME [Next]_vars, ~Join
  PROVE  UNCHANGED outputVars
BY DEF Next, Planner, Ingestion, BlockAndEnd, FanOut, BranchStep, SkipExtraction, NoInput,
   AcquireSlot, Succeed, Crash, HardBlock, LookupRaises, StageDone, Comparator, Decision,
   Finalise, CriticNoReport, CriticApproves, CriticRetries, CriticExhausted, PipelineExcept,
   PipelineBlocked, PipelineCompletes, PipelineTailRaises, vars, outputVars, branchVars,
   verdictVars, graphUnchanged, graphVars

\* The reducer of failed_vendors: a join adds an entry for each branch that failed or had
\* no input, and loses none.
LEMMA FailuresJoined ==
  ASSUME Join
  PROVE  /\ \A v \in Vendors, s \in FanOutStages : FailedAt(v, s) => FailedAt(v, s)'
         /\ \A v \in Vendors : Lost(v) =>
              /\ [vendor |-> v, stage |-> stage, attempt |-> explRetries + 1] \in failed'
              /\ FailedAt(v, stage)'
<1>1. failed' = failed \cup Failures
  BY DEF Join
<1>2. \A v \in Vendors : Lost(v) =>
        [vendor |-> v, stage |-> stage, attempt |-> explRetries + 1] \in Failures
  BY DEF Failures
<1> QED BY <1>1, <1>2 DEF FailedAt, Join

\* What a vendor's branch reports of itself to the telemetry.
LEMMA MetricTells ==
  ASSUME TypeOK, BranchOK, NEW v \in Vendors
  PROVE  /\ MetricOf(v).recovered => /\ MetricOf(v).blocks \in 1 .. MaxRetries
                                      /\ MetricOf(v).retries = MetricOf(v).blocks
                                      /\ ~MetricOf(v).exhausted
         /\ MetricOf(v).blocks > MaxRetries => MetricOf(v).exhausted
         /\ MetricOf(v).exhausted => result[v] = "failed"
         /\ MetricOf(v).ran /\ ~MetricOf(v).exhausted <=> result[v] = "output"
<1> DEFINE rec == result[v] = "output" /\ tries[v] > 0
           exh == result[v] = "failed"
           ret == IF tries[v] > MaxRetries THEN MaxRetries ELSE tries[v]
<1>1. CASE result[v] \in {"output", "failed"}
  <2>1. MetricOf(v) = [blocks |-> tries[v], retries |-> ret, recovered |-> rec,
                       exhausted |-> exh, ran |-> TRUE]
    BY <1>1 DEF MetricOf
  <2>2. /\ rec \in BOOLEAN /\ exh \in BOOLEAN
        /\ rec => tries[v] \in 1 .. MaxRetries /\ ~exh
        /\ tries[v] \in 1 .. MaxRetries => ret = tries[v]
        /\ ~exh <=> result[v] = "output"
        /\ exh => result[v] = "failed"
        /\ tries[v] > MaxRetries => exh
    BY <1>1, RetriesAssumption DEF BranchOK, TypeOK
  <2> HIDE DEF rec, exh, ret
  <2>3. /\ MetricOf(v).blocks = tries[v] /\ MetricOf(v).retries = ret
        /\ MetricOf(v).recovered = rec /\ MetricOf(v).exhausted = exh /\ MetricOf(v).ran
    BY <2>1
  <2> QED BY <2>2, <2>3
<1>2. CASE result[v] \notin {"output", "failed"}
  BY <1>2, RetriesAssumption DEF MetricOf, NoMetric
<1> QED BY <1>1, <1>2

\* TelemetryOK: before its join a stage has no output, after it the metrics agree.
LEMMA TelemetryOKStep ==
  ASSUME TypeOK, Shape, BranchOK, FateOK, TelemetryOK, [Next]_vars
  PROVE  TelemetryOK'
<1> DEFINE Out(s) == IF s = "extraction" THEN extracted ELSE evaluated
           Early == \/ stage \in {"planner", "ingestion", "retrieval"}
                    \/ stage = "extraction" /\ phase # "done"
           Tells(v, s) == /\ metrics[v][s].recovered =>
                               /\ metrics[v][s].blocks \in 1 .. MaxRetries
                               /\ metrics[v][s].retries = metrics[v][s].blocks
                               /\ ~metrics[v][s].exhausted
                          /\ metrics[v][s].blocks > MaxRetries => metrics[v][s].exhausted
                          /\ metrics[v][s].exhausted => FailedAt(v, s)
                          /\ (metrics[v][s].ran /\ ~metrics[v][s].exhausted) <=> v \in Out(s)
<1>1. CASE ~Join
  <2>1. UNCHANGED outputVars
    BY <1>1, OutputsSettled
  <2>2. TelemetryTruthful'
    BY <2>1 DEF TelemetryOK, TelemetryTruthful, FailedAt, outputVars
  <2>3. Early' => Early
    <3>1. CASE stage' = stage
      <4>1. stage = "extraction" /\ phase = "done" => phase' = "done"
        BY <1>1, <3>1 DEF Next, Planner, Ingestion, BlockAndEnd, FanOut, BranchStep,
           SkipExtraction, NoInput, AcquireSlot, Succeed, Crash, HardBlock, LookupRaises,
           StageDone, Continue, NextStage, Comparator, Decision, Finalise, CriticNoReport,
           CriticApproves, CriticRetries, RetryStage, CriticExhausted, PipelineExcept,
           PipelineBlocked, PipelineCompletes, PipelineTailRaises, vars, graphUnchanged,
           graphVars
      <4> QED BY <3>1, <4>1
    <3>2. CASE stage' # stage
      BY <3>2, StageMoves DEF Stages, FanOutStages, NextStage
    <3> QED BY <3>1, <3>2
  <2> QED BY <2>1, <2>2, <2>3 DEF TelemetryOK, outputVars
<1>2. CASE Join
  <2>1. stage \in FanOutStages /\ phase = "vendors" /\ phase' = "done" /\ stage' = stage
    BY <1>2, VendorsAssumption, OnlyInFanOut DEF Join
  <2>2. Early' => extracted' = {}
    BY <1>2, <2>1 DEF Join, Returned, TelemetryOK
  <2>3. ASSUME NEW v \in Vendors, NEW s \in CriticStages PROVE Tells(v, s)'
    <3>1. Tells(v, s)
      BY DEF TelemetryOK, TelemetryTruthful
    <3>2. CASE s = stage
      <4>1. metrics'[v][s] = MetricOf(v)
        BY <1>2, <3>2 DEF Join, MergeMetrics
      <4>2. v \in Out(s)' <=> result[v] = "output"
        <5>1. Out(s) = {}
          BY <2>1, <3>2 DEF TelemetryOK, FateOK, CriticStages
        <5>2. Out(s)' = Out(s) \cup Returned(s, "output")
          BY <1>2, <3>2 DEF Join, CriticStages
        <5> QED BY <3>2, <5>1, <5>2 DEF Returned
      <4>3. result[v] = "failed" => FailedAt(v, s)'
        BY <1>2, <2>1, <3>2, FailuresJoined DEF Lost, FailedAt
      <4>4. Tells(v, s)' <=>
              /\ MetricOf(v).recovered => /\ MetricOf(v).blocks \in 1 .. MaxRetries
                                          /\ MetricOf(v).retries = MetricOf(v).blocks
                                          /\ ~MetricOf(v).exhausted
              /\ MetricOf(v).blocks > MaxRetries => MetricOf(v).exhausted
              /\ MetricOf(v).exhausted => FailedAt(v, s)'
              /\ (MetricOf(v).ran /\ ~MetricOf(v).exhausted) <=> v \in Out(s)'
        BY <4>1
      <4> QED BY <4>2, <4>3, <4>4, MetricTells
    <3>3. CASE s # stage
      <4>1. metrics'[v][s] = metrics[v][s]
        BY <1>2, <3>3 DEF Join, MergeMetrics, TypeOK
      <4>2. Out(s)' = Out(s)
        BY <1>2, <3>3 DEF Join, Returned, CriticStages
      <4>3. FailedAt(v, s) => FailedAt(v, s)'
        BY <1>2, FailuresJoined DEF CriticStages, FanOutStages
      <4> QED BY <3>1, <4>1, <4>2, <4>3
    <3> QED BY <3>2, <3>3
  <2> QED BY <2>1, <2>2, <2>3 DEF TelemetryOK, TelemetryTruthful
<1> QED BY <1>1, <1>2

\* The reducer of vendor_narratives_accum: a join of the explanation stage leaves each
\* vendor a narrative of this attempt or a failure, a join of another stage no narrative.
LEMMA NarrativesJoined ==
  ASSUME TypeOK, BranchOK, Join
  PROVE  /\ stage # "explanation" => narratives' = narratives
         /\ \A n \in narratives' : n \in narratives \/ n.attempt = explRetries + 1
         /\ stage = "explanation" =>
              \A v \in Vendors : \/ \E n \in narratives' : n.vendor = v /\ n.attempt = explRetries + 1
                                 \/ Lost(v)
<1>1. narratives' = narratives \cup NewNarratives
  BY DEF Join
<1>2. stage # "explanation" => NewNarratives = {}
  BY DEF NewNarratives
<1>3. \A n \in NewNarratives : n.attempt = explRetries + 1
  BY DEF NewNarratives
<1>4. ASSUME NEW v \in Vendors, stage = "explanation", ~Lost(v)
      PROVE  \E n \in NewNarratives : n.vendor = v /\ n.attempt = explRetries + 1
  <2>1. result[v] \in Qualities
    BY <1>4 DEF TypeOK, BranchOK, Join, AllReturned, Lost
  <2> DEFINE n == [vendor |-> v, attempt |-> explRetries + 1, quality |-> result[v]]
  <2>2. n \in NewNarratives
    BY <1>4, <2>1 DEF NewNarratives
  <2> QED BY <2>2
<1> QED BY <1>1, <1>2, <1>3, <1>4

\* explanation_finalise: a report made after a round speaks of every vendor, and keeps an
\* older narrative only over failures.
LEMMA FinaliseReports ==
  ASSUME TypeOK, ScoresRestOnFacts, RoundsOK, stage = "explanation", phase = "done",
         report' = ReportOf, UNCHANGED <<evaluated, explRetries>>
  PROVE  /\ ReportAccountsForEveryVendor' /\ OldNarrativeOnlyAfterCrash'
         /\ \A n \in report'.narratives : n.vendor \in evaluated'
<1>1. Rounds = explRetries + 1 /\ explRetries \in Nat
  BY RetriesAssumption DEF Rounds, TypeOK
<1>2. report'.narratives = Latest /\ report'.limitations = {f \in failed : f.stage = "explanation"}
  BY DEF ReportOf
<1>3. \A n \in narratives : n \in Narrative /\ n.attempt \in Nat /\ n.vendor \in Vendors
  BY RetriesAssumption DEF TypeOK, Narrative, Attempts
<1>4. ASSUME NEW v \in Vendors
      PROVE  \/ \E n \in report'.narratives : n.vendor = v
             \/ \E f \in report'.limitations : f.vendor = v
  <2>1. Narrated(v, explRetries + 1) \/ CrashedAt(v, explRetries + 1)
    BY <1>1 DEF RoundsOK
  <2>2. ASSUME NEW n \in narratives, n.vendor = v, n.attempt = explRetries + 1 PROVE n \in Latest
    BY <1>1, <2>2 DEF RoundsOK, Latest
  <2> QED BY <1>2, <2>1, <2>2 DEF Narrated, CrashedAt
<1>5. ASSUME NEW n \in report'.narratives, NEW a \in (n.attempt + 1) .. (explRetries + 1)
      PROVE  [vendor |-> n.vendor, stage |-> "explanation", attempt |-> a] \in report'.limitations
  <2>1. n \in Latest /\ n \in narratives
    BY <1>2, <1>5 DEF Latest
  <2>2. a \in 1 .. Rounds /\ ~(a <= n.attempt)
    BY <1>1, <1>3, <1>5, <2>1
  <2>3. ~Narrated(n.vendor, a)
    BY <2>1, <2>2 DEF Narrated, Latest
  <2>4. CrashedAt(n.vendor, a)
    BY <1>3, <2>1, <2>2, <2>3 DEF RoundsOK
  <2> QED BY <1>2, <2>4 DEF CrashedAt
<1>6. \A n \in report'.narratives : n.vendor \in evaluated'
  BY <1>2 DEF Latest, ScoresRestOnFacts
<1> QED BY <1>4, <1>5, <1>6 DEF ReportAccountsForEveryVendor, OldNarrativeOnlyAfterCrash

\* RoundsOK: a round more for each join of the explanation stage, a report for each end.
LEMMA RoundsOKStep ==
  ASSUME TypeOK, Shape, BranchOK, ScoresRestOnFacts, EndOK, RoundsOK, [Next]_vars
  PROVE  RoundsOK'
<1> DEFINE Reported == /\ ReportAccountsForEveryVendor /\ OldNarrativeOnlyAfterCrash
                       /\ \A n \in report.narratives : n.vendor \in evaluated
           Told == stage = "explanation" =>
                     /\ \A n \in narratives : n.attempt <= Rounds
                     /\ \A v \in Vendors, a \in 1 .. Rounds : Narrated(v, a) \/ CrashedAt(v, a)
           Before == stage \in Stages \ {"explanation"} => explRetries = 0 /\ narratives = {}
<1>r. explRetries \in Nat
  BY RetriesAssumption DEF TypeOK
<1>1. CASE Join
  <2>1. stage \in FanOutStages /\ phase = "vendors" /\ phase' = "done" /\ stage' = stage
    BY <1>1, VendorsAssumption, OnlyInFanOut DEF Join
  <2>2. UNCHANGED <<report, explRetries>> /\ ~report.made /\ evaluated \subseteq evaluated'
    BY <1>1, <2>1 DEF Join, verdictVars, EndOK, FanOutStages
  <2>3. Before' /\ Reported'
    BY <1>1, <2>1, <2>2, NarrativesJoined
    DEF RoundsOK, ReportAccountsForEveryVendor, OldNarrativeOnlyAfterCrash
  <2>4. ASSUME stage = "explanation" PROVE Told'
    <3>1. Rounds = explRetries /\ Rounds' = explRetries + 1
      BY <2>1, <2>2, <2>4 DEF Rounds
    <3>2. \A n \in narratives' : n.attempt <= Rounds'
      BY <1>1, <1>r, <2>4, <3>1, NarrativesJoined DEF RoundsOK, TypeOK, Narrative, Attempts
    <3>3. ASSUME NEW v \in Vendors, NEW a \in 1 .. Rounds' PROVE Narrated(v, a)' \/ CrashedAt(v, a)'
      <4>1. CASE a = explRetries + 1
        BY <1>1, <2>4, <4>1, NarrativesJoined, FailuresJoined DEF Narrated, CrashedAt
      <4>2. CASE a # explRetries + 1
        <5>1. a \in 1 .. Rounds
          BY <1>r, <3>1, <3>3, <4>2
        <5>2. Narrated(v, a) \/ CrashedAt(v, a)
          BY <2>4, <5>1 DEF RoundsOK
        <5> QED BY <1>1, <5>2 DEF Join, Narrated, CrashedAt
      <4> QED BY <4>1, <4>2
    <3> QED BY <3>2, <3>3
  <2> QED BY <2>1, <2>3, <2>4 DEF RoundsOK
<1>2. CASE Finalise
  <2>1. stage = "explanation" /\ stage' = stage /\ UNCHANGED <<failed, narratives, evaluated, explRetries>>
    BY <1>2 DEF Finalise, outputVars
  <2>2. Rounds' = Rounds
    BY <1>2, <2>1 DEF Finalise, Rounds
  <2>3. Told' /\ Before'
    BY <2>1, <2>2 DEF RoundsOK, Narrated, CrashedAt, Stages
  <2>4. Reported'
    <3>1. CASE report' = ReportOf
      BY <1>2, <2>1, <3>1, FinaliseReports DEF Finalise
    <3>2. CASE report' = report
      BY <2>1, <3>2 DEF RoundsOK, ReportAccountsForEveryVendor, OldNarrativeOnlyAfterCrash
    <3> QED BY <1>2, <3>1, <3>2 DEF Finalise
  <2> QED BY <2>3, <2>4 DEF RoundsOK
<1>3. CASE CriticRetries
  <2>1. /\ stage = "explanation" /\ stage' = stage /\ explRetries' = explRetries + 1
        /\ report' = NoReport /\ UNCHANGED <<failed, narratives>>
        /\ phase = "critic" /\ phase' = "start"
    BY <1>3 DEF CriticRetries, NextRetry, RetryStage, outputVars
  <2>2. Rounds' = Rounds
    BY <2>1 DEF Rounds
  <2> QED
    BY <2>1, <2>2 DEF RoundsOK, Narrated, CrashedAt, Stages, NoReport,
       ReportAccountsForEveryVendor, OldNarrativeOnlyAfterCrash
<1>4. CASE ~Join /\ ~Finalise /\ ~CriticRetries
  <2>1. UNCHANGED <<failed, narratives, evaluated>>
    BY <1>4, OutputsSettled DEF outputVars
  <2>2. UNCHANGED <<report, explRetries>>
    BY <1>4 DEF Next, Planner, Ingestion, BlockAndEnd, FanOut, BranchStep, SkipExtraction,
       NoInput, AcquireSlot, Succeed, Crash, HardBlock, LookupRaises, StageDone, Comparator,
       Decision, CriticNoReport, CriticApproves, CriticExhausted, PipelineExcept,
       PipelineBlocked, PipelineCompletes, PipelineTailRaises, vars, verdictVars,
       graphUnchanged, graphVars
  <2>3. Reported'
    BY <2>1, <2>2 DEF RoundsOK, ReportAccountsForEveryVendor, OldNarrativeOnlyAfterCrash
  <2>4. /\ stage' \in Stages \ {"explanation"} => stage \in Stages \ {"explanation"}
        /\ stage' = "explanation" => \/ stage \in Stages \ {"explanation"} /\ phase' = "start"
                                     \/ stage = "explanation" /\ Rounds' = Rounds
    <3>1. stage = "explanation" /\ stage' = stage => Rounds' = Rounds
      BY <1>4, <2>2 DEF Next, Planner, Ingestion, BlockAndEnd, FanOut, BranchStep,
         SkipExtraction, NoInput, AcquireSlot, Succeed, Crash, HardBlock, LookupRaises,
         StageDone, Continue, NextStage, Comparator, Decision, CriticNoReport, CriticApproves,
         CriticExhausted, PipelineExcept, PipelineBlocked, PipelineCompletes,
         PipelineTailRaises, vars, graphUnchanged, graphVars, Rounds
    <3> QED BY <3>1, StageMoves DEF Stages, FanOutStages, NextStage
  <2>5. Before'
    BY <2>1, <2>2, <2>4 DEF RoundsOK
  <2>6. ASSUME stage' = "explanation" PROVE Told'
    <3>1. CASE stage \in Stages \ {"explanation"} /\ phase' = "start"
      <4>1. Rounds' = 0 /\ narratives' = {}
        BY <2>1, <2>2, <3>1 DEF RoundsOK, Rounds
      <4> QED BY <4>1
    <3>2. CASE stage = "explanation" /\ Rounds' = Rounds
      BY <2>1, <3>2 DEF RoundsOK, Narrated, CrashedAt
    <3> QED BY <2>4, <2>6, <3>1, <3>2
  <2> QED BY <2>3, <2>5, <2>6 DEF RoundsOK
<1> QED BY <1>1, <1>2, <1>3, <1>4
----------------------------------------------------------------------------
(* Every step is a step of VendorFates, or none *)

FatesOf == [v \in Vendors |-> FateOf(v)]

Told == IF OutcomeOf = "reported" THEN {n.vendor : n \in report.narratives} ELSE {}

\* How far the run has come, by the stage and the blocked flag.
LEMMA OutcomeAt ==
  ASSUME IInv
  PROVE  /\ stage \in Stages \ {"explanation"} => OutcomeOf = "open"
         /\ stage = "explanation" => OutcomeOf = IF blocked THEN "aborted" ELSE "decided"
         /\ stage = "raised" => OutcomeOf = "aborted"
         /\ stage = "end" => OutcomeOf = IF blocked THEN "aborted" ELSE "reported"
         /\ stage = "closed" => OutcomeOf = IF blocked \/ ~decision.made
                                            THEN "aborted" ELSE "reported"
         /\ OutcomeOf # "reported" => Told = {}
<1> USE DEF OutcomeOf, Told, Stages, FanOutStages
<1>1. stage \in Stages \ {"explanation"} => ~blocked /\ ~decision.made
  BY DEF IInv, EndOK, CommitOK
<1>2. stage = "explanation" => decision.made
  BY DEF IInv, CommitOK
<1> QED BY <1>1, <1>2

\* Where no branch of the evaluation has returned, a fate is what the outputs say.
LEMMA FatesKept ==
  ASSUME UNCHANGED <<evaluated, failed>>,
         \A v \in Vendors : stage = "evaluation" => branch[v] # "returned",
         \A v \in Vendors : stage' = "evaluation" => branch'[v] # "returned"
  PROVE  FatesOf' = FatesOf
<1>1. ASSUME NEW v \in Vendors PROVE FateOf(v)' = FateOf(v)
  BY DEF FateOf, FailedAt
<1> QED BY <1>1 DEF FatesOf

\* The join of the evaluation makes visible what its branches have settled.
LEMMA FatesJoined ==
  ASSUME IInv, Join
  PROVE  FatesOf' = FatesOf
<1> USE DEF IInv
<1>1. ASSUME NEW v \in Vendors PROVE FateOf(v)' = FateOf(v)
  <2>1. stage' = stage /\ branch'[v] # "returned"
    BY DEF Join
  <2>2. evaluated' = evaluated \cup Returned("evaluation", "output")
    BY DEF Join
  <2>3. FailedAt(v, "evaluation")' <=>
          FailedAt(v, "evaluation") \/ (stage = "evaluation" /\ Lost(v))
    <3>1. \A f \in Failures : f.stage = stage /\ Lost(f.vendor)
      BY DEF Failures
    <3>2. FailedAt(v, "evaluation")' =>
            FailedAt(v, "evaluation") \/ (stage = "evaluation" /\ Lost(v))
      BY <3>1 DEF Join, FailedAt
    <3>3. FailedAt(v, "evaluation") => FailedAt(v, "evaluation")'
      BY FailuresJoined DEF FanOutStages
    <3>4. stage = "evaluation" /\ Lost(v) => FailedAt(v, "evaluation")'
      BY FailuresJoined DEF FailedAt
    <3> QED BY <3>2, <3>3, <3>4
  <2>4. CASE stage = "evaluation"
    <3>1. evaluated = {} /\ ~FailedAt(v, "evaluation")
      BY <2>4, VendorsAssumption, OnlyInFanOut DEF FateOK
    <3>2. Lost(v) <=> result[v] # "output"
      BY <2>4 DEF TypeOK, Join, AllReturned, BranchOK, Lost, Qualities
    <3> QED
      BY <2>1, <2>2, <2>3, <2>4, <3>1, <3>2 DEF FateOf, Returned, Join, AllReturned
  <2>5. CASE stage # "evaluation"
    BY <2>1, <2>2, <2>3, <2>5 DEF FateOf, Returned
  <2> QED BY <2>4, <2>5
<1> QED BY <1>1 DEF FatesOf

\* A step of one branch settles its vendor, if it returns from the evaluation.
LEMMA FateSettled ==
  ASSUME IInv, NEW v \in Vendors, BranchStep(v), ~LookupRaises(v)
  PROVE  /\ UNCHANGED <<OutcomeOf, Told>>
         /\ \/ FatesOf' = FatesOf
            \/ /\ OutcomeOf = "open" /\ FateOf(v) = "pending"
               /\ \E f \in {"scored", "lost"} : FatesOf' = [FatesOf EXCEPT ![v] = f]
<1> USE DEF IInv, graphUnchanged, outputVars, verdictVars
<1>1. /\ UNCHANGED <<stage, phase, evaluated, failed, decision, blocked, report>>
      /\ \A w \in Vendors \ {v} : branch'[w] = branch[w] /\ result'[w] = result[w]
      /\ branch[v] # "returned" /\ phase = "vendors"
  <2>1. phase = "vendors" /\ branch[v] # "returned"
    BY OnlyInFanOut DEF BranchStep, SkipExtraction, NoInput, AcquireSlot, Succeed, Crash, HardBlock
  <2> QED
    BY <2>1 DEF BranchStep, SkipExtraction, NoInput, AcquireSlot, Succeed, Crash, HardBlock,
       Return, TypeOK
<1>2. UNCHANGED <<OutcomeOf, Told>>
  BY <1>1 DEF OutcomeOf, Told
<1>3. ASSUME NEW w \in Vendors \ {v} PROVE FateOf(w)' = FateOf(w)
  BY <1>1 DEF FateOf, FailedAt
<1>4. CASE stage = "evaluation" /\ branch'[v] = "returned"
  <2>1. OutcomeOf = "open"
    BY <1>4, OutcomeAt DEF Stages, FanOutStages
  <2>2. FateOf(v) = "pending"
    BY <1>1, <1>4 DEF FateOK, FateOf
  <2>3. FateOf(v)' \in {"scored", "lost"}
    BY <1>1, <1>4 DEF FateOf
  <2>4. FatesOf' = [FatesOf EXCEPT ![v] = FateOf(v)']
    BY <1>3 DEF FatesOf
  <2> QED BY <1>2, <2>1, <2>2, <2>3, <2>4
<1>5. CASE ~(stage = "evaluation" /\ branch'[v] = "returned")
  <2>1. FateOf(v)' = FateOf(v)
    BY <1>1, <1>5 DEF FateOf, FailedAt
  <2> QED BY <1>2, <1>3, <2>1 DEF FatesOf
<1> QED BY <1>4, <1>5

\* Of the other steps, each leaves the fates alone and moves the outcome at most forwards.
LEMMA FatesStep ==
  ASSUME IInv, IInv', [Next]_vars
  PROVE  [Fates!Next]_(Fates!vars)
<1> DEFINE Goal == [Fates!Next]_(Fates!vars)
           Fixed == FatesOf' = FatesOf
<1>a. ASSUME Fixed, UNCHANGED <<OutcomeOf, Told>> PROVE Goal
  BY <1>a DEF Fates!vars, FatesOf, Told
<1>b. ASSUME Fixed, OutcomeOf \in {"open", "decided"}, OutcomeOf' = "aborted" PROVE Goal
  <2>1. Told = {} /\ Told' = {}
    BY <1>b DEF Told
  <2> QED BY <1>b, <2>1 DEF Fates!Next, Fates!Abort, FatesOf, Told
<1>1. CASE Join
  <2>1. Fixed
    BY <1>1, FatesJoined
  <2>2. UNCHANGED <<OutcomeOf, Told>>
    BY <1>1 DEF Join, verdictVars, OutcomeOf, Told
  <2> QED BY <1>a, <2>1, <2>2
<1>2. ASSUME NEW v \in Vendors, BranchStep(v) PROVE Goal
  <2>1. CASE LookupRaises(v)
    <3>1. /\ stage = "extraction" /\ stage' = "raised" /\ Fixed
      <4>1. stage = "extraction" /\ stage' = "raised" /\ UNCHANGED <<evaluated, failed>>
        BY <2>1 DEF LookupRaises, outputVars
      <4> QED BY <4>1, FatesKept
    <3>2. OutcomeOf = "open" /\ OutcomeOf' = "aborted"
      BY <3>1, OutcomeAt DEF Stages, FanOutStages, OutcomeOf
    <3> QED BY <1>b, <3>1, <3>2
  <2>2. CASE ~LookupRaises(v)
    <3>1. CASE FatesOf' = FatesOf
      BY <1>2, <1>a, <2>2, <3>1, FateSettled
    <3>2. CASE FatesOf' # FatesOf
      <4>1. PICK f \in {"scored", "lost"} : FatesOf' = [FatesOf EXCEPT ![v] = f]
        BY <1>2, <2>2, <3>2, FateSettled
      <4>2. OutcomeOf = "open" /\ FatesOf[v] = "pending" /\ UNCHANGED <<OutcomeOf, Told>>
        BY <1>2, <2>2, <3>2, FateSettled DEF FatesOf
      <4>3. Fates!Settle(v)
        BY <4>1, <4>2 DEF Fates!Settle, FatesOf, Told
      <4> QED BY <4>3 DEF Fates!Next
    <3> QED BY <3>1, <3>2
  <2> QED BY <2>1, <2>2
<1>3. CASE ~Join /\ ~ \E v \in Vendors : BranchStep(v)
  <2>1. UNCHANGED <<evaluated, failed>>
    BY <1>3, OutputsSettled DEF outputVars
  <2>2. Fixed
    <3>1. CASE stage = "evaluation" /\ phase = "vendors"
      <4>1. UNCHANGED <<stage, branch, result>>
        BY <1>3, <3>1 DEF Next, Planner, Ingestion, FanOut, StageDone, Comparator, Decision,
           Finalise, CriticNoReport, CriticApproves, CriticRetries, CriticExhausted,
           PipelineExcept, PipelineBlocked, PipelineCompletes, PipelineTailRaises, vars,
           branchVars
      <4>2. ASSUME NEW v \in Vendors PROVE FateOf(v)' = FateOf(v)
        BY <2>1, <4>1 DEF FateOf, FailedAt
      <4> QED BY <4>2 DEF FatesOf
    <3>2. CASE ~(stage = "evaluation" /\ phase = "vendors")
      <4>1. \A v \in Vendors : stage = "evaluation" => branch[v] # "returned"
        BY <3>2 DEF IInv, Shape, Quiet
      <4>2. \A v \in Vendors : stage' = "evaluation" => branch'[v] # "returned"
        <5>1. CASE FanOut
          BY <5>1 DEF FanOut
        <5>2. CASE ~FanOut
          <6>1. stage' = "evaluation" => UNCHANGED phase \/ phase' = "start"
            BY <1>3, <5>2 DEF Next, Planner, Ingestion, BlockAndEnd, StageDone, Continue,
               Comparator, Decision, Finalise, CriticNoReport, CriticApproves, CriticRetries,
               RetryStage, CriticExhausted, PipelineExcept, PipelineBlocked, PipelineCompletes,
               PipelineTailRaises, vars, graphVars, NextStage
          <6>2. UNCHANGED branch
            BY <1>3, <5>2 DEF Next, Planner, Ingestion, BlockAndEnd, StageDone,
               Comparator, Decision, Finalise, CriticNoReport, CriticApproves, CriticRetries,
               CriticExhausted, PipelineExcept, PipelineBlocked, PipelineCompletes,
               PipelineTailRaises, vars, graphVars, branchVars
          <6>3. phase = "vendors" /\ stage' = "evaluation" => stage = "evaluation" \/ phase' = "start"
            BY StageMoves DEF IInv, NextStage, Stages, FanOutStages
          <6> QED BY <3>2, <6>1, <6>2, <6>3 DEF IInv, Shape, Quiet
        <5> QED BY <5>1, <5>2
      <4> QED BY <2>1, <4>1, <4>2, FatesKept
    <3> QED BY <3>1, <3>2
  <2>3. CASE Decision /\ stage' = "explanation"
    <3>1. stage = "decision" /\ ~blocked /\ ~blocked'
      <4>1. stage = "decision" /\ phase' = "start"
        BY <2>3 DEF Decision, BlockAndEnd, Continue
      <4> QED BY <2>3, <4>1 DEF IInv, EndOK
    <3>2. OutcomeOf = "open" /\ OutcomeOf' = "decided" /\ Told = {} /\ Told' = {}
      <4>1. OutcomeOf = "open" /\ OutcomeOf' = "decided"
        <5>1. decision'.made
          BY <2>3 DEF IInv, CommitOK
        <5> QED BY <2>3, <3>1, <5>1, OutcomeAt DEF Stages, OutcomeOf
      <4> QED BY <4>1 DEF Told
    <3>3. \A v \in Vendors : FateOf(v) # "pending"
      BY <3>1 DEF IInv, FateOK, EveryVendorAccountedFor, PastEvaluation, FateOf
    <3> QED BY <2>2, <3>2, <3>3 DEF Fates!Next, Fates!Decide, FatesOf, Told
  <2>4. CASE CriticApproves
    <3>1. stage = "explanation" /\ stage' = "end" /\ UNCHANGED <<blocked, report>> /\ report.made
      BY <2>4 DEF CriticApproves, verdictVars
    <3>2. OutcomeOf = "decided" /\ OutcomeOf' = "reported"
      BY <3>1, OutcomeAt DEF IInv, EndOK, OutcomeOf
    <3>3. Told = {} /\ Told' = {n.vendor : n \in report.narratives}
      BY <3>1, <3>2 DEF Told
    <3>4. Told' \subseteq {v \in Vendors : FateOf(v) = "scored"}
      BY <3>1, <3>3 DEF IInv, RoundsOK, FateOf, TypeOK
    <3> DEFINE scored == {v \in Vendors : FatesOf[v] = "scored"}
    <3>5. Told' \in SUBSET scored
      BY <3>4 DEF FatesOf
    <3>6. Fates!Report
      BY <2>2, <3>2, <3>5 DEF Fates!Report, FatesOf, Told
    <3> QED BY <3>6 DEF Fates!Next
  <2>5. CASE /\ \/ Planner \/ Ingestion \/ FanOut \/ StageDone \/ Comparator \/ Decision
                \/ Finalise \/ CriticNoReport \/ CriticRetries \/ CriticExhausted
                \/ PipelineExcept \/ PipelineBlocked \/ PipelineCompletes \/ PipelineTailRaises
                \/ UNCHANGED vars
             /\ ~(Decision /\ stage' = "explanation")
    <3>1. CASE Planner \/ Ingestion \/ StageDone \/ Comparator \/ Decision
      <4>1. stage \in Stages \ {"explanation"}
        BY <3>1 DEF Planner, Ingestion, StageDone, Comparator, Decision, Stages, FanOutStages
      <4>2. \/ stage' \in Stages \ {"explanation"}
            \/ stage' = "raised"
            \/ stage' = "end" /\ blocked'
        <5>1. CASE BlockAndEnd
          BY <5>1 DEF BlockAndEnd, BlockUpdate
        <5>2. CASE Continue
          <6>1. stage' = "explanation" => stage = "decision"
            BY <4>1, <5>2 DEF Continue, NextStage, Stages, FanOutStages
          <6>2. stage = "decision" => Decision
            BY <3>1 DEF Planner, Ingestion, StageDone, Comparator, FanOutStages
          <6>3. stage' \in Stages
            BY <4>1, <5>2 DEF Continue, NextStage, Stages, FanOutStages
          <6> QED BY <2>5, <6>1, <6>2, <6>3
        <5> QED BY <3>1, <5>1, <5>2 DEF Planner, Ingestion, StageDone, Comparator, Decision
      <4>3. OutcomeOf = "open" /\ OutcomeOf' \in {"open", "aborted"}
        <5>1. OutcomeOf = "open"
          BY <4>1, OutcomeAt
        <5>2. CASE stage' \in Stages \ {"explanation"}
          <6>1. ~blocked' /\ ~decision'.made
            BY <5>2 DEF IInv, EndOK, CommitOK, Stages, FanOutStages
          <6> QED BY <5>1, <5>2, <6>1 DEF OutcomeOf, Stages, FanOutStages
        <5>3. CASE stage' \notin Stages \ {"explanation"}
          BY <4>2, <5>1, <5>3 DEF OutcomeOf
        <5> QED BY <5>2, <5>3
      <4> QED BY <1>a, <1>b, <2>2, <4>3 DEF Told
    <3>2. CASE FanOut \/ UNCHANGED vars
      <4>1. UNCHANGED <<stage, blocked, decision, report>>
        BY <3>2 DEF FanOut, vars, verdictVars
      <4> QED BY <1>a, <2>2, <4>1 DEF OutcomeOf, Told
    <3>3. CASE Finalise \/ CriticRetries
      <4>1. stage = "explanation" /\ stage' = stage /\ UNCHANGED decision /\ decision.made
        BY <3>3 DEF Finalise, CriticRetries, RetryStage, IInv, CommitOK
      <4>2. blocked => blocked'
        BY <3>3 DEF Finalise, CriticRetries, BlockUpdate
      <4>3. /\ OutcomeOf = IF blocked THEN "aborted" ELSE "decided"
            /\ OutcomeOf' = IF blocked' THEN "aborted" ELSE "decided"
        BY <4>1 DEF OutcomeOf
      <4> QED BY <1>a, <1>b, <2>2, <4>2, <4>3 DEF Told
    <3>4. CASE CriticNoReport \/ CriticExhausted
      <4>1. stage = "explanation" /\ stage' = "end" /\ blocked' /\ decision.made
        BY <3>4 DEF CriticNoReport, CriticExhausted, IInv, CommitOK
      <4>2. OutcomeOf \in {"decided", "aborted"} /\ OutcomeOf' = "aborted"
        BY <4>1 DEF OutcomeOf
      <4> QED BY <1>a, <1>b, <2>2, <4>2 DEF Told
    <3>5. CASE PipelineExcept
      <4>1. stage = "raised" /\ stage' = "closed" /\ ~decision.made /\ UNCHANGED decision
        BY <3>5 DEF PipelineExcept, graphVars, verdictVars, IInv, CommitOK
      <4>2. OutcomeOf = "aborted" /\ OutcomeOf' = "aborted"
        BY <4>1 DEF OutcomeOf
      <4> QED BY <1>a, <2>2, <4>2 DEF Told
    <3>6. CASE PipelineBlocked \/ PipelineCompletes \/ PipelineTailRaises
      <4>1. /\ stage = "end" /\ stage' = "closed" /\ UNCHANGED <<blocked, decision, report>>
            /\ ~blocked => decision.made
        BY <3>6 DEF PipelineBlocked, PipelineCompletes, PipelineTailRaises, EndedBlocked,
           graphVars, verdictVars, IInv, EndOK
      <4>2. OutcomeOf' = OutcomeOf
        BY <4>1 DEF OutcomeOf
      <4> QED BY <1>a, <2>2, <4>1, <4>2 DEF Told
    <3> QED BY <2>5, <3>1, <3>2, <3>3, <3>4, <3>5, <3>6
  <2> QED BY <1>3, <2>3, <2>4, <2>5 DEF Next
<1> QED BY <1>1, <1>2, <1>3

----------------------------------------------------------------------------
(* Theorems *)

\* The inductive invariant holds initially ...
LEMMA IInvInit == Init => IInv
<1> SUFFICES ASSUME Init PROVE IInv
  OBVIOUS
<1>1. TypeOK
  BY TypeOKInit
<1>2. Shape /\ BranchOK
  BY RetriesAssumption DEF Init, Shape, Quiet, BranchOK, Qualities, Stages, FanOutStages
<1>3. ScoresRestOnFacts /\ FateOK
  BY DEF Init, ScoresRestOnFacts, FateOK, FailedAt, EveryVendorAccountedFor, PastEvaluation
<1>4. CommitOK /\ EndOK
  BY DEF Init, CommitOK, DecisionCoversScores, EndOK, CompleteMeansSound, NoComparison, NoDecision,
     NoReport
<1>5. TelemetryOK
  BY RetriesAssumption DEF Init, TelemetryOK, TelemetryTruthful, NoMetric, CriticStages
<1>6. RoundsOK
  BY DEF Init, RoundsOK, Rounds, NoReport, Stages, ReportAccountsForEveryVendor,
     OldNarrativeOnlyAfterCrash
<1> QED BY <1>1, <1>2, <1>3, <1>4, <1>5, <1>6 DEF IInv

\* ... and is kept by every step.
LEMMA IInvStep == IInv /\ [Next]_vars => IInv'
BY TypeOKStep, ShapeStep, BranchOKStep, ScoresRestOnFactsStep, FateOKStep, CommitOKStep, EndOKStep,
   TelemetryOKStep, RoundsOKStep DEF IInv

\* The inductive invariant holds in every reachable state.
THEOREM Invariance == Spec => []IInv
BY IInvInit, IInvStep, PTL DEF Spec

\* Every variable keeps its type: no attempt counter, narrative key or failure
\* entry leaves its range, for every retry limit.
THEOREM TypeCorrect == Spec => []TypeOK
<1>1. IInv => TypeOK
  BY DEF IInv
<1> QED BY <1>1, Invariance, PTL

\* The per-vendor nodes: no score without facts and no facts without chunks.
THEOREM ScoresHaveFacts == Spec => []ScoresRestOnFacts
<1>1. IInv => ScoresRestOnFacts
  BY DEF IInv
<1> QED BY <1>1, Invariance, PTL

\* The per-vendor nodes: past the evaluation each vendor is scored or failed.
THEOREM VendorsAccountedFor == Spec => []EveryVendorAccountedFor
<1>1. IInv => EveryVendorAccountedFor
  BY DEF IInv, FateOK
<1> QED BY <1>1, Invariance, PTL

\* comparator_node and decision_node: ranking and split cover the scored vendors.
THEOREM DecisionIsComplete == Spec => []DecisionCoversScores
<1>1. IInv => DecisionCoversScores
  BY DEF IInv, CommitOK
<1> QED BY <1>1, Invariance, PTL

\* explanation_critic and _run_pipeline: complete means decided, and reported
\* without an ungrounded narrative if reported at all.
THEOREM CompleteIsSound == Spec => []CompleteMeansSound
<1>1. IInv => CompleteMeansSound
  BY DEF IInv, EndOK
<1> QED BY <1>1, Invariance, PTL

\* explanation_finalise, the reducers and critic_retry.py: over all attempts of both retry
\* loops, the report speaks of every vendor, an old narrative stands for crashes only, and
\* the telemetry agrees with the outputs.
THEOREM RecordsTrue == Spec => []RecordsAreTruthful
<1>1. IInv => RecordsAreTruthful
  BY DEF IInv, TelemetryOK, RoundsOK, RecordsAreTruthful
<1> QED BY <1>1, Invariance, PTL

\* The explanation retry loop: however often it runs, what was decided stays.
THEOREM DecisionIsFinal == Spec => RetryNeverReopensDecision
<1>1. IInv /\ [Next]_vars =>
        [decision.made => UNCHANGED <<retrieved, extracted, evaluated, comparison, decision>>]_vars
  <2> SUFFICES ASSUME IInv, [Next]_vars, decision.made
               PROVE  UNCHANGED <<retrieved, extracted, evaluated, comparison, decision>>
    OBVIOUS
  <2>1. stage \in {"explanation", "end", "closed"}
    BY DEF IInv, CommitOK
  <2> QED
    BY <2>1, ZenonT(30) DEF Next, Planner, Ingestion, BlockAndEnd, FanOut, BranchStep, SkipExtraction, NoInput,
       AcquireSlot, Succeed, Crash, HardBlock, LookupRaises, Join, Returned, StageDone, Comparator,
       Decision, Finalise, CriticNoReport, CriticApproves, CriticRetries, CriticExhausted,
       PipelineExcept, PipelineBlocked, PipelineCompletes, PipelineTailRaises, vars, branchVars,
       outputVars, verdictVars, graphUnchanged, graphVars, IInv, TypeOK
<1> QED BY <1>1, Invariance, PTL DEF Spec, RetryNeverReopensDecision

\* The nodes, branches and joins keep the promise of VendorFates, up to its fairness: each
\* vendor settles once and alone, the decision waits for all, the report speaks of scored
\* vendors only, and a run that is reported or aborted stays so.
THEOREM RefinesVendorFates == Spec => Fates!Safety
<1>1. Init => Fates!Init
  <2> SUFFICES ASSUME Init PROVE Fates!Init
    OBVIOUS
  <2>1. \A v \in Vendors : FateOf(v) = "pending"
    BY DEF Init, FateOf, FailedAt
  <2>2. OutcomeOf = "open"
    BY DEF Init, OutcomeOf, NoDecision
  <2> QED BY <2>1, <2>2 DEF Fates!Init
<1>2. IInv /\ IInv' /\ [Next]_vars => [Fates!Next]_(Fates!vars)
  BY FatesStep
<1> QED BY <1>1, <1>2, Invariance, PTL DEF Spec, Fates!Safety
============================================================================
