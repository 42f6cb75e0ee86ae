-------------------------- MODULE FactStore_proofs --------------------------
(***************************************************************************)
(* Theorems about FactStore, for all runs, vendors and bounds: the facts of *)
(* a refused attempt are never stored, the facts of an accepted one are     *)
(* there to be evaluated, and they go only with their own run.              *)
(***************************************************************************)
EXTENDS FactStore, TLAPS

\* A pipeline that has touched its branches belongs to a run that was started.
StartedOK ==
  \A t \in TaskIds : runOf[t] # NoRun => status[runOf[t]] # "none"

UnstartedOK ==
  \A t \in TaskIds, v \in Vendors : runOf[t] = NoRun => branch[t][v] = NewBranch

\* What was accepted is stored, unless the run has been deleted.
AcceptedOK ==
  \A t \in TaskIds, v \in Vendors :
    branch[t][v].pc \in {"evaluate", "scoring"} =>
      \A f \in RowsOf(t, v, branch[t][v].kept) :
        f \in stored \/ (f.kind = "custom" /\ status[runOf[t]] = "deleted")

IInv == FactsTypeOK /\ StartedOK /\ UnstartedOK /\ AcceptedOK /\ OnlyAcceptedFactsAreStored

\* The steps of one branch, without what they leave alone.
BranchStep(t, v) == \/ Extract(t, v) \/ ExtractRaises(t, v)
                    \/ ReadFacts(t, v) \/ Score(t, v)

\* The initial state has no pipeline and no facts.
LEMMA InitIInv == FactsInit => IInv
  BY BoundsAssumption DEF FactsInit, IInv, FactsTypeOK, StartedOK, UnstartedOK, AcceptedOK,
     OnlyAcceptedFactsAreStored, NewBranch, Branch, Kinds, RunStatuses, RowsOf

----------------------------------------------------------------------------
(* What a branch step does, whichever it is *)

\* An extraction attempt that hands nothing on stores nothing.
Refuses(t, v, new) == /\ branch[t][v].pc = "extract" /\ new.pc \in {"extract", "failed"}
                      /\ stored' = stored

\* One that hands its facts on has stored them, under its own number.
HandsOn(t, v, new) ==
  /\ branch[t][v].pc = "extract" /\ new.pc = "evaluate" /\ new.tries = branch[t][v].tries
  /\ stored' = stored \cup RowsOf(t, v, new.kept)

\* Evaluation leaves the facts and the memory of the extraction alone.
Evaluates(t, v, new) ==
  /\ branch[t][v].pc \in {"evaluate", "scoring"}
  /\ new.pc \in {"evaluate", "scoring", "scored", "failed"}
  /\ new.tries = branch[t][v].tries /\ new.kept = branch[t][v].kept
  /\ stored' = stored

Effect(t, v, new) == /\ SetBranch(t, v, new)
                     /\ Refuses(t, v, new) \/ HandsOn(t, v, new) \/ Evaluates(t, v, new)

\* Every attempt of extraction and evaluation has one of the three effects.
LEMMA BranchEffect ==
  ASSUME FactsTypeOK, NEW t \in TaskIds, NEW v \in Vendors, BranchStep(t, v)
  PROVE  Live(t) /\ UNCHANGED runVars /\ \E new \in Branch : Effect(t, v, new)
<1> DEFINE b == branch[t][v]
<1>1. b \in Branch
  BY DEF FactsTypeOK
<1>2. CASE Extract(t, v)
  <2>1. PICK verdict \in {"approved", "blocked"}, kinds \in SUBSET Kinds, persisted \in BOOLEAN :
          /\ stored' = IF Saves(verdict, persisted) THEN stored \cup RowsOf(t, v, kinds) ELSE stored
          /\ \/ /\ Accepts(verdict, persisted)
                /\ SetBranch(t, v, [b EXCEPT !.pc = "evaluate", !.kept = kinds])
             \/ /\ ~Accepts(verdict, persisted) /\ AttemptsLeft(b.tries)
                /\ SetBranch(t, v, [b EXCEPT !.tries = @ + 1])
             \/ /\ ~Accepts(verdict, persisted) /\ ~AttemptsLeft(b.tries)
                /\ SetBranch(t, v, [b EXCEPT !.pc = "failed"])
    BY <1>2, Zenon DEF Extract
  <2>2. b.pc = "extract" /\ Live(t) /\ UNCHANGED runVars
    BY <1>2 DEF Extract
  <2>3. CASE Accepts(verdict, persisted)
    <3> DEFINE new == [b EXCEPT !.pc = "evaluate", !.kept = kinds]
    <3>1. new \in Branch /\ new.pc = "evaluate" /\ new.tries = b.tries /\ new.kept = kinds
      BY <1>1 DEF Branch
    <3>2. SetBranch(t, v, new) /\ stored' = stored \cup RowsOf(t, v, kinds)
      BY <2>1, <2>3 DEF Saves, Accepts
    <3> QED
      BY <2>2, <3>1, <3>2 DEF Effect, HandsOn
  <2>4. CASE ~Accepts(verdict, persisted) /\ AttemptsLeft(b.tries)
    <3> DEFINE new == [b EXCEPT !.tries = @ + 1]
    <3>1. new \in Branch /\ new.pc = "extract"
      BY <1>1, <2>2, <2>4, BoundsAssumption DEF Branch, AttemptsLeft
    <3>2. SetBranch(t, v, new) /\ stored' = stored
      BY <2>1, <2>4 DEF Saves, Accepts
    <3> QED
      BY <2>2, <3>1, <3>2 DEF Effect, Refuses
  <2>5. CASE ~Accepts(verdict, persisted) /\ ~AttemptsLeft(b.tries)
    <3> DEFINE new == [b EXCEPT !.pc = "failed"]
    <3>1. new \in Branch /\ new.pc = "failed"
      BY <1>1 DEF Branch
    <3>2. SetBranch(t, v, new) /\ stored' = stored
      BY <2>1, <2>5 DEF Saves, Accepts
    <3> QED
      BY <2>2, <3>1, <3>2 DEF Effect, Refuses
  <2> QED
    BY <2>3, <2>4, <2>5
<1>3. CASE ExtractRaises(t, v)
  <2> DEFINE new == [b EXCEPT !.pc = "failed"]
  <2>1. new \in Branch /\ new.pc = "failed"
    BY <1>1 DEF Branch
  <2> QED
    BY <1>3, <2>1 DEF ExtractRaises, Effect, Refuses
<1>4. CASE ReadFacts(t, v)
  <2> DEFINE new == [b EXCEPT !.pc = "scoring"]
  <2>1. new \in Branch /\ new.pc = "scoring" /\ new.tries = b.tries /\ new.kept = b.kept
    BY <1>1 DEF Branch
  <2> QED
    BY <1>4, <2>1 DEF ReadFacts, Effect, Evaluates
<1>5. CASE Score(t, v)
  <2>1. ASSUME NEW pc \in {"scored", "failed"}
        PROVE  LET new == [b EXCEPT !.pc = pc] IN
                 new \in Branch /\ new.pc = pc /\ new.tries = b.tries /\ new.kept = b.kept
    BY <1>1 DEF Branch
  <2>2. ASSUME AttemptsLeft(b.retries)
        PROVE  LET new == [b EXCEPT !.pc = "evaluate", !.retries = @ + 1] IN
                 new \in Branch /\ new.pc = "evaluate" /\ new.tries = b.tries /\ new.kept = b.kept
    <3>1. b.retries \in 0 .. MaxRetries /\ b.retries < MaxRetries
      BY <1>1, <2>2 DEF Branch, AttemptsLeft
    <3>2. b.retries + 1 \in 0 .. MaxRetries
      BY <3>1, BoundsAssumption
    <3> QED
      BY <1>1, <3>2 DEF Branch
  <2>3. b.pc = "scoring" /\ Live(t) /\ UNCHANGED runVars /\ stored' = stored
    BY <1>5 DEF Score
  <2>4. CASE SetBranch(t, v, [b EXCEPT !.pc = "scored"])
    BY <2>1, <2>3, <2>4 DEF Effect, Evaluates
  <2>5. CASE SetBranch(t, v, [b EXCEPT !.pc = "failed"])
    BY <2>1, <2>3, <2>5 DEF Effect, Evaluates
  <2>6. CASE AttemptsLeft(b.retries) /\ SetBranch(t, v, [b EXCEPT !.pc = "evaluate", !.retries = @ + 1])
    BY <2>2, <2>3, <2>6 DEF Effect, Evaluates
  <2> QED
    BY <1>5, <2>4, <2>5, <2>6 DEF Score
<1> QED
  BY <1>2, <1>3, <1>4, <1>5 DEF BranchStep

\* One branch moves, the others stay.
LEMMA OneBranch ==
  ASSUME FactsTypeOK, NEW t \in TaskIds, NEW v \in Vendors, NEW new \in Branch, SetBranch(t, v, new)
  PROVE  /\ branch' \in [TaskIds -> [Vendors -> Branch]]
         /\ branch'[t][v] = new
         /\ \A u \in TaskIds, w \in Vendors : u # t \/ w # v => branch'[u][w] = branch[u][w]
BY DEF FactsTypeOK, SetBranch
----------------------------------------------------------------------------
(* Preservation *)

\* A branch step keeps the invariant.
LEMMA BranchKeepsIInv ==
  ASSUME IInv, NEW t \in TaskIds, NEW v \in Vendors, BranchStep(t, v)
  PROVE  IInv'
<1>1. FactsTypeOK /\ Live(t) /\ UNCHANGED runVars
  BY BranchEffect DEF IInv
<1>2. PICK new \in Branch : Effect(t, v, new)
  BY BranchEffect DEF IInv
<1>3. /\ branch' \in [TaskIds -> [Vendors -> Branch]]
      /\ branch'[t][v] = new
      /\ \A u \in TaskIds, w \in Vendors : u # t \/ w # v => branch'[u][w] = branch[u][w]
  BY <1>1, <1>2, OneBranch DEF Effect
<1>4. branch[t][v] \in Branch
  BY <1>1 DEF FactsTypeOK
<1>5. stored \subseteq stored'
  BY <1>2 DEF Effect, Refuses, HandsOn, Evaluates
<1>6. \A f \in stored' \ stored : new.pc = "evaluate" /\ f \in RowsOf(t, v, new.kept)
                                /\ new.tries = branch[t][v].tries
  BY <1>2 DEF Effect, Refuses, HandsOn, Evaluates
<1>7. \A k \in SUBSET Kinds : RowsOf(t, v, k) \subseteq Fact
  BY <1>4 DEF RowsOf, Fact, Branch
<1>8. \A u \in TaskIds, w \in Vendors, k \in SUBSET Kinds : \A f \in RowsOf(u, w, k) :
        f.task = u /\ f.vendor = w /\ f.try = branch[u][w].tries /\ f.kind \in k
  BY DEF RowsOf
<1>9. new.kept \in SUBSET Kinds
  BY DEF Branch
<1>10. FactsTypeOK'
  <2>1. stored' \subseteq Fact
    BY <1>1, <1>6, <1>7, <1>9 DEF FactsTypeOK
  <2> QED
    BY <1>1, <1>3, <2>1 DEF FactsTypeOK, runVars
<1>11. StartedOK'
  BY <1>1 DEF IInv, StartedOK, runVars
<1>12. UnstartedOK'
  BY <1>1, <1>3 DEF IInv, UnstartedOK, Live, runVars
<1>13. AcceptedOK'
  <2> SUFFICES ASSUME NEW u \in TaskIds, NEW w \in Vendors,
                      branch'[u][w].pc \in {"evaluate", "scoring"},
                      NEW f \in RowsOf(u, w, branch[u][w].kept)'
               PROVE  f \in stored' \/ (f.kind = "custom" /\ status[runOf[u]] = "deleted")
    BY <1>1 DEF AcceptedOK, runVars
  <2>1. CASE u # t \/ w # v
    <3>1. f \in RowsOf(u, w, branch[u][w].kept) /\ branch[u][w].pc \in {"evaluate", "scoring"}
      BY <1>3, <2>1 DEF RowsOf
    <3> QED
      BY <3>1, <1>5 DEF IInv, AcceptedOK
  <2>2. CASE u = t /\ w = v
    <3>1. CASE HandsOn(t, v, new)
      <4>1. f \in RowsOf(t, v, new.kept)
        BY <1>3, <2>2, <3>1 DEF RowsOf, HandsOn
      <4> QED
        BY <3>1, <4>1 DEF HandsOn
    <3>2. CASE Evaluates(t, v, new)
      <4>1. f \in RowsOf(t, v, branch[t][v].kept) /\ branch[t][v].pc \in {"evaluate", "scoring"}
        BY <1>3, <2>2, <3>2 DEF RowsOf, Evaluates
      <4> QED
        BY <4>1, <2>2, <1>5 DEF IInv, AcceptedOK
    <3>3. CASE Refuses(t, v, new)
      BY <1>3, <2>2, <3>3 DEF Refuses
    <3> QED
      BY <1>2, <3>1, <3>2, <3>3 DEF Effect
  <2> QED
    BY <2>1, <2>2
<1>14. OnlyAcceptedFactsAreStored'
  <2> SUFFICES ASSUME NEW f \in stored'
               PROVE  /\ branch'[f.task][f.vendor].pc # "extract"
                      /\ f.try = branch'[f.task][f.vendor].tries
                      /\ f.kind \in branch'[f.task][f.vendor].kept
    BY DEF OnlyAcceptedFactsAreStored
  <2>1. f.task \in TaskIds /\ f.vendor \in Vendors
    BY <1>10 DEF FactsTypeOK, Fact
  <2>2. CASE f \in stored
    <3>1. /\ branch[f.task][f.vendor].pc # "extract"
          /\ f.try = branch[f.task][f.vendor].tries
          /\ f.kind \in branch[f.task][f.vendor].kept
      BY <2>2 DEF IInv, OnlyAcceptedFactsAreStored
    <3>2. CASE f.task # t \/ f.vendor # v
      BY <1>3, <2>1, <3>1, <3>2
    <3>3. CASE f.task = t /\ f.vendor = v
      BY <1>2, <1>3, <3>1, <3>3 DEF Effect, Refuses, HandsOn, Evaluates
    <3> QED
      BY <3>2, <3>3
  <2>3. CASE f \notin stored
    BY <1>3, <1>6, <1>8, <1>9, <2>3
  <2> QED
    BY <2>2, <2>3
<1> QED
  BY <1>10, <1>11, <1>12, <1>13, <1>14 DEF IInv

\* A handler, or the end of a pipeline.
RunStep == \/ \E r \in Runs : Start(r) \/ Evaluate(r) \/ Cancel(r) \/ Delete(r)
           \/ \E r, new \in Runs : Rerun(r, new)
           \/ \E t \in TaskIds : EndTask(t)

\* No branch moves, no fact is added, a deleted run stays deleted and a pipeline
\* stays with its run.
RunsGoOn == /\ branch' = branch /\ stored' \subseteq stored
            /\ \A q \in Runs : status[q] = "deleted" => status'[q] = "deleted"
            /\ \A u \in TaskIds : runOf[u] # NoRun => runOf'[u] = runOf[u]
            /\ FactsTypeOK' /\ StartedOK'

\* What the steps of runs have in common.
LEMMA RunEffect ==
  ASSUME FactsTypeOK, StartedOK, RunStep
  PROVE  RunsGoOn
<1> USE DEF FactsTypeOK, StartedOK, RunStatuses, Present, RunsGoOn
<1>1. ASSUME NEW r \in Runs, Start(r) PROVE RunsGoOn
  BY <1>1 DEF Start
<1>2. ASSUME NEW r \in Runs, Evaluate(r) PROVE RunsGoOn
  BY <1>2, RunsAssumption DEF Evaluate, AddTask
<1>3. ASSUME NEW r \in Runs, NEW new \in Runs, Rerun(r, new) PROVE RunsGoOn
  BY <1>3, RunsAssumption DEF Rerun, AddTask
<1>4. ASSUME NEW r \in Runs, Cancel(r) PROVE RunsGoOn
  BY <1>4 DEF Cancel
<1>5. ASSUME NEW r \in Runs, Delete(r) PROVE RunsGoOn
  BY <1>5 DEF Delete
<1>6. ASSUME NEW t \in TaskIds, EndTask(t) PROVE RunsGoOn
  BY <1>6, RunsAssumption DEF EndTask, Live
<1> QED
  BY <1>1, <1>2, <1>3, <1>4, <1>5, <1>6 DEF RunStep

\* A pipeline whose branch has moved was started.
LEMMA MovedMeansStarted ==
  ASSUME IInv, NEW t \in TaskIds, NEW v \in Vendors, branch[t][v].pc # "extract"
  PROVE  runOf[t] \in Runs /\ status[runOf[t]] # "none"
<1>1. runOf[t] # NoRun
  BY DEF IInv, UnstartedOK, NewBranch
<1> QED
  BY <1>1 DEF IInv, FactsTypeOK, StartedOK

\* delete_run, the foreign key of setup_id: a fact that disappears is a custom fact
\* of the deleted run, or of one that was deleted before.
LEMMA LostFacts ==
  ASSUME IInv, RunStep,
         NEW f \in stored \ stored'
  PROVE  f.kind = "custom" /\ status'[runOf[f.task]] = "deleted"
<1>1. PICK r \in Runs : Delete(r)
  BY DEF RunStep, Start, Evaluate, Cancel, Rerun, EndTask
<1>2. f.kind = "custom" /\ SetupOf(f.task) = setupOf[r]
  BY <1>1 DEF Delete
<1>3. f.task \in TaskIds /\ f.vendor \in Vendors
  BY DEF IInv, FactsTypeOK, Fact
<1>4. branch[f.task][f.vendor].pc # "extract"
  BY DEF IInv, OnlyAcceptedFactsAreStored
<1>5. runOf[f.task] \in Runs /\ status[runOf[f.task]] # "none"
  BY <1>3, <1>4, MovedMeansStarted
<1>6. status \in [Runs -> RunStatuses \cup {"none", "deleted"}]
  BY DEF IInv, FactsTypeOK
<1>7. CASE runOf[f.task] = r
  BY <1>1, <1>2, <1>6, <1>7 DEF Delete
<1>8. CASE runOf[f.task] # r
  <2>1. ~Present(runOf[f.task])
    BY <1>1, <1>2, <1>5, <1>8 DEF Delete, Deletable, SetupOf
  <2>2. status[runOf[f.task]] = "deleted"
    BY <1>5, <1>6, <2>1 DEF Present
  <2> QED
    BY <1>1, <1>2, <1>5, <1>6, <1>8, <2>2 DEF Delete
<1> QED
  BY <1>7, <1>8

\* A step of a run keeps the invariant.
LEMMA RunKeepsIInv ==
  ASSUME IInv, RunStep
  PROVE  IInv'
<1>1. FactsTypeOK /\ StartedOK
  BY DEF IInv
<1>2. RunsGoOn
  BY <1>1, RunEffect
<1>3. UnstartedOK'
  BY <1>2 DEF RunsGoOn, IInv, UnstartedOK
<1>4. OnlyAcceptedFactsAreStored'
  BY <1>2 DEF RunsGoOn, IInv, OnlyAcceptedFactsAreStored
<1>5. AcceptedOK'
  <2> SUFFICES ASSUME NEW u \in TaskIds, NEW w \in Vendors,
                      branch[u][w].pc \in {"evaluate", "scoring"},
                      NEW f \in RowsOf(u, w, branch[u][w].kept)
               PROVE  f \in stored' \/ (f.kind = "custom" /\ status'[runOf'[u]] = "deleted")
    BY <1>2 DEF RunsGoOn, AcceptedOK, RowsOf
  <2>1. runOf[u] \in Runs
    BY MovedMeansStarted
  <2>2. runOf'[u] = runOf[u]
    BY <1>2, <2>1, RunsAssumption DEF RunsGoOn
  <2>3. f.task = u
    BY DEF RowsOf
  <2>4. CASE f \in stored'
    BY <2>4
  <2>5. CASE f \in stored \ stored'
    BY <2>2, <2>3, <2>5, LostFacts
  <2>6. CASE f \notin stored
    BY <1>2, <2>1, <2>2, <2>6 DEF RunsGoOn, IInv, AcceptedOK
  <2> QED
    BY <2>4, <2>5, <2>6
<1> QED
  BY <1>2, <1>3, <1>4, <1>5 DEF RunsGoOn, IInv

\* Next is one of the two kinds of steps.
LEMMA NextSplits ==
  ASSUME FactsNext
  PROVE  \/ \E t \in TaskIds, v \in Vendors : BranchStep(t, v)
         \/ RunStep
BY DEF FactsNext, BranchStep, RunStep
----------------------------------------------------------------------------
(* Theorems *)
\* The inductive invariant holds in every reachable state.
THEOREM StoreInvariance == FactsSpec => []IInv
<1>1. IInv /\ [FactsNext]_factVars => IInv'
  <2> SUFFICES ASSUME IInv, [FactsNext]_factVars PROVE IInv'
    OBVIOUS
  <2>1. CASE FactsNext
    BY <2>1, NextSplits, BranchKeepsIInv, RunKeepsIInv
  <2>2. CASE UNCHANGED factVars
    BY <2>2 DEF factVars, runVars, IInv, FactsTypeOK, StartedOK, UnstartedOK, AcceptedOK,
       OnlyAcceptedFactsAreStored, RowsOf
  <2> QED
    BY <2>1, <2>2
<1> QED
  BY InitIInv, <1>1, PTL DEF FactsSpec

\* Every variable keeps its type.
THEOREM StoreTypeCorrect == FactsSpec => []FactsTypeOK
BY StoreInvariance, PTL DEF IInv

\* run_extraction_agent, extraction_per_vendor: a refused attempt leaves no facts.
THEOREM RefusedLeaveNothing == FactsSpec => []OnlyAcceptedFactsAreStored
BY StoreInvariance, PTL DEF IInv

\* delete_run: facts disappear only when the run that extracted them is deleted.
THEOREM LostOnlyWithRun == FactsSpec => FactsLostOnlyWithTheirRun
<1>1. IInv /\ [FactsNext]_factVars =>
        [\A f \in stored \ stored' : status'[runOf[f.task]] = "deleted"]_factVars
  <2> SUFFICES ASSUME IInv, FactsNext, NEW f \in stored \ stored'
               PROVE  status'[runOf[f.task]] = "deleted"
    OBVIOUS
  <2>1. ASSUME NEW t \in TaskIds, NEW v \in Vendors, BranchStep(t, v)
        PROVE  FALSE
    BY <2>1, BranchEffect DEF IInv, Effect, Refuses, HandsOn, Evaluates
  <2>2. CASE RunStep
    BY <2>2, LostFacts
  <2> QED
    BY <2>1, <2>2, NextSplits
<1> QED
  BY StoreInvariance, <1>1, PTL DEF FactsSpec, FactsLostOnlyWithTheirRun

\* run_extraction_agent, step 8: an evaluation attempt reads all that its pipeline
\* has accepted, unless the run has been deleted.
THEOREM EvaluationReadsOwnFacts == FactsSpec => OwnFactsAreEvaluated
<1> DEFINE A == \A t \in TaskIds, v \in Vendors :
                  (branch[t][v].pc = "evaluate" /\ branch'[t][v].pc = "scoring") =>
                    \A f \in RowsOf(t, v, branch[t][v].kept) :
                      \/ f \in VendorFacts(t, v)
                      \/ f.kind = "custom" /\ status[runOf[t]] = "deleted"
<1>1. IInv /\ [FactsNext]_factVars => [A]_factVars
  <2> SUFFICES ASSUME IInv, NEW t \in TaskIds, NEW v \in Vendors,
                      branch[t][v].pc = "evaluate",
                      NEW f \in RowsOf(t, v, branch[t][v].kept),
                      ~(f.kind = "custom" /\ status[runOf[t]] = "deleted")
               PROVE  f \in VendorFacts(t, v)
    OBVIOUS
  <2>1. f \in stored
    BY DEF IInv, AcceptedOK
  <2>2. f.task = t /\ f.vendor = v
    BY DEF RowsOf
  <2> QED
    BY <2>1, <2>2 DEF VendorFacts
<1> QED
  BY StoreInvariance, <1>1, PTL DEF FactsSpec, OwnFactsAreEvaluated
=============================================================================
