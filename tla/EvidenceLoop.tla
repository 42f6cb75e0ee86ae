---------------------------- MODULE EvidenceLoop ----------------------------
(***************************************************************************)
(* How the evidence for one vendor is judged, fetched again and decided on: *)
(* the extraction critic's retry loop over the extracted facts              *)
(* (_extraction/retry_loop.py), the mandatory checks with voting and the    *)
(* fallback to the document's chunks, the scoring (agents/evaluation.py),   *)
(* and what the decision agent makes of it for this vendor.                 *)
(*                                                                         *)
(* The setup is a new one: FactStore shows what older rows of a setup add.  *)
(* Facts are kept in buckets, one per standard type and one per custom      *)
(* target; a bucket's content is told apart by who wrote it.                *)
(***************************************************************************)
EXTENDS Integers, Sequences, SequencesExt, FiniteSets

CONSTANTS
  Targets,     \* extraction targets
  FactType,    \* [Targets -> standard types and "custom"]
  TypeOrder,   \* the order of _type_configs
  Criteria,    \* scoring criteria
  Weight,      \* [Criteria -> weights], in thousandths
  Setups,      \* the setups to be tried
  Samples      \* self_consistency.samples

Types   == Range(TypeOrder)
Customs == {t \in Targets : FactType[t] = "custom"}
Buckets == Types \cup Customs

\* Where the facts of a target are: _get_facts_for_target and its copies in the loop.
Bucket(t) == IF t \in Customs THEN t ELSE FactType[t]

First == <<"first">>
Keys  == ({"type"} \X Types) \cup ({"custom"} \X Targets) \cup ({"scoring"} \X Criteria \X Targets)

ASSUME TargetsAssumption == /\ TypeOrder \in Seq(Types) /\ FactType \in [Targets -> Types \cup {"custom"}]
                            /\ "custom" \notin Types /\ Types \cap Targets = {}
ASSUME SetupsAssumption ==
  Setups \subseteq [checks : Seq(Targets), pairs : Seq(Criteria \X Targets)]
ASSUME SamplesAssumption == Samples \in Nat \ {0}
ASSUME WeightAssumption == IsFiniteSet(Criteria) /\ Weight \in [Criteria -> Nat]

VARIABLES
  setup,    \* mandatory checks, by target, and (criterion, target) pairs
  facts,    \* FactsState: who wrote a bucket, and whether it holds any fact
  retried,  \* retried_fact_types
  calls,    \* retry calls made so far, by key (history)
  todo,     \* what the critic has still to judge
  pc,
  decided,  \* compliance_decisions and dropped checks, in order
  search,   \* the check waiting for chunks: its verdict, passes made, chunks found
  scores    \* criterion_scores

vars == <<setup, facts, retried, calls, todo, pc, decided, search, scores>>
criticVars == <<facts, retried, calls, todo>>

Statuses == {"pass", "fail", "insufficient_evidence"}
\* "strict": the vote_breakdown gives the decision more than half of the samples.
Verdict  == [decision : Statuses \cup {"dropped"}, contra : BOOLEAN, fetched : BOOLEAN,
             strict : BOOLEAN]
Dropped  == [decision |-> "dropped", contra |-> FALSE, fetched |-> FALSE, strict |-> FALSE]
NoSearch == [verdict |-> Dropped, passes |-> 0, found |-> FALSE]

Item(phase, key, bucket) == [phase |-> phase, key |-> key, bucket |-> bucket]

\* The loop over _type_configs and the loop over the checks; what they skip, they skip
\* when the item is at the head.
TypeItems == [i \in DOMAIN TypeOrder |-> Item("type", <<"type", TypeOrder[i]>>, TypeOrder[i])]

CustomItems(s) ==
  [i \in DOMAIN s.checks |-> Item("custom", <<"custom", s.checks[i]>>, Bucket(s.checks[i]))]

\* One item per criterion and target of it.
ScoringItems(s) ==
  [i \in DOMAIN s.pairs |->
     Item("scoring", <<"scoring", s.pairs[i][1], s.pairs[i][2]>>, Bucket(s.pairs[i][2]))]

\* The first extraction may have found something in a bucket or not.
Init == /\ setup \in Setups
        /\ facts \in [Buckets -> [by : {First}, some : BOOLEAN]]
        /\ retried = {} /\ calls = [k \in Keys |-> 0]
        /\ todo = TypeItems \o CustomItems(setup) \o ScoringItems(setup)
        /\ pc = "judge"
        /\ decided = <<>> /\ search = NoSearch
        /\ scores = [c \in Criteria |-> "none"]

----------------------------------------------------------------------------
(* The extraction critic *)

At(phase) == pc = "judge" /\ todo # <<>> /\ Head(todo).phase = phase

\* judge_extraction over all facts of a bucket.  A fact without a quote fails; an LLM
\* error counts as adequate with confidence 0, which is below the floor.  One fact that
\* passes is enough to leave the bucket alone.
Verdicts == {"passes", "fails", "unsure"}

\* To the retry of the item at the head, or past it.
Retry == /\ pc' = "retry"
         /\ retried' = retried \cup {Head(todo).key}
         /\ UNCHANGED todo

Pass == /\ todo' = Tail(todo)
        /\ UNCHANGED <<retried, pc>>

\* check_by_fact_type has the types that a check names.
Named(ft) == \E i \in DOMAIN setup.checks : FactType[setup.checks[i]] = ft

\* Standard types: the first check of the type is judged for; nothing found is a failure.
JudgeType ==
  LET item == Head(todo) IN
  /\ At("type")
  /\ \E v \in IF facts[item.bucket].some THEN Verdicts ELSE {"fails"} :
       IF Named(item.bucket) /\ v = "fails" /\ item.key \notin retried THEN Retry ELSE Pass
  /\ UNCHANGED <<setup, facts, calls, decided, search, scores>>

\* Plausible bug: the key of an earlier check on the same target is not looked up.
JudgeableBug(item) == facts[item.bucket].some

\* Custom targets and scoring pairs: already retried, or nothing found, is skipped.
Judgeable(item) == item.key \notin retried /\ facts[item.bucket].some

JudgeCustom ==
  LET item == Head(todo) IN
  /\ At("custom")
  /\ \E v \in Verdicts :
       IF item.bucket \in Customs /\ Judgeable(item) /\ v = "fails" THEN Retry ELSE Pass
  /\ UNCHANGED <<setup, facts, calls, decided, search, scores>>

JudgeScoring ==
  LET item == Head(todo) IN
  /\ At("scoring")
  /\ \E v \in Verdicts : IF Judgeable(item) /\ v = "fails" THEN Retry ELSE Pass
  /\ UNCHANGED <<setup, facts, calls, decided, search, scores>>

\* Whatever the second reply holds, nothing included; a second judgement only warns.
Reply(key) == [by : {key}, some : BOOLEAN]

\* Plausible bug: the other custom facts are not kept.
ReplacedBug(item, new) ==
  [b \in Buckets |-> IF b = item.bucket THEN new
                     ELSE IF {b, item.bucket} \subseteq Customs THEN [new EXCEPT !.some = FALSE]
                     ELSE facts[b]]

\* The list of a standard type, or one target's share of extracted_facts.
Replaced(item, new) == [facts EXCEPT ![item.bucket] = new]

\* call_llm, json.loads or the parser raises: a warning, and the facts stay.
Refetch(item) ==
  /\ calls' = [calls EXCEPT ![item.key] = @ + 1]
  /\ todo' = Tail(todo) /\ pc' = "judge"
  /\ \/ \E new \in Reply(item.key) : facts' = Replaced(item, new)
     \/ UNCHANGED facts
  /\ UNCHANGED <<setup, retried, decided, search, scores>>

RetryType    == pc = "retry" /\ Head(todo).phase = "type"    /\ Refetch(Head(todo))
RetryCustom  == pc = "retry" /\ Head(todo).phase = "custom"  /\ Refetch(Head(todo))
RetryScoring == pc = "retry" /\ Head(todo).phase = "scoring" /\ Refetch(Head(todo))

\* critic_after_extraction blocks the vendor, or the facts are saved and read back.
EndExtraction ==
  /\ pc = "judge" /\ todo = <<>>
  /\ pc' \in {"check", "blocked"}
  /\ UNCHANGED <<setup, criticVars, decided, search, scores>>

----------------------------------------------------------------------------
(* The mandatory checks *)

Target == setup.checks[Len(decided) + 1]

HasFacts(t) == facts[Bucket(t)].some

Replies == [decision : Statuses, contra : BOOLEAN]

Tally(votes, d) == Cardinality({i \in DOMAIN votes : votes[i].decision = d})

\* The decision with more than half of the votes, or else insufficient_evidence.
Winners(votes) ==
  LET strict == {d \in Statuses : 2 * Tally(votes, d) > Len(votes)}
  IN  IF strict = {} THEN {"insufficient_evidence"} ELSE strict

Vote(d, contra, votes, samples) ==
  [decision |-> d, contra |-> contra, fetched |-> FALSE, strict |-> 2 * votes > samples]

\* _decide_check_with_voting: the most confident of the samples that voted for the winner
\* speaks for it, contradictions included; with none of them a bare record.
Voted(votes) ==
  UNION {LET matching == {i \in DOMAIN votes : votes[i].decision = w} IN
         IF matching = {} THEN {Vote(w, FALSE, 0, Len(votes))}
         ELSE {Vote(w, votes[i].contra, Cardinality(matching), Len(votes)) : i \in matching}
         : w \in Winners(votes)}

\* One call when it is confident, all samples when the first is borderline.
Outcomes ==
  {Vote(r.decision, r.contra, 1, 1) : r \in Replies}
  \cup UNION {Voted(votes) : votes \in [1 .. Samples -> Replies]}

\* E3.b: with a contradiction compliance cannot be confirmed.
Settled(r) == IF r.contra THEN "insufficient_evidence" ELSE r.decision

\* extraction_was_retried compares the target's fact type with the retried keys: a custom
\* target never matches its own.
WasRetried(t) == <<"type", FactType[t]>> \in retried

\* Plausible bug: a contradiction does not stop the search.
FallbackBug(t, r) ==
  \/ ~HasFacts(t) /\ Settled(r) = "insufficient_evidence"
  \/ HasFacts(t) /\ Settled(r) = "fail" /\ ~WasRetried(t)

\* Plausible bug: what the extraction critic did is not asked.
FallbackAnywayBug(t, r) ==
  /\ ~r.contra
  /\ \/ ~HasFacts(t) /\ Settled(r) = "insufficient_evidence"
     \/ HasFacts(t) /\ Settled(r) = "fail"

\* should_fallback
Fallback(t, r) ==
  /\ ~r.contra
  /\ \/ ~HasFacts(t) /\ Settled(r) = "insufficient_evidence"
     \/ HasFacts(t) /\ Settled(r) = "fail" /\ ~WasRetried(t)

Decide(v) == /\ decided' = Append(decided, v)
             /\ search' = NoSearch
             /\ pc' = IF Len(decided) + 1 = Len(setup.checks) THEN "score" ELSE "check"

\* _evaluate_mandatory_check; an exception drops the check with a warning.
EvaluateCheck ==
  /\ pc = "check" /\ Len(decided) < Len(setup.checks)
  /\ \/ \E r \in Outcomes :
          LET v == [r EXCEPT !.decision = Settled(r)] IN
          IF Fallback(Target, r)
          THEN /\ search' = [verdict |-> v, passes |-> 0, found |-> FALSE]
               /\ pc' = "search"
               /\ UNCHANGED decided
          ELSE Decide(v)
     \/ Decide(Dropped)
  /\ UNCHANGED <<setup, criticVars, scores>>

\* _retrieve_top_k_for_check: a failing first pass finds nothing; an inadequate one is
\* repeated once with wider settings, and the second pass counts unless it fails.
SearchChunks ==
  /\ pc = "search" /\ search.passes < 2
  /\ \E found \in BOOLEAN :
       search' = [search EXCEPT !.passes = @ + 1, !.found = found]
  /\ UNCHANGED <<setup, criticVars, decided, pc, scores>>

SearchFails ==
  /\ pc = "search" /\ search.passes = 1
  /\ search' = [search EXCEPT !.passes = 2]
  /\ UNCHANGED <<setup, criticVars, decided, pc, scores>>

\* _llm_verify_threshold on every chunk: a chunk that satisfies makes the check a pass.
\* Nothing found means the second pass has been made; an exception drops the check.
VerifyChunks ==
  /\ pc = "search" /\ search.passes > 0
  /\ search.found \/ search.passes = 2
  /\ \/ Decide(search.verdict)
     \/ search.found /\ Decide([search.verdict EXCEPT !.decision = "pass", !.fetched = TRUE])
     \/ search.found /\ Decide(Dropped)
  /\ UNCHANGED <<setup, criticVars, scores>>

----------------------------------------------------------------------------
(* Scores and the decision for this vendor *)

\* The facts of any of the criterion's targets.
Relevant(c) == \E i \in DOMAIN setup.pairs :
                 setup.pairs[i][1] = c /\ HasFacts(setup.pairs[i][2])

\* _score_criterion: without facts the LLM is not asked; an exception drops the criterion.
ScoreCriteria ==
  /\ pc \in {"score", "check"} /\ Len(decided) = Len(setup.checks)
  /\ \E s \in [Criteria -> {"scored", "insufficient", "dropped"}] :
       /\ \A c \in Criteria : s[c] = "insufficient" <=> ~Relevant(c)
       /\ scores' = s
  /\ pc' = "done"
  /\ UNCHANGED <<setup, criticVars, decided, search>>

Next == \/ JudgeType \/ JudgeCustom \/ JudgeScoring
        \/ RetryType \/ RetryCustom \/ RetryScoring
        \/ EndExtraction
        \/ EvaluateCheck \/ SearchChunks \/ SearchFails \/ VerifyChunks
        \/ ScoreCriteria

Spec == Init /\ [][Next]_vars

Has(status) == \E i \in DOMAIN decided : decided[i].decision = status

\* run_evaluation_agent: fail beats review_required beats pass.
OverallCompliance == IF Has("fail") THEN "fail"
                     ELSE IF Has("insufficient_evidence") THEN "review_required" ELSE "pass"

\* critic_after_evaluation: a contradiction beside a decision other than
\* insufficient_evidence is a HARD flag.
HardFlagged == \E i \in DOMAIN decided : decided[i].contra
                                         /\ decided[i].decision # "insufficient_evidence"

\* _rejecting_decisions
Rejecting == {i \in DOMAIN decided :
                \/ decided[i].decision = "fail"
                \/ /\ decided[i].decision = "insufficient_evidence"
                   /\ \A j \in DOMAIN decided : ~decided[j].contra}

\* Less than min_coverage_for_trust, a half, of the weight of all criteria was assessed;
\* one without evidence or dropped was not.  Without any weight coverage is 0.
Weighing(S) == MapThenSumSet(LAMBDA c : Weight[c], S)

LowCoverage == LET assessed == Weighing({c \in Criteria : scores[c] = "scored"})
                   total    == Weighing(Criteria)
               IN  total = 0 \/ 2 * assessed < total

\* run_decision_agent on this vendor: shortlisted, and with a reason for a review.
Shortlisted == pc = "done" /\ Rejecting = {}
ForReview   == \/ Has("insufficient_evidence")
               \/ \E c \in Criteria : scores[c] = "insufficient"
               \/ LowCoverage

----------------------------------------------------------------------------
(* Properties *)

\* Shapes of all variables.
TypeOK ==
  /\ setup \in Setups
  /\ facts \in [Buckets -> [by : {First} \cup Keys, some : BOOLEAN]]
  /\ retried \subseteq Keys
  /\ calls \in [Keys -> Nat]
  /\ todo \in Seq([phase : {"type", "custom", "scoring"}, key : Keys, bucket : Buckets])
  /\ pc \in {"judge", "retry", "check", "search", "blocked", "score", "done"}
  /\ decided \in Seq(Verdict)
  /\ search \in [verdict : Verdict, passes : 0 .. 2, found : BOOLEAN]
  /\ scores \in [Criteria -> {"none", "scored", "insufficient", "dropped"}]

\* retry_loop.py, retried_fact_types: however many checks and criteria share a type or a
\* target, a reason to retry leads to one call at most, and only a retried key has one.
OneCallPerKey == \A k \in Keys : calls[k] <= IF k \in retried THEN 1 ELSE 0

\* retry_loop.py: a retry replaces the facts it was made for and no others, and facts are
\* lost to a reply only: the facts of a bucket are the first extraction's, or the last
\* reply's to a check or criterion that names the bucket.
RetriesKeepOtherFacts ==
  \A b \in Buckets :
    LET by == facts[b].by IN
    by # First =>
      /\ by \in retried /\ calls[by] = 1
      /\ by[1] = "scoring" => Bucket(by[3]) = b
      /\ by[1] # "scoring" => by[2] = b

\* _decide_check_with_voting, E3.b and the fallback after it: a check passes or fails on
\* more than half of its samples, or on a chunk that says so; one whose deciding sample
\* names a contradiction does neither, not even by a chunk found later, so the evaluation
\* critic has nothing to block.
VerdictsAreEarned ==
  /\ ~HardFlagged
  /\ \A i \in DOMAIN decided :
       /\ decided[i].contra => ~decided[i].fetched
       /\ decided[i].decision \in {"pass", "fail"} => decided[i].fetched \/ decided[i].strict

\* evaluation.py:374, extraction_was_retried: a chunk makes no check of a standard type pass
\* whose list the extraction critic has fetched again for the type.  Of custom targets, and
\* of facts fetched again for a criterion, this says nothing: see RetriedFailureStands.
RetriedTypesStand ==
  \A i \in DOMAIN decided :
    LET t == setup.checks[i] IN
    (decided[i].fetched /\ HasFacts(t) /\ t \notin Customs) => <<"type", Bucket(t)>> \notin retried

----------------------------------------------------------------------------
(* What the documentation says and the code does not do. *)

\* schema_setup.py:18, a mandatory check is "One thing a vendor must have or be rejected
\* outright": nobody is shortlisted, without so much as a review, with a check undecided.
ShortlistedHaveAllChecks ==
  (Shortlisted /\ ~ForReview) => \A i \in DOMAIN decided : decided[i].decision = "pass"

\* The bucket whose facts a retry under this key replaces.
RefetchedBucket(k) == IF k[1] = "scoring" THEN Bucket(k[3]) ELSE k[2]

\* evaluation.py:371, no fallback for a failure whose facts were fetched again, "which would
\* mean the failure is genuine": no chunk makes such a check pass, whether the check's type,
\* its custom target or a criterion was the reason to fetch them.
RetriedFailureStands ==
  \A i \in DOMAIN decided :
    LET t == setup.checks[i] IN
    (decided[i].fetched /\ HasFacts(t)) => \A k \in retried : RefetchedBucket(k) # Bucket(t)
=============================================================================
