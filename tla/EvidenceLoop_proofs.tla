------------------------- MODULE EvidenceLoop_proofs -------------------------
(***************************************************************************)
(* Theorems about the judgement of one vendor's evidence, for any targets,  *)
(* types, criteria and setups and any number of samples: every reason is    *)
(* retried once, a retry keeps the other facts, a verdict is earned and a   *)
(* list fetched again for its standard type is not overruled by a chunk.    *)
(***************************************************************************)
EXTENDS EvidenceLoop, FiniteSetTheorems, TLAPS

Fact == [by : {First} \cup Keys, some : BOOLEAN]

\* What the items are about.
ItemOK(item) ==
  /\ item.key \in Keys /\ item.bucket \in Buckets
  /\ \/ item.phase = "type" /\ item.key[1] = "type" /\ item.key[2] = item.bucket
     \/ /\ item.phase = "custom" /\ item.key[1] = "custom"
        /\ item.bucket \in Customs => item.key[2] = item.bucket
     \/ item.phase = "scoring" /\ item.key[1] = "scoring" /\ Bucket(item.key[3]) = item.bucket

Items == {item \in [phase : {"type", "custom", "scoring"}, key : Keys, bucket : Buckets] : ItemOK(item)}

\* The facts of the bucket come from the key, which names it.
Names(key, b) == IF key[1] = "scoring" THEN Bucket(key[3]) = b ELSE key[2] = b

----------------------------------------------------------------------------
(* The extraction critic *)

CriticTypeOK ==
  /\ setup \in [checks : Seq(Targets), pairs : Seq(Criteria \X Targets)]
  /\ facts \in [Buckets -> Fact] /\ retried \in SUBSET Keys
  /\ calls \in [Keys -> Nat] /\ todo \in Seq(Items)
  /\ pc \in {"judge", "retry", "check", "search", "blocked", "score", "done"}

\* The item that is being fetched again, and nothing else, is retried without a call.
Fetching == pc = "retry" => /\ todo # <<>> /\ Head(todo).key \in retried
                            /\ calls[Head(todo).key] = 0
                            /\ Head(todo).phase = "custom" => Head(todo).bucket \in Customs

CriticInv == CriticTypeOK /\ Fetching /\ OneCallPerKey /\ RetriesKeepOtherFacts

\* A target's facts lie in one of the buckets.
LEMMA BucketType == ASSUME NEW t \in Targets PROVE Bucket(t) \in Buckets
BY TargetsAssumption DEF Bucket, Buckets, Customs

\* The items of a setup are well formed.
LEMMA ItemsOfSetup ==
  ASSUME NEW s \in [checks : Seq(Targets), pairs : Seq(Criteria \X Targets)]
  PROVE  TypeItems \o CustomItems(s) \o ScoringItems(s) \in Seq(Items)
<1>1. TypeItems \in Seq(Items)
  <2>1. ASSUME NEW i \in 1 .. Len(TypeOrder)
        PROVE  Item("type", <<"type", TypeOrder[i]>>, TypeOrder[i]) \in Items
    <3>1. TypeOrder[i] \in Types
      BY TargetsAssumption
    <3> QED BY <3>1 DEF Item, Items, ItemOK, Keys, Buckets
  <2> DEFINE e(i) == Item("type", <<"type", TypeOrder[i]>>, TypeOrder[i])
  <2>2. \A i \in 1 .. Len(TypeOrder) : e(i) \in Items
    BY <2>1
  <2>3. TypeItems = [i \in 1 .. Len(TypeOrder) |-> e(i)] /\ Len(TypeOrder) \in Nat
    BY TargetsAssumption DEF TypeItems
  <2> HIDE DEF e
  <2> QED BY <2>2, <2>3
<1>2. CustomItems(s) \in Seq(Items)
  <2>0. s.checks \in Seq(Targets)
    OBVIOUS
  <2>1. ASSUME NEW i \in 1 .. Len(s.checks)
        PROVE  Item("custom", <<"custom", s.checks[i]>>, Bucket(s.checks[i])) \in Items
    <3>1. s.checks[i] \in Targets
      BY <2>0
    <3>2. Bucket(s.checks[i]) \in Buckets
      BY <3>1, BucketType
    <3>3. Bucket(s.checks[i]) \in Customs => Bucket(s.checks[i]) = s.checks[i]
      BY <3>1, TargetsAssumption DEF Bucket, Customs
    <3> QED BY <3>1, <3>2, <3>3 DEF Item, Items, ItemOK, Keys
  <2> DEFINE e(i) == Item("custom", <<"custom", s.checks[i]>>, Bucket(s.checks[i]))
  <2>2. \A i \in 1 .. Len(s.checks) : e(i) \in Items
    BY <2>1
  <2>3. CustomItems(s) = [i \in 1 .. Len(s.checks) |-> e(i)] /\ Len(s.checks) \in Nat
    BY <2>0 DEF CustomItems
  <2> HIDE DEF e
  <2> QED BY <2>2, <2>3
<1>3. ScoringItems(s) \in Seq(Items)
  <2>0. s.pairs \in Seq(Criteria \X Targets)
    OBVIOUS
  <2>1. ASSUME NEW i \in 1 .. Len(s.pairs)
        PROVE  Item("scoring", <<"scoring", s.pairs[i][1], s.pairs[i][2]>>, Bucket(s.pairs[i][2])) \in Items
    <3>1. s.pairs[i][1] \in Criteria /\ s.pairs[i][2] \in Targets
      BY <2>0
    <3>2. Bucket(s.pairs[i][2]) \in Buckets
      BY <3>1, BucketType
    <3> QED BY <3>1, <3>2 DEF Item, Items, ItemOK, Keys
  <2> DEFINE e(i) == Item("scoring", <<"scoring", s.pairs[i][1], s.pairs[i][2]>>, Bucket(s.pairs[i][2]))
  <2>2. \A i \in 1 .. Len(s.pairs) : e(i) \in Items
    BY <2>1
  <2>3. ScoringItems(s) = [i \in 1 .. Len(s.pairs) |-> e(i)] /\ Len(s.pairs) \in Nat
    BY <2>0 DEF ScoringItems
  <2> HIDE DEF e
  <2> QED BY <2>2, <2>3
<1> QED BY <1>1, <1>2, <1>3

\* Whatever an item is judged, it goes to a retry that is its first, or is passed.
LEMMA JudgeStep ==
  ASSUME CriticInv, pc = "judge", todo # <<>>,
         \/ Pass
         \/ /\ Retry /\ Head(todo).key \notin retried
            /\ Head(todo).phase = "custom" => Head(todo).bucket \in Customs,
         UNCHANGED <<setup, facts, calls>>
  PROVE  CriticInv'
<1>1. Head(todo) \in Items /\ Tail(todo) \in Seq(Items)
  BY DEF CriticInv, CriticTypeOK
<1>2. Head(todo).key \in Keys
  BY <1>1 DEF Items
<1>3. CASE Pass
  BY <1>1, <1>3 DEF Pass, CriticInv, CriticTypeOK, Fetching, OneCallPerKey, RetriesKeepOtherFacts, HasFacts
<1>4. CASE /\ Retry /\ Head(todo).key \notin retried
           /\ Head(todo).phase = "custom" => Head(todo).bucket \in Customs
  <2>1. calls[Head(todo).key] = 0
    BY <1>2, <1>4 DEF CriticInv, OneCallPerKey, CriticTypeOK
  <2> QED BY <1>2, <1>4, <2>1 DEF Retry, CriticInv, CriticTypeOK, Fetching, OneCallPerKey, RetriesKeepOtherFacts
<1> QED BY <1>3, <1>4

\* The focused retry: one call, and a reply for the bucket of the item.
LEMMA RefetchStep ==
  ASSUME CriticInv, pc = "retry", Refetch(Head(todo))
  PROVE  CriticInv'
<1> DEFINE item == Head(todo)
           key == item.key
<1>1. item \in Items /\ Tail(todo) \in Seq(Items) /\ key \in Keys /\ key \in retried /\ calls[key] = 0
      /\ item.bucket \in Buckets
  BY DEF CriticInv, CriticTypeOK, Fetching, Items
<1>2. Names(key, item.bucket)
  BY <1>1 DEF CriticInv, Fetching, Items, ItemOK, Names
<1>3. /\ calls' \in [Keys -> Nat] /\ calls'[key] = 1 /\ \A k \in Keys \ {key} : calls'[k] = calls[k]
      /\ pc' = "judge" /\ todo' = Tail(todo) /\ UNCHANGED <<setup, retried>>
  BY <1>1 DEF Refetch, CriticInv, CriticTypeOK
<1> DEFINE Written == /\ facts' \in [Buckets -> Fact]
                      /\ \A b \in Buckets : \/ facts'[b] = facts[b]
                                            \/ b = item.bucket /\ facts'[b].by = key
<1>4. Written
  <2>1. CASE UNCHANGED facts
    BY <2>1 DEF CriticInv, CriticTypeOK
  <2>2. ASSUME NEW new \in Reply(key), facts' = Replaced(item, new) PROVE Written
    <3>1. new \in Fact /\ new.by = key
      BY <1>1, <2>2 DEF Reply, Fact
    <3> QED BY <1>1, <2>2, <3>1 DEF Replaced, CriticInv, CriticTypeOK
  <2> QED BY <2>1, <2>2 DEF Refetch
<1> HIDE DEF key, item
<1>5. RetriesKeepOtherFacts'
  <2> SUFFICES ASSUME NEW b \in Buckets, facts'[b].by # First
               PROVE  /\ facts'[b].by \in retried' /\ calls'[facts'[b].by] = 1
                      /\ facts'[b].by[1] = "scoring" => Bucket(facts'[b].by[3]) = b
                      /\ facts'[b].by[1] # "scoring" => facts'[b].by[2] = b
    BY DEF RetriesKeepOtherFacts
  <2>1. CASE facts'[b] = facts[b]
    <3>1. facts[b].by \in retried /\ calls[facts[b].by] = 1 /\ facts[b].by \in Keys /\ facts[b].by # key
      BY <1>1, <2>1 DEF CriticInv, CriticTypeOK, RetriesKeepOtherFacts
    <3> QED BY <1>3, <2>1, <3>1 DEF CriticInv, RetriesKeepOtherFacts
  <2>2. CASE b = item.bucket /\ facts'[b].by = key
    BY <1>1, <1>2, <1>3, <2>2 DEF Names
  <2> QED BY <1>4, <2>1, <2>2
<1>6. OneCallPerKey'
  BY <1>1, <1>3 DEF CriticInv, OneCallPerKey
<1> QED BY <1>1, <1>3, <1>4, <1>5, <1>6 DEF CriticInv, CriticTypeOK, Fetching

\* The checks, the search and the scores leave the facts alone.
LEMMA CriticRests ==
  ASSUME CriticInv, UNCHANGED <<setup, facts, retried, calls, todo>>,
         pc' \in {"check", "search", "blocked", "score", "done"} \/ UNCHANGED pc
  PROVE  CriticInv'
BY DEF CriticInv, CriticTypeOK, Fetching, OneCallPerKey, RetriesKeepOtherFacts

----------------------------------------------------------------------------
(* The checks *)

\* A verdict that holds: with a contradiction it is insufficient_evidence, and a pass or a
\* fail has a majority or a chunk.
Earned == {v \in Verdict : /\ v.contra => ~v.fetched /\ v.decision = "insufficient_evidence"
                           /\ v.decision \in {"pass", "fail"} => v.fetched \/ v.strict}

\* The target whose check waits for chunks may be asked for them.
Askable(t) == HasFacts(t) => <<"type", Bucket(t)>> \notin retried

VerdictInv ==
  /\ decided \in Seq(Earned) /\ search.verdict \in Earned
  /\ search = [verdict |-> search.verdict, passes |-> search.passes, found |-> search.found]
  /\ pc = "search" => /\ ~search.verdict.contra /\ Len(decided) < Len(setup.checks)
                      /\ Askable(Target)
  /\ pc \in {"judge", "retry"} => decided = <<>>
  /\ RetriedTypesStand

IInv == CriticInv /\ VerdictInv

\* The result of a sample, or of the vote on all of them.
Result == [decision : Statuses, contra : BOOLEAN, fetched : {FALSE}, strict : BOOLEAN]

\* A vote keeps the decision and the contradiction it was given; strict is a majority.
LEMMA VoteType ==
  ASSUME NEW d \in Statuses, NEW c \in BOOLEAN, NEW n, NEW m
  PROVE  /\ Vote(d, c, n, m) \in Result /\ Vote(d, c, n, m).decision = d
         /\ Vote(d, c, n, m).contra = c /\ (Vote(d, c, n, m).strict <=> 2 * n > m)
<1> DEFINE st == 2 * n > m
<1>1. st \in BOOLEAN /\ Vote(d, c, n, m) = [decision |-> d, contra |-> c, fetched |-> FALSE, strict |-> st]
  BY DEF Vote
<1>2. st <=> 2 * n > m
  OBVIOUS
<1> HIDE DEF st
<1> QED BY <1>1, <1>2 DEF Result

\* _decide_check_with_voting: whatever is not insufficient_evidence has the majority.
LEMMA OutcomesAreEarned ==
  ASSUME NEW r \in Outcomes
  PROVE  r \in Result /\ (r.decision \in {"pass", "fail"} => r.strict)
<1> USE SamplesAssumption
<1>1. ASSUME NEW p \in Replies, r = Vote(p.decision, p.contra, 1, 1)
      PROVE  r \in Result /\ (r.decision \in {"pass", "fail"} => r.strict)
  <2>1. p.decision \in Statuses /\ p.contra \in BOOLEAN
    BY DEF Replies
  <2>2. r \in Result /\ (r.strict <=> 2 * 1 > 1)
    BY <1>1, <2>1, VoteType
  <2> QED BY <2>2
<1>2. ASSUME NEW votes \in [1 .. Samples -> Replies], r \in Voted(votes)
      PROVE  r \in Result /\ (r.decision \in {"pass", "fail"} => r.strict)
  <2>0. Len(votes) = Samples /\ DOMAIN votes = 1 .. Samples
    OBVIOUS
  <2>1. PICK w \in Winners(votes) :
          LET matching == {i \in DOMAIN votes : votes[i].decision = w} IN
          r \in IF matching = {} THEN {Vote(w, FALSE, 0, Len(votes))}
                ELSE {Vote(w, votes[i].contra, Cardinality(matching), Len(votes)) : i \in matching}
    BY <1>2 DEF Voted
  <2> DEFINE matching == {i \in DOMAIN votes : votes[i].decision = w}
             n == Cardinality(matching)
  <2>2. w \in Statuses /\ (w # "insufficient_evidence" => 2 * n > Len(votes))
    <3>1. w = "insufficient_evidence" \/ (w \in Statuses /\ 2 * Tally(votes, w) > Len(votes))
      BY <2>1 DEF Winners
    <3> QED BY <3>1 DEF Tally, Statuses
  <2>3. CASE matching = {}
    <3>1. n = 0
      BY <2>3, FS_EmptySet
    <3>2. r = Vote(w, FALSE, 0, Len(votes))
      BY <2>1, <2>3
    <3>3. w = "insufficient_evidence"
      BY <2>0, <2>2, <3>1
    <3> HIDE DEF n, matching
    <3> DEFINE none == FALSE
    <3>4. none \in BOOLEAN /\ r = Vote(w, none, 0, Len(votes))
      BY <3>2
    <3> HIDE DEF none
    <3>5. r \in Result /\ r.decision = w
      BY <2>2, <3>4, VoteType
    <3> QED BY <3>3, <3>5
  <2>4. CASE matching # {}
    <3>1. PICK i \in matching : r = Vote(w, votes[i].contra, n, Len(votes))
      BY <2>1, <2>4
    <3>2. votes[i].contra \in BOOLEAN
      BY <2>0, <3>1 DEF Replies
    <3> HIDE DEF n, matching
    <3>3. r \in Result /\ r.decision = w /\ (r.strict <=> 2 * n > Len(votes))
      BY <2>2, <3>1, <3>2, VoteType
    <3> QED BY <2>2, <3>3
  <2> QED BY <2>3, <2>4
<1> QED BY <1>1, <1>2 DEF Outcomes

\* A check is decided, and the search of it, if there was one, is over.
LEMMA DecideStep ==
  ASSUME IInv, NEW v \in Earned, Decide(v), pc \in {"check", "search"},
         UNCHANGED <<setup, facts, retried, calls, todo>>,
         v.fetched => Askable(Target)
  PROVE  IInv'
<1>1. decided \in Seq(Earned) /\ decided' = Append(decided, v) /\ search' = NoSearch
      /\ pc' \in {"score", "check"}
  BY DEF IInv, VerdictInv, Decide
<1>2. CriticInv'
  BY <1>1, CriticRests DEF IInv
<1>3. Dropped \in Earned
  BY DEF Dropped, Earned, Verdict
<1>4. RetriedTypesStand'
  <2>1. ASSUME NEW i \in DOMAIN decided', decided'[i].fetched, HasFacts(setup.checks[i]),
               setup.checks[i] \notin Customs
        PROVE  <<"type", Bucket(setup.checks[i])>> \notin retried
    <3>1. CASE i \in DOMAIN decided
      BY <1>1, <2>1, <3>1 DEF IInv, VerdictInv, RetriedTypesStand
    <3>2. CASE i = Len(decided) + 1
      <4>1. decided'[i] = v /\ setup.checks[i] = Target
        BY <1>1, <3>2 DEF Target
      <4> QED BY <2>1, <4>1 DEF Askable
    <3>3. i \in DOMAIN decided \/ i = Len(decided) + 1
      BY <1>1, <2>1
    <3> QED BY <3>1, <3>2, <3>3
  <2> QED BY <2>1 DEF RetriedTypesStand, HasFacts
<1>5. /\ search'.verdict \in Earned
      /\ search' = [verdict |-> search'.verdict, passes |-> search'.passes, found |-> search'.found]
  BY <1>1, <1>3 DEF NoSearch
<1>6. decided' \in Seq(Earned)
  BY <1>1
<1> QED BY <1>1, <1>2, <1>4, <1>5, <1>6 DEF IInv, VerdictInv

\* _evaluate_mandatory_check: decided, or the search for a chunk begins.
LEMMA CheckStep ==
  ASSUME IInv, EvaluateCheck
  PROVE  IInv'
<1> USE TargetsAssumption
<1>1. /\ pc = "check" /\ Len(decided) < Len(setup.checks) /\ decided \in Seq(Earned)
      /\ UNCHANGED <<setup, facts, retried, calls, todo>>
  BY DEF EvaluateCheck, criticVars, IInv, VerdictInv
<1>2. CASE Decide(Dropped)
  <2>1. Dropped \in Earned /\ ~Dropped.fetched
    BY DEF Dropped, Earned, Verdict
  <2> QED BY <1>1, <1>2, <2>1, DecideStep
<1>3. ASSUME NEW r \in Outcomes,
             LET v == [r EXCEPT !.decision = Settled(r)] IN
             IF Fallback(Target, r)
             THEN search' = [verdict |-> v, passes |-> 0, found |-> FALSE] /\ pc' = "search"
                  /\ UNCHANGED decided
             ELSE Decide(v)
      PROVE  IInv'
  <2> DEFINE v == [r EXCEPT !.decision = Settled(r)]
  <2>1. r \in Result /\ (r.decision \in {"pass", "fail"} => r.strict)
    BY OutcomesAreEarned
  <2>2. v \in Earned /\ ~v.fetched /\ v.contra = r.contra
    BY <2>1 DEF Result, Settled, Earned, Verdict, Statuses
  <2>3. CASE ~Fallback(Target, r)
    <3> HIDE DEF v
    <3>1. Decide(v)
      BY <1>3, <2>3 DEF v
    <3> QED BY <1>1, <2>2, <3>1, DecideStep
  <2>4. CASE Fallback(Target, r)
    <3> HIDE DEF v
    <3>1. search' = [verdict |-> v, passes |-> 0, found |-> FALSE] /\ pc' = "search" /\ UNCHANGED decided
      BY <1>3, <2>4 DEF v
    <3>2. CriticInv'
      BY <1>1, <3>1, CriticRests DEF IInv
    <3>3. Target \in Targets
      BY <1>1 DEF Target, IInv, CriticInv, CriticTypeOK
    <3>4. Askable(Target)
      <4>1. ASSUME HasFacts(Target), <<"type", Bucket(Target)>> \in retried PROVE FALSE
        <5>1. <<"type", Bucket(Target)>> \in Keys
          BY <4>1 DEF IInv, CriticInv, CriticTypeOK
        <5>2. Bucket(Target) \in Types
          BY <5>1 DEF Keys
        <5>3. Bucket(Target) = FactType[Target]
          BY <3>3, <5>2 DEF Bucket
        <5> QED BY <2>4, <4>1, <5>3 DEF Fallback, WasRetried
      <4> QED BY <4>1 DEF Askable
    <3>5. ~r.contra
      BY <2>4 DEF Fallback
    <3>6. Askable(Target)' /\ RetriedTypesStand'
      BY <1>1, <3>1, <3>4 DEF Askable, Target, HasFacts, IInv, VerdictInv, RetriedTypesStand
    <3>7. /\ search'.verdict = v
          /\ search' = [verdict |-> search'.verdict, passes |-> search'.passes, found |-> search'.found]
      BY <3>1
    <3> QED BY <1>1, <2>2, <3>1, <3>2, <3>5, <3>6, <3>7 DEF IInv, VerdictInv
  <2> QED BY <2>3, <2>4
<1> QED BY <1>2, <1>3 DEF EvaluateCheck

\* The search does not touch the verdict it may replace.
LEMMA SearchStep ==
  ASSUME IInv, SearchChunks \/ SearchFails
  PROVE  IInv'
<1>1. /\ UNCHANGED <<setup, facts, retried, calls, todo, decided, pc>>
      /\ search'.verdict = search.verdict
      /\ search' = [verdict |-> search'.verdict, passes |-> search'.passes, found |-> search'.found]
  BY DEF SearchChunks, SearchFails, criticVars, IInv, VerdictInv
<1>2. CriticInv'
  BY <1>1, CriticRests DEF IInv
<1> QED BY <1>1, <1>2 DEF IInv, VerdictInv, Askable, Target, HasFacts, RetriedTypesStand

\* _llm_verify_threshold: a chunk can make a pass of a check without contradiction.
LEMMA VerifyStep ==
  ASSUME IInv, VerifyChunks
  PROVE  IInv'
<1>1. /\ pc = "search" /\ UNCHANGED <<setup, facts, retried, calls, todo>>
      /\ search.verdict \in Earned /\ ~search.verdict.contra /\ Askable(Target)
  BY DEF VerifyChunks, criticVars, IInv, VerdictInv
<1>2. CASE Decide(search.verdict)
  BY <1>1, <1>2, DecideStep
<1>3. CASE Decide([search.verdict EXCEPT !.decision = "pass", !.fetched = TRUE])
  <2> DEFINE v == [search.verdict EXCEPT !.decision = "pass", !.fetched = TRUE]
  <2>1. v \in Earned
    BY <1>1 DEF Earned, Verdict, Statuses
  <2> HIDE DEF v
  <2> QED BY <1>1, <1>3, <2>1, DecideStep DEF v
<1>4. CASE Decide(Dropped)
  <2>1. Dropped \in Earned
    BY DEF Dropped, Earned, Verdict
  <2> QED BY <1>1, <1>4, <2>1, DecideStep
<1> QED BY <1>2, <1>3, <1>4 DEF VerifyChunks

\* The invariant holds before the first fact is judged.
LEMMA IInvInit == Init => IInv
<1> SUFFICES ASSUME Init PROVE IInv
  OBVIOUS
<1>1. setup \in [checks : Seq(Targets), pairs : Seq(Criteria \X Targets)]
  BY SetupsAssumption DEF Init
<1>2. todo \in Seq(Items)
  BY <1>1, ItemsOfSetup DEF Init
<1>3. facts \in [Buckets -> Fact] /\ \A b \in Buckets : facts[b].by = First
  BY DEF Init, Fact
<1>4. CriticInv
  BY <1>1, <1>2, <1>3 DEF Init, CriticInv, CriticTypeOK, Fetching, OneCallPerKey, RetriesKeepOtherFacts
<1>5. VerdictInv
  BY DEF Init, VerdictInv, NoSearch, Dropped, Earned, Verdict, RetriedTypesStand
<1> QED BY <1>4, <1>5 DEF IInv

\* Each step of the critic's loop, of the checks and of the scores preserves the invariant.
LEMMA IInvStep == IInv /\ [Next]_vars => IInv'
<1> SUFFICES ASSUME IInv, [Next]_vars PROVE IInv'
  OBVIOUS
<1>v. ASSUME pc \in {"judge", "retry"}, UNCHANGED <<decided, search>>,
             pc' \in {"judge", "retry", "check", "blocked"}
      PROVE  VerdictInv'
  BY <1>v DEF IInv, VerdictInv, RetriedTypesStand
<1>1. CASE JudgeType \/ JudgeCustom \/ JudgeScoring
  <2>1. /\ pc = "judge" /\ todo # <<>> /\ UNCHANGED <<setup, facts, calls, decided, search>>
        /\ pc' \in {"judge", "retry"}
        /\ \/ Pass
           \/ /\ Retry /\ Head(todo).key \notin retried
              /\ Head(todo).phase = "custom" => Head(todo).bucket \in Customs
    BY <1>1 DEF JudgeType, JudgeCustom, JudgeScoring, At, Judgeable, Retry, Pass
  <2> QED BY <1>v, <2>1, JudgeStep DEF IInv
<1>2. CASE RetryType \/ RetryCustom \/ RetryScoring
  <2>1. /\ pc = "retry" /\ Refetch(Head(todo)) /\ UNCHANGED <<decided, search>> /\ pc' = "judge"
    BY <1>2 DEF RetryType, RetryCustom, RetryScoring, Refetch
  <2> QED BY <1>v, <2>1, RefetchStep DEF IInv
<1>3. CASE EndExtraction
  BY <1>3, <1>v, CriticRests DEF EndExtraction, criticVars, IInv
<1>4. CASE ScoreCriteria
  <2>1. pc' = "done" /\ UNCHANGED <<setup, facts, retried, calls, todo, decided, search>>
    BY <1>4 DEF ScoreCriteria, criticVars
  <2> QED BY <2>1, CriticRests DEF IInv, VerdictInv, RetriedTypesStand, HasFacts
<1>5. CASE UNCHANGED vars
  BY <1>5, CriticRests DEF vars, IInv, VerdictInv, RetriedTypesStand, HasFacts, Askable, Target
<1> QED BY <1>1, <1>2, <1>3, <1>4, <1>5, CheckStep, SearchStep, VerifyStep DEF Next

\* The inductive invariant holds throughout.
THEOREM LoopInvariance == Spec => []IInv
BY IInvInit, IInvStep, PTL DEF Spec

\* retry_loop.py, retried_fact_types: a reason to fetch facts again leads to one call.
THEOREM OneCallForAReason == Spec => []OneCallPerKey
<1>1. IInv => OneCallPerKey
  BY DEF IInv, CriticInv
<1> QED BY <1>1, LoopInvariance, PTL

\* retry_loop.py: the facts of a bucket are the first extraction's or a reply's to a retry
\* that was made for this bucket.
THEOREM OtherFactsStay == Spec => []RetriesKeepOtherFacts
<1>1. IInv => RetriesKeepOtherFacts
  BY DEF IInv, CriticInv
<1> QED BY <1>1, LoopInvariance, PTL

\* evaluation.py: a pass or a fail has a majority of the samples or a chunk, and a check with
\* a contradiction has neither, however many samples are drawn.
THEOREM VerdictsEarned == Spec => []VerdictsAreEarned
<1>1. IInv => VerdictsAreEarned
  <2> SUFFICES ASSUME IInv PROVE VerdictsAreEarned
    OBVIOUS
  <2>1. \A i \in DOMAIN decided : decided[i] \in Earned
    BY DEF IInv, VerdictInv
  <2> QED BY <2>1 DEF VerdictsAreEarned, HardFlagged, Earned
<1> QED BY <1>1, LoopInvariance, PTL

\* evaluation.py:374: a chunk never passes a check of a standard type whose list the
\* extraction critic had fetched again for the type.
THEOREM RetriedTypesAreFinal == Spec => []RetriedTypesStand
<1>1. IInv => RetriedTypesStand
  BY DEF IInv, VerdictInv
<1> QED BY <1>1, LoopInvariance, PTL
=============================================================================
