--------------------------- MODULE CriteriaSetup ---------------------------
(***************************************************************************)
(* How the criteria of a run come about: POST /start merges the criteria of *)
(* the organisation, the department, the uploaded sheet and the RFP, has    *)
(* gaps filled and stores the setup (domain/criteria.py,                    *)
(* api/evaluation_routes.py); the customer edits and confirms it, while a   *)
(* background refinement (_evaluation/refinement.py) merges a second        *)
(* extraction of the RFP; the pipeline loads what is stored by then.        *)
(*                                                                         *)
(* Names stand for _normalize_name of them, and an id for the source, kind  *)
(* and name it is computed from.  Weights are in thousandths.  The criteria *)
(* of a source, a merge or a setup are two lists, one of each kind.         *)
(***************************************************************************)
EXTENDS Integers, Sequences, FiniteSets, SequencesExt

CONSTANTS
  OrgCriteria, DeptCriteria, SheetCriteria, RfpCriteria,  \* what each source may list
  Suggested,   \* names of checks the LLM may suggest
  NoSetup

\* An entry of a list.  The four bands of a score guide are one.
Entry(source, name, weight, guide) ==
  [source |-> source, name |-> name, weight |-> weight, guide |-> guide]
Check(source, name) == Entry(source, name, 0, "own")
Criterion(source, name, weight, guide) == Entry(source, name, weight, guide)

Kinds     == {"check", "criterion"}
NoEntries == [check |-> <<>>, criterion |-> <<>>]
In(list)  == {list[i] : i \in DOMAIN list}

\* Every reader of a source marks what it lists as that source's.
FromSource(lists, source) ==
  \A k \in Kinds : /\ lists[k] \in Seq(In(lists[k]))
                   /\ \A e \in In(lists[k]) : e.source = source /\ e.weight \in Int
ASSUME CriteriaAssumption ==
  /\ \A lists \in OrgCriteria : FromSource(lists, "org")
  /\ \A lists \in DeptCriteria : FromSource(lists, "dept")
  /\ \A lists \in SheetCriteria : FromSource(lists, "user")
  /\ \A lists \in RfpCriteria : FromSource(lists, "rfp")
  /\ \A lists \in OrgCriteria \cup DeptCriteria \cup SheetCriteria \cup RfpCriteria :
       lists = [check |-> lists.check, criterion |-> lists.criterion]

VARIABLES
  sources,     \* what /start has read: the lists of each source
  draft,       \* the merged lists on their way to the setup
  stored,      \* evaluation_setups.setup_json: lists, ids of extraction targets, source
  request,     \* how far the request has come, then the status of its run
  refinement,  \* the background task
  confirmed,   \* the setup when the customer confirmed it (history)
  loaded       \* the setup the pipeline runs with

criteriaVars == <<sources, draft, stored, request, refinement, confirmed, loaded>>

CriteriaInit ==
  /\ sources = [s \in {"org", "dept", "user", "rfp"} |-> NoEntries]
  /\ draft = NoEntries /\ stored = NoSetup /\ request = "none" /\ refinement = "none"
  /\ confirmed = NoSetup /\ loaded = NoSetup

SumOf(numbers) ==
  LET sum[n \in 0 .. Len(numbers)] == IF n = 0 THEN 0 ELSE sum[n - 1] + numbers[n]
  IN  sum[Len(numbers)]

Weights(list)       == [i \in DOMAIN list |-> list[i].weight]
TotalWeight(list)   == SumOf(Weights(list))
Within(x, distance) == 1000 - distance <= x /\ x <= 1000 + distance

TargetsOf(kind, list) == {<<e.source, kind, e.name>> : e \in In(list)}
Targets(lists)        == UNION {TargetsOf(k, lists[k]) : k \in Kinds}

\* round(w / total, 3); a tie goes up here.  What a sheet or an RFP says may be negative.
Share(w, total) ==
  LET Rounded(x, t) == (2000 * x + t) \div (2 * t)
  IN  IF total > 0 THEN Rounded(w, total) ELSE Rounded(-w, -total)

Reweighted(list, Weight(_)) ==
  [i \in DOMAIN list |-> Entry(list[i].source, list[i].name, Weight(list[i].weight), list[i].guide)]
Scaled(list, total) == Reweighted(list, LAMBDA w : Share(w, total))
Evened(list)        == Reweighted(list, LAMBDA w : Share(1, Len(list)))

Guided(list, Changes(_), guide) ==
  [i \in DOMAIN list |-> IF Changes(list[i])
                         THEN Entry(list[i].source, list[i].name, list[i].weight, guide) ELSE list[i]]

----------------------------------------------------------------------------
(* merge_criteria *)

\* Plausible bug: the department's names are never looked up either.
AddBug(merged, e) ==
  IF e.source \notin {"org", "dept"} /\ \E x \in In(merged) : x.name = e.name
  THEN merged ELSE Append(merged, e)

\* A name that an earlier entry has is skipped; the organisation's are never looked up.
Add(merged, e) ==
  IF e.source # "org" /\ \E x \in In(merged) : x.name = e.name
  THEN merged ELSE Append(merged, e)

\* The loop over the list of one source.
AddAll(merged, list) ==
  LET after[n \in 0 .. Len(list)] == IF n = 0 THEN merged ELSE Add(after[n - 1], list[n])
  IN  after[Len(list)]

\* Priority: org > dept > user > rfp.
MergedList(s, kind) ==
  AddAll(AddAll(AddAll(AddAll(<<>>, s.org[kind]), s.dept[kind]), s.user[kind]), s.rfp[kind])

\* Blank guides are copied from the RFP's last entry of the name.
Guides(rfp, name) == SelectSeq(rfp, LAMBDA r : r.name = name)
HasGuide(rfp, name) == Guides(rfp, name) # <<>> /\ Last(Guides(rfp, name)).guide # "blank"
Enriched(list, rfp) ==
  Guided(list, LAMBDA e : e.guide = "blank" /\ HasGuide(rfp, e.name), "rfp")

\* Plausible bug: a larger deviation is let through.
NormalisedBug(list) ==
  LET total == TotalWeight(list) IN
  IF total = 0 THEN Evened(list) ELSE IF ~Within(total, 100) THEN Scaled(list, total) ELSE list

\* No weights are shared evenly, weights that do not sum to 1 are scaled.
Normalised(list) ==
  LET total == TotalWeight(list) IN
  IF total = 0 THEN Evened(list) ELSE IF ~Within(total, 10) THEN Scaled(list, total) ELSE list

Merged(s) == [check     |-> MergedList(s, "check"),
              criterion |-> Normalised(Enriched(MergedList(s, "criterion"), s.rfp.criterion))]

\* _parse_sheet_with_pandas, _llm_interpret_sheet: the weights of a CSV or Excel sheet that
\* has some are scaled first.
SheetScaled(lists) ==
  LET total == TotalWeight(lists.criterion) IN
  [lists EXCEPT !.criterion = IF total > 0 /\ ~Within(total, 10) THEN Scaled(@, total) ELSE @]

----------------------------------------------------------------------------
(* POST /start.  Until the setup is saved nothing is shared. *)

\* extract_criteria_from_user_sheet leaves the weights of a PDF or Word sheet as they are.
SheetRead(sheet) == {SheetScaled(sheet), sheet}

\* An extraction that fails, of the sheet or the RFP, has no entries.
SubmitRequest ==
  /\ request = "none"
  /\ \E org \in OrgCriteria, dept \in DeptCriteria,
        sheet \in SheetCriteria \cup {NoEntries}, rfp \in RfpCriteria \cup {NoEntries} :
       /\ \E user \in SheetRead(sheet) :
            sources' = [org |-> org, dept |-> dept, user |-> user, rfp |-> rfp]
       /\ draft' = Merged(sources')
  /\ request' = "guides"
  /\ UNCHANGED <<stored, refinement, confirmed, loaded>>

\* detect_and_fill_gaps, 1: the reply may name any criterion, and fills all it names; a
\* failed call fills none.
FillGuides ==
  /\ request = "guides"
  /\ \E named \in IF \E e \in In(draft.criterion) : e.guide = "blank"
                  THEN SUBSET {e.name : e \in In(draft.criterion)} ELSE {{}} :
       draft' = [check     |-> draft.check,
                 criterion |-> Guided(draft.criterion, LAMBDA e : e.name \in named, "generated")]
  /\ request' = "checks"
  /\ UNCHANGED <<sources, stored, refinement, confirmed, loaded>>

\* detect_and_fill_gaps, 2: mandatory checks are suggested when there are none; the reply
\* may repeat itself.
SuggestChecks ==
  /\ request = "checks"
  /\ \E n \in IF draft.check = <<>> THEN 0 .. Cardinality(Suggested) ELSE {0} :
     \E names \in [1 .. n -> Suggested] :
       draft' = [check     |-> draft.check \o [i \in 1 .. n |-> Check("generated", names[i])],
                 criterion |-> draft.criterion]
  /\ request' = "save"
  /\ UNCHANGED <<sources, stored, refinement, confirmed, loaded>>

DefaultCheck    == Check("default", "legal")
DefaultCriteria == <<Criterion("default", "technical", 500, "own"),
                     Criterion("default", "commercial", 500, "own")>>

\* What is missing altogether has a default; the default target only if there is no other.
WithDefaults(lists) ==
  [check     |-> IF lists.check # <<>> THEN lists.check ELSE <<DefaultCheck>>,
   criterion |-> IF lists.criterion # <<>> THEN lists.criterion ELSE DefaultCriteria,
   targets   |-> IF lists = NoEntries THEN TargetsOf("check", <<DefaultCheck>>) ELSE Targets(lists),
   source    |-> IF lists.criterion # <<>> THEN "merged" ELSE "merged_empty"]

\* The validators of EvaluationSetup and ScoringCriterion.
Valid(setup) ==
  /\ \A e \in In(setup.criterion) : e.weight \in 1 .. 1000
  /\ setup.criterion # <<>> => Within(TotalWeight(setup.criterion), 10)
  /\ TargetsOf("check", setup.check) \subseteq setup.targets

\* Setup, run and gaps report are three transactions, and the refinement is scheduled last.
SaveStart ==
  /\ request = "save"
  /\ LET setup == WithDefaults(draft) IN
     IF ~Valid(setup)
     THEN request' = "rejected" /\ UNCHANGED <<draft, stored, refinement>>
     ELSE /\ stored' = setup /\ draft' = NoEntries
          /\ \/ request' = "failed" /\ UNCHANGED refinement
             \/ request' = "pending_confirm" /\ refinement' \in {"none", "waiting"}
  /\ UNCHANGED <<sources, confirmed, loaded>>

----------------------------------------------------------------------------
(* The customer, the refinement and the pipeline *)

\* The customer's own check comes with a target that is made up for it.
OwnCheck == Check("customer", "own")

Keeping(list, keep) ==
  FoldLeft(LAMBDA s, i : IF i \in keep THEN Append(s, list[i]) ELSE s, <<>>, [i \in DOMAIN list |-> i])

\* PUT /setup: entries are removed, a check of the customer's is added, weights are shared
\* evenly or left.  An invalid setup is refused.  A PUT carries the whole setup, so one in a
\* row stands for many.
EditSetup ==
  /\ request = "pending_confirm" /\ stored.source # "manually_edited"
  /\ \E keep \in SUBSET DOMAIN stored.check, scored \in SUBSET DOMAIN stored.criterion,
        own \in BOOLEAN, even \in BOOLEAN :
       LET added    == IF own THEN <<OwnCheck>> ELSE <<>>
           criteria == Keeping(stored.criterion, scored)
           edited   == [check     |-> Keeping(stored.check, keep) \o added,
                        criterion |-> IF even THEN Evened(criteria) ELSE criteria,
                        targets   |-> stored.targets \cup TargetsOf("check", added),
                        source    |-> "manually_edited"]
       IN  Valid(edited) /\ stored' = edited
  /\ UNCHANGED <<sources, draft, request, refinement, confirmed, loaded>>

ConfirmSetup == /\ request = "pending_confirm"
                /\ request' = "running" /\ confirmed' = stored
                /\ UNCHANGED <<sources, draft, stored, refinement, loaded>>

\* _refine_setup_with_llm, after its second extraction: what the merge has replaces what is
\* stored, whatever has become of the run, and is saved without validation.
RefineSetup ==
  /\ refinement = "waiting" /\ refinement' = "done"
  /\ \E rfp \in RfpCriteria \cup {NoEntries} :
       LET merged == Merged([sources EXCEPT !.rfp = rfp])
       IN  stored' = IF merged = NoEntries THEN stored
                     ELSE [check     |-> IF merged.check # <<>> THEN merged.check ELSE stored.check,
                           criterion |-> IF merged.criterion # <<>> THEN merged.criterion
                                                                   ELSE stored.criterion,
                           targets   |-> Targets(merged),
                           source    |-> IF merged.criterion # <<>> THEN "merged"
                                                                   ELSE "merged_empty"]
  /\ UNCHANGED <<sources, draft, request, confirmed, loaded>>

\* run_pipeline reads and validates the setup it finds.
LoadSetup == /\ request = "running"
             /\ IF Valid(stored) THEN loaded' = stored /\ request' = "evaluating"
                ELSE request' = "blocked" /\ UNCHANGED loaded
             /\ UNCHANGED <<sources, draft, stored, refinement, confirmed>>

CriteriaNext == \/ SubmitRequest \/ FillGuides \/ SuggestChecks \/ SaveStart
                \/ EditSetup \/ ConfirmSetup \/ RefineSetup \/ LoadSetup

CriteriaSpec == CriteriaInit /\ [][CriteriaNext]_criteriaVars

----------------------------------------------------------------------------
(* Properties *)

\* The first source to list an entry of the kind and name, among those that know of it.
Lists(source, kind, name) == \E e \in In(sources[source][kind]) : e.name = name
FirstSource(kind, name) == IF Lists("org", kind, name) THEN "org"
                           ELSE IF Lists("dept", kind, name) THEN "dept" ELSE "user"

\* The positions of a name in a list.
Places(list, name) == {i \in DOMAIN list : list[i].name = name}

\* criteria.py:339, "Priority: org > dept > user > rfp", deduplicated by name: until the
\* customer edits it, a setup, refined or not, has every name the organisation, the
\* department or the sheet lists, from the first source that lists it and no other, and
\* only the organisation's more than once.
FirstSourceWins ==
  (stored # NoSetup /\ stored.source # "manually_edited") =>
    \A s \in {"org", "dept", "user"}, k \in Kinds : \A e \in In(sources[s][k]) :
      LET places == Places(stored[k], e.name) IN
      /\ {stored[k][i].source : i \in places} = {FirstSource(k, e.name)}
      /\ FirstSource(k, e.name) # "org" => \A i, j \in places : i = j

\* A rounded weight is off by half a thousandth at most, so it takes more than 20 criteria
\* for the sum to leave the validated interval.
TooManyToRound(list) == Len(list) > 20 /\ ~Within(TotalWeight(list), 10)

\* /start refuses a request for one of three reasons: a merged weight that is 0 or more than
\* 1, criteria without any mandatory check when none could be suggested, or the rounding of
\* many weights.
RefusedForAReason ==
  request = "rejected" =>
    \/ \E e \in In(draft.criterion) : e.weight \notin 1 .. 1000
    \/ draft.criterion # <<>> /\ draft.check = <<>>
    \/ TooManyToRound(draft.criterion)

----------------------------------------------------------------------------
(* What the documentation says and the code does not do. *)

\* schema_setup.py:46, an EvaluationSetup is "The confirmed customer criteria that drives the
\* entire evaluation": a pipeline evaluates what the customer has confirmed.
EvaluatedAsConfirmed == loaded # NoSetup => loaded = confirmed
=============================================================================
