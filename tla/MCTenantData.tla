---------------------------- MODULE MCTenantData ----------------------------
(***************************************************************************)
(* What an organisation keeps: its vectors with the rows they belong to,    *)
(* the access to its runs, the setup of a run with the criteria it is       *)
(* merged from, and the plan made from a setup.  They have no state in      *)
(* common, so each behaviour explores one of them: part says which.         *)
(***************************************************************************)
EXTENDS VectorStore, RunAccess, CriteriaSetup, PlanGuardrail, TLC

VARIABLE part

MCSetupOf    == [i1 |-> "s1", i2 |-> "s2", i3 |-> "s1"]
MCIngestions == DOMAIN MCSetupOf
MCFilesOf    == [i1 |-> {"f1"}, i2 |-> {"f1", "f2"}, i3 |-> {"f1"}]
MCTextsOf    == [f1 |-> {"t1"}, f2 |-> {}]

MCOrgOf  == [ann |-> "o1", bob |-> "o1", eve |-> "o2"]
MCUsers  == DOMAIN MCOrgOf
RunSymmetry == Permutations(Runs)
MCDeptOf == [ann |-> "d1", bob |-> "d2", eve |-> "d1"]

\* Two names of the organisation may normalise to one; "iso" names a check and a criterion.
MCOrgCriteria ==
  {NoEntries,
   [check |-> <<Check("org", "iso")>>, criterion |-> <<Criterion("org", "price", 600, "blank")>>],
   [check |-> <<>>, criterion |-> <<Criterion("org", "price", 500, "own"),
                                    Criterion("org", "price", 500, "blank")>>]}
MCDeptCriteria ==
  {NoEntries, [check |-> <<Check("dept", "iso")>>, criterion |-> <<>>],
   [check |-> <<>>, criterion |-> <<Criterion("dept", "price", 400, "own"),
                                    Criterion("dept", "iso", 300, "blank")>>]}
MCSheetCriteria ==
  {[check |-> <<Check("user", "tax")>>, criterion |-> <<Criterion("user", "price", 30000, "own"),
                                                        Criterion("user", "team", 20000, "blank")>>],
   [check |-> <<>>, criterion |-> <<Criterion("user", "team", -500, "own")>>]}
MCRfpCriteria ==
  {[check |-> <<Check("rfp", "iso")>>, criterion |-> <<Criterion("rfp", "price", 450, "own"),
                                                       Criterion("rfp", "team", 600, "own")>>],
   [check |-> <<>>, criterion |-> <<Criterion("rfp", "iso", 0, "own"),
                                    Criterion("rfp", "iso", 0, "blank")>>]}

\* run_planner's plans on both sides of the limits; any graph over three tasks, one of which
\* may depend on a task that does not exist.
MCPlanRequests == [vendors : SUBSET {"v1", "v2", "v3"}, checks : SUBSET {"k1", "k2"},
                   criteria : SUBSET {"q1", "q2"}]
OtherIds  == {"a", "b", "c"}
MCOtherPlans ==
  {[request |-> [vendors |-> {"v1"}, checks |-> {"a"}, criteria |-> {"b"}],
    tasks   |-> [i \in OtherIds |->
                   Task(IF i = "a" /\ a THEN "check" ELSE IF i = "b" /\ b THEN "score" ELSE "tail",
                        i, deps[i])]]
   : deps \in [OtherIds -> SUBSET (OtherIds \cup {"gone"})], a \in BOOLEAN, b \in BOOLEAN}

Init == /\ StoreInit /\ AccessInit /\ CriteriaInit /\ PlanInit
        /\ part \in {"store", "access", "criteria", "plan"}
        /\ role["ann"] = "company_admin"
        /\ part # "access" => \A u \in {"bob", "eve"} : role[u] = "department_user"

Next ==
  /\ \/ part = "store" /\ StoreNext /\ UNCHANGED <<accessVars, criteriaVars, plan>>
     \/ part = "access" /\ AccessNext /\ UNCHANGED <<storeVars, criteriaVars, plan>>
     \/ part = "criteria" /\ CriteriaNext /\ UNCHANGED <<storeVars, accessVars, plan>>
     \/ part = "plan" /\ PlanNext /\ UNCHANGED <<storeVars, accessVars, criteriaVars>>
  /\ UNCHANGED part

Spec == Init /\ [][Next]_<<storeVars, accessVars, criteriaVars, plan, part>>
=============================================================================
