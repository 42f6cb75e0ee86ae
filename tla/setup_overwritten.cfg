SPECIFICATION Spec
CONSTANTS
  Setups = {"s1", "s2"}
  Ingestions <- MCIngestions
  SetupOf <- MCSetupOf
  FilesOf <- MCFilesOf
  TextsOf <- MCTextsOf
  NoPoint = NoPoint
  Users <- MCUsers
  OrgOf <- MCOrgOf
  DeptOf <- MCDeptOf
  Runs = {r1, r2}
  Departments = {"d1", "d2"}
  Roles = {"company_admin", "department_admin", "department_user", "auditor"}
  MaxAccessChanges = 2
  ListLimit = 1
  NoRun = NoRun
  OrgCriteria <- MCOrgCriteria
  DeptCriteria <- MCDeptCriteria
  SheetCriteria <- MCSheetCriteria
  RfpCriteria <- MCRfpCriteria
  Suggested = {"iso", "insurance"}
  NoSetup = NoSetup
  PlanRequests <- MCPlanRequests
  OtherPlans <- MCOtherPlans
  MinTasks = 3
  MaxTasks = 12
  NoPlan = NoPlan
SYMMETRY RunSymmetry
INVARIANTS
  EvaluatedAsConfirmed
\* All rows may have been deleted, all runs been reviewed.
CHECK_DEADLOCK FALSE
