SPECIFICATION MCSpec
CONSTANTS
  Runs = {r1, r2}
  NoRun = NoRun
  MaxTasks = 2
  Vendors = {v1}
  MaxRetries = 1
  ins1 = ins1
  ins2 = ins2
  c1 = c1
  c2 = c2
  k1 = k1
  Targets = {ins1, ins2, c1, c2}
  FactType <- MCFactType
  TypeOrder <- MCTypeOrder
  Criteria = {k1}
  Weight <- MCWeight
  Setups <- MCSetups
  Samples = 3
INVARIANTS RetriedFailureStands
CHECK_DEADLOCK FALSE
