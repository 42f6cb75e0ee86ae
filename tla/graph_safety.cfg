SPECIFICATION Spec
CONSTANTS
  Vendors = {v1, v2, v3}
  MaxSlots = 2
  MaxRetries = 1
  MaxExplRetries = 1
  DbFaults = TRUE
SYMMETRY Symmetry
INVARIANTS
  EveryVendorAccountedFor
  ScoresRestOnFacts
  DecisionCoversScores
  RecordsAreTruthful
  CompleteMeansSound
PROPERTIES
  RetryNeverReopensDecision
CHECK_DEADLOCK FALSE
