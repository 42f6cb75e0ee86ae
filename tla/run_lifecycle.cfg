SPECIFICATION Spec
CONSTANTS
  Runs = {r1, r2}
  NoRun = NoRun
  MaxTasks = 3
  MaxCrashes = 2
INVARIANTS
  StatusIsTruthful
  SetupOutlivesRuns
  ExplanationMatchesDecision
PROPERTIES
  ImplementsRunLife
  RunsEnd
CHECK_DEADLOCK FALSE
