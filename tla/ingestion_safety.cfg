SPECIFICATION Spec
CONSTANTS
  Vendors = {v1}
  Unknown = Unknown
  Contents = {c1, c2}
  Ticks = {t1, t2}
  MaxDrops = 2
  MaxFaults = 2
SYMMETRY Symmetry
INVARIANTS
  ProcessedOnce
  WindowProtectsDrafts
  SupersededHasSuccessor
PROPERTIES
  SettledJobsStay
  ImplementsRfpLifecycle
CHECK_DEADLOCK FALSE
