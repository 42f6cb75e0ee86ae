SPECIFICATION Spec
CONSTANTS
  Vendors = {v1}
  Unknown = Unknown
  Contents = {c1, c2}
  Ticks = {t1}
  MaxDrops = 2
  MaxFaults = 1
PROPERTIES
  JobsAreDrained
  RfpGetsReady
CHECK_DEADLOCK FALSE
