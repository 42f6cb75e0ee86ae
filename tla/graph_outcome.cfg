SPECIFICATION Spec
CONSTANTS
  Vendors = {v1, v2}
  MaxSlots = 1
  MaxRetries = 1
  MaxExplRetries = 1
  DbFaults = TRUE
PROPERTIES
  ImplementsVendorFates
  NoBranchStarves
CHECK_DEADLOCK FALSE
