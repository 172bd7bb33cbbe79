SPECIFICATION Spec
CONSTANTS
  MaxDepth = 2560
  Units <- AllUnits
INVARIANTS ScanInverts ParseInverts ShownOnce UnassignedReported NamesResolved
CHECK_DEADLOCK FALSE
