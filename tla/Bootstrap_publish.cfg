SPECIFICATION FairSpec
INVARIANTS TypeOK StartedWhole StartedOnce
PROPERTIES ProgressKept PlannedOrder Finishes
CONSTANTS
  N = 2
  MaxTrouble = 2
CHECK_DEADLOCK FALSE
