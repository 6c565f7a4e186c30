SPECIFICATION FairSpec
INVARIANTS TypeOK WithinCapacity DependenciesFirst
PROPERTY PassedOverByErrors
CONSTANTS
  NumIssues = 2
  MaxImplementers = 1
  MaxDrags = 2
  MaxCloses = 1
  MaxFaults = 1
