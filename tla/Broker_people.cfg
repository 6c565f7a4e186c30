SPECIFICATION Spec
INVARIANTS ExclusiveClone ImplementedIsValid EvidenceGenuine LaunchBound
PROPERTIES MergeIsReviewed MergeIsValidated KeepsLifecycle
CONSTANTS
  NumProviders = 2
  MaxRetries = 1
  HighRisk = FALSE
  HostCheck = TRUE
  MaxCommits = 1
  MaxBase = 0
  MaxFaults = 0
  MaxQuota = 0
  MaxGrants = 1
  MaxHolds = 1
  MaxMisreports = 1
  MaxPushes = 1
  MaxCools = 0
  MaxFixes = 1
CHECK_DEADLOCK FALSE
