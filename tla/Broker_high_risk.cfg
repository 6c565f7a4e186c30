SPECIFICATION Spec
PROPERTY RejectionsStand
CONSTANTS
  NumProviders = 2
  MaxRetries = 1
  HighRisk = TRUE
  HostCheck = FALSE
  MaxCommits = 1
  MaxBase = 0
  MaxFaults = 0
  MaxQuota = 1
  MaxGrants = 0
  MaxHolds = 0
  MaxMisreports = 0
  MaxPushes = 0
  MaxCools = 0
  MaxFixes = 0
CHECK_DEADLOCK FALSE
