SPECIFICATION FairSpec
PROPERTY InProgressLeaves
CONSTANTS
  NumProviders = 2
  MaxRetries = 1
  HighRisk = FALSE
  HostCheck = FALSE
  MaxCommits = 1
  MaxBase = 0
  MaxFaults = 0
  MaxQuota = 0
  MaxGrants = 0
  MaxHolds = 0
  MaxMisreports = 1
  MaxPushes = 0
  MaxCools = 0
  MaxFixes = 0
CHECK_DEADLOCK FALSE
