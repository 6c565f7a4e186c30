SPECIFICATION FairSpec
PROPERTY ParkedLeaves
CONSTANTS
  NumProviders = 2
  MaxRetries = 1
  HighRisk = FALSE
  HostCheck = FALSE
  MaxCommits = 1
  MaxBase = 0
  MaxFaults = 1
  MaxQuota = 1
  MaxGrants = 0
  MaxHolds = 0
  MaxMisreports = 0
  MaxPushes = 0
  MaxCools = 1
  MaxFixes = 0
CHECK_DEADLOCK FALSE
