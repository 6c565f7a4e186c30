SPECIFICATION Spec
INVARIANT IntegrationBound
PROPERTY IntegrationOnce
CONSTANTS
  NumProviders = 2
  MaxRetries = 1
  HighRisk = FALSE
  HostCheck = FALSE
  MaxCommits = 2
  MaxBase = 2
  MaxFaults = 1
  MaxQuota = 0
  MaxGrants = 0
  MaxHolds = 1
  MaxMisreports = 0
  MaxPushes = 0
  MaxCools = 0
  MaxFixes = 0
CHECK_DEADLOCK FALSE
