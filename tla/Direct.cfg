SPECIFICATION Spec
CONSTANTS
  Campaigns <- MCCampaigns
  Workers <- MCWorkers
  Cap = 1
  MaxOperations = 2
  Lease = 2
  Deadline = 1
  LaunchLease = 2
  MaxConnections = 2
  Mixes <- MCMixes
  w1 = w1
  w2 = w2
  Nobody = nobody
SYMMETRY Goroutines
INVARIANTS NoDuplicateObjects VerifiedIsObserved RowsSound LaunchAuthorised BudgetCap ResumeBounded CredentialKept
CHECK_DEADLOCK FALSE
