SPECIFICATION FairSpec
CONSTANTS
  Campaigns <- MCCampaigns
  Workers <- MCWorkers
  Cap = 1
  MaxOperations = 2
  Lease = 2
  Deadline = 1
  LaunchLease = 2
  MaxConnections = 2
  Mixes <- RefusedOnly
  w1 = w1
  w2 = w2
  Nobody = nobody
PROPERTY CredentialNotDeadlocked
CHECK_DEADLOCK FALSE
