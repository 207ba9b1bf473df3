\* Two tenants upload, use and give up the same bytes; one failure of any kind.
CONSTANTS
  Personal = {alice}
  Team = {agency}
  Complimentary = {}
  Files = {f1}
  Handlers = {h1, h2}
  Cleaners = {cycle}
  Faults = {"storage", "database", "crash"}
  MaxFailures = 1
  MaxFiles = 1
  Grace = 1
  Life = 1
  MaxTime = 2
  Nobody = Nobody
  NoFile = NoFile
SPECIFICATION FairSpec
CHECK_DEADLOCK FALSE
INVARIANTS ReadyHasObject UploadKeepsRow LedgerExact NothingLeaks
PROPERTY OrphansFreed
