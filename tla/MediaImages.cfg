\* An image is written into a post while the collector takes its file.
CONSTANTS
  Personal = {alice}
  Team = {}
  Complimentary = {}
  Files = {f1}
  Handlers = {h1, h2}
  Cleaners = {cycle}
  Faults = {}
  MaxFailures = 0
  MaxFiles = 1
  Grace = 1
  Life = 1
  MaxTime = 2
  Nobody = Nobody
  NoFile = NoFile
SPECIFICATION Spec
SYMMETRY HandlerSymmetry
CHECK_DEADLOCK FALSE
INVARIANT ShownHasObject
