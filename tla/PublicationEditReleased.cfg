\* A review decision while an edit is on its way to MAX.
SPECIFICATION Spec
CONSTANTS
  q1 = q1  q2 = q2  h1 = h1  h2 = h2  g1 = g1  g2 = g2  s1 = s1  s2 = s2
  Posts = {q1}
  Contents = {c1}
  MsgIds = {m1}
  Handlers = {h1}
  Schedulers = {s1}
  Pool <- OnePool
  Requests = {"create", "save", "review", "publish", "edit"}
  Batch = 1
  PublishBudget = 1
  StaleAfter = 1
  MaxTime = 2
  ApprovalRequired = FALSE
  NoPost = NoPost  NoMsg = NoMsg  NoContent = NoContent
INVARIANTS EditClaimReleasable
