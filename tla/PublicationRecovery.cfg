\* Liveness: claims are left behind, approvals revoked, and the clock passes.
SPECIFICATION FairSpec
CONSTANTS
  q1 = q1  q2 = q2  h1 = h1  h2 = h2  g1 = g1  g2 = g2  s1 = s1  s2 = s2
  Posts = {q1}
  Contents = {c1}
  MsgIds = {m1}
  Handlers = {h1}
  Schedulers = {s1}
  Pool <- OnePool
  Requests = {"create", "save", "schedule", "cancel", "discard", "attach", "review", "publish", "edit", "unpublish", "sync", "removed"}
  Batch = 1
  PublishBudget = 1
  StaleAfter = 1
  MaxTime = 2
  ApprovalRequired = TRUE
  NoPost = NoPost  NoMsg = NoMsg  NoContent = NoContent
INVARIANT ClaimExclusive
PROPERTIES InterruptedRecovered DueLeavesCalendar
