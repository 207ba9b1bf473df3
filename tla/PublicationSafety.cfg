\* Races, reviews and removals of one post.
SPECIFICATION SituationSpec
CONSTANTS
  q1 = q1  m1 = m1  m2 = m2  h1 = h1  h2 = h2  g1 = g1  g2 = g2  s1 = s1  s2 = s2  c1 = c1  c2 = c2
  Posts <- ThePost
  Contents <- TwoTexts
  MsgIds <- Messages
  Handlers <- TwoHandlers
  Schedulers <- TwoSchedulers
  Pool <- TwoPools
  Requests <- AllRequests
  Batch = 1
  PublishBudget = 1
  StaleAfter = 1
  MaxTime = 2
  ApprovalRequired = TRUE
  NoPost = NoPost  NoMsg = NoMsg  NoContent = NoContent
SYMMETRY Identical
INVARIANTS NoSilentDuplicate OnlyApprovedSent NoFalseInSync MessageMatchesStatus
PROPERTIES LiveMessageKept
