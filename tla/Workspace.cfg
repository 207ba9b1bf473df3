SPECIFICATION Spec
CONSTANTS
  a1 = a1  a2 = a2  b1 = b1  p1 = p1  p2 = p2
  x1 = x1  x2 = x2  t1 = t1  u1 = u1  u2 = u2  i1 = i1  m1 = m1  m2 = m2  Noone = Noone
SYMMETRY Symmetry
INVARIANTS  NothingMissed  OwnershipProven DoneOnce 
PROPERTIES NothingOlderWins EditsKeepPromise CommentsKeepPromise DecisionsStand
CHECK_DEADLOCK FALSE
