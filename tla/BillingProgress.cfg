\* Liveness: lost answers, crashes, cancellations, and downgrades that must wait.
SPECIFICATION FairSpec
CONSTANTS
  Attempts <- ThreeAttempts
  NoAttempt = noAttempt
  Handlers <- Owner
  Schedulers <- OneScheduler
  a1 = a1  a2 = a2  a3 = a3  a4 = a4  h1 = h1  s1 = s1  s2 = s2
  Retry = 1
  Trials = 2
  Window = 1
  IdemLife = 2
  MaxTime = 3
  Mixes <- ProgressMixes
CHECK_DEADLOCK FALSE
PROPERTIES UnpaidEnds PaymentHonoured
