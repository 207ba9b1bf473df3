\* An old renewal goes to review in the life of a new contract.
SPECIFICATION Spec
CONSTANTS
  Attempts <- MCAttempts
  NoAttempt = noAttempt
  Handlers <- Owner
  Schedulers <- OneScheduler
  a1 = a1  a2 = a2  a3 = a3  a4 = a4  h1 = h1  s1 = s1  s2 = s2
  Retry = 1
  Trials = 2
  Window = 1
  IdemLife = 2
  MaxTime = 4
  Mixes <- ReviewedOnly
CHECK_DEADLOCK FALSE
PROPERTY NoEarlyDebit
