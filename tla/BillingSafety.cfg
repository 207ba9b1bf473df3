\* One contract, the keys of its payments, and two contracts in a row.
SPECIFICATION Spec
CONSTANTS
  Attempts <- MCAttempts
  NoAttempt = noAttempt
  Handlers <- Owner
  Schedulers <- TwoSchedulers
  a1 = a1  a2 = a2  a3 = a3  a4 = a4  h1 = h1  s1 = s1  s2 = s2
  Retry = 1
  Trials = 2
  Window = 1
  IdemLife = 2
  MaxTime = 3
  Mixes <- SafetyMixes
CHECK_DEADLOCK FALSE
INVARIANTS OneDebitPerCycle ContractSound OneChargePerAttempt 
PROPERTIES UnresolvedStopsDebits CancelCutoff
