CONSTANTS
  Sig = sig
  Requests = {http}
  NoOne = noone
  Workers = 2
  MaxReloads = 1
  SignalEarly = TRUE
SPECIFICATION FairSpec
INVARIANTS OneLiveGeneration
PROPERTIES ReloadReturns StopHolds ReconfigureTakesEffect
CHECK_DEADLOCK FALSE
