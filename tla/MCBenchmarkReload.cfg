CONSTANTS
  Sig = sig
  Requests = {http}
  NoOne = noone
  Workers = 2
  MaxReloads = 2
  SignalEarly = TRUE
SPECIFICATION FairSpec
PROPERTIES ReloadReturns
CHECK_DEADLOCK FALSE
