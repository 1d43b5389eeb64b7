CONSTANTS
  Reloaders = {hup, http}
  Hup = hup
  Readers = {r1}
  MaxVersion = 1
  MaxInstalls = 2
SPECIFICATION FairSpec
INVARIANTS TypeOK NoTornForward NoStaleSleep ReloadNotUndone
PROPERTIES ConfigApplied RunExits CallsReturn
