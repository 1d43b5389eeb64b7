CONSTANTS
  Callers = {a, b}
  NoCaller = nocaller
  Lifetimes = {0, 2}
  Labelings = {"x", "y"}
  Flags <- MCFlags
  NoLabels = nolabels
  MinLifetime = 2
  Margin = 1
  Timeout = 1
  Leeway = 0
  MaxTokens = 2
  MaxKeys = 2
  MaxTime = 2
SPECIFICATION FairSpec
INVARIANTS TypeOK UsableTokenAccepted OneLiveToken LabelsSound
PROPERTIES DropsOnlyRefused RefusedTokenLeaves CallReturns
