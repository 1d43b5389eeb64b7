CONSTANTS
  Nil = nil
  BadNames = {"", "longname"}
  LongTexts = {"long"}
  Key = "id"
  TokenLabels <- MCTokenLabels
  Bodies <- MCBodies
  Rules <- MCRules
  Flags <- MCFlags
  Times = {8, 9, 10}
  Second = 2
  MaxAge = 5
SPECIFICATION Spec
INVARIANTS EveryoneAnswered
