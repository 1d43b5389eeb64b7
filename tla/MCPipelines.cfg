CONSTANTS
  Nil = nil
  BadNames = {"", "longname"}
  LongTexts = {"long"}
  Key = "id"
  TokenLabels <- MCTokenLabels
  Bodies <- MCBodies
  Rules <- MCRules
  Flags <- MCFlags
  Times = {8, 9, 10}
  Second = 2
  MaxAge = 5
  ClientLabels <- MCRegion
  Renames <- MCRenames
  AnonymizeNames = {"ip"}
  Assertable <- MCTokens
  Scrapes <- MCScrapes
  WallTimes = {9, 12}
  AgeLimit = 5
  MaxRotations = 1
SPECIFICATION PipelinesSpec
INVARIANTS
  TypeOK Isolation WholeOrNothing ServerTime
  AcceptedByServer AnonymizedOnce NothingLost
