CONSTANTS
  Nil = nil
  BadNames = {"", "longname"}
  LongTexts = {"long"}
  ClientLabels <- MCRegion
  Renames <- MCRenames
  AnonymizeNames = {"ip"}
  Assertable <- MCTokens
  Scrapes <- MCScrapes
  WallTimes = {9, 12}
  AgeLimit = 5
  MaxRotations = 1
SPECIFICATION ScrapeSpec
INVARIANTS LabelsCurrent
