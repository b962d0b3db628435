CONSTANTS
  Chunk = 2
  Junk = 99
  CommandNames <- MCCommandNames
  FlagNames <- MCFlagNames
  LegalCommands <- MCLegalCommands
  LegalFlags <- MCLegalFlags
  Shorts = {"none", "h", "x"}
  NoShort = "none"
  Values = {1}
  Initial <- MCInitial
  Elements = {1, 2}
  MaxCommands = 3
  MaxFlags = 2
  MaxBlocks = 3
  MaxLen = 2
  MaxArgc = 1
SPECIFICATION Spec
INVARIANTS TypeOK EachFoundByItsName ReleasedOnce ReleasesEverything
PROPERTY ImplementsArrayFlags
CHECK_DEADLOCK FALSE
