CONSTANTS
  Chunk = 2
  Junk = 99
  CommandNames = {"a"}
  FlagNames = {"a"}
  LegalCommands = {"a"}
  LegalFlags = {"a"}
  Shorts = {"none"}
  NoShort = "none"
  Values = {1}
  Initial <- MCNull
  Elements = {1, 2}
  MaxCommands = 1
  MaxFlags = 1
  MaxBlocks = 3
  MaxLen = 2
  MaxArgc = 1
SPECIFICATION Spec
INVARIANT FlagsCanBeGiven
CHECK_DEADLOCK FALSE
