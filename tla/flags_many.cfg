CONSTANTS
  Args <- MCManyArgs
  MaxArgc = 33
  Root = "root"
  Commands <- MCCommands
  Child <- MCChild
  HasHandler <- MCHandlers
  Flags <- MCFlags
  FlagsOf <- MCFlagsOf
  Short <- MCShort
  BoolFlags = {"sync"}
  Default <- MCDefault
  Legal <- MCLegal
  ParseBool <- MCParseBool
  Parse <- MCParse
  NoShort = "none"
  Bad <- MCBad
  Chunk = 32
  PtrSize = 8
SPECIFICATION Spec
INVARIANT HandlerGetsPositionals
CHECK_DEADLOCK FALSE
