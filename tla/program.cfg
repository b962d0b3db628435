CONSTANTS
  Paths <- MCPaths
  Args <- MCArgs
  MaxArgc = 2
  ParseBool <- MCParseBool
  ParseUint8 <- MCParseUint8
  Bad = Bad
  Texts <- MCTexts
  AddressFits <- MCFits
  AddressPort <- MCPort
  MaxPort = 100
  DefaultAddr <- MCDefaultAddr
SPECIFICATION Spec
INVARIANTS TypeOK BalancerConfigured ExecuteSeesItsFlags ZeroMeansServedOrHelp FreedAtExit
PROPERTY ServesOrExits
CHECK_DEADLOCK FALSE
