CONSTANTS
  Name <- MCName
  LogicalMD <- MCLogicalMD
  BadNames <- MCBadNames
  ContentNames <- MCContentNames
  Packages <- MCPackages
SPECIFICATION Spec
INVARIANT IdentifiersAreOfThePIP
CHECK_DEADLOCK FALSE
