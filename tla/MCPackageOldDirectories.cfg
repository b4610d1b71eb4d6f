CONSTANTS
  Name <- MCName
  LogicalMD <- MCLogicalMD
  BadNames <- MCBadNames
  ContentNames <- MCContentNames
  Packages <- MCPackages
SPECIFICATION Spec
INVARIANT OldDirectoriesAreRemoved
CHECK_DEADLOCK FALSE
