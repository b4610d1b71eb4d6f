CONSTANTS
  Name <- MCName
  LogicalMD <- MCLogicalMD
  BadNames <- MCBadNames
  ContentNames <- MCContentNames
  Packages <- MCPackages
SPECIFICATION Spec
INVARIANT ListedFilesAreKept
CHECK_DEADLOCK FALSE
