CONSTANTS
  Name <- MCName
  LogicalMD <- MCLogicalMD
  BadNames <- MCBadNames
  ContentNames <- MCContentNames
  Packages <- MCPackages
SPECIFICATION Spec
INVARIANTS
  TypeOK
  NothingIsLost
  RejectedIsIntact
  ValidPackagesAreRestructured
  PIPMatchesManifest
  PremisNamesFiles
  IdentifiersNameFiles
CHECK_DEADLOCK FALSE
