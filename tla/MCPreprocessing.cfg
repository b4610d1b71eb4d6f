CONSTANTS
  SIPTypes <- MCSIPTypes
  AIPTypes <- MCAIPTypes
SPECIFICATION FairSpec
INVARIANTS
  TypeOK
  OnlyValidPackagesHaveEffects
  OutcomeAgreesWithTasks
  PremisClaimsAreTrue
  MetadataTellsTheDecision
  SuccessIsComplete
PROPERTIES
  KeepsContract
  NoEffectAfterFailure
  OnlyTheDecisionCanBlock
CHECK_DEADLOCK FALSE
