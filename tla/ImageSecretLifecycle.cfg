CONSTANTS
  pull1 = pull1
  push1 = push1
  r1 = r1
  r2 = r2
  none = none
  manual = manual
  CR <- OneCR
  Pull <- OneCR
  Dotted <- NoCRs
  Registry <- TwoRegistries
  NoRegistry = none
  DefaultRegistry = r1
  RegistryRefs <- TwoRefs
  Manual = manual
  ManualAccounts <- NoRegistries
  Changes <- AllChanges
  MaxRotation = 2
  MaxUID = 2
  MaxFaults = 1
  MaxEdits = 1
SPECIFICATION Spec
CHECK_DEADLOCK FALSE
INVARIANTS TypeOK RotationRecordedFirst SettledIsUsable CredentialsMatch
PROPERTIES FinalizedWithoutAccounts ImplementsCredentials
