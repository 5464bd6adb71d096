CONSTANTS
  pull1 = pull1
  push1 = push1
  r1 = r1
  r2 = r2
  none = none
  manual = manual
  CR <- OneCR
  Pull <- OneCR
  Dotted <- OneCR
  Registry <- OneRegistry
  NoRegistry = none
  DefaultRegistry = r1
  RegistryRefs <- DefaultRef
  Manual = manual
  ManualAccounts <- NoRegistries
  Changes <- AllChanges
  MaxRotation = 3
  MaxUID = 1
  MaxFaults = 1
  MaxEdits = 1
SPECIFICATION FairSpec
CHECK_DEADLOCK FALSE
INVARIANT SettledIsUsable
PROPERTIES Converges DeletionCompletes
