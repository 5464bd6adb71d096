CONSTANTS
  pull1 = pull1
  push1 = push1
  r1 = r1
  r2 = r2
  none = none
  manual = manual
  CR <- TwoCRs
  Pull <- OneCR
  Dotted <- NoCRs
  Registry <- OneRegistry
  NoRegistry = none
  DefaultRegistry = r1
  RegistryRefs <- DefaultRef
  Manual = manual
  ManualAccounts <- NoRegistries
  Changes <- DeleteOnly
  MaxRotation = 1
  MaxUID = 2
  MaxFaults = 0
  MaxEdits = 1
SPECIFICATION FairSpec
CHECK_DEADLOCK FALSE
PROPERTY FinalizerDeletesOwnAccounts
