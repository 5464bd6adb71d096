CONSTANTS
  pull1 = pull1
  r1 = r1
  none = none
  manual = manual
  CR <- OneCR
  Pull <- OneCR
  Dotted <- OneCR
  Registry <- OneRegistry
  NoRegistry = none
  DefaultRegistry = r1
  RegistryRefs <- DefaultRef
  Manual = manual
  ManualAccounts <- NoRegistries
  Changes <- NoChanges
  MaxRotation = 3
  MaxUID = 1
  MaxFaults = 2
  MaxEdits = 0
  TTL = 8
  SyncPeriod = 2
  Grace = 1
SPECIFICATION ScheduleSpec
CHECK_DEADLOCK FALSE
INVARIANTS ScheduleTypeOK ClientNotLockedOut RenewalScheduled
