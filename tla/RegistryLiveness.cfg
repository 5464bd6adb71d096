CONSTANTS
  unset = unset
  foreign = foreign
  v1 = v1
  v2 = v2
  Tasks <- ClaimTasks
  Specs <- ClaimSpecs
  Class <- NoClass
  Unset = unset
  Foreign = foreign
  Config <- OneConfig
  Changes <- AllChanges
  MaxUID = 2
  MaxFaults = 0
  MaxEdits = 1
SPECIFICATION FairRegistrySpec
CHECK_DEADLOCK FALSE
INVARIANT SettledIsSynced
PROPERTIES RegistryConverges OrphansCollected
