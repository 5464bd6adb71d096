CONSTANTS
  unset = unset
  foreign = foreign
  v1 = v1
  v2 = v2
  Tasks <- CertTasks
  Specs <- CertSpecs
  Class <- NoClass
  Unset = unset
  Foreign = foreign
  Config <- TwoConfigs
  Changes <- AllChanges
  MaxUID = 2
  MaxFaults = 1
  MaxEdits = 1
SPECIFICATION RegistrySpec
CHECK_DEADLOCK FALSE
SYMMETRY ConfigSymmetry
INVARIANTS RegistryTypeOK ReadyIsRolledOut SettledIsSynced
