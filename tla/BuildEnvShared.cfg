CONSTANTS
  e1 = e1
  e2 = e2
  a = a
  b = b
  reg1 = reg1
  reg2 = reg2
  Env <- TwoEnvs
  Secret <- OneSecret
  Host <- Hosts
  HostsOf <- OneHost
  Specs <- OneSpec
  InputsLag = TRUE
  Changes <- DataAndDelete
  Failures = {"lost", "timeout"}
  MaxUID = 2
  MaxFaults = 0
  MaxEdits = 1
SPECIFICATION EnvSpec
CHECK_DEADLOCK FALSE
INVARIANTS EnvTypeOK SettledIsMerged DanglingWereOverlooked
PROPERTY RefsRecordedFirst
SYMMETRY EnvSymmetry
