CONSTANTS
  e1 = e1
  e2 = e2
  a = a
  b = b
  reg1 = reg1
  reg2 = reg2
  Env <- OneEnv
  Secret <- TwoSecrets
  Host <- Hosts
  HostsOf <- SharedHosts
  Specs <- TwiceSpecs
  InputsLag = FALSE
  Changes <- AllInputChanges
  Failures = {"lost", "timeout"}
  MaxUID = 2
  MaxFaults = 1
  MaxEdits = 1
SPECIFICATION FairEnvSpec
CHECK_DEADLOCK FALSE
INVARIANTS NoDanglingRefs SettledIsMerged
PROPERTIES EnvConverges EnvDeletionCompletes
