CONSTANTS
  e1 = e1
  e2 = e2
  a = a
  b = b
  reg1 = reg1
  reg2 = reg2
  Env <- OneEnv
  Secret <- OneSecret
  Host <- Hosts
  HostsOf <- OneHost
  Specs <- RedisSpecs
  InputsLag = FALSE
  Changes <- RedisChanges
  Failures = {"timeout"}
  MaxUID = 2
  MaxFaults = 1
  MaxEdits = 1
SPECIFICATION EnvSpec
CHECK_DEADLOCK FALSE
INVARIANT RedisUsable
PROPERTY RedisPasswordKept
