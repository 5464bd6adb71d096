---------------------------- MODULE MCImageBuildEnv ----------------------------
(* ImageBuildEnv on small instances: one or two environments that share    *)
(* inputs, and one environment with redis.                                 *)
EXTENDS ImageBuildEnv, TLC

CONSTANTS e1, e2, a, b, reg1, reg2

OneEnv == {e1}
TwoEnvs == {e1, e2}
OneSecret == {a}
TwoSecrets == {a, b}
Hosts == {reg1, reg2}

\* Both inputs have credentials for reg1.
SharedHosts == [s \in {a, b} |-> IF s = a THEN {reg1} ELSE {reg1, reg2}]
OneHost == [s \in {a} |-> {reg1}]

TwiceSpecs == {[secrets |-> <<a, b>>, redis |-> FALSE], [secrets |-> <<b, b>>, redis |-> FALSE]}
OneSpec == {[secrets |-> <<a>>, redis |-> FALSE]}
RedisSpecs == {[secrets |-> <<>>, redis |-> TRUE]}

EnvSymmetry == Permutations(Env)

AllInputChanges == {"deleteEnv", "spec", "data", "delete"}
RedisChanges == {"deleteEnv", "redisSecret", "output", "restart"}
DataAndDelete == {"deleteEnv", "data"}
================================================================================
