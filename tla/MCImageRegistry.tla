---------------------------- MODULE MCImageRegistry ----------------------------
(* ImageRegistry on small instances: a registry's certificate and its      *)
(* StatefulSet, with operators of two versions, and its StatefulSet and    *)
(* claim.                                                                  *)
EXTENDS ImageRegistry, TLC

CONSTANTS unset, foreign, v1, v2

CertTasks == <<"tls", "statefulSet">>
ClaimTasks == <<"statefulSet", "claim">>

Managed == [issuer |-> FALSE, secret |-> FALSE]
Provided == [issuer |-> FALSE, secret |-> TRUE]

\* The certificate comes from the operator or is the user's.
CertSpecs ==
  {[replicas |-> 1, tls |-> cert, ca |-> Provided, class |-> unset, deleteClaim |-> FALSE]
     : cert \in {Managed, Provided}}

\* The claim is kept or belongs to the registry.
ClaimSpecs ==
  {[replicas |-> IF d THEN 1 ELSE 2, tls |-> Provided, ca |-> Provided, class |-> unset,
    deleteClaim |-> d] : d \in BOOLEAN}

NoClass == {}
OneConfig == {v1}
TwoConfigs == {v1, v2}
ConfigSymmetry == Permutations(Config)
AllChanges == ChangeKind
================================================================================
