---------------------------- MODULE MCImageSecret ----------------------------
(* ImageSecret on small instances: one CR, moving between two registries   *)
(* in some, and an ImagePullSecret beside an ImagePushSecret that uses the *)
(* same registry.                                                          *)
EXTENDS ImageSecretCredentials

CONSTANTS pull1, push1, r1, r2, none, manual

NoCRs == {}
OneCR == {pull1}
TwoCRs == {pull1, push1}
NoRegistries == {}
OneRegistry == {r1}
TwoRegistries == {r1, r2}
DefaultRef == {none}
TwoRefs == {none, r2}

AllChanges == ChangeKind
DeleteOnly == {"deleteCR"}
=============================================================================
