-------------------------- MODULE MCRotationSchedule --------------------------
(* RotationSchedule on a small instance: one CR and its registry.          *)
EXTENDS RotationSchedule

CONSTANTS pull1, r1, none, manual

OneCR == {pull1}
NoRegistries == {}
OneRegistry == {r1}
DefaultRef == {none}

NoChanges == {}
=============================================================================
