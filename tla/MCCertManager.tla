---------------------------- MODULE MCCertManager ----------------------------
(* CertManager with one registry and two zones.                            *)
EXTENDS CertManager

CONSTANTS reg, zone1, zone2

OneRegistry == {reg}
Zones == {zone1, zone2}
=============================================================================
