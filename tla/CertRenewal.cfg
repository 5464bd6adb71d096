CONSTANTS
  reg = reg
  zone1 = zone1
  zone2 = zone2
  Registry <- OneRegistry
  Zone <- Zones
  CATTL = 72
  CertTTL = 16
  SyncPeriod = 2
  MaxFaults = 1
  MaxEdits = 1
SPECIFICATION Spec
INVARIANTS CertTypeOK RootRenewedOnTime ChainInDate
PROPERTIES UnmanagedKept RenewedOnlyWhenDue
