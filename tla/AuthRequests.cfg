CONSTANTS
  alice = alice
  t1 = t1
  t2 = t2
  User <- OneUser
  Permanent <- Nobody
  Thread <- TwoThreads
  TTL = 1
  Slack = 1
  Lifetime = 1
  MaxDelay = 1
  MaxAccounts = 2
  MaxFaults = 1
SPECIFICATION Spec
INVARIANTS AuthTypeOK AcceptedNotLongGone NoFalseDenial ExpiryScheduled
SYMMETRY ThreadSymmetry
