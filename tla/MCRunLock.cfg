\* Three attempts on one row, leases of two time units, time passing fairly.
SPECIFICATION FairSpec
CONSTANTS
  o1 = o1
  o2 = o2
  o3 = o3
  Owner = {o1, o2, o3}
  NoOwner = NoOwner
  LockDuration = 2
  MaxClock = 7
PROPERTIES RunningLeaseIsKept ImplementsLease CrashedHolderIsOutlived
CHECK_DEADLOCK FALSE
