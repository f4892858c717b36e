\* A manual run and a login beside the scheduled run, with two faults.
SPECIFICATION FairSpec
CONSTANTS
  Manual = {m1}
  Logins = {l1}
  m1 = m1
  l1 = l1
  Scheduled = Scheduled
  Recheck = Recheck
  Nobody = Nobody
  MaxFaults = 2
INVARIANTS WorkIsUnderLock CollectsOnlyWhenAccepted
PROPERTIES NotLockedOut AlertFollowsSession
