\* Two runs that may take longer than their lease, two jobs.
SPECIFICATION Spec
CONSTANTS
  r1 = r1
  r2 = r2
  j1 = j1
  j2 = j2
  Run = {r1, r2}
  Job = {j1, j2}
  NoOwner = NoOwner
  LockDuration = 1
  MaxRunTime = 3
  MaxClock = 5
SYMMETRY RunsAndJobs
INVARIANTS OneRunWithinLease OutcomeIsRecorded
PROPERTIES AtomicFinalState FirstSeenIsKept FailureKeepsSessionTruth UsesRunLock
CHECK_DEADLOCK FALSE
