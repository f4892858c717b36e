\* Two queries of up to two pages, whose lists may change while they are read and be sent in part.
SPECIFICATION FairSpec
CONSTANTS
  j1 = j1
  j2 = j2
  j3 = j3
  Job = {j1, j2, j3}
  Queries = 2
  PageSize = 2
  MaxListed = 3
  MaxJobsPerRun = 4
  RetryAttempts = 2
  FailureThreshold = 2
INVARIANTS CapIsRespected BreakerIsExact ScanIsWhole
PROPERTY CollectionEnds
