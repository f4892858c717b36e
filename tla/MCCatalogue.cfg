\* Two accounts, two days.
SPECIFICATION Spec
CONSTANTS
  a1 = a1
  a2 = a2
  c1 = c1
  c2 = c2
  j1 = j1
  j2 = j2
  Accounts = {a1, a2}
  Companies = {c1, c2}
  Jobs = {j1, j2}
  CompanyOf <- CompanyOfJob
  WeightsOf <- WeightsOfAccount
  Window = 0
  None = None
  MaxTime = 1
  MaxFaults = 1
SYMMETRY Alike
INVARIANTS NothingDangles UsedScoreIsFresh
PROPERTY OneScorePerRun
