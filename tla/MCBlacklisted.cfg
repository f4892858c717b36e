\* A job is blacklisted after it was reported.
SPECIFICATION Spec
CONSTANTS
  j1 = j1
  c1 = c1
  c2 = c2
  Job = {j1}
  Content = {c1, c2}
  Gone = Gone
  TopMatchesCount = 1
  MaxCount = 1
  MaxScore = 0
  NoScore = NoScore
  FaultSets = {{"blacklist"}}
PROPERTY BlacklistedIsNeverReported
