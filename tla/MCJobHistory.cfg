\* Two jobs: cards are lost, or two searches find the same job, or the blacklist changes.
SPECIFICATION Spec
CONSTANTS
  j1 = j1
  j2 = j2
  c1 = c1
  c2 = c2
  Job = {j1, j2}
  Content = {c1, c2}
  Gone = Gone
  TopMatchesCount = 1
  MaxCount = 1
  MaxScore = 0
  NoScore = NoScore
  FaultSets = {{"lostCard"}, {"duplicate"}, {"blacklist"}}
SYMMETRY JobsAndContents
INVARIANTS ScoredJobsWereReported
PROPERTIES NewIsToldOnce ImplementsReports DepartmentsShowChanges ClosedJobsWereMissed
