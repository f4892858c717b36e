\* Everything that can happen, but calls and failing commits not together (of which not
\* all holds); and a process that is never late with a database that never fails.
SPECIFICATION FairSpec
CONSTANTS
  None = None
  Interval = 4
  JitterWindow = 1
  FaultSets = {{"calls", "dbError", "crash", "late"},
               {"dbError", "commitError", "crash", "late"},
               {"calls", "crash"}}
INVARIANTS ArmedIsStored CancelIsKept
PROPERTIES KeepsTimetable ScheduleIsKeptInTime
