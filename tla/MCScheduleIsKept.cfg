\* The scheduler may be late.
SPECIFICATION FairSpec
CONSTANTS
  None = None
  Interval = 4
  JitterWindow = 1
  FaultSets = {{"late"}}
PROPERTY ScheduleIsKept
