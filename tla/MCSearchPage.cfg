\* A page of up to two jobs, four responses in any order.
SPECIFICATION FairPageSpec
CONSTANTS
  j1 = j1
  j2 = j2
  Job = {j1, j2}
  PageSize = 2
  NoText = NoText
  MaxResponses = 4
INVARIANTS EmptyIsAnswered CapturedIsUsed RecordsAreTheirOwn
PROPERTY PageEnds
