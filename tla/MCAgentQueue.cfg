CONSTANTS
  r1 = r1
  r2 = r2
  Request = {r1, r2}
  Signalled = {r1, r2}
  NoSignal = NoSignal
  MaxRetries = 1
  Tools <- MCTools
  old = old
  bare = bare
  Allocation = {old, bare}
  Era <- MCEra
  Nobody = Nobody
SPECIFICATION FairQueue
INVARIANTS AttemptsBounded ClosesAsRecorded LaterWriteStands
PROPERTIES NoFetchAfterAbort ToolsSettle
