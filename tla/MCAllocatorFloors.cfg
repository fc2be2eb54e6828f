CONSTANTS
  N = 6
  Candidate <- Poor
  Budget = {16}
  MaxAllocations = {6}
  FrozenSlots = {0}
  Floor <- Floored
  TotalStake = 20
  CapPct = 80
  RiskyCapPct = 30
  TotalSignal = 1
  IssuancePerYear = 2
  Chunks = 4
  ReflowPasses = 5
  MarginalScale = 10000
  MaxMarginal = 100000000
SPECIFICATION Spec
INVARIANT FloorsHold
