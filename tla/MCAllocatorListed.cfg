CONSTANTS
  N = 3
  Candidate <- Listed
  Budget = {16}
  MaxAllocations = {4}
  FrozenSlots = {0}
  Floor <- Unfloored
  TotalStake = 20
  CapPct = 50
  RiskyCapPct = 30
  TotalSignal = 1
  IssuancePerYear = 2
  Chunks = 4
  ReflowPasses = 5
  MarginalScale = 100
  MaxMarginal = 1000000
SPECIFICATION Spec
INVARIANT ListedServed
