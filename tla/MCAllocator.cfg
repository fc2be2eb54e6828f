CONSTANTS
  N = 3
  Candidate <- Varied
  Budget = {16, 22}
  MaxAllocations = {1, 2, 4}
  FrozenSlots = {0, 1}
  Floor <- AllFloors
  TotalStake = 20
  CapPct = 50
  RiskyCapPct = 30
  TotalSignal = 1
  IssuancePerYear = 2
  Chunks = 4
  ReflowPasses = 5
  MarginalScale = 100
  MaxMarginal = 1000000
SPECIFICATION Spec
INVARIANTS BudgetRespected SlotsRespected FloorsHoldWithinPasses Equalized
