CONSTANTS
  Deployment = {d1, d2}
  near = near
  far = far
  Chain = {near, far}
  Fact <- Varied
  Capacity = 3
  AllocationLimits = {1, 2}
  Stakes = {0, 2}
  FallbackLimit = 1
SPECIFICATION RunSpec
SYMMETRY Interchangeable
INVARIANTS ActionsReachProposal StakeFits SlotsFit AllocationsAreFit ClosesAreExplained
