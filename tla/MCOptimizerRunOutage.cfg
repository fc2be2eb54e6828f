CONSTANTS
  Deployment = {d1, d2}
  near = near
  far = far
  Chain = {near, far}
  Fact <- Healthy3
  Capacity = 3
  AllocationLimits = {2}
  Stakes = {0, 1, 2}
  FallbackLimit = 1
SPECIFICATION RunSpec
SYMMETRY Interchangeable
INVARIANT EmptyPlanIsEmpty
