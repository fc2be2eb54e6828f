CONSTANTS
  a1 = a1
  a2 = a2
  d1 = d1
  d2 = d2
  main = main
  other = other
  Allocation = {a1, a2}
  Deployment = {d1, d2}
  Placement <- Placements
  Tokens <- Stakes
  LargeFloor = 9
  Network = {main, other}
  Row <- Rows
  Absent = Absent
  NotRead = NotRead
  LastEpoch = 2
  Start <- Starts
  MaxChanges = 0
SPECIFICATION Spec
INVARIANT RecoveryHasARow
