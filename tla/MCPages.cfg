CONSTANTS
  Row = {1, 2, 3, 4, 5, 6, 7}
  Place <- MCPlace
  Owner <- MCOwner
  Volume <- MCVolume
  Weight <- MCWeight
  Metric <- MCMetric
  d = d
  e = e
  f = f
  None = None
  PageSize = 2
  MaxPages = 3
  Limit = 2
  MaxChanges = 3
SPECIFICATION ScanSpec
INVARIANTS ScanTypeOK CursorNoGapsNoDuplicates StillTableIsRead RankingIsTop MeanIsBetween
CHECK_DEADLOCK FALSE
