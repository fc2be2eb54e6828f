CONSTANTS
  Key = {k1, k2}
  Caller = {c1, c2}
  TtlMs = 1
  MaxEntries = 1
  MaxVersion = 1
  MaxGen = 1
  MaxTime = 2
SPECIFICATION FairSpec
INVARIANTS SingleFlight
PROPERTIES SupersededFetchIsDropped ImplementsFreshReads CallsSettle
