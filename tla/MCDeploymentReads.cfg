CONSTANTS
  r1 = r1
  r2 = r2
  m1 = m1
  m2 = m2
  Read = {r1, r2}
  Mutation = {m1, m2}
  Kinds <- MCKinds
  Requests <- MCRequests
  Nobody = Nobody
  Ttl = 2
  MaxFetch = 1
  MaxChanges = 2
  MaxTime = 4
SPECIFICATION Spec
SYMMETRY Symmetry
INVARIANTS InfoShowsAcknowledged StalenessBounded NothingAskedIsDropped
CHECK_DEADLOCK FALSE
