SPECIFICATION Spec
CONSTANTS
  t1 = t1
  t2 = t2
  admin = admin
  viewer = viewer
  Call = {c1, c2}
  Name <- NamesOfRun
  Class = {"agent_approve"}
  ClassOf <- ClassOfRun
  HardDeny = {"graphman_drop"}
  Allow = {"approve_actions"}
  LevelGrants = {}
  Token = {t1, t2}
  NoToken = NoToken
  Subject = {admin, viewer}
  Nobody = Nobody
  Initially <- InitiallyOfRun
  Granted <- GrantedOfRun
  ReviewTtl = 2
  SarTtl = 1
  MaxRequest = 1
  MaxEntries = 1
  MaxChanges = 1
  MaxTime = 4
SYMMETRY Interchangeable
INVARIANTS GrantsAreRecent RefusalsAreRecent
CHECK_DEADLOCK FALSE
