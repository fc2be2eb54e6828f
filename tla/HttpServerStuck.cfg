SPECIFICATION FairSpec
CONSTANTS
  Client = {alice}
  Deployment = {d1}
  Signal = {"SIGTERM"}
  MaxDrops = 0
PROPERTIES ShutdownEnds
CHECK_DEADLOCK FALSE
