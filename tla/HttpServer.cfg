SPECIFICATION FairSpec
CONSTANTS
  Client = {alice, bob}
  Deployment = {d1, d2}
  Signal = {"SIGINT", "SIGTERM"}
  MaxDrops = 1
INVARIANTS TypeOK NobodyIsCutOff SizesAreComplete
PROPERTIES QuietShutdownEnds
CHECK_DEADLOCK FALSE
