SPECIFICATION MCFairSpec
CONSTANTS
  Clients = {tab1}
  Creator = tab1
  Mirrored = TRUE
  MayCrash = FALSE
  MaxEvents = 1
  MaxDrops = 0
  MaxStops = 1
  MaxTrouble = 2
  MaxMissed = 1
PROPERTY RemoteStopIsHeard
CHECK_DEADLOCK FALSE
