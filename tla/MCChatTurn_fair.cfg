SPECIFICATION MCFairSpec
CONSTANTS
  Clients = {tab1}
  Creator = tab1
  Mirrored = TRUE
  MayCrash = TRUE
  MaxEvents = 1
  MaxDrops = 0
  MaxStops = 1
  MaxTrouble = 2
  MaxMissed = 1
PROPERTIES StopIsHeard TurnEnds EveryReaderLeaves
CHECK_DEADLOCK FALSE
