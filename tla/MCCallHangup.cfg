\* Nothing is lost; the run ends when every runner is done
CHECK_DEADLOCK FALSE
CONSTANTS
  Runners = {r1}
  NoOwner = NoOwner
  MaxTurns = 1
  Lossy = FALSE
SPECIFICATION FairSpec
PROPERTY RoomCloseEndsCall
