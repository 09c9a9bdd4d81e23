SPECIFICATION FairSpec
CONSTANTS
  MaxFrames = 2
  MaxDrops = 1
  MaxLine = 2
  MaxEaten = 3
  Late = FALSE
  BadFrames = TRUE
  CutFrames = FALSE
PROPERTIES
  SocketHeld
CHECK_DEADLOCK FALSE
