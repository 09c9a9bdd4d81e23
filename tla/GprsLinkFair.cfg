SPECIFICATION FairSpec
CONSTANTS
  MaxFrames = 3
  MaxDrops = 1
  MaxLine = 2
  MaxEaten = 3
  Late = FALSE
  BadFrames = FALSE
  CutFrames = TRUE
PROPERTIES
  SendErrorAlarm
  FrameTaken
  Reconnects
  SocketHeld
CHECK_DEADLOCK FALSE
