SPECIFICATION Spec
CONSTANTS
  MaxFrames = 2
  MaxDrops = 1
  MaxLine = 2
  MaxEaten = 2
  Late = TRUE
  BadFrames = TRUE
  CutFrames = TRUE
INVARIANTS
  TypeOK
  PoweredWhenUsed
  LinkInv
  SentWhole
PROPERTIES
  FrameHeld
  CarriedOutOnce
  ImplementsService
CHECK_DEADLOCK FALSE
