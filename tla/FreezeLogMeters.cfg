SPECIFICATION Spec
CONSTANTS
  Sectors = 3
  P = 2
  LogLen = 2
  m1 = m1
  m2 = m2
  Meters = {m1, m2}
  NoId = NoId
  Blank = Blank
  Zero = Zero
  Junk = Junk
  BootSilent = FALSE
  PageBytes = 128
  CopySizes = {128}
  MaxTime = 2
  FreezeDigits = 230
  MaxLost = 4
  MaxSets = 1
  CountMod = 3
INVARIANTS
  OfflineLog
  NoForeignFrames
  
CHECK_DEADLOCK FALSE
