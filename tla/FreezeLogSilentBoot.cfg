SPECIFICATION Spec
CONSTANTS
  Sectors = 3
  P = 2
  LogLen = 2
  m1 = m1
  m2 = m2
  Meters = {m1}
  NoId = NoId
  Blank = Blank
  Zero = Zero
  Junk = Junk
  BootSilent = TRUE
  PageBytes = 128
  CopySizes = {128}
  MaxTime = 3
  FreezeDigits = 230
  MaxLost = 0
  MaxSets = 1
  CountMod = 3
PROPERTIES
  KeptForSameMeter
CHECK_DEADLOCK FALSE
