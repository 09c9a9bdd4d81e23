SPECIFICATION FairSpec
CONSTANTS
  Page = 4
  Chunk = 2
  Slot = 4
  Length = 3
  Slots = 2
  Polls = 1
INVARIANT TypeOK
PROPERTIES SavedWhole OtherSlotsKept FrameTrue DriverEnds
