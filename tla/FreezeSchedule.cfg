SPECIFICATION FairSpec
CONSTANTS
  MinHour = 22
  MaxHour = 25
  Interrupted = {"labelHour", "labelDate"}
INVARIANTS
  TypeOK
  IntervalFlagged
  LabelOfInterval
  Fresh300F
  ScheduleInv
PROPERTIES
  EveryInterval
  OnePerInterval
CHECK_DEADLOCK FALSE
