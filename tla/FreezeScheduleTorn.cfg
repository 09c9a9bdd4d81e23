SPECIFICATION Spec
CONSTANTS
  MinHour = 22
  MaxHour = 25
  Interrupted = {"setHour", "answered", "load300F", "testSave", "setMode",
                 "clear300F", "have300F", "clearSave", "clearData",
                 "labelHour", "labelDate"}
INVARIANTS
  IntervalFlagged
CHECK_DEADLOCK FALSE
