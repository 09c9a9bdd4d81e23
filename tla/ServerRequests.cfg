SPECIFICATION Spec
CONSTANTS
  MaxRequests = 2
  MaxList = 2
  Room = 240
INVARIANT WritesRequested
CHECK_DEADLOCK FALSE
