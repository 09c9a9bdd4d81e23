SPECIFICATION ValuesSpec
CONSTANTS
  Codes = 5
  MAX_BUFFER = 6
  MaxLine = 4
  Late = FALSE
  k1 = k1
  k2 = k2
  Known <- MCKnown
  Requested <- MCRequested
INVARIANTS
  SettingsOwn
