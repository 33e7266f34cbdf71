SPECIFICATION Spec
CONSTANTS
  Requests <- MCRequests
  Empty = ""
  Blank = " "
  Canonical = {"n", "m"}
  None = None
  MaxU32 = 7
  MaxU64 = 9
  MaxAccount = 3
  SpendLimit = 3
  OutputLimit = 2
  DefaultConf = 3
  DefaultOffset = 6
  DefaultMultiplier = 2
  DefaultSpends = 2
INVARIANTS
  JSONWrapped
CHECK_DEADLOCK FALSE
