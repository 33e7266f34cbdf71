SPECIFICATION FairSpec
CONSTANTS
  Attempts = {a1, a2}
  Notes = {n1, n2}
  SpendLimit = 2
  ExpiryOffset = 1
  Threshold = 1
  Final = 2
  MaxExpiry = 5
  MaxReorgs = 2
  None = None
INVARIANTS
  TypeOK
  NoTwoLivePlans
PROPERTIES
  MinedWhileReserved
  ReservationsEnd
CHECK_DEADLOCK FALSE
