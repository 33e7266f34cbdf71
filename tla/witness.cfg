SPECIFICATION Spec
CONSTANTS
  Requests <- MCRequests
  Commitments = {"a", "b"}
  Empty = "empty"
  Depth = 3
  MaxPositions = 2
  None = None
INVARIANTS
  TypeOK
  PathsLeadToRoot
  RefusesTruly
