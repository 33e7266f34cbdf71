SPECIFICATION FairSpec
CONSTANTS
  Base = 2
  Decimals = 2
  MaxU64 = 13
  None = None
  ScanNotes <- MCScanNotes
  Cursors = {c1, c2}
  EndCursor = EndCursor
  PageMax = 2
  NodeNotes <- MCNodeNotes
  Normal <- MCNormal
  Canonical = {"t", "u"}
  NoTxId = "e"
  TipHeight = 2
  MinConf = 2
  MinNotes = {1, 9}
  Account = 0
  Excluded = {}
  SpendLimit = 2
  MaxU32 = 7
  MaxI64 = 8
INVARIANTS
  TypeOK
  NoteOnce
  RecheckedNotes
  AmountsExact
PROPERTIES
  Terminates
