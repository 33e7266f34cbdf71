SPECIFICATION MergeSpec
CONSTANTS
  MaxNotes = 5
  MaxValue = 5
  Wallets <- MCWallets
  Policies <- MCPolicies
  SpendLimit = 4
  ActionFee = 2
  MaxU64 = 16
INVARIANTS
  MergeTypeOK
  MostNotes
  SmallestFirst
  MergeConserves
