SPECIFICATION Spec
CONSTANTS
  MaxNotes = 4
  MaxValue = 7
  Wallets <- MCWallets
  Amounts = {1, 2, 3, 4, 5, 6, 8, 11}
  OutputCounts = {1, 2, 3}
  Policies <- MCPolicies
  MinChanges = {0, 3}
  ActionFee = 1
  MaxU64 = 15
  SpendLimit = 3
  OutputLimit = 3
INVARIANTS
  TypeOK
  FeeBounds
  ValueConserved
  InsufficientIsTrue
  FewestNotes
  LeastChange
  NoSpuriousError
