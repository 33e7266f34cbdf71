SPECIFICATION Spec
CONSTANTS
  Blocks <- MCBlocks
  Notes <- MCNotes
  Wallet <- MCWallet
  Networks <- MCNetworks
  Height <- MCHeight
  Chain <- MCChainOf
  Acts <- MCActs
  Tree <- MCTree
  Spends <- MCSpends
  Network <- MCNetwork
  NextBranch <- MCNextBranch
  StartTips = {"a2"}
  MempoolNotes = {}
  Readopt = TRUE
  Kinds = {"send"}
  Excluded = {"e"}
  MinConf = 1
  ExpiryOffset = 4
  SpendLimit = 2
  ConfiguredCoinType = 0
  MaxU32 = 7
  None = None
  PageLimit = 2
INVARIANT
  SnapshotConsistent
