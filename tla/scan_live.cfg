SPECIFICATION FairSpec
CONSTANTS
  Blocks <- SmallBlocks
  Notes <- MCNotes
  Wallet <- MCWallet
  Networks <- MCNetworks
  Height <- SmallHeight
  Chain <- SmallChain
  Acts <- SmallActs
  Tree <- SmallTree
  Spends <- SmallSpends
  Network <- SmallNetwork
  NextBranch <- SmallNextBranch
  StartTips = {"a2"}
  MempoolNotes = {"n1"}
  Readopt = FALSE
  Kinds = {"send"}
  Excluded = {"e"}
  MinConf = 2
  ExpiryOffset = 4
  SpendLimit = 2
  ConfiguredCoinType = 0
  MaxU32 = 7
  None = None
  PageLimit = 1
INVARIANT
  ConfirmedAtAnchor
PROPERTIES
  RecheckFailsClosed
  Terminates
