--------------------------- MODULE PlannerProofs ---------------------------
(***************************************************************************)
(* What the two planners share.  First the facts about chains, trees and   *)
(* notes that follow from what a block hash commits to, and the invariant  *)
(* of the services: a block the node has abandoned is not on its chain.    *)
(* Then the type of a plan, that a plan speaks of one network although its *)
(* network and its anchor are read by two calls, and the steps of the      *)
(* refinement that do not depend on the mode.                              *)
(***************************************************************************)
EXTENDS Planner, FiniteSetTheorems, TLAPS

(* getblockhash answers with a block of the node's chain, at that height; and *)
(* a block of the chain is the only one of its height.                        *)
LEMMA AtHeight ==
  ASSUME NEW b \in Blocks, NEW h \in Nat, h <= Height[b]
  PROVE  /\ At(b, h) \in Chain[b]
         /\ At(b, h) \in Blocks
         /\ Height[At(b, h)] = h
<1>1. Height[b] \in Nat /\ h \in 0..Height[b]
  BY BlockTreeTypes
<1>2. \E c \in Chain[b] : Height[c] = h
  BY <1>1, ChainShape
<1>3. At(b, h) \in Chain[b] /\ Height[At(b, h)] = h
  BY <1>2 DEF At
<1> QED
  BY <1>3, BlockTreeTypes

LEMMA AtUnique ==
  ASSUME NEW b \in Blocks, NEW c \in Chain[b]
  PROVE  c \in Blocks /\ Height[c] \in Nat /\ Height[c] <= Height[b] /\ At(b, Height[c]) = c
<1>1. c \in Blocks /\ Height[c] \in Nat /\ Height[c] <= Height[b]
  BY BlockTreeTypes, ChainShape
<1>2. At(b, Height[c]) \in Chain[b] /\ Height[At(b, Height[c])] = Height[c]
  BY <1>1, AtHeight
<1> QED
  BY <1>1, <1>2, ChainShape

(* A chain contains the chains of its blocks. *)
LEMMA ChainTransitive ==
  ASSUME NEW b \in Blocks, NEW c \in Chain[b]
  PROVE  Chain[c] \subseteq Chain[b]
BY ChainShape

(* Of two blocks of a chain, the lower is on the chain of the higher. *)
LEMMA ChainLinear ==
  ASSUME NEW b \in Blocks, NEW c \in Chain[b], NEW d \in Chain[b], Height[c] <= Height[d]
  PROVE  c \in Chain[d]
BY ChainShape

(* The tree of a predecessor is a prefix; a leaf occurs once. *)
LEMMA TreePrefix ==
  ASSUME NEW b \in Blocks, NEW c \in Chain[b], NEW k \in DOMAIN Tree[c]
  PROVE  k \in DOMAIN Tree[b] /\ Tree[b][k] = Tree[c][k]
<1>1. c \in Blocks
  BY BlockTreeTypes
<1>2. Tree[b] \in Seq(Notes) /\ Tree[c] \in Seq(Notes)
  BY <1>1, BlockTreeTypes
<1>3. Len(Tree[c]) <= Len(Tree[b]) /\ Tree[b][k] = Tree[c][k]
  BY TreeGrows
<1> QED
  BY <1>2, <1>3

LEMMA LeafOnce ==
  ASSUME NEW b \in Blocks, NEW k \in DOMAIN Tree[b], NEW l \in DOMAIN Tree[b],
         Tree[b][k] = Tree[b][l]
  PROVE  k = l
BY TreeGrows

(* The second part of a concatenation. *)
LEMMA ConcatRight ==
  ASSUME NEW S, NEW s \in Seq(S), NEW t \in Seq(S), NEW l \in DOMAIN t
  PROVE  Len(s) + l \in DOMAIN (s \o t) /\ (s \o t)[Len(s) + l] = t[l]
OBVIOUS

(* An action mined by a block is a leaf of its tree. *)
LEMMA MinedIsLeaf ==
  ASSUME NEW b \in Blocks
  PROVE  Range(Acts[b]) \subseteq Range(Tree[b])
<1> SUFFICES ASSUME NEW m \in Range(Acts[b])
             PROVE  m \in Range(Tree[b])
  OBVIOUS
<1> DEFINE T == IF Height[b] = 0 THEN <<>> ELSE Tree[At(b, Height[b] - 1)]
<1>1. Acts[b] \in Seq(Notes) /\ Height[b] \in Nat
  BY BlockTreeTypes
<1>2. T \in Seq(Notes)
  <2>1. CASE Height[b] = 0
    BY <2>1
  <2>2. CASE Height[b] # 0
    <3>1. Height[b] - 1 \in Nat /\ Height[b] - 1 <= Height[b]
      BY <1>1, <2>2
    <3>2. At(b, Height[b] - 1) \in Blocks
      BY <3>1, AtHeight
    <3> QED
      BY <3>2, <2>2, BlockTreeTypes
  <2> QED
    BY <2>1, <2>2
<1>3. Tree[b] = T \o Acts[b]
  BY TreeGrows
<1>4. PICK k \in DOMAIN Acts[b] : Acts[b][k] = m
  BY DEF Range
<1> HIDE DEF T
<1>5. Len(T) + k \in DOMAIN (T \o Acts[b]) /\ (T \o Acts[b])[Len(T) + k] = m
  BY <1>1, <1>2, <1>4
<1> QED
  BY <1>3, <1>5 DEF Range

(* A note mined on a chain has the block that mined it. *)
LEMMA MinedInChain ==
  ASSUME NEW b \in Blocks, NEW m \in Range(Tree[b])
  PROVE  /\ MinedIn(b, m) \in Chain[b]
         /\ MinedIn(b, m) \in Blocks
         /\ m \in Range(Acts[MinedIn(b, m)])
<1>1. \E c \in Chain[b] : m \in Range(Acts[c])
  BY TreeGrows
<1>2. MinedIn(b, m) \in Chain[b] /\ m \in Range(Acts[MinedIn(b, m)])
  BY <1>1 DEF MinedIn
<1> QED
  BY <1>2, BlockTreeTypes

(* The position of a leaf is the place it is found at. *)
LEMMA LeafPosition ==
  ASSUME NEW b \in Blocks, NEW m \in Range(Tree[b])
  PROVE  /\ PositionIn(Tree[b], m) \in Nat
         /\ PositionIn(Tree[b], m) + 1 \in DOMAIN Tree[b]
         /\ Tree[b][PositionIn(Tree[b], m) + 1] = m
<1> DEFINE k == CHOOSE q \in DOMAIN Tree[b] : Tree[b][q] = m
<1>1. \E q \in DOMAIN Tree[b] : Tree[b][q] = m
  BY DEF Range
<1>2. k \in DOMAIN Tree[b] /\ Tree[b][k] = m
  BY <1>1
<1>3. Tree[b] \in Seq(Notes)
  BY BlockTreeTypes
<1>4. k \in 1..Len(Tree[b])
  BY <1>2, <1>3
<1>5. PositionIn(Tree[b], m) = k - 1
  BY DEF PositionIn
<1> HIDE DEF k
<1> QED
  BY <1>2, <1>4, <1>5

(* A note that a longer chain mined no higher than one of its blocks is a leaf *)
(* of that block's tree, at the same position.                                 *)
LEMMA LeafBelow ==
  ASSUME NEW b \in Blocks, NEW c \in Chain[b], NEW m \in Range(Tree[b]),
         Height[MinedIn(b, m)] <= Height[c]
  PROVE  /\ m \in Range(Tree[c])
         /\ PositionIn(Tree[b], m) + 1 \in DOMAIN Tree[c]
         /\ Tree[c][PositionIn(Tree[b], m) + 1] = m
<1>1. c \in Blocks
  BY BlockTreeTypes
<1>2. MinedIn(b, m) \in Chain[b] /\ MinedIn(b, m) \in Blocks /\ m \in Range(Acts[MinedIn(b, m)])
  BY MinedInChain
<1>3. MinedIn(b, m) \in Chain[c]
  BY <1>2, ChainLinear
<1>4. m \in Range(Tree[MinedIn(b, m)])
  BY <1>2, MinedIsLeaf
<1>5. PICK k \in DOMAIN Tree[MinedIn(b, m)] : Tree[MinedIn(b, m)][k] = m
  BY <1>4 DEF Range
<1>6. k \in DOMAIN Tree[c] /\ Tree[c][k] = m
  BY <1>1, <1>3, <1>5, TreePrefix
<1>7. k \in DOMAIN Tree[b] /\ Tree[b][k] = m
  BY <1>6, TreePrefix
<1>8. PositionIn(Tree[b], m) + 1 = k
  <2>1. /\ PositionIn(Tree[b], m) + 1 \in DOMAIN Tree[b]
        /\ Tree[b][PositionIn(Tree[b], m) + 1] = m
    BY LeafPosition
  <2> QED
    BY <1>7, <2>1, LeafOnce
<1> QED
  BY <1>6, <1>8 DEF Range

(* Only one block of a chain mines an action. *)
LEMMA MinedOnce ==
  ASSUME NEW b \in Blocks, NEW c \in Chain[b], NEW d \in Chain[b],
         NEW m \in Range(Acts[c]), m \in Range(Acts[d])
  PROVE  c = d
<1>1. ASSUME NEW x \in Chain[b], NEW y \in Chain[b], m \in Range(Acts[x]), m \in Range(Acts[y]),
             Height[x] < Height[y]
      PROVE  FALSE
  <2>1. x \in Blocks /\ y \in Blocks /\ Height[x] \in Nat /\ Height[y] \in Nat
    BY AtUnique
  <2> DEFINE p == At(y, Height[y] - 1)
  <2>2. p \in Chain[y] /\ p \in Blocks /\ Height[p] = Height[y] - 1
    <3>1. Height[y] - 1 \in Nat /\ Height[y] - 1 <= Height[y]
      BY <2>1, <1>1
    <3> QED
      BY <2>1, <3>1, AtHeight
  <2>3. Tree[y] = Tree[p] \o Acts[y]
    <3>1. Height[y] # 0
      BY <2>1, <1>1
    <3>2. Tree[y] = (IF Height[y] = 0 THEN <<>> ELSE Tree[p]) \o Acts[y]
      BY <2>1, TreeGrows
    <3> QED
      BY <3>1, <3>2
  <2> HIDE DEF p
  <2>4. p \in Chain[b]
    BY <2>2, ChainTransitive
  <2>5. x \in Chain[p]
    BY <2>1, <2>2, <2>4, <1>1, ChainLinear
  <2>6. PICK k \in DOMAIN Tree[x] : Tree[x][k] = m
    BY <2>1, <1>1, MinedIsLeaf DEF Range
  <2>7. k \in DOMAIN Tree[p] /\ Tree[p][k] = m
    BY <2>2, <2>5, <2>6, TreePrefix
  <2>8. PICK l \in DOMAIN Acts[y] : Acts[y][l] = m
    BY <1>1 DEF Range
  <2>9. Tree[p] \in Seq(Notes) /\ Acts[y] \in Seq(Notes)
    BY <2>1, <2>2, BlockTreeTypes
  <2>10. Len(Tree[p]) + l \in DOMAIN Tree[y] /\ Tree[y][Len(Tree[p]) + l] = m
    <3>1. /\ Len(Tree[p]) + l \in DOMAIN (Tree[p] \o Acts[y])
          /\ (Tree[p] \o Acts[y])[Len(Tree[p]) + l] = m
      BY <2>8, <2>9, ConcatRight
    <3> QED
      BY <2>3, <3>1
  <2>11. k \in DOMAIN Tree[y] /\ Tree[y][k] = m
    BY <2>1, <2>2, <2>7, TreePrefix
  <2>12. k = Len(Tree[p]) + l
    BY <2>1, <2>10, <2>11, LeafOnce
  <2> QED
    BY <2>7, <2>8, <2>9, <2>12
<1>2. c \in Blocks /\ d \in Blocks /\ Height[c] \in Nat /\ Height[d] \in Nat
  BY AtUnique
<1>3. Height[c] = Height[d]
  BY <1>1, <1>2
<1> QED
  BY <1>3, ChainShape

(* A lower block of a chain sees its notes mined by the same blocks. *)
LEMMA MinedSame ==
  ASSUME NEW b \in Blocks, NEW c \in Chain[b], NEW m \in Range(Tree[c])
  PROVE  MinedIn(b, m) = MinedIn(c, m)
<1>1. c \in Blocks
  BY BlockTreeTypes
<1>2. MinedIn(c, m) \in Chain[c] /\ m \in Range(Acts[MinedIn(c, m)])
  BY <1>1, MinedInChain
<1>3. MinedIn(c, m) \in Chain[b]
  BY <1>2, ChainTransitive
<1>4. MinedIn(b, m) \in Chain[b] /\ m \in Range(Acts[MinedIn(b, m)])
  BY <1>2, <1>3 DEF MinedIn
<1> QED
  BY <1>2, <1>3, <1>4, MinedOnce

-----------------------------------------------------------------------------
(* The services.  No block the node has abandoned is on its chain; unless it   *)
(* re-adopts blocks, a block that was canonical is so until it is abandoned    *)
(* for good; and the scanner, once it has indexed it, has it until then.       *)
LEMMA EnvTyped ==
  ASSUME EnvType, EnvNext
  PROVE  EnvType'
<1>1. CASE NodeMove
  BY <1>1, BlockTreeTypes DEF EnvType, NodeMove
<1>2. CASE ScanAdvance
  BY <1>2, BlockTreeTypes DEF EnvType, ScanAdvance
<1>3. CASE ScanRollback
  BY <1>3, BlockTreeTypes DEF EnvType, ScanRollback
<1>4. CASE MempoolAdd
  BY <1>4, EnvTypes DEF EnvType, MempoolAdd
<1>5. CASE MempoolDrop
  BY <1>5 DEF EnvType, MempoolDrop
<1> QED
  BY <1>1, <1>2, <1>3, <1>4, <1>5 DEF EnvNext

LEMMA EnvClean ==
  ASSUME EnvType, NodeClean, EnvNext
  PROVE  NodeClean'
BY DEF EnvType, NodeClean, EnvNext, NodeMove, ScanAdvance, ScanRollback, MempoolAdd, MempoolDrop

LEMMA EnvKeepsCanonical ==
  ASSUME EnvType, EnvNext, Readopt = FALSE, NEW a \in left \cup Chain[node]
  PROVE  a \in left' \cup Chain[node'] /\ (a \in left => a \in left')
BY DEF EnvType, EnvNext, NodeMove, ScanAdvance, ScanRollback, MempoolAdd, MempoolDrop

LEMMA EnvKeepsIndexed ==
  ASSUME EnvType, EnvNext, Readopt = FALSE, NEW a \in Blocks,
         a \in left \cup Chain[node], a \in left \cup Chain[scan]
  PROVE  a \in left' \cup Chain[scan']
<1>1. CASE a \in left
  BY <1>1, EnvKeepsCanonical
<1>2. CASE a \notin left
  <2>1. a \in Chain[node] /\ a \in Chain[scan]
    BY <1>2
  <2>2. CASE NodeMove
    BY <2>1, <2>2 DEF NodeMove
  <2>3. CASE ScanAdvance
    <3>1. PICK b \in Chain[node] : scan \in Chain[b] /\ scan' = b
      BY <2>3 DEF ScanAdvance
    <3>2. b \in Blocks
      BY BlockTreeTypes DEF EnvType
    <3> QED
      BY <2>1, <3>1, <3>2, ChainTransitive
  <2>4. CASE ScanRollback
    <3>1. PICK b \in Chain[node] :
            /\ b \in Chain[scan]
            /\ \A c \in Chain[scan] \cap Chain[node] : Height[c] <= Height[b]
            /\ scan' = b
      BY <2>1, <2>4 DEF ScanRollback
    <3>2. Height[a] <= Height[b]
      BY <2>1, <3>1
    <3>3. a \in Chain[b]
      BY <2>1, <3>1, <3>2, ChainLinear DEF EnvType
    <3> QED
      BY <3>1, <3>3
  <2>5. CASE MempoolAdd \/ MempoolDrop
    BY <2>1, <2>5 DEF MempoolAdd, MempoolDrop
  <2> QED
    BY <2>2, <2>3, <2>4, <2>5 DEF EnvNext
<1> QED
  BY <1>1, <1>2
-----------------------------------------------------------------------------
(* A tree has finitely many leaves, so a wallet has finitely many notes. *)
LEMMA UnspentFinite ==
  ASSUME NEW b \in Blocks
  PROVE  IsFiniteSet(UnspentAt(b))
<1>1. Tree[b] \in Seq(Notes)
  BY BlockTreeTypes
<1>2. Tree[b] \in Surjection(1..Len(Tree[b]), Range(Tree[b]))
  BY <1>1 DEF Surjection, Range
<1>3. IsFiniteSet(1..Len(Tree[b]))
  BY <1>1, FS_Interval
<1>4. IsFiniteSet(Range(Tree[b]))
  BY <1>2, <1>3, FS_Surjection
<1>5. UnspentAt(b) \in SUBSET Range(Tree[b])
  BY DEF UnspentAt
<1> QED
  BY <1>4, <1>5, FS_Subset

-----------------------------------------------------------------------------
(* The coin type is a number, and the network's own unless it is refused. *)
LEMMA CoinTypesTyped == \A net : resolveCoinType(net) \in Nat
<1> TAKE net
<1>1. CASE net \in DOMAIN CoinTypes
  <2>1. CoinTypes[net] \in Nat
    BY <1>1 DEF CoinTypes
  <2> QED
    BY <2>1 DEF resolveCoinType
<1>2. CASE net \notin DOMAIN CoinTypes
  BY <1>2 DEF resolveCoinType
<1> QED
  BY <1>1, <1>2

(* The plan built from a witness is well typed. *)
LEMMA PlanTyped ==
  ASSUME NEW k \in Kinds, NEW h \in Nat, NEW t \in Seq(Notes), NEW S \in SUBSET PlanNotes,
         info \in Blocks, snap \in Blocks, Expirable(Height[snap])
  PROVE  MakePlan(k, h, t, S) \in Plans
<1>1. /\ Network[info] \in Networks
      /\ NextBranch[info] \in Nat
      /\ ExpiryHeight(Height[snap]) \in 0..MaxU32
      /\ resolveCoinType(Network[info]) \in Nat
  BY BlockTreeTypes, PlannerTypes, CoinTypesTyped DEF ExpiryHeight, Expirable
<1> QED
  BY <1>1 DEF MakePlan, Plans

-----------------------------------------------------------------------------
(* The genesis block of a block's chain, and its network. *)
LEMMA Genesis ==
  ASSUME NEW b \in Blocks
  PROVE  At(b, 0) \in Chain[b] /\ Network[At(b, 0)] = Network[b]
<1>1. At(b, 0) \in Chain[b]
  BY AtHeight, BlockTreeTypes
<1> QED
  BY <1>1, ChainShape

(* A step of the services keeps the plan of one network. *)
LEMMA EnvKeepsNetwork ==
  ASSUME EnvType, EnvNext, Readopt = FALSE, UNCHANGED plannerVars, OfOneNetwork
  PROVE  OfOneNetwork'
<1>1. UNCHANGED <<pc, info, snap, plan>>
  BY DEF plannerVars
<1>2. ASSUME NEW a \in left \cup Chain[node]
      PROVE  a \in left' \cup Chain[node'] /\ (a \in left => a \in left')
  BY <1>2, EnvKeepsCanonical
<1>3. At(info, 0)' = At(info, 0) /\ resolveCoinType(Network[info])' = resolveCoinType(Network[info])
  BY <1>1
<1> QED
  BY <1>1, <1>2, <1>3 DEF OfOneNetwork, Captured, Planned

(* A step that reads neither chain info nor anchor keeps it, if the plan it    *)
(* makes carries the chain info, and it is not the one that returns the plan.  *)
LEMMA KeepsNetwork ==
  ASSUME OfOneNetwork, UNCHANGED <<node, left, info, snap>>,
         Captured \/ pc' = "failed", pc' \notin {"info", "anchor", "done"},
         Planned' /\ pc' # "failed" =>
           /\ plan'.chain = Network[info]
           /\ plan'.coinType = resolveCoinType(Network[info])
           /\ plan'.branchID = NextBranch[info]
  PROVE  OfOneNetwork'
BY DEF OfOneNetwork, Captured, Planned

LEMMA ChainInfoNetwork ==
  ASSUME EnvType, UNCHANGED envVars, OfOneNetwork, GetChainInfo
  PROVE  OfOneNetwork'
<1>1. node \in Blocks /\ UNCHANGED <<node, left>> /\ info' = node
  BY DEF EnvType, envVars, GetChainInfo
<1>2. At(node, 0) \in Chain[node]
  BY <1>1, Genesis
<1>3. CASE pc' = "anchor"
  <2>1. resolveCoinType(Network[node]) = CoinTypes[Network[node]]
    BY <1>3 DEF GetChainInfo, resolveCoinType
  <2> QED
    BY <1>1, <1>2, <1>3, <2>1 DEF OfOneNetwork, Captured, Planned
<1>4. CASE pc' = "failed"
  BY <1>4 DEF OfOneNetwork, Captured, Planned
<1> QED
  BY <1>3, <1>4 DEF GetChainInfo

LEMMA AnchorNetwork ==
  ASSUME EnvType, UNCHANGED envVars, OfOneNetwork, info \in Blocks,
         NEW next \in {"health", "index"}, CaptureNodeAnchor(next)
  PROVE  OfOneNetwork'
<1>1. node \in Blocks /\ UNCHANGED <<node, left, info>> /\ pc = "anchor"
  BY DEF EnvType, envVars, CaptureNodeAnchor
<1>2. CASE pc' = next
  <2>1. snap' = At(node, Height[info]) /\ Height[info] <= Height[node]
    BY <1>2 DEF CaptureNodeAnchor
  <2>2. Network[snap'] = Network[node]
    BY <1>1, <2>1, AtHeight, BlockTreeTypes, ChainShape
  <2>3. At(info, 0) \in left \cup Chain[node] /\ Network[At(info, 0)] = Network[info]
    BY <1>1, Genesis DEF OfOneNetwork
  <2>4. Network[snap'] = Network[info] \/ At(info, 0) \in left
    BY <1>1, <2>2, <2>3, ChainShape
  <2> QED
    BY <1>1, <1>2, <2>4 DEF OfOneNetwork, Captured, Planned
<1>3. CASE pc' = "failed"
  BY <1>3 DEF OfOneNetwork, Captured, Planned
<1> QED
  BY <1>2, <1>3 DEF CaptureNodeAnchor

(* verifyChainContext compares the network once more: were the anchor of       *)
(* another one, the node would be back on a network it has left.               *)
LEMMA ContextNetwork ==
  ASSUME EnvType, NodeClean, UNCHANGED envVars, OfOneNetwork, info \in Blocks,
         VerifyChainContext
  PROVE  OfOneNetwork'
<1>1. node \in Blocks /\ UNCHANGED <<node, left, info, snap, plan>> /\ pc = "verify_context"
  BY DEF EnvType, envVars, VerifyChainContext
<1>2. CASE pc' = "done"
  <2>1. Network[node] = Network[info]
    BY <1>2 DEF VerifyChainContext, ContextHolds
  <2>2. At(info, 0) \in Chain[node]
    BY <1>1, <2>1, Genesis, NetworkRules
  <2>3. Network[snap] = Network[info]
    BY <1>1, <2>2 DEF NodeClean, OfOneNetwork, Captured
  <2> QED
    BY <1>1, <1>2, <2>3 DEF OfOneNetwork, Captured, Planned
<1>3. CASE pc' = "failed"
  BY <1>3 DEF OfOneNetwork, Captured, Planned
<1> QED
  BY <1>2, <1>3 DEF VerifyChainContext

(* The property, from the invariant. *)
LEMMA NetworksAgree ==
  ASSUME OfOneNetwork, pc = "done" => info \in Blocks /\ snap \in Blocks /\ Height[snap] = Height[info]
  PROVE  OneNetwork
<1> SUFFICES ASSUME pc = "done"
             PROVE  /\ plan.chain = Network[snap]
                    /\ plan.coinType = CoinTypes[Network[snap]]
                    /\ plan.branchID = NextBranch[snap]
  BY DEF OneNetwork
<1>1. Network[snap] = Network[info] /\ NextBranch[snap] = NextBranch[info]
  BY NetworkRules DEF OfOneNetwork
<1> QED
  BY <1>1 DEF OfOneNetwork, Planned
-----------------------------------------------------------------------------
(* The refinement of AtomicPlan.  Its services move as the planner's do. *)
LEMMA InitRefines ==
  ASSUME EnvInit, PlannerInit
  PROVE  Atomic!Init
BY DEF EnvInit, PlannerInit, Atomic!Init, Atomic!EnvInit, Stage, Offer

LEMMA EnvRefines ==
  ASSUME EnvNext, UNCHANGED plannerVars
  PROVE  Atomic!Next
<1>1. UNCHANGED <<Stage, Offer>>
  BY DEF plannerVars, Stage, Offer
<1>2. Atomic!EnvNext
  BY DEF EnvNext, NodeMove, ScanAdvance, ScanRollback, MempoolAdd, MempoolDrop,
         Atomic!EnvNext, Atomic!NodeMove, Atomic!ScanAdvance, Atomic!ScanRollback,
         Atomic!MempoolAdd, Atomic!MempoolDrop
<1> QED
  BY <1>1, <1>2 DEF Atomic!Next

(* A plan whose notes are leaves of the anchor's tree, spendable there, is one *)
(* of the offers of the anchor.                                                *)
LEMMA PlanIsOffer ==
  ASSUME snap \in Blocks, plan \in Plans, plan.anchorHeight = Height[snap], WellFormed,
         plan.anchor = Tree[snap],
         \A x \in plan.notes :
           /\ x.position + 1 \in DOMAIN Tree[snap]
           /\ Tree[snap][x.position + 1] = x.id
           /\ x.id \in UnspentAt(snap) \ Excluded
  PROVE  [anchorHeight |-> plan.anchorHeight, anchor |-> plan.anchor,
          expiryHeight |-> plan.expiryHeight, notes |-> plan.notes] \in Atomic!Offers(snap)
<1>1. \A b : Atomic!UnspentAt(b) = UnspentAt(b)
  BY DEF Atomic!UnspentAt, UnspentAt, Atomic!SpentOn, SpentOn, Atomic!Range, Range
<1>2. \A t, m : Atomic!PositionIn(t, m) = PositionIn(t, m)
  BY DEF Atomic!PositionIn, PositionIn
<1> DEFINE Placed == {[id |-> m, position |-> PositionIn(Tree[snap], m)] : m \in PlanIds}
<1>3. plan.notes \subseteq PlanNotes
  BY DEF Plans
<1>4. ASSUME NEW x \in plan.notes
      PROVE  x = [id |-> x.id, position |-> PositionIn(Tree[snap], x.id)]
  <2>1. x = [id |-> x.id, position |-> x.position] /\ x.position \in Nat
    BY <1>3 DEF PlanNotes
  <2>2. x.id \in Range(Tree[snap])
    BY DEF Range
  <2>3. PositionIn(Tree[snap], x.id) \in Nat /\ PositionIn(Tree[snap], x.id) + 1 = x.position + 1
    BY <2>1, <2>2, LeafPosition, LeafOnce
  <2> QED
    BY <2>1, <2>3
<1>5. plan.notes = Placed
  BY <1>4 DEF PlanIds
<1>6. PlanIds \in {T \in SUBSET (UnspentAt(snap) \ Excluded) :
                     T # {} /\ Cardinality(T) <= SpendLimit}
  BY DEF PlanIds, WellFormed
<1>7. plan.expiryHeight = Height[snap] + 1 + ExpiryOffset
  BY DEF WellFormed, ExpiryHeight
<1>8. Atomic!Cardinality(PlanIds) = Cardinality(PlanIds)
  BY DEF Atomic!Cardinality, Cardinality
<1>9. PlanIds \in {T \in SUBSET (Atomic!UnspentAt(snap) \ Excluded) :
                     T # {} /\ Atomic!Cardinality(T) <= SpendLimit}
  BY <1>1, <1>6, <1>8
<1>10. Placed = {[id |-> m, position |-> Atomic!PositionIn(Tree[snap], m)] : m \in PlanIds}
  BY <1>2
<1> HIDE DEF Placed
<1> QED
  BY <1>5, <1>7, <1>9, <1>10 DEF Atomic!Offers

(* A call before the anchor has been verified decides nothing: it goes on, or  *)
(* gives up.                                                                   *)
LEMMA PlanningRefines ==
  ASSUME ~Verified, ~Ended, ~Verified', UNCHANGED envVars
  PROVE  [Atomic!Next]_Atomic!vars
<1>1. Stage = "planning" /\ Offer = None /\ Offer' = None /\ Stage' \in {"planning", "aborted"}
  BY DEF Verified, Ended, Stage, Offer
<1> QED
  BY <1>1 DEF Atomic!Next, Atomic!Abort, Atomic!vars, envVars, Atomic!envVars

(* The anchor is verified: the decision. *)
LEMMA DecisionRefines ==
  ASSUME pc = "verify_anchor", pc' \in {"verify_health", "verify_context"},
         snap \in Chain[node], UNCHANGED envVars, UNCHANGED plan,
         Offer' \in Atomic!Offers(snap)
  PROVE  Atomic!Next
<1>1. Stage = "planning" /\ Stage' = "decided"
  BY DEF Stage
<1> QED
  BY <1>1 DEF Atomic!Next, Atomic!Decide, envVars, Atomic!envVars

(* A later check passes, returns the plan, or gives up. *)
LEMMA ClosingRefines ==
  ASSUME pc \in {"verify_health", "verify_context"}, pc' \in {"verify_context", "failed"},
         UNCHANGED envVars, UNCHANGED plan
  PROVE  [Atomic!Next]_Atomic!vars
<1>1. CASE pc' = "failed"
  <2>1. Stage = "decided" /\ Stage' = "aborted" /\ Offer' = None
    BY <1>1 DEF Stage, Offer
  <2> QED
    BY <2>1 DEF Atomic!Next, Atomic!Abort, envVars, Atomic!envVars
<1>2. CASE pc' # "failed"
  <2>1. UNCHANGED <<Stage, Offer>>
    BY <1>2 DEF Stage, Offer
  <2> QED
    BY <2>1 DEF Atomic!vars, envVars, Atomic!envVars
<1> QED
  BY <1>1, <1>2

LEMMA ContextRefines ==
  ASSUME VerifyChainContext, UNCHANGED envVars,
         node \in Blocks, snap \in Blocks, plan \in Plans, plan.anchorHeight = Height[snap]
  PROVE  [Atomic!Next]_Atomic!vars
<1>1. pc = "verify_context" /\ pc' \in {"done", "failed"} /\ UNCHANGED plan
  BY DEF VerifyChainContext
<1>2. CASE pc' = "done"
  <2>1. Stage = "decided" /\ Stage' = "returned" /\ UNCHANGED Offer
    BY <1>1, <1>2 DEF Stage, Offer
  <2>2. /\ Height[node] >= Height[snap]
        /\ Height[node] + 1 + 3 <= plan.expiryHeight
    BY <1>2 DEF VerifyChainContext, ContextHolds, txExpiringSoonThreshold
  <2>3. Offer.anchorHeight = Height[snap] /\ Offer.expiryHeight = plan.expiryHeight
    BY <1>1 DEF Offer
  <2>4. Height[node] + 4 <= Offer.expiryHeight
    <3>1. Height[node] \in Nat
      BY BlockTreeTypes
    <3>2. Height[node] + 4 = Height[node] + 1 + 3
      BY <3>1
    <3> QED
      BY <2>2, <2>3, <3>2
  <2> QED
    BY <2>1, <2>2, <2>3, <2>4 DEF Atomic!Next, Atomic!Return, envVars, Atomic!envVars
<1>3. CASE pc' = "failed"
  BY <1>1, <1>3, ClosingRefines
<1> QED
  BY <1>1, <1>2, <1>3
=============================================================================
