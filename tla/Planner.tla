------------------------------ MODULE Planner ------------------------------
(***************************************************************************)
(* What the planning functions share, in node mode and in scanner mode:    *)
(* the request, the captured chain info and anchor, the choice of notes    *)
(* (abstract here: NoteSelection refines it), the plan record, and the     *)
(* checks made before a plan is returned.  One action per call to the      *)
(* node, with the local computation that follows the answer; the chain may *)
(* move between any two of them.                                           *)
(***************************************************************************)
EXTENDS ChainEnv

CONSTANTS
  Kinds,               \* the kinds of plan requested: send, sweep, consolidate
  Excluded,            \* ExcludedNoteIDs
  MinConf,             \* MinConfirmations, after its default is applied
  ExpiryOffset,        \* ExpiryOffset, after its default is applied
  SpendLimit,          \* MaxOrchardSpendNotes
  ConfiguredCoinType,  \* CoinType: 0 to take the network's
  MaxU32,              \* 2^32 - 1, made small
  None

ASSUME PlannerTypes ==
  /\ Kinds \subseteq {"send", "sweep", "consolidate"}
  /\ Excluded \subseteq Notes
  /\ MinConf \in Nat \ {0}
  /\ ExpiryOffset \in Nat /\ ExpiryOffset >= 4
  /\ SpendLimit \in Nat /\ SpendLimit >= 2
  /\ ConfiguredCoinType \in Nat
  /\ MaxU32 \in Nat
  /\ None \notin Blocks

VARIABLES
  pc,    \* the call the planner makes next, or how it ended
  info,  \* the tip that getblockchaininfo described (chainInfo)
  snap,  \* the block captured as planning anchor (snapshot.hash)
  plan   \* the plan built, returned to the caller only when pc = "done"

plannerVars == <<pc, info, snap, plan>>

Ended == pc \in {"done", "failed"}

(* resolveCoinType: 0 stands for its error. *)
CoinTypes == [main |-> 8133, test |-> 8134, regtest |-> 8135]
resolveCoinType(net) ==
  IF net \in DOMAIN CoinTypes /\ ConfiguredCoinType \in {0, CoinTypes[net]}
  THEN CoinTypes[net] ELSE 0

(* ExpiryHeightFromTip, on a word of MaxU32; its overflow is Expirable's negation. *)
ExpiryHeight(tip) == tip + 1 + ExpiryOffset
ExpirableUnchecked(tip) == tip < MaxU32  \* faulty: the sum is not checked
Expirable(tip) == tip < MaxU32 /\ ExpiryHeight(tip) <= MaxU32

txExpiringSoonThreshold == 3

(* The sets of candidates each kind of plan may spend: a sweep spends all of *)
(* them, a consolidation at least two.                                       *)
Selections(kind, candidates) ==
  {S \in SUBSET candidates :
     /\ S # {}
     /\ Cardinality(S) <= SpendLimit
     /\ kind = "sweep" => S = candidates
     /\ kind = "consolidate" => Cardinality(S) >= 2}

(* The TxPlan: `anchor` is the tree whose root the plan carries, and each note *)
(* has its id, its position and, by the same witness, its path in that tree.   *)
MakePlan(kind, anchorHeight, tree, notes) ==
  [kind         |-> kind,
   chain        |-> Network[info],
   coinType     |-> resolveCoinType(Network[info]),
   branchID     |-> NextBranch[info],
   anchorHeight |-> anchorHeight,
   anchor       |-> tree,
   expiryHeight |-> ExpiryHeight(Height[snap]),
   notes        |-> notes]

PlanIds == {n.id : n \in plan.notes}

(* The type of a plan; a height is an unsigned word. *)
PlanNotes == [id : Notes, position : Nat]
Plans ==
  [kind : Kinds, chain : Networks, coinType : Nat, branchID : Nat, anchorHeight : Nat,
   anchor : Seq(Notes), expiryHeight : 0..MaxU32, notes : SUBSET PlanNotes]

PlannerInit ==
  /\ pc = "info"
  /\ info = None
  /\ snap = None
  /\ plan = None

(* GetChainInfo, resolveCoinType and the range of the height. *)
GetChainInfo ==
  /\ pc = "info"
  /\ info' = node
  /\ pc' = IF resolveCoinType(Network[node]) # 0 /\ Height[node] <= MaxU32
           THEN "anchor" ELSE "failed"
  /\ UNCHANGED <<snap, plan>>

(* captureNodeAnchor: the hash at the height just read, whatever the node's  *)
(* chain has become since.                                                   *)
CaptureNodeAnchor(next) ==
  /\ pc = "anchor"
  /\ IF Height[info] <= Height[node]
     THEN snap' = At(node, Height[info]) /\ pc' = next
     ELSE snap' = snap /\ pc' = "failed"
  /\ UNCHANGED <<info, plan>>

(* Faulty: the tip is compared with the anchor by height alone. *)
AnchorStandsByHeight == Height[snap] <= Height[node]

(* verifyNodeAnchor: the captured hash is still the node's at its height. *)
AnchorStands == Height[snap] <= Height[node] /\ At(node, Height[snap]) = snap

VerifyNodeAnchor(next) ==
  /\ pc = "verify_anchor"
  /\ pc' = IF AnchorStands THEN next ELSE "failed"
  /\ UNCHANGED <<info, snap, plan>>

(* Faulty: the network is not compared. *)
ContextHoldsOnAnyNetwork ==
  /\ Height[node] >= Height[snap]
  /\ NextBranch[node] = NextBranch[info]
  /\ Height[node] + 1 + txExpiringSoonThreshold <= plan.expiryHeight

(* Faulty: the expiry is not looked at again. *)
ContextHoldsHoweverLate ==
  /\ Network[node] = Network[info]
  /\ Height[node] >= Height[snap]
  /\ NextBranch[node] = NextBranch[info]

(* verifyChainContext: same network and consensus branch, a tip not behind the *)
(* anchor, and an expiry the mempool would still admit; then the plan is       *)
(* returned.                                                                   *)
ContextHolds ==
  /\ Network[node] = Network[info]
  /\ Height[node] >= Height[snap]
  /\ NextBranch[node] = NextBranch[info]
  /\ Height[node] + 1 + txExpiringSoonThreshold <= plan.expiryHeight

VerifyChainContext ==
  /\ pc = "verify_context"
  /\ pc' = IF ContextHolds THEN "done" ELSE "failed"
  /\ UNCHANGED <<info, snap, plan>>

(* A call fails or answers with a bad status or encoding, the context expires, *)
(* or the candidates cannot fund the outputs: the function returns an error.   *)
Fail ==
  /\ ~Ended
  /\ pc' = "failed"
  /\ UNCHANGED <<info, snap, plan>>

-----------------------------------------------------------------------------
(* The planner seen as AtomicPlan: it decides when verifyNodeAnchor succeeds. *)
Stage ==
  CASE pc \in {"verify_health", "verify_context"} -> "decided"
    [] pc = "done" -> "returned"
    [] pc = "failed" -> "aborted"
    [] OTHER -> "planning"

Offer ==
  IF pc \in {"verify_health", "verify_context", "done"}
  THEN [anchorHeight |-> plan.anchorHeight, anchor |-> plan.anchor,
        expiryHeight |-> plan.expiryHeight, notes |-> plan.notes]
  ELSE None

Atomic == INSTANCE AtomicPlan WITH stage <- Stage, offer <- Offer

(* A planner reads the chain in many calls, yet it behaves as one that reads it *)
(* at a single instant, the one of verifyNodeAnchor: the anchor, the tree, the  *)
(* positions and the unspent notes of a plan are those of one block that is     *)
(* canonical at that instant.                                                   *)
AtomicSpec == Atomic!Spec

(* The plan's anchor, height and note positions are those of one block, the     *)
(* anchor captured at the start.  It breaks if a call in between was answered   *)
(* from another fork and the closing checks missed it.                          *)
SnapshotConsistent ==
  pc = "done" =>
    /\ plan.anchorHeight = Height[snap]
    /\ plan.anchor = Tree[snap]
    /\ \A n \in plan.notes :
         n.position + 1 \in DOMAIN Tree[snap] /\ Tree[snap][n.position + 1] = n.id

(* Every note of a returned plan belongs to the wallet, is not excluded, and is *)
(* mined and not nullified on the chain of the captured anchor, although it was *)
(* listed by a service that may have been on another fork by then.              *)
NotesSpendableAtAnchor ==
  pc = "done" => PlanIds \subseteq UnspentAt(snap) \ Excluded

(* The network, coin type and branch written in a plan come from the first      *)
(* call, its anchor from a later one: they agree, even if the endpoint was      *)
(* switched to a node of another network between the two.                       *)
OneNetwork ==
  pc = "done" =>
    /\ plan.chain = Network[snap]
    /\ plan.coinType = CoinTypes[Network[snap]]
    /\ plan.branchID = NextBranch[snap]

(* The anchor of a plan is canonical when the plan is returned.  README.md:81:  *)
(* "The node may advance beyond the anchor only while that anchor remains       *)
(* canonical".  verifyChainContext, the last call, does not read the hash again.*)
AnchorCanonicalAtReturn ==
  [][pc = "verify_context" /\ pc' = "done" => snap \in Chain[node]]_<<envVars, plannerVars>>
-----------------------------------------------------------------------------
(* Parts of the inductive invariants of the two planners: when the anchor has *)
(* been captured, the plan made, and the anchor verified; when the node has   *)
(* abandoned the anchor.                                                      *)
Captured == pc \notin {"info", "anchor", "failed"}
Planned == pc \in {"recheck", "compare", "verify_anchor", "verify_health",
                   "verify_context", "done"}
Verified == pc \in {"verify_health", "verify_context", "done"}

Lost == snap \in left

(* The plan spends as many notes as it may, at least one, and expires as asked. *)
WellFormed ==
  /\ PlanIds # {} /\ Cardinality(PlanIds) <= SpendLimit
  /\ plan.expiryHeight = ExpiryHeight(Height[snap])

(* The plan carries the network and branch of the first answer, and the anchor *)
(* is of that network unless the node has left the network for good.           *)
OfOneNetwork ==
  /\ pc \notin {"info", "failed"} =>
       /\ resolveCoinType(Network[info]) = CoinTypes[Network[info]]
       /\ At(info, 0) \in left \cup Chain[node]
  /\ Captured => Network[snap] = Network[info] \/ At(info, 0) \in left
  /\ Planned =>
       /\ plan.chain = Network[info]
       /\ plan.coinType = resolveCoinType(Network[info])
       /\ plan.branchID = NextBranch[info]
  /\ pc = "done" => Network[snap] = Network[info]
=============================================================================
