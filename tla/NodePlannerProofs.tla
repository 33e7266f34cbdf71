------------------------- MODULE NodePlannerProofs -------------------------
(***************************************************************************)
(* Node mode: types, and the safety of the plans returned, for every block *)
(* tree, wallet and request.                                               *)
(***************************************************************************)
EXTENDS NodePlanner, PlannerProofs

(* A chain and that of one of its blocks have the same block at each height. *)
LEMMA AtBelow ==
  ASSUME NEW b \in Blocks, NEW c \in Chain[b], NEW h \in Nat, h <= Height[c]
  PROVE  At(b, h) = At(c, h)
<1>1. c \in Blocks
  BY AtUnique
<1>2. At(c, h) \in Chain[c] /\ Height[At(c, h)] = h
  BY <1>1, AtHeight
<1>3. At(c, h) \in Chain[b]
  BY <1>2, ChainTransitive
<1> QED
  BY <1>2, <1>3, AtUnique

(* The tree of a block is what its chain has below it, and its own actions. *)
LEMMA TreeAppends ==
  ASSUME snap \in Blocks, NEW h \in Nat, h <= Height[snap]
  PROVE  TreeBelow(h) \o Acts[At(snap, h)] = Tree[At(snap, h)]
<1>1. At(snap, h) \in Chain[snap] /\ At(snap, h) \in Blocks /\ Height[At(snap, h)] = h
  BY AtHeight
<1>2. Tree[At(snap, h)] = (IF h = 0 THEN <<>> ELSE Tree[At(At(snap, h), h - 1)])
                          \o Acts[At(snap, h)]
  BY <1>1, TreeGrows
<1>3. CASE h = 0
  BY <1>2, <1>3 DEF TreeBelow
<1>4. CASE h # 0
  <2>1. At(snap, h - 1) = At(At(snap, h), h - 1)
    BY <1>1, <1>4, AtBelow
  <2> QED
    BY <1>2, <1>4, <2>1 DEF TreeBelow
<1> QED
  BY <1>3, <1>4

(* The position of an action in its block. *)
LEMMA ActPosition ==
  ASSUME NEW acts \in Seq(Notes), NEW m \in Range(acts)
  PROVE  /\ PositionIn(acts, m) \in Nat
         /\ PositionIn(acts, m) + 1 \in DOMAIN acts
         /\ acts[PositionIn(acts, m) + 1] = m
<1>1. \E k \in DOMAIN acts : acts[k] = m
  BY DEF Range
<1>2. PICK k \in DOMAIN acts : acts[k] = m /\ PositionIn(acts, m) = k - 1
  BY <1>1 DEF PositionIn
<1>3. k \in Nat /\ k >= 1
  OBVIOUS
<1> QED
  BY <1>2, <1>3

(* The index stays a map from the actions read to their leaves. *)
LEMMA IndexedAgrees ==
  ASSUME NEW acts \in Seq(Notes), cmx \in Seq(Notes),
         DOMAIN byOutpoint \subseteq Notes,
         \A m \in DOMAIN byOutpoint :
           /\ byOutpoint[m] \in Nat
           /\ byOutpoint[m] + 1 \in DOMAIN cmx
           /\ cmx[byOutpoint[m] + 1] = m
  PROVE  /\ DOMAIN Indexed(acts) \subseteq Notes
         /\ \A m \in DOMAIN Indexed(acts) :
              /\ Indexed(acts)[m] \in Nat
              /\ Indexed(acts)[m] + 1 \in DOMAIN (cmx \o acts)
              /\ (cmx \o acts)[Indexed(acts)[m] + 1] = m
<1>1. DOMAIN Indexed(acts) = DOMAIN byOutpoint \cup Range(acts)
  BY DEF Indexed
<1>2. Range(acts) \subseteq Notes
  BY DEF Range
<1>3. ASSUME NEW m \in Range(acts)
      PROVE  /\ Indexed(acts)[m] \in Nat
             /\ Indexed(acts)[m] + 1 \in DOMAIN (cmx \o acts)
             /\ (cmx \o acts)[Indexed(acts)[m] + 1] = m
  <2>1. Indexed(acts)[m] = Len(cmx) + PositionIn(acts, m)
    BY DEF Indexed
  <2>2. /\ PositionIn(acts, m) \in Nat
        /\ PositionIn(acts, m) + 1 \in DOMAIN acts
        /\ acts[PositionIn(acts, m) + 1] = m
    BY ActPosition
  <2> DEFINE l == PositionIn(acts, m) + 1
  <2>3. Len(cmx) + l \in DOMAIN (cmx \o acts) /\ (cmx \o acts)[Len(cmx) + l] = acts[l]
    BY <2>2, ConcatRight
  <2>4. Len(cmx) \in Nat /\ Indexed(acts)[m] + 1 = Len(cmx) + l
    BY <2>1, <2>2
  <2> QED
    BY <2>1, <2>2, <2>3, <2>4
<1>4. ASSUME NEW m \in DOMAIN byOutpoint, m \notin Range(acts)
      PROVE  /\ Indexed(acts)[m] \in Nat
             /\ Indexed(acts)[m] + 1 \in DOMAIN (cmx \o acts)
             /\ (cmx \o acts)[Indexed(acts)[m] + 1] = m
  <2>1. Indexed(acts)[m] = byOutpoint[m]
    BY <1>4 DEF Indexed
  <2> QED
    BY <2>1
<1> QED
  BY <1>1, <1>2, <1>3, <1>4

-----------------------------------------------------------------------------
LEMMA InitTyped == Init => TypeOK /\ Control
BY BlockTreeTypes, EnvTypes, PlannerTypes
   DEF Init, EnvInit, PlannerInit, TypeOK, EnvType, Control, Captured, Planned

(* What ListUnspent does, without its choice of a kind. *)
LEMMA ListUnspentStep ==
  ASSUME ListUnspent
  PROVE  /\ pc = "unspent" /\ pc' \in {"verify_anchor", "failed"}
         /\ height' = 0 /\ cmx' = <<>> /\ byOutpoint' = <<>> /\ UNCHANGED <<info, snap>>
         /\ pc' = "failed" => plan' = plan
         /\ pc' = "verify_anchor" =>
              /\ Expirable(Height[info])
              /\ \E kind \in Kinds : \E S \in Selections(kind, Candidates) :
                   /\ S \subseteq DOMAIN byOutpoint
                   /\ plan' = MakePlan(kind, Height[info], cmx,
                                {[id |-> m, position |-> byOutpoint[m]] : m \in S})
BY DEF ListUnspent

(* Every step keeps the types, and what each point of the planning has read. *)
LEMMA StepTyped == TypeOK /\ Control /\ [Next]_vars => TypeOK' /\ Control'
<1> SUFFICES ASSUME TypeOK, Control, [Next]_vars
             PROVE  TypeOK' /\ Control'
  OBVIOUS
<1> USE DEF Captured, Planned
<1>1. ASSUME EnvNext, UNCHANGED <<plannerVars, localVars>>
      PROVE  TypeOK' /\ Control'
  <2>1. EnvType'
    BY <1>1, EnvTyped DEF TypeOK
  <2> QED
    BY <2>1, <1>1 DEF TypeOK, Control, plannerVars, localVars
<1>2. ASSUME GetChainInfo, UNCHANGED localVars, UNCHANGED envVars
      PROVE  TypeOK' /\ Control'
  BY <1>2 DEF TypeOK, Control, GetChainInfo, localVars, envVars, EnvType
<1>3. ASSUME CaptureNodeAnchor("index"), UNCHANGED localVars, UNCHANGED envVars
      PROVE  TypeOK' /\ Control'
  <2>1. CASE Height[info] <= Height[node]
    <3>1. /\ snap' = At(node, Height[info]) /\ pc' = "index" /\ pc = "anchor"
          /\ info \in Blocks /\ node \in Blocks
      BY <1>3, <2>1 DEF CaptureNodeAnchor, Control, TypeOK, EnvType
    <3>2. snap' \in Blocks /\ Height[snap'] = Height[info] /\ Height[info] \in Nat
      BY <3>1, <2>1, AtHeight, BlockTreeTypes
    <3> QED
      BY <1>3, <3>1, <3>2 DEF CaptureNodeAnchor, TypeOK, Control, localVars, envVars, EnvType
  <2>2. CASE ~(Height[info] <= Height[node])
    BY <1>3, <2>2 DEF CaptureNodeAnchor, TypeOK, Control, localVars, envVars, EnvType
  <2> QED
    BY <2>1, <2>2
<1>4. ASSUME IndexBlock, UNCHANGED envVars
      PROVE  TypeOK' /\ Control'
  <2>0. /\ node \in Blocks /\ info \in Blocks /\ height \in Nat /\ pc = "index"
        /\ Height[info] \in Nat
    BY <1>4, BlockTreeTypes DEF IndexBlock, Control, TypeOK, EnvType
  <2>1. CASE height <= Height[node]
    <3>1. Acts[At(node, height)] \in Seq(Notes)
      BY <2>0, <2>1, AtHeight, BlockTreeTypes
    <3>2. /\ cmx' = cmx \o Acts[At(node, height)]
          /\ byOutpoint' = Indexed(Acts[At(node, height)])
          /\ height' = height + 1
          /\ pc' = "index" => height < Height[info]
          /\ pc' \in {"index", "unspent", "failed"}
      BY <1>4, <2>0, <2>1 DEF IndexBlock
    <3>3. /\ DOMAIN byOutpoint' \subseteq Notes
          /\ \A m \in DOMAIN byOutpoint' :
               /\ byOutpoint'[m] \in Nat
               /\ byOutpoint'[m] + 1 \in DOMAIN cmx'
               /\ cmx'[byOutpoint'[m] + 1] = m
      BY <3>1, <3>2, IndexedAgrees DEF TypeOK, Control
    <3>4. cmx' \in Seq(Notes) /\ height' \in Nat /\ (pc' = "index" => height' <= Height[info])
      BY <2>0, <3>1, <3>2 DEF TypeOK
    <3> QED
      BY <1>4, <2>0, <3>2, <3>3, <3>4 DEF IndexBlock, TypeOK, Control, envVars, EnvType
  <2>2. CASE ~(height <= Height[node])
    BY <1>4, <2>2 DEF IndexBlock, TypeOK, Control, localVars, envVars, EnvType
  <2> QED
    BY <2>1, <2>2
<1>5. ASSUME ListUnspent, UNCHANGED envVars
      PROVE  TypeOK' /\ Control'
  <2>1. /\ pc = "unspent" /\ pc' \in {"verify_anchor", "failed"}
        /\ height' = 0 /\ cmx' = <<>> /\ byOutpoint' = <<>> /\ UNCHANGED <<info, snap>>
        /\ info \in Blocks /\ snap \in Blocks /\ Height[snap] = Height[info]
    BY <1>5, ListUnspentStep DEF Control
  <2>2. CASE pc' = "failed"
    BY <1>5, <2>1, <2>2, ListUnspentStep DEF TypeOK, Control, envVars, EnvType
  <2>3. CASE pc' = "verify_anchor"
    <3>0. PICK kind \in Kinds : \E S \in Selections(kind, Candidates) :
            /\ S \subseteq DOMAIN byOutpoint
            /\ plan' = MakePlan(kind, Height[info], cmx,
                         {[id |-> m, position |-> byOutpoint[m]] : m \in S})
      BY <1>5, <2>3, ListUnspentStep
    <3>1. PICK S \in Selections(kind, Candidates) :
            /\ S \subseteq DOMAIN byOutpoint
            /\ plan' = MakePlan(kind, Height[info], cmx,
                         {[id |-> m, position |-> byOutpoint[m]] : m \in S})
      BY <3>0
    <3>2. {[id |-> m, position |-> byOutpoint[m]] : m \in S} \in SUBSET PlanNotes
      BY <3>1 DEF TypeOK, PlanNotes
    <3>3. Height[info] \in Nat /\ Expirable(Height[snap])
      BY <1>5, <2>1, <2>3, ListUnspentStep, BlockTreeTypes
    <3>4. plan' \in Plans
      BY <2>1, <3>1, <3>2, <3>3, PlanTyped DEF TypeOK
    <3>5. plan'.anchorHeight = Height[snap]
      BY <2>1, <3>1 DEF MakePlan
    <3> QED
      BY <1>5, <2>1, <2>3, <3>4, <3>5 DEF TypeOK, Control, envVars, EnvType
  <2> QED
    BY <2>1, <2>2, <2>3
<1>6. ASSUME VerifyNodeAnchor("verify_context"), UNCHANGED localVars, UNCHANGED envVars
      PROVE  TypeOK' /\ Control'
  BY <1>6 DEF VerifyNodeAnchor, TypeOK, Control, localVars, envVars, EnvType
<1>7. ASSUME VerifyChainContext, UNCHANGED localVars, UNCHANGED envVars
      PROVE  TypeOK' /\ Control'
  BY <1>7 DEF VerifyChainContext, TypeOK, Control, localVars, envVars, EnvType
<1>8. ASSUME Fail, UNCHANGED localVars, UNCHANGED envVars
      PROVE  TypeOK' /\ Control'
  BY <1>8 DEF Fail, TypeOK, Control, localVars, envVars, EnvType
<1>9. ASSUME UNCHANGED vars
      PROVE  TypeOK' /\ Control'
  BY <1>9 DEF vars, plannerVars, localVars, envVars, TypeOK, EnvType, Control
<1> QED
  BY <1>1, <1>2, <1>3, <1>4, <1>5, <1>6, <1>7, <1>8, <1>9 DEF Next, PlannerNext, Terminated

(* Every variable of the node planner keeps its type, and the index stays one *)
(* of the commitments read.                                                   *)
THEOREM TypeCorrect == Spec => []TypeOK
<1>1. Spec => [](TypeOK /\ Control)
  BY InitTyped, StepTyped, PTL DEF Spec
<1> QED
  BY <1>1, PTL

-----------------------------------------------------------------------------
(* A step of the services keeps what was read grounded in the anchor. *)
LEMMA EnvGrounded ==
  ASSUME TypeOK, Control, Grounded, Readopt = FALSE,
         EnvNext, UNCHANGED <<plannerVars, localVars>>
  PROVE  Grounded'
<1>1. EnvType
  BY DEF TypeOK
<1>2. NodeClean'
  BY <1>1, EnvClean DEF Grounded
<1>3. /\ UNCHANGED <<pc, snap, plan, cmx, height>>
      /\ Captured' <=> Captured
      /\ Planned' <=> Planned
      /\ Verified' <=> Verified
      /\ PlanAtAnchor' <=> PlanAtAnchor
      /\ TreeBelow(height)' = TreeBelow(height)
  BY DEF plannerVars, localVars, Captured, Planned, Verified, PlanAtAnchor, TreeBelow
<1>4. Captured => snap \in left' \cup Chain[node'] /\ (Lost => Lost')
  BY <1>1, <1>3, EnvKeepsCanonical DEF Grounded, Lost
<1> QED
  BY <1>2, <1>3, <1>4 DEF Grounded, Captured, Planned

(* While the node has not abandoned the anchor, the block it serves at a height *)
(* is the one of the anchor's chain, so the index stays the anchor's.           *)
LEMMA IndexGrounded ==
  ASSUME TypeOK, Control, Grounded, IndexBlock, UNCHANGED envVars
  PROVE  Grounded'
<1> USE DEF Captured, Planned, Verified
<1>1. /\ UNCHANGED <<node, left, snap, info>> /\ pc = "index"
      /\ pc' \in {"index", "unspent", "failed"}
      /\ NodeClean' /\ node \in Blocks /\ snap \in Blocks /\ height \in Nat
      /\ Height[snap] = Height[info] /\ height <= Height[snap] /\ Height[snap] \in Nat
      /\ snap \in left \cup Chain[node]
  BY BlockTreeTypes DEF IndexBlock, envVars, Grounded, NodeClean, TypeOK, EnvType, Control
<1>2. CASE Lost \/ pc' = "failed"
  BY <1>1, <1>2 DEF Grounded, Lost
<1>3. CASE ~Lost /\ pc' # "failed"
  <2>1. snap \in Chain[node] /\ cmx = TreeBelow(height)
    BY <1>1, <1>3 DEF Grounded, Lost
  <2>2. At(node, height) = At(snap, height)
    BY <1>1, <2>1, AtBelow
  <2>3. /\ cmx' = cmx \o Acts[At(node, height)] /\ height' = height + 1
        /\ pc' = "unspent" => ~(height < Height[info])
    BY <1>1, <1>3 DEF IndexBlock
  <2>4. cmx' = Tree[At(snap, height)]
    BY <1>1, <2>1, <2>2, <2>3, TreeAppends
  <2>5. CASE pc' = "index"
    <3>1. cmx' = TreeBelow(height)'
      BY <1>1, <2>3, <2>4 DEF TreeBelow
    <3> QED
      BY <1>1, <2>5, <3>1 DEF Grounded
  <2>6. CASE pc' = "unspent"
    <3>1. height = Height[snap]
      BY <1>1, <2>3, <2>6
    <3>2. At(snap, height) = snap
      BY <1>1, <3>1, AtUnique, ChainShape
    <3> QED
      BY <1>1, <2>4, <2>6, <3>2 DEF Grounded
  <2> QED
    BY <1>1, <1>3, <2>5, <2>6
<1> QED
  BY <1>2, <1>3

(* The notes listed afterwards, by a later tip, are unspent at the anchor if   *)
(* they are in its index: a chain only adds to the notes it has spent.         *)
LEMMA ListUnspentGrounded ==
  ASSUME TypeOK, Control, Grounded, ListUnspent, UNCHANGED envVars
  PROVE  Grounded'
<1> USE DEF Captured, Planned, Verified
<1>1. /\ UNCHANGED <<node, left, snap, info>> /\ pc = "unspent"
      /\ pc' \in {"verify_anchor", "failed"}
      /\ NodeClean' /\ node \in Blocks /\ snap \in Blocks
      /\ snap \in left \cup Chain[node]
  BY ListUnspentStep DEF envVars, Grounded, NodeClean, TypeOK, EnvType, Control
<1>2. CASE Lost \/ pc' = "failed"
  BY <1>1, <1>2 DEF Grounded, Lost
<1>3. CASE ~Lost /\ pc' = "verify_anchor"
  <2>1. snap \in Chain[node] /\ cmx = Tree[snap]
    BY <1>1, <1>3 DEF Grounded, Lost
  <2>2. PICK kind \in Kinds : \E S \in Selections(kind, Candidates) :
          /\ S \subseteq DOMAIN byOutpoint
          /\ plan' = MakePlan(kind, Height[info], cmx,
                       {[id |-> m, position |-> byOutpoint[m]] : m \in S})
    BY <1>3, ListUnspentStep
  <2>3. PICK S \in Selections(kind, Candidates) :
          /\ S \subseteq DOMAIN byOutpoint
          /\ plan' = MakePlan(kind, Height[info], cmx,
                       {[id |-> m, position |-> byOutpoint[m]] : m \in S})
    BY <2>2
  <2>4. /\ plan'.anchor = Tree[snap]
        /\ plan'.notes = {[id |-> m, position |-> byOutpoint[m]] : m \in S}
    BY <2>1, <2>3 DEF MakePlan
  <2>5. ASSUME NEW m \in S
        PROVE  /\ byOutpoint[m] + 1 \in DOMAIN Tree[snap]
               /\ Tree[snap][byOutpoint[m] + 1] = m
               /\ m \in UnspentAt(snap) \ Excluded
    <3>1. m \in UnspentAt(node) \ Excluded
      BY DEF Selections, Candidates
    <3>2. /\ byOutpoint[m] + 1 \in DOMAIN Tree[snap]
          /\ Tree[snap][byOutpoint[m] + 1] = m
      BY <2>1, <2>3 DEF Control
    <3>3. m \in Range(Tree[snap])
      BY <3>2 DEF Range
    <3>4. m \notin SpentOn(snap)
      BY <1>1, <2>1, <3>1, ChainTransitive DEF UnspentAt, SpentOn
    <3> QED
      BY <3>1, <3>2, <3>3, <3>4 DEF UnspentAt
  <2>6. PlanAtAnchor'
    BY <1>1, <2>4, <2>5 DEF PlanAtAnchor
  <2> QED
    BY <1>1, <1>3, <2>6 DEF Grounded
<1> QED
  BY <1>1, <1>2, <1>3

(* Every step of the planner keeps what was read grounded in the anchor. *)
LEMMA PlannerGrounded ==
  ASSUME TypeOK, Control, Grounded, PlannerNext, UNCHANGED envVars
  PROVE  Grounded'
<1> USE DEF Captured, Planned, Verified
<1>0. UNCHANGED <<node, left>> /\ NodeClean' /\ node \in Blocks
  BY DEF envVars, Grounded, NodeClean, TypeOK, EnvType
<1>1. CASE GetChainInfo /\ UNCHANGED localVars
  BY <1>0, <1>1 DEF GetChainInfo, Grounded
<1>2. CASE CaptureNodeAnchor("index") /\ UNCHANGED localVars
  <2>1. CASE pc' = "index"
    <3>1. /\ snap' = At(node, Height[info]) /\ info \in Blocks /\ Height[info] <= Height[node]
          /\ height' = 0 /\ cmx' = <<>>
      BY <1>2, <2>1 DEF CaptureNodeAnchor, Control, localVars
    <3>2. snap' \in Chain[node]
      BY <1>0, <3>1, AtHeight, BlockTreeTypes
    <3>3. cmx' = TreeBelow(height)'
      BY <3>1 DEF TreeBelow
    <3> QED
      BY <1>0, <2>1, <3>2, <3>3 DEF Grounded
  <2>2. CASE pc' = "failed"
    BY <1>0, <2>2 DEF Grounded
  <2> QED
    BY <1>2, <2>1, <2>2 DEF CaptureNodeAnchor
<1>3. CASE IndexBlock
  BY <1>3, IndexGrounded
<1>4. CASE ListUnspent
  BY <1>4, ListUnspentGrounded
<1>5. CASE VerifyNodeAnchor("verify_context") /\ UNCHANGED localVars
  <2>1. CASE pc' = "verify_context"
    <3>1. /\ pc = "verify_anchor" /\ snap \in Blocks /\ UNCHANGED <<snap, plan>>
          /\ Height[snap] <= Height[node] /\ At(node, Height[snap]) = snap
      BY <1>5, <2>1 DEF VerifyNodeAnchor, AnchorStands, Control
    <3>2. snap \in Chain[node]
      BY <1>0, <3>1, AtHeight, BlockTreeTypes
    <3>3. ~Lost
      BY <3>2 DEF Lost, Grounded, NodeClean
    <3>4. PlanAtAnchor'
      BY <3>1, <3>3 DEF Grounded, PlanAtAnchor
    <3> QED
      BY <1>0, <2>1, <3>1, <3>2, <3>4 DEF Grounded
  <2>2. CASE pc' = "failed"
    BY <1>0, <2>2 DEF Grounded
  <2> QED
    BY <1>5, <2>1, <2>2 DEF VerifyNodeAnchor
<1>6. CASE VerifyChainContext /\ UNCHANGED localVars
  <2>1. /\ pc = "verify_context" /\ pc' \in {"done", "failed"} /\ UNCHANGED <<snap, plan>>
    BY <1>6 DEF VerifyChainContext
  <2>2. PlanAtAnchor'
    BY <2>1 DEF Grounded, PlanAtAnchor
  <2> QED
    BY <1>0, <2>1, <2>2 DEF Grounded
<1>7. CASE Fail /\ UNCHANGED localVars
  BY <1>0, <1>7 DEF Fail, Grounded
<1> QED
  BY <1>1, <1>2, <1>3, <1>4, <1>5, <1>6, <1>7 DEF PlannerNext

LEMMA InitGrounded == Init => Grounded
BY DEF Init, EnvInit, PlannerInit, Grounded, NodeClean, Captured, Planned, Verified

LEMMA StepGrounded ==
  ASSUME Readopt = FALSE
  PROVE  TypeOK /\ Control /\ Grounded /\ [Next]_vars => Grounded'
<1> SUFFICES ASSUME TypeOK, Control, Grounded, [Next]_vars
             PROVE  Grounded'
  OBVIOUS
<1>1. CASE UNCHANGED vars
  BY <1>1 DEF vars, envVars, plannerVars, localVars, Grounded, NodeClean, Captured, Planned,
              Verified, Lost, PlanAtAnchor, TreeBelow
<1>2. CASE Next
  BY <1>1, <1>2, EnvGrounded, PlannerGrounded DEF Next, Terminated
<1> QED
  BY <1>1, <1>2

-----------------------------------------------------------------------------
LEMMA InitOfOneNetwork == Init => OfOneNetwork
BY DEF Init, PlannerInit, OfOneNetwork, Captured, Planned

(* Every step keeps the plan of one network. *)
LEMMA StepOfOneNetwork ==
  ASSUME Readopt = FALSE
  PROVE  TypeOK /\ Control /\ Grounded /\ OfOneNetwork /\ [Next]_vars => OfOneNetwork'
<1> SUFFICES ASSUME TypeOK, Control, Grounded, OfOneNetwork, [Next]_vars
             PROVE  OfOneNetwork'
  OBVIOUS
<1>0. EnvType /\ NodeClean
  BY DEF TypeOK, Grounded
<1>1. CASE EnvNext /\ UNCHANGED <<plannerVars, localVars>>
  BY <1>0, <1>1, EnvKeepsNetwork
<1>2. CASE PlannerNext /\ UNCHANGED envVars
  <2> USE DEF Captured, Planned
  <2>0. UNCHANGED <<node, left>> /\ UNCHANGED envVars
    BY <1>2 DEF envVars
  <2>1. CASE GetChainInfo
    BY <1>0, <2>0, <2>1, ChainInfoNetwork
  <2>2. CASE CaptureNodeAnchor("index")
    <3>1. info \in Blocks
      BY <2>2 DEF CaptureNodeAnchor, Control
    <3> QED
      BY <1>0, <2>0, <2>2, <3>1, AnchorNetwork
  <2>3. CASE IndexBlock
    <3>1. pc = "index" /\ pc' \in {"index", "unspent", "failed"} /\ UNCHANGED <<info, snap, plan>>
      BY <2>3 DEF IndexBlock
    <3> QED
      BY <2>0, <3>1, KeepsNetwork
  <2>4. CASE ListUnspent
    <3>1. /\ pc = "unspent" /\ pc' \in {"verify_anchor", "failed"} /\ UNCHANGED <<info, snap>>
          /\ pc' = "verify_anchor" => \E k, h, t, S : plan' = MakePlan(k, h, t, S)
      BY <2>4, ListUnspentStep
    <3> QED
      BY <2>0, <3>1, KeepsNetwork DEF MakePlan
  <2>5. CASE VerifyNodeAnchor("verify_context")
    BY <2>0, <2>5, KeepsNetwork DEF VerifyNodeAnchor, OfOneNetwork
  <2>6. CASE VerifyChainContext
    <3>1. info \in Blocks
      BY <2>6 DEF VerifyChainContext, Control
    <3> QED
      BY <1>0, <2>0, <2>6, <3>1, ContextNetwork
  <2>7. CASE Fail
    BY <2>0, <2>7, KeepsNetwork DEF Fail
  <2> QED
    BY <1>2, <2>1, <2>2, <2>3, <2>4, <2>5, <2>6, <2>7 DEF PlannerNext
<1>3. CASE UNCHANGED vars
  BY <1>3 DEF vars, envVars, plannerVars, OfOneNetwork, Captured, Planned
<1> QED
  BY <1>1, <1>2, <1>3 DEF Next, Terminated

-----------------------------------------------------------------------------
LEMMA InitSized == Init => Sized
BY DEF Init, PlannerInit, Sized, Planned

(* A plan is made with a selection, and is not changed afterwards. *)
LEMMA StepSized == Control /\ Sized /\ [Next]_vars => Sized'
<1> SUFFICES ASSUME Control, Sized, [Next]_vars
             PROVE  Sized'
  OBVIOUS
<1> USE DEF Planned, Sized
<1>1. CASE UNCHANGED <<pc, snap, plan>>
  BY <1>1 DEF WellFormed, PlanIds
<1>2. CASE pc' \in {"index", "unspent", "anchor", "failed"}
  BY <1>2
<1>3. CASE ListUnspent /\ pc' = "verify_anchor"
  <2>1. PICK kind \in Kinds : \E S \in Selections(kind, Candidates) :
          plan' = MakePlan(kind, Height[info], cmx,
                    {[id |-> m, position |-> byOutpoint[m]] : m \in S})
    BY <1>3, ListUnspentStep
  <2>2. PICK S \in Selections(kind, Candidates) :
          plan' = MakePlan(kind, Height[info], cmx,
                    {[id |-> m, position |-> byOutpoint[m]] : m \in S})
    BY <2>1
  <2>3. S # {} /\ Cardinality(S) <= SpendLimit
    BY DEF Selections
  <2>4. PlanIds' = S
    <3>1. plan'.notes = {[id |-> m, position |-> byOutpoint[m]] : m \in S}
      BY <2>2 DEF MakePlan
    <3>2. PlanIds' = {x.id : x \in plan'.notes}
      BY DEF PlanIds
    <3>3. ASSUME NEW x \in plan'.notes
          PROVE  x.id \in S
      BY <3>1
    <3>4. ASSUME NEW m \in S
          PROVE  \E x \in plan'.notes : x.id = m
      <4>1. [id |-> m, position |-> byOutpoint[m]] \in plan'.notes
        BY <3>1
      <4> QED
        BY <4>1
    <3> QED
      BY <3>2, <3>3, <3>4
  <2>5. plan'.expiryHeight = ExpiryHeight(Height[snap]) /\ snap' = snap
    BY <1>3, <2>2, ListUnspentStep DEF MakePlan
  <2> QED
    BY <2>3, <2>4, <2>5 DEF WellFormed, ExpiryHeight
<1>4. CASE VerifyNodeAnchor("verify_context") \/ VerifyChainContext
  BY <1>4 DEF VerifyNodeAnchor, VerifyChainContext, WellFormed, PlanIds
<1> QED
  BY <1>1, <1>2, <1>3, <1>4, ListUnspentStep
     DEF Next, PlannerNext, Terminated, GetChainInfo, CaptureNodeAnchor, IndexBlock, Fail,
         vars, plannerVars

-----------------------------------------------------------------------------
(* The inductive invariant. *)
THEOREM Invariance ==
  ASSUME Readopt = FALSE
  PROVE  Spec => []IInv
<1>1. Init => IInv
  BY InitTyped, InitGrounded, InitSized, InitOfOneNetwork DEF IInv
<1>2. IInv /\ [Next]_vars => IInv'
  BY StepTyped, StepGrounded, StepSized, StepOfOneNetwork DEF IInv
<1> QED
  BY <1>1, <1>2, PTL DEF Spec

(* Of a node that does not return to blocks it has abandoned, a tree rebuilt    *)
(* block by block, by height, is the captured anchor's whenever a plan with it  *)
(* is returned.                                                                 *)
THEOREM PlansAreSnapshots ==
  ASSUME Readopt = FALSE
  PROVE  Spec => []SnapshotConsistent
<1>1. IInv => SnapshotConsistent
  BY DEF IInv, Control, Grounded, Planned, Verified, PlanAtAnchor, SnapshotConsistent
<1> QED
  BY <1>1, Invariance, PTL

(* And the notes, listed by the wallet at a later tip, are notes of the wallet, *)
(* not excluded, unspent on the chain of that anchor.                           *)
THEOREM PlansAreSpendable ==
  ASSUME Readopt = FALSE
  PROVE  Spec => []NotesSpendableAtAnchor
<1>1. IInv => NotesSpendableAtAnchor
  BY DEF IInv, Grounded, Verified, PlanAtAnchor, NotesSpendableAtAnchor, PlanIds
<1> QED
  BY <1>1, Invariance, PTL

(* And its network, coin type and branch are those of that block. *)
THEOREM PlansAreOfOneNetwork ==
  ASSUME Readopt = FALSE
  PROVE  Spec => []OneNetwork
<1>1. IInv => OneNetwork
  BY NetworksAgree DEF IInv, Control, Captured
<1> QED
  BY <1>1, Invariance, PTL

-----------------------------------------------------------------------------
(* Each step of the planner decides, returns, gives up, or changes nothing of *)
(* what AtomicPlan sees.                                                      *)
LEMMA StepRefines == IInv /\ IInv' /\ [Next]_vars => [Atomic!Next]_Atomic!vars
<1> SUFFICES ASSUME IInv, IInv', [Next]_vars
             PROVE  [Atomic!Next]_Atomic!vars
  OBVIOUS
<1>1. CASE EnvNext /\ UNCHANGED <<plannerVars, localVars>>
  BY <1>1, EnvRefines
<1>2. CASE UNCHANGED vars
  BY <1>2 DEF vars, envVars, plannerVars, Atomic!vars, Atomic!envVars, Stage, Offer
<1>3. CASE PlannerNext /\ UNCHANGED envVars
  <2>1. CASE ~Verified /\ ~Ended /\ ~Verified'
    BY <1>3, <2>1, PlanningRefines
  <2>2. CASE VerifyNodeAnchor("verify_context") /\ pc' = "verify_context"
    <3>1. /\ pc = "verify_anchor" /\ UNCHANGED <<snap, plan>> /\ snap \in Blocks
          /\ Height[snap] <= Height[node] /\ At(node, Height[snap]) = snap
          /\ plan \in Plans /\ plan.anchorHeight = Height[snap]
      BY <2>2 DEF VerifyNodeAnchor, AnchorStands, IInv, Control, Captured, Planned
    <3>2. snap \in Chain[node]
      <4>1. node \in Blocks
        BY DEF IInv, TypeOK, EnvType
      <4>2. Height[snap] \in Nat
        BY <3>1, BlockTreeTypes
      <4>3. At(node, Height[snap]) \in Chain[node]
        BY <3>1, <4>1, <4>2, AtHeight
      <4> QED
        BY <3>1, <4>3
    <3>3. WellFormed
      BY <3>1 DEF IInv, Sized, Planned
    <3>4. PlanAtAnchor
      BY <2>2, <3>1 DEF IInv, Grounded, Verified, PlanAtAnchor
    <3>5. Offer' = [anchorHeight |-> plan.anchorHeight, anchor |-> plan.anchor,
                    expiryHeight |-> plan.expiryHeight, notes |-> plan.notes]
      BY <2>2, <3>1 DEF Offer
    <3>6. Offer' \in Atomic!Offers(snap)
      BY <3>1, <3>3, <3>4, <3>5, PlanIsOffer DEF PlanAtAnchor
    <3> QED
      BY <1>3, <2>2, <3>1, <3>2, <3>6, DecisionRefines
  <2>3. CASE VerifyChainContext
    <3>1. node \in Blocks /\ snap \in Blocks /\ plan \in Plans /\ plan.anchorHeight = Height[snap]
      BY <2>3 DEF VerifyChainContext, IInv, TypeOK, EnvType, Control, Captured, Planned
    <3> QED
      BY <1>3, <2>3, <3>1, ContextRefines
  <2>4. CASE Fail /\ Verified
    <3>1. pc \in {"verify_health", "verify_context"} /\ pc' = "failed" /\ UNCHANGED plan
      BY <2>4 DEF Fail, Verified, Ended
    <3> QED
      BY <1>3, <3>1, ClosingRefines
  <2> QED
    BY <1>3, <2>1, <2>2, <2>3, <2>4, ListUnspentStep
       DEF PlannerNext, GetChainInfo, CaptureNodeAnchor, IndexBlock, VerifyNodeAnchor, Fail,
           Verified, Ended
<1> QED
  BY <1>1, <1>2, <1>3 DEF Next, Terminated

(* Of a node that does not return to blocks it has abandoned: a planner that   *)
(* reads the tree in as many calls as there are blocks behaves as one that     *)
(* reads the chain at one instant.                                             *)
THEOREM NodePlannerIsAtomic ==
  ASSUME Readopt = FALSE
  PROVE  Spec => AtomicSpec
<1>1. Init => Atomic!Init
  BY InitRefines DEF Init
<1> QED
  BY <1>1, StepRefines, Invariance, PTL DEF Spec, AtomicSpec, Atomic!Spec

-----------------------------------------------------------------------------
(* How many calls are left, at most: the stages to come and, until the tree has   *)
(* been read, one for each height up to that of the chain info, which the code    *)
(* takes only if a word of MaxU32 holds it.                                       *)
StagesLeft ==
  [info |-> 6, anchor |-> 5, index |-> 4, unspent |-> 3, verify_anchor |-> 2,
   verify_context |-> 1, done |-> 0, failed |-> 0]
HeightsLeft ==
  IF pc = "info" THEN MaxU32
  ELSE IF pc \in {"anchor", "index"} THEN Height[info] - height ELSE 0
CallsLeft == StagesLeft[pc] + HeightsLeft

WithinWord == pc \in {"anchor", "index"} => Height[info] <= MaxU32

(* What is left is a number of calls. *)
LEMMA CallsTyped == TypeOK /\ Control /\ WithinWord => CallsLeft \in Nat
<1> SUFFICES ASSUME TypeOK, Control, WithinWord
             PROVE  CallsLeft \in Nat
  OBVIOUS
<1>1. StagesLeft[pc] \in Nat
  BY DEF TypeOK, StagesLeft
<1>2. pc \in {"anchor", "index"} =>
        Height[info] \in Nat /\ height \in Nat /\ height <= Height[info]
  BY BlockTreeTypes DEF TypeOK, Control
<1>3. HeightsLeft \in Nat
  BY <1>2, PlannerTypes DEF HeightsLeft
<1> QED
  BY <1>1, <1>3 DEF CallsLeft

(* Every call of the planner ends a stage or reads a height. *)
LEMMA CallsDescend ==
  ASSUME TypeOK, Control, WithinWord, PlannerNext, UNCHANGED envVars
  PROVE  WithinWord' /\ CallsLeft' < CallsLeft
<1>0. MaxU32 \in Nat /\ node \in Blocks /\ Height[node] \in Nat
  BY PlannerTypes, BlockTreeTypes DEF TypeOK, EnvType
<1>1. CASE GetChainInfo /\ UNCHANGED localVars
  <2>1. pc = "info" /\ height = 0 /\ height' = 0 /\ info' = node
    BY <1>1 DEF GetChainInfo, Control, localVars
  <2>2. CASE pc' = "anchor" /\ Height[node] <= MaxU32
    <3>1. CallsLeft = 6 + MaxU32
      BY <2>1 DEF CallsLeft, HeightsLeft, StagesLeft
    <3>2. CallsLeft' = 5 + (Height[node] - 0)
      BY <2>1, <2>2 DEF CallsLeft, HeightsLeft, StagesLeft
    <3>3. WithinWord'
      BY <2>1, <2>2 DEF WithinWord
    <3> QED
      BY <1>0, <2>2, <3>1, <3>2, <3>3
  <2>3. CASE pc' = "failed"
    BY <1>0, <2>1, <2>3 DEF CallsLeft, HeightsLeft, StagesLeft, WithinWord
  <2> QED
    BY <1>1, <2>2, <2>3 DEF GetChainInfo
<1>2. CASE CaptureNodeAnchor("index") /\ UNCHANGED localVars
  <2>1. pc = "anchor" /\ pc' \in {"index", "failed"} /\ UNCHANGED <<info, height>>
    BY <1>2 DEF CaptureNodeAnchor, localVars
  <2>2. Height[info] \in Nat /\ height = 0
    BY <2>1, BlockTreeTypes DEF Control
  <2> QED
    BY <2>1, <2>2 DEF CallsLeft, HeightsLeft, StagesLeft, WithinWord
<1>3. CASE IndexBlock
  <2>1. pc = "index" /\ info' = info
    BY <1>3 DEF IndexBlock
  <2>2. Height[info] \in Nat /\ height \in Nat /\ height <= Height[info]
    BY <2>1, BlockTreeTypes DEF TypeOK, Control
  <2>3. CallsLeft = 4 + (Height[info] - height)
    BY <2>1 DEF CallsLeft, HeightsLeft, StagesLeft
  <2>4. CASE pc' = "index" /\ height' = height + 1 /\ height < Height[info]
    <3>1. CallsLeft' = 4 + (Height[info] - (height + 1))
      BY <2>1, <2>4 DEF CallsLeft, HeightsLeft, StagesLeft
    <3>2. WithinWord'
      BY <2>1, <2>4 DEF WithinWord
    <3> QED
      BY <2>2, <2>3, <3>1, <3>2
  <2>5. CASE pc' \in {"unspent", "failed"}
    <3>1. CallsLeft' \in {0, 3}
      BY <2>5 DEF CallsLeft, HeightsLeft, StagesLeft
    <3> QED
      BY <2>2, <2>3, <2>5, <3>1 DEF WithinWord
  <2> QED
    BY <1>3, <2>1, <2>4, <2>5 DEF IndexBlock
<1>4. CASE ListUnspent
  <2>1. pc = "unspent" /\ pc' \in {"verify_anchor", "failed"}
    BY <1>4, ListUnspentStep
  <2> QED
    BY <2>1 DEF CallsLeft, HeightsLeft, StagesLeft, WithinWord
<1>5. CASE VerifyNodeAnchor("verify_context") \/ VerifyChainContext
  <2>1. \/ pc = "verify_anchor" /\ pc' \in {"verify_context", "failed"}
        \/ pc = "verify_context" /\ pc' \in {"done", "failed"}
    BY <1>5 DEF VerifyNodeAnchor, VerifyChainContext
  <2> QED
    BY <2>1 DEF CallsLeft, HeightsLeft, StagesLeft, WithinWord
<1>6. CASE Fail /\ UNCHANGED localVars
  <2>1. pc \notin {"done", "failed"} /\ pc' = "failed"
    BY <1>6 DEF Fail, Ended
  <2>2. CallsLeft' = 0 /\ WithinWord'
    BY <2>1 DEF CallsLeft, HeightsLeft, StagesLeft, WithinWord
  <2>3. StagesLeft[pc] \in 1..6
    BY <2>1 DEF TypeOK, StagesLeft
  <2>4. HeightsLeft \in Nat
    <3>1. pc \in {"anchor", "index"} =>
            Height[info] \in Nat /\ height \in Nat /\ height <= Height[info]
      BY BlockTreeTypes DEF TypeOK, Control
    <3> QED
      BY <1>0, <3>1 DEF HeightsLeft
  <2> QED
    BY <2>2, <2>3, <2>4 DEF CallsLeft
<1> QED
  BY <1>1, <1>2, <1>3, <1>4, <1>5, <1>6 DEF PlannerNext

(* Planning with the node ends, if its calls return, however the chain grows: after *)
(* the chain info it makes at most a call for each height up to the one it was      *)
(* told, and four more, and no step of the services adds one.                       *)
THEOREM CallsAreBounded ==
  Spec => /\ [](CallsLeft \in 0..(MaxU32 + 6))
          /\ [][/\ CallsLeft' <= CallsLeft
                /\ PlannerNext /\ UNCHANGED envVars => CallsLeft' < CallsLeft]_vars
<1> DEFINE I == TypeOK /\ Control /\ WithinWord /\ CallsLeft \in 0..(MaxU32 + 6)
<1>1. Init => I
  <2> SUFFICES ASSUME Init
               PROVE  I
    OBVIOUS
  <2>1. pc = "info" /\ MaxU32 \in Nat
    BY PlannerTypes DEF Init, PlannerInit
  <2>2. CallsLeft = 6 + MaxU32 /\ WithinWord
    BY <2>1 DEF CallsLeft, HeightsLeft, StagesLeft, WithinWord
  <2> QED
    BY <2>1, <2>2, InitTyped
<1>2. ASSUME I, [Next]_vars
      PROVE  /\ I' /\ CallsLeft' <= CallsLeft
             /\ PlannerNext /\ UNCHANGED envVars => CallsLeft' < CallsLeft
  <2>1. TypeOK' /\ Control' /\ MaxU32 \in Nat
    BY <1>2, StepTyped, PlannerTypes
  <2>2. CASE PlannerNext /\ UNCHANGED envVars
    <3>1. WithinWord' /\ CallsLeft' < CallsLeft
      BY <1>2, <2>2, CallsDescend
    <3>2. (TypeOK /\ Control /\ WithinWord => CallsLeft \in Nat)'
      BY CallsTyped, PTL
    <3>3. CallsLeft' \in Nat
      BY <2>1, <3>1, <3>2
    <3> QED
      BY <1>2, <2>1, <3>1, <3>3
  <2>3. CASE UNCHANGED <<plannerVars, localVars>> /\ ~(PlannerNext /\ UNCHANGED envVars)
    <3>1. WithinWord' /\ CallsLeft' = CallsLeft
      BY <1>2, <2>3 DEF WithinWord, CallsLeft, HeightsLeft, StagesLeft, plannerVars, localVars
    <3> QED
      BY <1>2, <2>1, <2>3, <3>1
  <2> QED
    BY <1>2, <2>2, <2>3 DEF Next, Terminated, vars
<1> QED
  <2>1. I /\ [Next]_vars => I'
    BY <1>2
  <2>2. I /\ [Next]_vars =>
          [/\ CallsLeft' <= CallsLeft
           /\ PlannerNext /\ UNCHANGED envVars => CallsLeft' < CallsLeft]_vars
    BY <1>2
  <2>3. I => CallsLeft \in 0..(MaxU32 + 6)
    OBVIOUS
  <2> HIDE DEF I
  <2> QED
    BY <1>1, <2>1, <2>2, <2>3, PTL DEF Spec
=============================================================================
