------------------------- MODULE ScanPlannerProofs -------------------------
(***************************************************************************)
(* Scanner mode: types, and the safety of the plans returned, for every    *)
(* block tree, wallet and request; that paging and filtering, while the    *)
(* chain and the scanner move, lose no note of a sweep that can be spent   *)
(* at the anchor; and last, that a recheck does not pass a note that a     *)
(* transaction of the mempool goes on spending.                            *)
(***************************************************************************)
EXTENDS ScanPlanner, PlannerProofs

(* The pages of the scanner hold well-typed notes. *)
LEMMA WalletNotesTyped ==
  ASSUME EnvType
  PROVE  WalletNotes \subseteq ListedNotes
<1> SUFFICES ASSUME NEW m \in UnspentAt(scan)
             PROVE  [id |-> m, height |-> Height[MinedIn(scan, m)],
                     position |-> PositionIn(Tree[scan], m)] \in ListedNotes
  BY DEF WalletNotes
<1>1. scan \in Blocks /\ m \in Range(Tree[scan]) /\ m \in Notes
  BY BlockTreeTypes DEF EnvType, UnspentAt
<1>2. MinedIn(scan, m) \in Blocks
  BY <1>1, MinedInChain
<1>3. Height[MinedIn(scan, m)] \in Nat
  BY <1>2, BlockTreeTypes
<1>4. PositionIn(Tree[scan], m) \in Nat
  BY <1>1, LeafPosition
<1> QED
  BY <1>1, <1>3, <1>4 DEF ListedNotes

LEMMA InitTyped == Init => TypeOK /\ Control
BY BlockTreeTypes, EnvTypes, PlannerTypes
   DEF Init, EnvInit, PlannerInit, TypeOK, EnvType, Control, Captured, Planned

(* Every step keeps the types, and what each point of the planning has read. *)
LEMMA StepTyped == TypeOK /\ Control /\ [Next]_vars => TypeOK' /\ Control'
<1> SUFFICES ASSUME TypeOK, Control, [Next]_vars
             PROVE  TypeOK' /\ Control'
  OBVIOUS
<1> USE DEF Captured, Planned
<1>1. ASSUME EnvNext, UNCHANGED <<plannerVars, localVars>>
      PROVE  TypeOK' /\ Control'
  <2>1. EnvType'
    BY <1>1, EnvTyped DEF TypeOK
  <2> QED
    BY <2>1, <1>1 DEF TypeOK, Control, plannerVars, localVars
<1>2. ASSUME GetChainInfo, UNCHANGED localVars, UNCHANGED envVars
      PROVE  TypeOK' /\ Control'
  BY <1>2 DEF TypeOK, Control, GetChainInfo, localVars, envVars, EnvType
<1>3. ASSUME CaptureNodeAnchor("health"), UNCHANGED localVars, UNCHANGED envVars
      PROVE  TypeOK' /\ Control'
  <2>1. CASE Height[info] <= Height[node]
    <3>1. /\ snap' = At(node, Height[info]) /\ pc' = "health" /\ pc = "anchor"
          /\ info \in Blocks /\ node \in Blocks
      BY <1>3, <2>1 DEF CaptureNodeAnchor, Control, TypeOK, EnvType
    <3>2. snap' \in Blocks /\ Height[snap'] = Height[info]
      BY <3>1, <2>1, AtHeight, BlockTreeTypes
    <3> QED
      BY <1>3, <3>1, <3>2 DEF CaptureNodeAnchor, TypeOK, Control, localVars, envVars, EnvType
  <2>2. CASE ~(Height[info] <= Height[node])
    BY <1>3, <2>2 DEF CaptureNodeAnchor, TypeOK, Control, localVars, envVars, EnvType
  <2> QED
    BY <2>1, <2>2
<1>4. ASSUME CaptureScannerAnchor, UNCHANGED envVars
      PROVE  TypeOK' /\ Control'
  BY <1>4 DEF CaptureScannerAnchor, TypeOK, Control, localVars, envVars, EnvType
<1>5. ASSUME NEW s \in {"list", "recheck"}, NEW x \in {"select", "compare"},
             s = "list" <=> x = "select", ListPage(s, x), UNCHANGED envVars
      PROVE  TypeOK' /\ Control'
  <2>1. {m \in Page : Spendable(m)} \subseteq ListedNotes /\ Page \subseteq ListedNotes
    BY WalletNotesTyped DEF Page, Remaining, TypeOK
  <2>2. listed' \subseteq ListedNotes
    BY <1>5, <2>1 DEF ListPage, TypeOK
  <2>3. cursor' \in Nat
    BY <1>5, <2>1 DEF ListPage, TypeOK, ListedNotes
  <2>4. /\ pc = s /\ pc' \in {s, x, "failed"}
        /\ UNCHANGED <<info, snap, plan, kind, selected, cache, found>>
    BY <1>5 DEF ListPage
  <2> QED
    BY <1>5, <2>2, <2>3, <2>4 DEF TypeOK, Control, envVars, EnvType
<1>6. ASSUME SelectNotes, UNCHANGED envVars
      PROVE  TypeOK' /\ Control'
  <2>1. PICK k \in Kinds :
          /\ kind' = k
          /\ \/ pc' = "failed" /\ UNCHANGED selected
             \/ pc' = "actions" /\ selected' \in Selections(k, Candidates)
    BY <1>6 DEF SelectNotes
  <2>2. selected' \subseteq ListedNotes
    BY <2>1 DEF Selections, Candidates, TypeOK
  <2> QED
    BY <1>6, <2>1, <2>2 DEF SelectNotes, TypeOK, Control, envVars, EnvType
<1>7. ASSUME FetchAction, UNCHANGED envVars
      PROVE  TypeOK' /\ Control'
  <2>1. PICK m \in selected :
          IF BlockServed(m) /\ m.id \in Range(Acts[BlockFor(m)])
          THEN /\ cache' = [h \in DOMAIN cache \cup {m.height} |->
                              IF h = m.height THEN BlockFor(m) ELSE cache[h]]
               /\ found' = found \cup {m.id}
               /\ pc' \in {pc, "witness"}
          ELSE pc' = "failed" /\ UNCHANGED <<cache, found>>
    BY <1>7 DEF FetchAction
  <2>2. m.id \in Notes /\ m.height \in Nat
    BY DEF TypeOK, ListedNotes
  <2>3. BlockServed(m) => BlockFor(m) \in Blocks
    <3>1. node \in Blocks /\ (m.height \in DOMAIN cache => cache[m.height] \in Blocks)
      BY DEF TypeOK, EnvType
    <3>2. m.height <= Height[node] => At(node, m.height) \in Blocks
      BY <2>2, <3>1, AtHeight
    <3> QED
      BY <3>1, <3>2 DEF BlockServed, BlockFor
  <2>4. DOMAIN cache' \subseteq Nat /\ \A h \in DOMAIN cache' : cache'[h] \in Blocks
    BY <2>1, <2>2, <2>3 DEF TypeOK
  <2>5. found' \subseteq Notes
    BY <2>1, <2>2 DEF TypeOK
  <2> QED
    BY <1>7, <2>1, <2>4, <2>5 DEF FetchAction, TypeOK, Control, envVars, EnvType
<1>8. ASSUME OrchardWitness, UNCHANGED envVars
      PROVE  TypeOK' /\ Control'
  <2>1. PICK h \in {Height[snap], Height[scan]} :
          IF WitnessAnswer(h) /\ h = Height[snap] /\ Expirable(Height[snap])
          THEN /\ plan' = MakePlan(kind, h, Tree[At(scan, h)],
                            {[id |-> m.id, position |-> m.position] : m \in selected})
               /\ pc' = "recheck"
          ELSE pc' = "failed" /\ UNCHANGED plan
    BY <1>8 DEF OrchardWitness
  <2>2. pc = "witness" /\ snap \in Blocks /\ info \in Blocks /\ kind \in Kinds /\ scan \in Blocks
    BY <1>8 DEF OrchardWitness, Control, TypeOK, EnvType
  <2>3. ASSUME WitnessAnswer(h), h = Height[snap], Expirable(Height[snap])
        PROVE  /\ MakePlan(kind, h, Tree[At(scan, h)],
                    {[id |-> m.id, position |-> m.position] : m \in selected}) \in Plans
               /\ MakePlan(kind, h, Tree[At(scan, h)],
                    {[id |-> m.id, position |-> m.position] : m \in selected}).anchorHeight
                  = Height[snap]
    <3>1. h \in Nat /\ h <= Height[scan]
      BY <2>2, <2>3, BlockTreeTypes DEF WitnessAnswer
    <3>2. Tree[At(scan, h)] \in Seq(Notes)
      BY <3>1, <2>2, AtHeight, BlockTreeTypes
    <3>3. {[id |-> m.id, position |-> m.position] : m \in selected} \in SUBSET PlanNotes
      BY DEF TypeOK, ListedNotes, PlanNotes
    <3> QED
      BY <2>2, <2>3, <3>1, <3>2, <3>3, PlanTyped DEF MakePlan
  <2>4. /\ plan' \in Plans \cup {None}
        /\ pc' = "recheck" => plan' \in Plans /\ plan'.anchorHeight = Height[snap]
    BY <2>1, <2>3 DEF TypeOK
  <2>5. pc' \in {"recheck", "failed"}
    BY <2>1
  <2> QED
    BY <1>8, <2>2, <2>4, <2>5 DEF OrchardWitness, TypeOK, Control, envVars, EnvType
<1>9. ASSUME VerifySelectedNotes, UNCHANGED envVars
      PROVE  TypeOK' /\ Control'
  BY <1>9 DEF VerifySelectedNotes, TypeOK, Control, envVars, EnvType
<1>10. ASSUME VerifyNodeAnchor("verify_health"), UNCHANGED localVars, UNCHANGED envVars
       PROVE  TypeOK' /\ Control'
  BY <1>10 DEF VerifyNodeAnchor, TypeOK, Control, localVars, envVars, EnvType
<1>11. ASSUME VerifyScannerHealth, UNCHANGED envVars
       PROVE  TypeOK' /\ Control'
  BY <1>11 DEF VerifyScannerHealth, TypeOK, Control, localVars, envVars, EnvType
<1>12. ASSUME VerifyChainContext, UNCHANGED localVars, UNCHANGED envVars
       PROVE  TypeOK' /\ Control'
  BY <1>12 DEF VerifyChainContext, TypeOK, Control, localVars, envVars, EnvType
<1>13. ASSUME Fail, UNCHANGED localVars, UNCHANGED envVars
       PROVE  TypeOK' /\ Control'
  BY <1>13 DEF Fail, TypeOK, Control, localVars, envVars, EnvType
<1>14. ASSUME UNCHANGED vars
       PROVE  TypeOK' /\ Control'
  BY <1>14 DEF vars, plannerVars, localVars, envVars, TypeOK, EnvType, Control
<1> QED
  BY <1>1, <1>2, <1>3, <1>4, <1>5, <1>6, <1>7, <1>8, <1>9, <1>10, <1>11, <1>12, <1>13, <1>14
     DEF Next, PlannerNext, Call, Terminated

(* Every variable of the scanner planner keeps its type, whatever the block  *)
(* tree, the request and the moves of the node and the scanner.              *)
THEOREM TypeCorrect == Spec => []TypeOK
<1>1. Spec => [](TypeOK /\ Control)
  BY InitTyped, StepTyped, PTL DEF Spec
<1> QED
  BY <1>1, PTL

-----------------------------------------------------------------------------
(* A note the scanner lists while the anchor is on its chain, and that passes  *)
(* the filters, is spendable and confirmed at the anchor, at that position.    *)
LEMMA ListedAtAnchor ==
  ASSUME EnvType, snap \in Blocks, snap \in Chain[scan],
         NEW e \in WalletNotes, Spendable(e)
  PROVE  AtAnchor(e)
<1>1. PICK m \in UnspentAt(scan) :
        e = [id |-> m, height |-> Height[MinedIn(scan, m)],
             position |-> PositionIn(Tree[scan], m)]
  BY DEF WalletNotes
<1>2. scan \in Blocks /\ m \in Wallet /\ m \in Range(Tree[scan]) /\ m \notin SpentOn(scan)
  BY DEF EnvType, UnspentAt
<1>3. e.id = m /\ e.height = Height[MinedIn(scan, m)] /\ e.position = PositionIn(Tree[scan], m)
  BY <1>1
<1>4. Height[MinedIn(scan, m)] <= Height[snap] /\ Height[snap] - e.height + 1 >= MinConf
  BY <1>3 DEF Spendable
<1>5. /\ m \in Range(Tree[snap])
      /\ e.position + 1 \in DOMAIN Tree[snap]
      /\ Tree[snap][e.position + 1] = m
  BY <1>2, <1>3, <1>4, LeafBelow
<1>6. m \notin SpentOn(snap)
  BY <1>2, ChainTransitive DEF SpentOn
<1>7. MinedIn(scan, m) = MinedIn(snap, m)
  BY <1>2, <1>5, MinedSame
<1> QED
  BY <1>2, <1>3, <1>4, <1>5, <1>6, <1>7 DEF AtAnchor, UnspentAt, Confirmations

(* A step of the services keeps what was read grounded in the anchor. *)
LEMMA EnvGrounded ==
  ASSUME TypeOK, Control, Grounded, Readopt = FALSE,
         EnvNext, UNCHANGED <<plannerVars, localVars>>
  PROVE  Grounded'
<1>1. EnvType
  BY DEF TypeOK
<1>2. NodeClean'
  BY <1>1, EnvClean DEF Grounded
<1>3. /\ UNCHANGED <<pc, snap, plan, listed, selected>>
      /\ Captured' <=> Captured
      /\ Planned' <=> Planned
      /\ Verified' <=> Verified
      /\ PlanAtAnchor' <=> PlanAtAnchor
      /\ \A e : AtAnchor(e)' <=> AtAnchor(e)
  BY DEF plannerVars, localVars, Captured, Planned, Verified, PlanAtAnchor, AtAnchor
<1>4. Captured => snap \in left' \cup Chain[node'] /\ (Lost => Lost')
  BY <1>1, <1>3, EnvKeepsCanonical DEF Grounded, Lost
<1>5. Captured /\ pc # "health" => snap \in left' \cup Chain[scan']
  BY <1>1, EnvKeepsIndexed DEF Grounded, Control
<1> QED
  BY <1>2, <1>3, <1>4, <1>5 DEF Grounded, Captured, Planned

(* Every step of the planner does too. *)
LEMMA PlannerGrounded ==
  ASSUME TypeOK, Control, Grounded, PlannerNext, UNCHANGED envVars
  PROVE  Grounded'
<1> USE DEF Captured, Planned, Verified
<1>0. /\ UNCHANGED <<node, scan, left>>
      /\ NodeClean'
      /\ node \in Blocks /\ scan \in Blocks /\ EnvType
  BY DEF envVars, Grounded, NodeClean, TypeOK, EnvType
<1>1. CASE GetChainInfo /\ UNCHANGED localVars
  BY <1>0, <1>1 DEF GetChainInfo, Grounded
<1>2. CASE CaptureNodeAnchor("health") /\ UNCHANGED localVars
  <2>1. CASE pc' = "health"
    <3>1. snap' = At(node, Height[info]) /\ info \in Blocks /\ Height[info] <= Height[node]
      BY <1>2, <2>1 DEF CaptureNodeAnchor, Control
    <3>2. snap' \in Chain[node]
      BY <1>0, <3>1, AtHeight, BlockTreeTypes
    <3> QED
      BY <1>0, <2>1, <3>2 DEF Grounded
  <2>2. CASE pc' = "failed"
    BY <1>0, <2>2 DEF Grounded
  <2> QED
    BY <1>2, <2>1, <2>2 DEF CaptureNodeAnchor
<1>3. CASE CaptureScannerAnchor
  <2>1. CASE pc' = "list"
    <3>1. snap \in Blocks /\ scan = snap /\ listed' = {} /\ snap' = snap
      BY <1>3, <2>1 DEF CaptureScannerAnchor, ScannerAtAnchor, Control, localVars
    <3>2. snap \in Chain[scan]
      BY <3>1, ChainShape
    <3> QED
      BY <1>0, <1>3, <2>1, <3>1, <3>2 DEF CaptureScannerAnchor, Grounded
  <2>2. CASE pc' = "failed"
    BY <1>0, <2>2 DEF Grounded
  <2> QED
    BY <1>3, <2>1, <2>2 DEF CaptureScannerAnchor
<1>4. CASE ListPage("list", "select")
  <2>1. /\ pc = "list" /\ pc' \in {"list", "select", "failed"} /\ UNCHANGED <<snap, plan>>
        /\ listed' \in {listed, listed \cup {e \in Page : Spendable(e)}}
    BY <1>4 DEF ListPage
  <2>2. Lost \/ \A e \in listed' : AtAnchor(e)
    <3>1. CASE Lost
      BY <3>1
    <3>2. CASE ~Lost
      <4>1. snap \in Blocks /\ snap \in Chain[scan]
        BY <2>1, <3>2 DEF Grounded, Control, Lost
      <4>2. \A e \in Page : Spendable(e) => AtAnchor(e)
        BY <1>0, <4>1, ListedAtAnchor DEF Page, Remaining
      <4>3. \A e \in listed : AtAnchor(e)
        BY <2>1, <3>2 DEF Grounded
      <4> QED
        BY <2>1, <4>2, <4>3
    <3> QED
      BY <3>1, <3>2
  <2>3. Lost' \/ \A e \in listed' : AtAnchor(e)'
    BY <1>0, <2>1, <2>2 DEF Lost, AtAnchor
  <2> QED
    BY <1>0, <2>1, <2>3 DEF Grounded
<1>5. CASE SelectNotes
  <2>1. /\ pc = "select" /\ pc' \in {"actions", "failed"} /\ UNCHANGED <<snap, plan>>
        /\ pc' = "actions" => selected' \subseteq {e \in listed : e.id \notin Excluded}
    BY <1>5 DEF SelectNotes, Selections, Candidates
  <2>2. pc' = "actions" => Lost' \/ \A e \in selected' : AtAnchor(e)' /\ e.id \notin Excluded
    BY <1>0, <2>1 DEF Grounded, Lost, AtAnchor
  <2> QED
    BY <1>0, <2>1, <2>2 DEF Grounded
<1>6. CASE FetchAction
  <2>1. /\ pc = "actions" /\ pc' \in {"actions", "witness", "failed"}
        /\ UNCHANGED <<snap, plan, selected>>
    BY <1>6 DEF FetchAction
  <2>2. Lost' \/ \A e \in selected' : AtAnchor(e)' /\ e.id \notin Excluded
    BY <1>0, <2>1 DEF Grounded, Lost, AtAnchor
  <2> QED
    BY <1>0, <2>1, <2>2 DEF Grounded
<1>7. CASE OrchardWitness
  <2>1. CASE pc' = "recheck"
    <3>1. /\ pc = "witness" /\ snap' = snap /\ snap \in Blocks
          /\ plan' = MakePlan(kind, Height[snap], Tree[At(scan, Height[snap])],
                       {[id |-> e.id, position |-> e.position] : e \in selected})
      BY <1>7, <2>1 DEF OrchardWitness, Control
    <3>2. /\ plan'.anchor = Tree[At(scan, Height[snap])]
          /\ plan'.notes = {[id |-> e.id, position |-> e.position] : e \in selected}
      BY <3>1 DEF MakePlan
    <3>3. ASSUME ~Lost
          PROVE  PlanAtAnchor'
      <4>1. snap \in Chain[scan] /\ \A e \in selected : AtAnchor(e) /\ e.id \notin Excluded
        BY <3>1, <3>3 DEF Grounded, Lost
      <4>2. At(scan, Height[snap]) = snap
        BY <1>0, <4>1, AtUnique
      <4>3. \A x \in plan'.notes : AtAnchor(x)' /\ x.id \notin Excluded
        BY <3>1, <3>2, <4>1 DEF AtAnchor
      <4> QED
        BY <3>1, <3>2, <4>2, <4>3 DEF PlanAtAnchor
    <3>4. Lost' \/ PlanAtAnchor'
      BY <1>0, <3>1, <3>3 DEF Lost
    <3> QED
      BY <1>0, <2>1, <3>1, <3>4 DEF Grounded
  <2>2. CASE pc' = "failed"
    BY <1>0, <2>2 DEF Grounded
  <2> QED
    BY <1>7, <2>1, <2>2 DEF OrchardWitness
<1>8. CASE ListPage("recheck", "compare") \/ VerifySelectedNotes
  <2>1. /\ pc \in {"recheck", "compare"}
        /\ pc' \in {"recheck", "compare", "verify_anchor", "failed"}
        /\ UNCHANGED <<snap, plan>>
    BY <1>8 DEF ListPage, VerifySelectedNotes
  <2>2. Lost' \/ PlanAtAnchor'
    BY <1>0, <2>1 DEF Grounded, Lost, PlanAtAnchor, AtAnchor
  <2> QED
    BY <1>0, <2>1, <2>2 DEF Grounded
<1>9. CASE VerifyNodeAnchor("verify_health") /\ UNCHANGED localVars
  <2>1. CASE pc' = "verify_health"
    <3>1. /\ pc = "verify_anchor" /\ snap \in Blocks /\ UNCHANGED <<snap, plan>>
          /\ Height[snap] <= Height[node] /\ At(node, Height[snap]) = snap
      BY <1>9, <2>1 DEF VerifyNodeAnchor, AnchorStands, Control
    <3>2. snap \in Chain[node]
      BY <1>0, <3>1, AtHeight, BlockTreeTypes
    <3>3. ~Lost
      BY <3>2 DEF Lost, Grounded, NodeClean
    <3>4. PlanAtAnchor'
      BY <3>1, <3>3 DEF Grounded, PlanAtAnchor, AtAnchor
    <3> QED
      BY <1>0, <2>1, <3>1, <3>4 DEF Grounded
  <2>2. CASE pc' = "failed"
    BY <1>0, <2>2 DEF Grounded
  <2> QED
    BY <1>9, <2>1, <2>2 DEF VerifyNodeAnchor
<1>10. CASE VerifyScannerHealth \/ (VerifyChainContext /\ UNCHANGED localVars)
  <2>1. /\ pc \in {"verify_health", "verify_context"}
        /\ pc' \in {"verify_context", "done", "failed"}
        /\ UNCHANGED <<snap, plan>>
    BY <1>10 DEF VerifyScannerHealth, VerifyChainContext
  <2>2. PlanAtAnchor'
    BY <2>1 DEF Grounded, PlanAtAnchor, AtAnchor
  <2> QED
    BY <1>0, <2>1, <2>2 DEF Grounded
<1>11. CASE Fail /\ UNCHANGED localVars
  BY <1>0, <1>11 DEF Fail, Grounded
<1> QED
  BY <1>1, <1>2, <1>3, <1>4, <1>5, <1>6, <1>7, <1>8, <1>9, <1>10, <1>11 DEF PlannerNext, Call

LEMMA InitGrounded == Init => Grounded
BY DEF Init, EnvInit, PlannerInit, Grounded, NodeClean, Captured, Planned, Verified

LEMMA StepGrounded ==
  ASSUME Readopt = FALSE
  PROVE  TypeOK /\ Control /\ Grounded /\ [Next]_vars => Grounded'
<1> SUFFICES ASSUME TypeOK, Control, Grounded, [Next]_vars
             PROVE  Grounded'
  OBVIOUS
<1>1. CASE UNCHANGED vars
  BY <1>1 DEF vars, envVars, plannerVars, localVars, Grounded, NodeClean, Captured, Planned,
              Verified, Lost, PlanAtAnchor, AtAnchor
<1>2. CASE Next
  BY <1>1, <1>2, EnvGrounded, PlannerGrounded DEF Next, Terminated
<1> QED
  BY <1>1, <1>2

LEMMA InitOfOneNetwork == Init => OfOneNetwork
BY DEF Init, PlannerInit, OfOneNetwork, Captured, Planned

(* Every step keeps the plan of one network. *)
LEMMA StepOfOneNetwork ==
  ASSUME Readopt = FALSE
  PROVE  TypeOK /\ Control /\ Grounded /\ OfOneNetwork /\ [Next]_vars => OfOneNetwork'
<1> SUFFICES ASSUME TypeOK, Control, Grounded, OfOneNetwork, [Next]_vars
             PROVE  OfOneNetwork'
  OBVIOUS
<1>0. EnvType /\ NodeClean
  BY DEF TypeOK, Grounded
<1>1. CASE EnvNext /\ UNCHANGED <<plannerVars, localVars>>
  BY <1>0, <1>1, EnvKeepsNetwork
<1>2. CASE PlannerNext /\ UNCHANGED envVars
  <2> USE DEF Captured, Planned
  <2>0. UNCHANGED <<node, left>> /\ UNCHANGED envVars
    BY <1>2 DEF envVars
  <2>1. CASE GetChainInfo
    BY <1>0, <2>0, <2>1, ChainInfoNetwork
  <2>2. CASE CaptureNodeAnchor("health")
    <3>1. info \in Blocks
      BY <2>2 DEF CaptureNodeAnchor, Control
    <3> QED
      BY <1>0, <2>0, <2>2, <3>1, AnchorNetwork
  <2>3. CASE CaptureScannerAnchor
    BY <2>0, <2>3, KeepsNetwork DEF CaptureScannerAnchor
  <2>4. ASSUME NEW s \in {"list", "recheck"}, NEW x \in {"select", "compare"},
               s = "list" <=> x = "select", ListPage(s, x)
        PROVE  OfOneNetwork'
    <3>1. pc = s /\ pc' \in {s, x, "failed"} /\ UNCHANGED <<info, snap, plan>>
      BY <2>4 DEF ListPage
    <3> QED
      BY <2>0, <2>4, <3>1, KeepsNetwork DEF OfOneNetwork
  <2>5. CASE SelectNotes
    <3>1. pc = "select" /\ pc' \in {"actions", "failed"} /\ UNCHANGED <<info, snap, plan>>
      BY <2>5 DEF SelectNotes
    <3> QED
      BY <2>0, <3>1, KeepsNetwork
  <2>6. CASE FetchAction
    <3>1. pc = "actions" /\ pc' \in {"actions", "witness", "failed"} /\ UNCHANGED <<info, snap, plan>>
      BY <2>6 DEF FetchAction
    <3> QED
      BY <2>0, <3>1, KeepsNetwork
  <2>7. CASE OrchardWitness
    <3>1. /\ pc = "witness" /\ pc' \in {"recheck", "failed"} /\ UNCHANGED <<info, snap>>
          /\ pc' = "recheck" => \E h, t, S : plan' = MakePlan(kind, h, t, S)
      BY <2>7 DEF OrchardWitness
    <3> QED
      BY <2>0, <3>1, KeepsNetwork DEF MakePlan
  <2>8. CASE VerifySelectedNotes
    BY <2>0, <2>8, KeepsNetwork DEF VerifySelectedNotes, OfOneNetwork
  <2>9. CASE VerifyNodeAnchor("verify_health")
    BY <2>0, <2>9, KeepsNetwork DEF VerifyNodeAnchor, OfOneNetwork
  <2>10. CASE VerifyScannerHealth
    BY <2>0, <2>10, KeepsNetwork DEF VerifyScannerHealth, OfOneNetwork
  <2>11. CASE VerifyChainContext
    <3>1. info \in Blocks
      BY <2>11 DEF VerifyChainContext, Control
    <3> QED
      BY <1>0, <2>0, <2>11, <3>1, ContextNetwork
  <2>12. CASE Fail
    BY <2>0, <2>12, KeepsNetwork DEF Fail
  <2> QED
    BY <1>2, <2>1, <2>2, <2>3, <2>4, <2>5, <2>6, <2>7, <2>8, <2>9, <2>10, <2>11, <2>12
       DEF PlannerNext, Call
<1>3. CASE UNCHANGED vars
  BY <1>3 DEF vars, envVars, plannerVars, OfOneNetwork, Captured, Planned
<1> QED
  BY <1>1, <1>2, <1>3 DEF Next, Terminated

-----------------------------------------------------------------------------
(* The scanner lists finitely many notes, and a choice of them has no more ids *)
(* than notes.                                                                 *)
LEMMA WalletNotesFinite ==
  ASSUME EnvType
  PROVE  IsFiniteSet(WalletNotes)
<1> DEFINE f == [m \in UnspentAt(scan) |->
                   [id |-> m, height |-> Height[MinedIn(scan, m)],
                    position |-> PositionIn(Tree[scan], m)]]
<1>1. f \in Surjection(UnspentAt(scan), WalletNotes)
  BY DEF Surjection, WalletNotes
<1>2. IsFiniteSet(UnspentAt(scan))
  BY UnspentFinite DEF EnvType
<1> QED
  BY <1>1, <1>2, FS_Surjection

LEMMA IdsNoMore ==
  ASSUME NEW S, IsFiniteSet(S), Cardinality(S) <= SpendLimit
  PROVE  IsFiniteSet(Ids(S)) /\ Cardinality(Ids(S)) <= SpendLimit
<1> DEFINE f == [e \in S |-> e.id]
<1>1. f \in Surjection(S, Ids(S))
  BY DEF Surjection, Ids
<1>2. IsFiniteSet(Ids(S)) /\ Cardinality(Ids(S)) <= Cardinality(S)
  BY <1>1, FS_Surjection
<1>3. Cardinality(S) \in Nat /\ Cardinality(Ids(S)) \in Nat
  BY <1>2, FS_CardinalityType
<1> QED
  BY <1>2, <1>3, PlannerTypes

LEMMA InitSized == Init => Sized
BY FS_EmptySet DEF Init, PlannerInit, Sized, Planned

(* A selection stays within the limit until it is a plan, and the plan after. *)
LEMMA StepSized == TypeOK /\ Control /\ Sized /\ [Next]_vars => Sized'
<1> SUFFICES ASSUME TypeOK, Control, Sized, [Next]_vars
             PROVE  Sized'
  OBVIOUS
<1> USE DEF Planned, Sized
<1>0. EnvType
  BY DEF TypeOK
<1>1. CASE UNCHANGED <<pc, snap, plan, listed, selected>>
  BY <1>1 DEF WellFormed, PlanIds
<1>2. ASSUME NEW s \in {"list", "recheck"}, NEW x \in {"select", "compare"},
             s = "list" <=> x = "select", ListPage(s, x)
      PROVE  Sized'
  <2>1. IsFiniteSet({e \in Page : Spendable(e)})
    <3>1. {e \in Page : Spendable(e)} \in SUBSET WalletNotes
      BY DEF Page, Remaining
    <3> QED
      BY <1>0, <3>1, WalletNotesFinite, FS_Subset
  <2>2. IsFiniteSet(listed \cup {e \in Page : Spendable(e)})
    BY <2>1, FS_Union
  <2>3. /\ pc = s /\ pc' \in {s, x, "failed"} /\ UNCHANGED <<snap, plan>>
        /\ listed' \in {listed, listed \cup {e \in Page : Spendable(e)}}
    BY <1>2 DEF ListPage
  <2>4. IsFiniteSet(listed')
    BY <2>2, <2>3
  <2> QED
    BY <1>2, <2>3, <2>4 DEF WellFormed, PlanIds
<1>3. CASE SelectNotes
  <2>1. /\ pc = "select" /\ pc' \in {"actions", "failed"} /\ listed' = {}
        /\ pc' = "actions" => \E k \in Kinds : selected' \in Selections(k, Candidates)
    BY <1>3 DEF SelectNotes
  <2>2. IsFiniteSet(listed')
    BY <2>1, FS_EmptySet
  <2>3. CASE pc' = "actions"
    <3>1. /\ selected' \in SUBSET listed /\ selected' # {}
          /\ Cardinality(selected') <= SpendLimit
      BY <2>1, <2>3 DEF Selections, Candidates
    <3>2. IsFiniteSet(selected')
      BY <3>1, FS_Subset
    <3> QED
      BY <2>2, <2>3, <3>1, <3>2
  <2> QED
    BY <2>1, <2>2, <2>3
<1>4. CASE FetchAction
  BY <1>4 DEF FetchAction
<1>5. CASE OrchardWitness
  <2>1. /\ pc = "witness" /\ pc' \in {"recheck", "failed"} /\ UNCHANGED <<listed, snap>>
    BY <1>5 DEF OrchardWitness
  <2>2. CASE pc' = "failed"
    BY <2>1, <2>2
  <2>3. CASE pc' = "recheck"
    <3>1. \E h, t : plan' = MakePlan(kind, h, t,
                      {[id |-> e.id, position |-> e.position] : e \in selected})
      BY <1>5, <2>3 DEF OrchardWitness
    <3>2. /\ plan'.notes = {[id |-> e.id, position |-> e.position] : e \in selected}
          /\ plan'.expiryHeight = ExpiryHeight(Height[snap])
      BY <3>1 DEF MakePlan
    <3>3. PlanIds' = Ids(selected)
      <4>1. PlanIds' = {x.id : x \in plan'.notes}
        BY DEF PlanIds
      <4>2. ASSUME NEW x \in plan'.notes
            PROVE  x.id \in Ids(selected)
        BY <3>2 DEF Ids
      <4>3. ASSUME NEW e \in selected
            PROVE  \E x \in plan'.notes : x.id = e.id
        <5>1. [id |-> e.id, position |-> e.position] \in plan'.notes
          BY <3>2
        <5> QED
          BY <5>1
      <4> QED
        BY <4>1, <4>2, <4>3 DEF Ids
    <3>4. Ids(selected) # {} /\ Cardinality(Ids(selected)) <= SpendLimit
      <4>1. selected # {} /\ IsFiniteSet(selected) /\ Cardinality(selected) <= SpendLimit
        BY <2>1
      <4> QED
        BY <4>1, IdsNoMore DEF Ids
    <3>5. WellFormed'
      BY <2>1, <3>2, <3>3, <3>4 DEF WellFormed, ExpiryHeight
    <3> QED
      BY <2>1, <2>3, <3>5
  <2> QED
    BY <2>1, <2>2, <2>3
<1>6. CASE VerifySelectedNotes
  BY <1>6, FS_EmptySet DEF VerifySelectedNotes, WellFormed, PlanIds
<1>7. CASE UNCHANGED localVars /\ (VerifyNodeAnchor("verify_health") \/ VerifyChainContext)
  BY <1>7 DEF localVars, VerifyNodeAnchor, VerifyChainContext, WellFormed, PlanIds
<1>8. CASE VerifyScannerHealth
  BY <1>8 DEF localVars, VerifyScannerHealth, WellFormed, PlanIds
<1>9. CASE UNCHANGED localVars /\ (GetChainInfo \/ CaptureNodeAnchor("health") \/ Fail)
  BY <1>9 DEF localVars, GetChainInfo, CaptureNodeAnchor, Fail
<1>10. CASE CaptureScannerAnchor
  BY <1>10 DEF localVars, CaptureScannerAnchor
<1> QED
  BY <1>1, <1>2, <1>3, <1>4, <1>5, <1>6, <1>7, <1>8, <1>9, <1>10
     DEF Next, PlannerNext, Call, Terminated, vars, plannerVars, localVars

-----------------------------------------------------------------------------
(* The inductive invariant. *)
THEOREM Invariance ==
  ASSUME Readopt = FALSE
  PROVE  Spec => []IInv
<1>1. Init => IInv
  BY InitTyped, InitGrounded, InitSized, InitOfOneNetwork DEF IInv
<1>2. IInv /\ [Next]_vars => IInv'
  BY StepTyped, StepGrounded, StepSized, StepOfOneNetwork DEF IInv
<1> QED
  BY <1>1, <1>2, PTL DEF Spec

(* Of a node that does not return to blocks it has abandoned, every plan that *)
(* is returned has the anchor, the height and the positions of one block, the *)
(* captured one, however its many calls interleaved with reorganisations.     *)
THEOREM PlansAreSnapshots ==
  ASSUME Readopt = FALSE
  PROVE  Spec => []SnapshotConsistent
<1>1. IInv => SnapshotConsistent
  BY DEF IInv, Control, Grounded, Planned, Verified, PlanAtAnchor, AtAnchor, SnapshotConsistent
<1> QED
  BY <1>1, Invariance, PTL

(* And it spends only notes of the wallet, not excluded, unspent on the chain *)
(* of that block.                                                             *)
THEOREM PlansAreSpendable ==
  ASSUME Readopt = FALSE
  PROVE  Spec => []NotesSpendableAtAnchor
<1>1. IInv => NotesSpendableAtAnchor
  BY DEF IInv, Grounded, Verified, PlanAtAnchor, AtAnchor, NotesSpendableAtAnchor, PlanIds
<1> QED
  BY <1>1, Invariance, PTL

(* And each of them has the confirmations asked for at that block. *)
THEOREM PlansAreConfirmed ==
  ASSUME Readopt = FALSE
  PROVE  Spec => []ConfirmedAtAnchor
<1>1. IInv => ConfirmedAtAnchor
  BY DEF IInv, Grounded, Verified, PlanAtAnchor, AtAnchor, ConfirmedAtAnchor, PlanIds
<1> QED
  BY <1>1, Invariance, PTL

(* And its network, coin type and branch are those of that block, although the *)
(* first call that is made reads them and a later one reads the block.         *)
THEOREM PlansAreOfOneNetwork ==
  ASSUME Readopt = FALSE
  PROVE  Spec => []OneNetwork
<1>1. IInv => OneNetwork
  BY NetworksAgree DEF IInv, Control, Captured
<1> QED
  BY <1>1, Invariance, PTL

-----------------------------------------------------------------------------
(* Each step of the planner decides, returns, gives up, or changes nothing of *)
(* what AtomicPlan sees.                                                      *)
LEMMA StepRefines == IInv /\ IInv' /\ [Next]_vars => [Atomic!Next]_Atomic!vars
<1> SUFFICES ASSUME IInv, IInv', [Next]_vars
             PROVE  [Atomic!Next]_Atomic!vars
  OBVIOUS
<1>1. CASE EnvNext /\ UNCHANGED <<plannerVars, localVars>>
  BY <1>1, EnvRefines
<1>2. CASE UNCHANGED vars
  BY <1>2 DEF vars, envVars, plannerVars, Atomic!vars, Atomic!envVars, Stage, Offer
<1>3. CASE PlannerNext /\ UNCHANGED envVars
  <2>1. CASE ~Verified /\ ~Ended /\ ~Verified'
    BY <1>3, <2>1, PlanningRefines
  <2>2. CASE VerifyNodeAnchor("verify_health") /\ pc' = "verify_health"
    <3>1. /\ pc = "verify_anchor" /\ UNCHANGED <<snap, plan>> /\ snap \in Blocks
          /\ Height[snap] <= Height[node] /\ At(node, Height[snap]) = snap
          /\ plan \in Plans /\ plan.anchorHeight = Height[snap]
      BY <2>2 DEF VerifyNodeAnchor, AnchorStands, IInv, Control, Captured, Planned
    <3>2. snap \in Chain[node]
      <4>1. node \in Blocks
        BY DEF IInv, TypeOK, EnvType
      <4>2. Height[snap] \in Nat
        BY <3>1, BlockTreeTypes
      <4>3. At(node, Height[snap]) \in Chain[node]
        BY <3>1, <4>1, <4>2, AtHeight
      <4> QED
        BY <3>1, <4>3
    <3>3. WellFormed
      BY <3>1 DEF IInv, Sized, Planned
    <3>4. PlanAtAnchor
      BY <2>2, <3>1 DEF IInv, Grounded, Verified, PlanAtAnchor, AtAnchor
    <3>5. Offer' = [anchorHeight |-> plan.anchorHeight, anchor |-> plan.anchor,
                    expiryHeight |-> plan.expiryHeight, notes |-> plan.notes]
      BY <2>2, <3>1 DEF Offer
    <3>6. Offer' \in Atomic!Offers(snap)
      BY <3>1, <3>3, <3>4, <3>5, PlanIsOffer DEF PlanAtAnchor, AtAnchor
    <3> QED
      BY <1>3, <2>2, <3>1, <3>2, <3>6, DecisionRefines
  <2>3. CASE VerifyScannerHealth
    <3>1. pc = "verify_health" /\ pc' \in {"verify_context", "failed"} /\ UNCHANGED plan
      BY <2>3 DEF VerifyScannerHealth
    <3> QED
      BY <1>3, <3>1, ClosingRefines
  <2>4. CASE VerifyChainContext
    <3>1. node \in Blocks /\ snap \in Blocks /\ plan \in Plans /\ plan.anchorHeight = Height[snap]
      BY <2>4 DEF VerifyChainContext, IInv, TypeOK, EnvType, Control, Captured, Planned
    <3> QED
      BY <1>3, <2>4, <3>1, ContextRefines
  <2>5. CASE Fail /\ Verified
    <3>1. pc \in {"verify_health", "verify_context"} /\ pc' = "failed" /\ UNCHANGED plan
      BY <2>5 DEF Fail, Verified, Ended
    <3> QED
      BY <1>3, <3>1, ClosingRefines
  <2>6. \/ ~Verified /\ ~Ended /\ ~Verified'
        \/ pc \in {"verify_health", "verify_context"}
        \/ VerifyNodeAnchor("verify_health") /\ pc' = "verify_health"
    BY <1>3 DEF PlannerNext, Call, GetChainInfo, CaptureNodeAnchor, CaptureScannerAnchor, ListPage,
                SelectNotes, FetchAction, OrchardWitness, VerifySelectedNotes, VerifyNodeAnchor,
                VerifyScannerHealth, VerifyChainContext, Fail, Verified, Ended
  <2>7. CASE pc \in {"verify_health", "verify_context"}
    <3>1. VerifyScannerHealth \/ VerifyChainContext \/ (Fail /\ Verified)
      BY <1>3, <2>7
         DEF PlannerNext, Call, GetChainInfo, CaptureNodeAnchor, CaptureScannerAnchor, ListPage,
             SelectNotes, FetchAction, OrchardWitness, VerifySelectedNotes, VerifyNodeAnchor,
             Verified
    <3> QED
      BY <2>3, <2>4, <2>5, <3>1
  <2> QED
    BY <2>1, <2>2, <2>6, <2>7
<1> QED
  BY <1>1, <1>2, <1>3 DEF Next, Terminated

(* Of a node that does not return to blocks it has abandoned: a planner that   *)
(* makes one call after another, to two services, behaves as one that reads    *)
(* the chain at one instant, however the moves of the services fall between.   *)
THEOREM ScanPlannerIsAtomic ==
  ASSUME Readopt = FALSE
  PROVE  Spec => AtomicSpec
<1>1. Init => Atomic!Init
  BY InitRefines DEF Init
<1> QED
  BY <1>1, StepRefines, Invariance, PTL DEF Spec, AtomicSpec, Atomic!Spec

-----------------------------------------------------------------------------
(* What the scanner reports of a sweepable note, while the anchor is on its chain. *)
Entry(m) == [id |-> m, height |-> Height[MinedIn(scan, m)],
             position |-> PositionIn(Tree[scan], m)]

(* A leaf has one position, on the chain of the anchor and above it. *)
LEMMA PositionKept ==
  ASSUME NEW b \in Blocks, NEW c \in Chain[b], NEW m \in Range(Tree[c])
  PROVE  m \in Range(Tree[b]) /\ PositionIn(Tree[b], m) = PositionIn(Tree[c], m)
<1>1. c \in Blocks
  BY BlockTreeTypes
<1> DEFINE k == PositionIn(Tree[c], m) + 1
           l == PositionIn(Tree[b], m) + 1
<1>2. /\ PositionIn(Tree[c], m) \in Nat
      /\ k \in DOMAIN Tree[c] /\ Tree[c][k] = m
  BY <1>1, LeafPosition
<1>3. k \in DOMAIN Tree[b] /\ Tree[b][k] = m
  BY <1>2, TreePrefix
<1>4. m \in Range(Tree[b])
  BY <1>3 DEF Range
<1>5. PositionIn(Tree[b], m) \in Nat /\ l \in DOMAIN Tree[b] /\ Tree[b][l] = m
  BY <1>4, LeafPosition
<1>6. k = l
  BY <1>3, <1>5, LeafOnce
<1> QED
  BY <1>2, <1>4, <1>5, <1>6

(* The scanner lists a sweepable note, and the filters keep it. *)
LEMMA SweepableListed ==
  ASSUME EnvType, snap \in Blocks, snap \in Chain[scan], pending \subseteq MempoolNotes,
         NEW m \in Sweepable
  PROVE  /\ Entry(m) \in WalletNotes
         /\ Spendable(Entry(m))
         /\ Entry(m).id = m
         /\ Entry(m).position = PositionIn(Tree[snap], m)
         /\ Entry(m).position \in Nat
<1>1. /\ scan \in Blocks /\ m \in Wallet /\ m \in Range(Tree[snap]) /\ m \notin pending
      /\ Confirmations(snap, m) >= MinConf
      /\ m \notin SpentOn(scan)
  BY DEF EnvType, Sweepable, UnspentAt
<1>2. m \in Range(Tree[scan]) /\ PositionIn(Tree[scan], m) = PositionIn(Tree[snap], m)
  BY <1>1, PositionKept
<1>3. MinedIn(scan, m) = MinedIn(snap, m)
  BY <1>1, MinedSame
<1>4. MinedIn(snap, m) \in Chain[snap] /\ Height[MinedIn(snap, m)] <= Height[snap]
  BY <1>1, MinedInChain, AtUnique
<1>5. m \in UnspentAt(scan)
  BY <1>1, <1>2 DEF UnspentAt
<1>6. PositionIn(Tree[snap], m) \in Nat
  BY <1>1, LeafPosition
<1> QED
  BY <1>1, <1>2, <1>3, <1>4, <1>5, <1>6 DEF Entry, WalletNotes, Spendable, Confirmations

(* A note that remains to be listed and is not in the page is after all of it. *)
LEMMA AfterPage ==
  ASSUME EnvType, cursor \in Nat,
         NEW e \in Remaining, e \notin Page, NEW last \in Page
  PROVE  last.position < e.position
<1> DEFINE before(x) == {y \in Remaining : y.position < x.position}
<1>1. Remaining \subseteq WalletNotes /\ Page \subseteq Remaining
  BY DEF Remaining, Page
<1>2. \A x \in Remaining : x.position \in Nat
  BY <1>1, WalletNotesTyped DEF ListedNotes
<1>3. IsFiniteSet(Remaining)
  BY <1>1, WalletNotesFinite, FS_Subset
<1>4. ASSUME NEW x \in Remaining
      PROVE  IsFiniteSet(before(x)) /\ Cardinality(before(x)) \in Nat
  BY <1>3, FS_Subset, FS_CardinalityType
<1>5. Cardinality(before(last)) < PageLimit /\ ~(Cardinality(before(e)) < PageLimit)
  BY DEF Page
<1> SUFFICES ASSUME ~(last.position < e.position)
             PROVE  FALSE
  OBVIOUS
<1>6. before(e) \subseteq before(last)
  BY <1>1, <1>2
<1>7. Cardinality(before(e)) <= Cardinality(before(last))
  BY <1>1, <1>4, <1>6, FS_Subset
<1> QED
  BY <1>1, <1>4, <1>5, <1>7, PageTypes

(* One more page: the sweepable notes below the new cursor are listed, and all *)
(* of them once there is no further page.                                      *)
LEMMA PageComplete ==
  ASSUME TypeOK, Control, Grounded, Complete, ~Lost, ListPage("list", "select"),
         NEW m \in Sweepable
  PROVE  /\ pc' = "list" /\ PositionIn(Tree[snap], m) < cursor' => m \in Ids(listed')
         /\ pc' = "select" => m \in Ids(listed')
<1>1. /\ pc = "list" /\ EnvType /\ cursor \in Nat /\ snap \in Blocks /\ snap \in Chain[scan]
      /\ pending \subseteq MempoolNotes
  BY DEF ListPage, TypeOK, Control, Grounded, Captured, Lost, Complete
<1> DEFINE e == Entry(m)
           kept == {x \in Page : Spendable(x)}
<1>2. /\ e \in WalletNotes /\ Spendable(e) /\ e.id = m
      /\ e.position = PositionIn(Tree[snap], m) /\ e.position \in Nat
  BY <1>1, SweepableListed
<1> HIDE DEF e
<1> SUFFICES ASSUME pc' \in {"list", "select"}
             PROVE  /\ pc' = "list" /\ e.position < cursor' => m \in Ids(listed')
                    /\ pc' = "select" => m \in Ids(listed')
  BY <1>2
<1>3. /\ listed' = listed \cup kept
      /\ \/ Page = Remaining /\ pc' = "select"
         \/ /\ Page # Remaining /\ pc' = "list"
            /\ \E last \in Page : cursor' = last.position + 1
  BY <1>1 DEF ListPage
<1>4. CASE e.position < cursor
  <2>1. m \in Ids(listed)
    BY <1>1, <1>2, <1>4 DEF Complete
  <2> QED
    BY <1>3, <2>1 DEF Ids
<1>5. CASE ~(e.position < cursor)
  <2>1. e \in Remaining
    BY <1>1, <1>2, <1>5 DEF Remaining
  <2>2. CASE e \in Page
    <3>1. e \in listed'
      BY <1>2, <1>3, <2>2
    <3> QED
      BY <1>2, <3>1 DEF Ids
  <2>3. CASE e \notin Page
    <3>1. PICK last \in Page : pc' = "list" /\ cursor' = last.position + 1
      BY <1>3, <2>1, <2>3
    <3>2. last.position < e.position
      BY <1>1, <2>1, <2>3, AfterPage
    <3>3. last.position \in Nat
      BY <1>1, WalletNotesTyped DEF Page, Remaining, ListedNotes
    <3> QED
      BY <1>2, <3>1, <3>2, <3>3
  <2> QED
    BY <2>2, <2>3
<1> QED
  BY <1>4, <1>5

-----------------------------------------------------------------------------
LEMMA InitComplete == Init => Complete
BY DEF Init, EnvInit, PlannerInit, Complete, Planned, Verified

(* A step of the services leaves what was listed complete. *)
LEMMA EnvComplete ==
  ASSUME TypeOK, Control, Grounded, Complete, Readopt = FALSE,
         EnvNext, UNCHANGED <<plannerVars, localVars>>
  PROVE  Complete'
<1>1. pending' \subseteq MempoolNotes
  BY DEF EnvNext, NodeMove, ScanAdvance, ScanRollback, MempoolAdd, MempoolDrop, Complete
<1>2. /\ UNCHANGED <<pc, snap, plan, kind, cursor, listed, selected>>
      /\ Sweepable' = Sweepable /\ PlanIds' = PlanIds
      /\ Planned' <=> Planned
      /\ Verified' <=> Verified
  BY DEF plannerVars, localVars, Sweepable, PlanIds, Planned, Verified
<1>3. Captured => (Lost => Lost')
  BY <1>2, EnvKeepsCanonical DEF Grounded, Lost, TypeOK
<1>4. pc \in {"list", "select", "actions", "witness"} \/ Planned => Captured
  BY DEF Planned, Captured
<1> QED
  BY <1>1, <1>2, <1>3, <1>4 DEF Complete

(* Every step of the planner does. *)
LEMMA PlannerComplete ==
  ASSUME TypeOK, Control, Grounded, Complete, PlannerNext, UNCHANGED envVars
  PROVE  Complete'
<1> USE DEF Planned, Verified
<1>0. /\ UNCHANGED <<node, scan, left, pending>>
      /\ pending' \subseteq MempoolNotes
  BY DEF envVars, Complete
<1>1. CASE GetChainInfo /\ UNCHANGED localVars
  BY <1>0, <1>1 DEF GetChainInfo, localVars, Complete
<1>2. CASE CaptureNodeAnchor("health") /\ UNCHANGED localVars
  BY <1>0, <1>2 DEF CaptureNodeAnchor, localVars, Complete
<1>3. CASE CaptureScannerAnchor
  <2>1. pc = "health" /\ pc' \in {"list", "failed"} /\ snap' = snap /\ cursor' = 0
    BY <1>3 DEF CaptureScannerAnchor, localVars, Complete
  <2>2. ASSUME NEW m \in Sweepable', pc' = "list"
        PROVE  ~(PositionIn(Tree[snap'], m) < cursor')
    <3>1. snap' \in Blocks /\ m \in Range(Tree[snap'])
      BY <2>1, <2>2 DEF Control, Captured, Sweepable, UnspentAt
    <3>2. PositionIn(Tree[snap'], m) \in Nat
      BY <3>1, LeafPosition
    <3> QED
      BY <2>1, <3>2
  <2> QED
    BY <1>0, <2>1, <2>2 DEF Complete
<1>4. CASE ListPage("list", "select")
  <2>1. pc = "list" /\ pc' \in {"list", "select", "failed"} /\ snap' = snap
    BY <1>4 DEF ListPage
  <2>2. Sweepable' = Sweepable /\ (Lost' <=> Lost)
    BY <1>0, <2>1 DEF Sweepable, Lost
  <2>3. CASE Lost
    BY <1>0, <2>1, <2>2, <2>3 DEF Complete
  <2>4. CASE ~Lost
    <3>1. \A m \in Sweepable :
            /\ pc' = "list" /\ PositionIn(Tree[snap], m) < cursor' => m \in Ids(listed')
            /\ pc' = "select" => m \in Ids(listed')
      BY <1>4, <2>4, PageComplete
    <3>2. Ids(listed)' = Ids(listed')
      BY DEF Ids
    <3> QED
      BY <1>0, <2>1, <2>2, <3>1, <3>2 DEF Complete
  <2> QED
    BY <2>3, <2>4
<1>5. CASE SelectNotes
  <2>1. /\ pc = "select" /\ pc' \in {"actions", "failed"} /\ snap' = snap
        /\ pc' = "actions" => selected' \in Selections(kind', Candidates)
    BY <1>5 DEF SelectNotes
  <2>2. Sweepable' = Sweepable /\ (Lost' <=> Lost)
    BY <1>0, <2>1 DEF Sweepable, Lost
  <2>3. ASSUME pc' = "actions", kind' = "sweep", ~Lost
        PROVE  Sweepable \ Excluded \subseteq Ids(selected')
    <3>1. selected' = {x \in listed : x.id \notin Excluded}
      BY <2>1, <2>3 DEF Selections, Candidates
    <3>2. Sweepable \subseteq Ids(listed)
      BY <2>1, <2>3 DEF Complete
    <3> QED
      BY <3>1, <3>2 DEF Ids
  <2>4. Ids(selected)' = Ids(selected')
    BY DEF Ids
  <2> QED
    BY <1>0, <2>1, <2>2, <2>3, <2>4 DEF Complete
<1>6. CASE FetchAction
  <2>1. /\ pc = "actions" /\ pc' \in {"actions", "witness", "failed"}
        /\ UNCHANGED <<snap, kind, selected>>
    BY <1>6 DEF FetchAction
  <2>2. Sweepable' = Sweepable /\ (Lost' <=> Lost) /\ Ids(selected)' = Ids(selected)
    BY <1>0, <2>1 DEF Sweepable, Lost, Ids
  <2> QED
    BY <1>0, <2>1, <2>2 DEF Complete
<1>7. CASE OrchardWitness
  <2>1. /\ pc = "witness" /\ pc' \in {"recheck", "failed"} /\ UNCHANGED <<snap, kind>>
        /\ pc' = "recheck" => \E h, t : plan' = MakePlan(kind, h, t,
             {[id |-> x.id, position |-> x.position] : x \in selected})
    BY <1>7 DEF OrchardWitness
  <2>2. Sweepable' = Sweepable /\ (Lost' <=> Lost)
    BY <1>0, <2>1 DEF Sweepable, Lost
  <2>3. ASSUME pc' = "recheck"
        PROVE  plan'.kind = kind /\ Ids(selected) \subseteq PlanIds'
    <3>1. /\ plan'.kind = kind
          /\ plan'.notes = {[id |-> x.id, position |-> x.position] : x \in selected}
      BY <2>1, <2>3 DEF MakePlan
    <3>2. ASSUME NEW x \in selected
          PROVE  \E y \in plan'.notes : y.id = x.id
      <4>1. [id |-> x.id, position |-> x.position] \in plan'.notes
        BY <3>1
      <4> QED
        BY <4>1
    <3> QED
      BY <3>1, <3>2 DEF Ids, PlanIds
  <2> QED
    BY <1>0, <2>1, <2>2, <2>3 DEF Complete
<1>8. CASE ListPage("recheck", "compare") \/ VerifySelectedNotes
  <2>1. /\ pc \in {"recheck", "compare"}
        /\ pc' \in {"recheck", "compare", "verify_anchor", "failed"}
        /\ UNCHANGED <<snap, plan>>
    BY <1>8 DEF ListPage, VerifySelectedNotes
  <2>2. Sweepable' = Sweepable /\ (Lost' <=> Lost) /\ PlanIds' = PlanIds
    BY <1>0, <2>1 DEF Sweepable, Lost, PlanIds
  <2> QED
    BY <1>0, <2>1, <2>2 DEF Complete
<1>9. CASE VerifyNodeAnchor("verify_health") /\ UNCHANGED localVars
  <2>1. pc = "verify_anchor" /\ pc' \in {"verify_health", "failed"} /\ UNCHANGED <<snap, plan>>
    BY <1>9 DEF VerifyNodeAnchor
  <2>2. Sweepable' = Sweepable /\ (Lost' <=> Lost) /\ PlanIds' = PlanIds
    BY <1>0, <2>1 DEF Sweepable, Lost, PlanIds
  <2>3. ASSUME pc' = "verify_health"
        PROVE  ~Lost
    <3>1. snap \in Blocks /\ Height[snap] <= Height[node] /\ At(node, Height[snap]) = snap
      BY <1>9, <2>1, <2>3 DEF VerifyNodeAnchor, AnchorStands, Control, Captured
    <3>2. snap \in Chain[node]
      <4>1. node \in Blocks
        BY DEF TypeOK, EnvType
      <4>2. Height[snap] \in Nat
        BY <3>1, BlockTreeTypes
      <4>3. At(node, Height[snap]) \in Chain[node]
        BY <3>1, <4>1, <4>2, AtHeight
      <4> QED
        BY <3>1, <4>3
    <3> QED
      BY <3>2 DEF Lost, Grounded, NodeClean
  <2> QED
    BY <1>0, <2>1, <2>2, <2>3 DEF Complete
<1>10. CASE VerifyScannerHealth \/ (VerifyChainContext /\ UNCHANGED localVars)
  <2>1. /\ pc \in {"verify_health", "verify_context"}
        /\ pc' \in {"verify_context", "done", "failed"}
        /\ UNCHANGED <<snap, plan>>
    BY <1>10 DEF VerifyScannerHealth, VerifyChainContext
  <2>2. Sweepable' = Sweepable /\ PlanIds' = PlanIds
    BY <2>1 DEF Sweepable, PlanIds
  <2> QED
    BY <1>0, <2>1, <2>2 DEF Complete
<1>11. CASE Fail /\ UNCHANGED localVars
  BY <1>0, <1>11 DEF Fail, Complete
<1> QED
  BY <1>1, <1>2, <1>3, <1>4, <1>5, <1>6, <1>7, <1>8, <1>9, <1>10, <1>11 DEF PlannerNext, Call

LEMMA StepComplete ==
  ASSUME Readopt = FALSE
  PROVE  IInv /\ Complete /\ [Next]_vars => Complete'
<1> SUFFICES ASSUME IInv, Complete, [Next]_vars
             PROVE  Complete'
  OBVIOUS
<1>0. TypeOK /\ Control /\ Grounded
  BY DEF IInv
<1>1. CASE UNCHANGED vars
  BY <1>1 DEF vars, envVars, plannerVars, localVars, Complete, Sweepable, Planned, Verified, Lost,
              PlanIds, Ids
<1>2. CASE Next
  BY <1>0, <1>1, <1>2, EnvComplete, PlannerComplete DEF Next, Terminated
<1> QED
  BY <1>1, <1>2

(* Of a node that does not return to blocks it has abandoned: a sweep that is  *)
(* returned spends every note that the wallet can spend at the anchor, but for *)
(* the excluded ones and those a transaction was spending, although the notes  *)
(* were read in pages while the chain and the scanner moved.                   *)
THEOREM SweepsAreComplete ==
  ASSUME Readopt = FALSE
  PROVE  Spec => []SweepComplete
<1>1. Spec => []Complete
  BY InitComplete, StepComplete, Invariance, PTL DEF Spec
<1>2. IInv /\ Complete => SweepComplete
  <2> SUFFICES ASSUME IInv, Complete, pc = "done", plan.kind = "sweep",
                      NEW m \in UnspentAt(snap) \ (Excluded \cup MempoolNotes \cup PlanIds),
                      ~(Confirmations(snap, m) < MinConf)
               PROVE  \E b \in Blocks : snap \in Chain[b] /\ m \in SpentOn(b)
    BY DEF SweepComplete
  <2>1. snap \in Blocks /\ m \in Range(Tree[snap])
    BY DEF IInv, Control, Captured, UnspentAt
  <2>2. Confirmations(snap, m) \in Int
    BY <2>1, MinedInChain, BlockTreeTypes DEF Confirmations
  <2>3. Confirmations(snap, m) >= MinConf
    BY <2>2, PlannerTypes
  <2>4. m \notin Sweepable
    BY DEF Complete, Verified
  <2> QED
    BY <2>3, <2>4 DEF Sweepable
<1> QED
  BY <1>1, <1>2, Invariance, PTL

-----------------------------------------------------------------------------
(* As long as the spend stays in the mempool, no page keeps the note: the recheck  *)
(* that has begun goes on, or has failed.                                          *)
Unlisted(n) ==
  /\ pc \in {"recheck", "compare", "failed"}
  /\ pc # "failed" => n \in PlanIds /\ n \notin Ids(listed)

(* A page of the recheck keeps no note whose spend is pending. *)
LEMMA PendingUnlisted ==
  ASSUME NEW n \in MempoolNotes, n \in pending, Unlisted(n), [Next]_vars
  PROVE  Unlisted(n)'
<1> USE DEF Unlisted, PlanIds, Ids
<1>1. CASE UNCHANGED <<pc, plan, listed>>
  BY <1>1
<1>2. CASE ListPage("recheck", "compare")
  <2>1. n \notin Ids({m \in Page : Spendable(m)})
    BY DEF Spendable
  <2> HIDE DEF Page
  <2> QED
    BY <1>2, <2>1 DEF ListPage
<1>3. CASE VerifySelectedNotes
  BY <1>3 DEF VerifySelectedNotes
<1>4. CASE Fail
  BY <1>4 DEF Fail
<1> QED
  <2>1. ASSUME PlannerNext
        PROVE  VerifySelectedNotes \/ ListPage("recheck", "compare") \/ Fail
    BY <2>1 DEF PlannerNext, Call, GetChainInfo, CaptureNodeAnchor, CaptureScannerAnchor, ListPage,
                SelectNotes, FetchAction, OrchardWitness, VerifyNodeAnchor, VerifyScannerHealth,
                VerifyChainContext
  <2> QED
    BY <1>1, <1>2, <1>3, <1>4, <2>1
       DEF Next, Terminated, vars, plannerVars, localVars

(* The recheck of a note whose spend stays in the mempool does not pass. *)
Starts(n) == pc = "recheck" /\ cursor = 0 /\ listed = {} /\ n \in PlanIds
NeverPasses(n) ==
  [](Starts(n) /\ [](n \in pending) => [](pc \in {"recheck", "compare", "failed"}))

(* The safety half of RecheckFailsClosed, whatever the scanner, the chain and the   *)
(* rest of the mempool do meanwhile, and whichever page would have had the note.   *)
THEOREM RecheckNeverPasses ==
  ASSUME NEW n \in MempoolNotes
  PROVE  Spec => NeverPasses(n)
<1>1. Starts(n) => Unlisted(n)
  BY DEF Starts, Unlisted, Ids
<1>2. Unlisted(n) /\ n \in pending /\ [Next]_vars => Unlisted(n)'
  BY PendingUnlisted
<1>3. Unlisted(n) => pc \in {"recheck", "compare", "failed"}
  BY DEF Unlisted
<1> QED
  BY <1>1, <1>2, <1>3, PTL DEF Spec, NeverPasses

(* What ended stays ended. *)
LEMMA EndedStays == Ended /\ [Next]_vars => Ended'
BY DEF Ended, Next, Terminated, vars, PlannerNext, Call, Fail, GetChainInfo, CaptureNodeAnchor,
       CaptureScannerAnchor, ListPage, SelectNotes, FetchAction, OrchardWitness,
       VerifyNodeAnchor, VerifyScannerHealth, VerifySelectedNotes, VerifyChainContext, plannerVars

(* RecheckFailsClosed needs of the fairness of the calls only that planning ends:  *)
(* that is Terminates, which the model checker verifies.                           *)
THEOREM RecheckClosesIfPlanningEnds == Spec /\ Terminates => RecheckFailsClosed
<1> SUFFICES ASSUME NEW n \in MempoolNotes
             PROVE  Spec /\ Terminates =>
                      ((/\ pc = "recheck" /\ cursor = 0 /\ listed = {}
                        /\ n \in PlanIds
                        /\ [](n \in pending)) ~> (pc = "failed"))
  BY DEF RecheckFailsClosed
<1>1. Spec => NeverPasses(n)
  BY RecheckNeverPasses
<1>2. Ended /\ pc \in {"recheck", "compare", "failed"} => pc = "failed"
  BY DEF Ended
<1>3. pc = "recheck" /\ cursor = 0 /\ listed = {} /\ n \in PlanIds => Starts(n)
  BY DEF Starts
<1> QED
  BY <1>1, <1>2, <1>3, EndedStays, PTL DEF Spec, Terminates, NeverPasses

-----------------------------------------------------------------------------
(* How many calls are left, at most, on a chain of at most B leaves: the stages   *)
(* to come, in a listing the leaves past the cursor, and among the blocks to be   *)
(* fetched the notes that have not been found.                                    *)
StagesLeft ==
  [info |-> 12, anchor |-> 11, health |-> 10, list |-> 9, select |-> 8, actions |-> 7,
   witness |-> 6, recheck |-> 5, compare |-> 4, verify_anchor |-> 3, verify_health |-> 2,
   verify_context |-> 1, done |-> 0, failed |-> 0]
Left(B, stages, past, got) == stages * (B + SpendLimit + 1) + (B - past) + (SpendLimit - got)
CallsLeft(B) == Left(B, StagesLeft[pc], cursor, Cardinality(found))

(* The cursor is within the chain's leaves, and what was found was chosen. *)
WithinBounds(B) ==
  /\ cursor \in 0..B
  /\ IsFiniteSet(found) /\ Cardinality(found) <= SpendLimit
  /\ pc \in {"info", "anchor", "health", "list", "select"} => found = {}
  /\ pc = "actions" => found \subseteq Ids(selected)

(* The end of a stage outweighs what is left within it. *)
LEMMA LeftDescends ==
  ASSUME NEW B \in Nat, NEW r \in Nat, NEW s \in Nat, NEW u \in 0..B, NEW v \in 0..B,
         NEW w \in 0..SpendLimit, NEW x \in 0..SpendLimit
  PROVE  /\ Left(B, r, u, w) \in Nat
         /\ s < r => Left(B, s, v, x) < Left(B, r, u, w)
         /\ u < v => Left(B, r, v, w) < Left(B, r, u, w)
         /\ w < x => Left(B, r, u, x) < Left(B, r, u, w)
<1> DEFINE K == B + SpendLimit + 1
<1>1. SpendLimit \in Nat /\ K \in Nat
  BY PlannerTypes
<1>2. r * K \in Nat /\ s * K \in Nat
  BY <1>1
<1>3. CASE s < r
  <2>1. r - (s + 1) \in Nat
    BY <1>3
  <2> HIDE DEF K
  <2>2. (r - (s + 1)) * K \in Nat /\ r * K = (s + 1) * K + (r - (s + 1)) * K
    BY <1>1, <2>1
  <2>3. (s + 1) * K = s * K + K
    BY <1>1
  <2>4. s * K + K <= r * K
    BY <1>1, <1>2, <2>2, <2>3
  <2> QED
    BY <1>1, <1>2, <2>4 DEF Left, K
<1>4. /\ u < v => Left(B, r, v, w) < Left(B, r, u, w)
      /\ w < x => Left(B, r, u, x) < Left(B, r, u, w)
  BY <1>1, <1>2 DEF Left
<1>5. Left(B, r, u, w) \in Nat
  BY <1>1, <1>2 DEF Left
<1> QED
  BY <1>3, <1>4, <1>5

(* A page that is not the last moves the cursor on, to a leaf's end at most. *)
LEMMA CursorAdvances ==
  ASSUME NEW B \in Nat, \A b \in Blocks : Len(Tree[b]) <= B,
         EnvType, cursor \in Nat, NEW last \in Page
  PROVE  last.position + 1 \in 0..B /\ cursor < last.position + 1
<1>1. PICK m \in UnspentAt(scan) :
        last = [id |-> m, height |-> Height[MinedIn(scan, m)],
                position |-> PositionIn(Tree[scan], m)]
  BY DEF Page, Remaining, WalletNotes
<1>2. last.position >= cursor
  BY DEF Page, Remaining
<1>3. scan \in Blocks /\ m \in Range(Tree[scan])
  BY DEF EnvType, UnspentAt
<1>4. PositionIn(Tree[scan], m) \in Nat /\ PositionIn(Tree[scan], m) + 1 \in DOMAIN Tree[scan]
  BY <1>3, LeafPosition
<1>5. Tree[scan] \in Seq(Notes) /\ Len(Tree[scan]) <= B
  BY <1>3, BlockTreeTypes
<1>6. PositionIn(Tree[scan], m) + 1 <= Len(Tree[scan]) /\ Len(Tree[scan]) \in Nat
  BY <1>4, <1>5
<1> QED
  BY <1>1, <1>2, <1>4, <1>5, <1>6

(* Every call of the planner ends a stage, moves the cursor on or finds a note. *)
LEMMA CallsDescend ==
  ASSUME NEW B \in Nat, \A b \in Blocks : Len(Tree[b]) <= B,
         TypeOK, Sized, WithinBounds(B), PlannerNext, UNCHANGED envVars
  PROVE  WithinBounds(B)' /\ CallsLeft(B) \in Nat /\ CallsLeft(B)' < CallsLeft(B)
<1> DEFINE c == Cardinality(found)
           d == Cardinality(found')
<1>0. SpendLimit \in Nat /\ cursor \in 0..B /\ c \in 0..SpendLimit
  BY PlannerTypes, FS_CardinalityType DEF WithinBounds
<1>c. /\ CallsLeft(B) = Left(B, StagesLeft[pc], cursor, c)
      /\ CallsLeft(B)' = Left(B, StagesLeft[pc'], cursor', d)
  BY DEF CallsLeft
<1>1. CASE FetchAction
  <2>1. PICK n \in selected :
          /\ n.id \notin found
          /\ \/ /\ found' = found \cup {n.id}
                /\ pc' = IF found' = Ids(selected) THEN "witness" ELSE pc
             \/ pc' = "failed" /\ UNCHANGED found
    BY <1>1 DEF FetchAction
  <2>2. pc = "actions" /\ UNCHANGED <<cursor, selected>>
    BY <1>1 DEF FetchAction
  <2>3. CASE found' = found \cup {n.id} /\ pc' = IF found' = Ids(selected) THEN "witness" ELSE pc
    <3>1. found' \subseteq Ids(selected)
      BY <2>2, <2>3 DEF WithinBounds, Ids
    <3>2. IsFiniteSet(Ids(selected)) /\ Cardinality(Ids(selected)) <= SpendLimit
      BY <2>2, IdsNoMore DEF Sized
    <3>3. IsFiniteSet(found') /\ d <= SpendLimit /\ d = c + 1
      <4>1. IsFiniteSet(found') /\ d = c + 1
        BY <2>1, <2>3, FS_AddElement DEF WithinBounds
      <4>2. d <= Cardinality(Ids(selected)) /\ Cardinality(Ids(selected)) \in Nat
        BY <3>1, <3>2, FS_Subset, FS_CardinalityType
      <4> QED
        BY <1>0, <3>2, <4>1, <4>2
    <3>4. WithinBounds(B)'
      BY <1>0, <2>2, <2>3, <3>1, <3>3 DEF WithinBounds
    <3>5. CallsLeft(B)' < CallsLeft(B) /\ CallsLeft(B) \in Nat
      <4>1. /\ StagesLeft[pc] = 7
            /\ StagesLeft[pc'] = 6 \/ StagesLeft[pc'] = 7
        BY <2>2, <2>3 DEF StagesLeft
      <4> HIDE DEF c, d
      <4>2. c < d /\ d \in 0..SpendLimit
        BY <1>0, <3>3
      <4>3. /\ Left(B, 7, cursor, c) \in Nat
            /\ Left(B, 7, cursor, d) < Left(B, 7, cursor, c)
            /\ Left(B, 6, cursor, d) < Left(B, 7, cursor, c)
        <5>1. 6 < 7 /\ 6 \in Nat /\ 7 \in Nat
          OBVIOUS
        <5> QED
          BY <1>0, <4>2, <5>1, LeftDescends, Zenon
      <4> QED
        BY <1>c, <2>2, <4>1, <4>3
    <3> QED
      BY <3>4, <3>5
  <2>4. CASE pc' = "failed" /\ UNCHANGED found
    <3>1. WithinBounds(B)'
      BY <2>2, <2>4 DEF WithinBounds
    <3>2. StagesLeft[pc] = 7 /\ StagesLeft[pc'] = 0
      BY <2>2, <2>4 DEF StagesLeft
    <3>3. c = d
      BY <2>4
    <3> HIDE DEF c, d
    <3> QED
      BY <1>0, <1>c, <2>2, <3>1, <3>2, <3>3, LeftDescends
  <2> QED
    BY <2>1, <2>3, <2>4
<1>2. CASE pc' = pc /\ (ListPage("list", "select") \/ ListPage("recheck", "compare"))
  <2>1. PICK last \in Page : cursor' = last.position + 1
    BY <1>2 DEF ListPage
  <2>2. cursor' \in 0..B /\ cursor < cursor'
    BY <2>1, CursorAdvances DEF TypeOK
  <2>3. pc \in {"list", "recheck"} /\ UNCHANGED <<found, selected>>
    BY <1>2 DEF ListPage
  <2>4. WithinBounds(B)'
    BY <1>2, <2>2, <2>3 DEF WithinBounds
  <2>5. StagesLeft[pc] \in Nat /\ StagesLeft[pc'] = StagesLeft[pc] /\ d = c
    BY <1>2, <2>3 DEF StagesLeft
  <2> HIDE DEF c, d
  <2>6. /\ Left(B, StagesLeft[pc], cursor, c) \in Nat
        /\ Left(B, StagesLeft[pc], cursor', c) < Left(B, StagesLeft[pc], cursor, c)
    BY <1>0, <2>2, <2>5, LeftDescends, Zenon
  <2> QED
    BY <1>c, <2>4, <2>5, <2>6
<1>3. CASE pc' # pc /\ ~FetchAction
  <2>1. /\ cursor' \in {0, cursor} /\ found' \in {{}, found}
        /\ pc' = "actions" => pc = "select"
        /\ pc' \in {"info", "anchor", "health", "list", "select"} =>
             pc \in {"info", "anchor", "health", "list"} /\ found' = found
        /\ pc = "select" => found' = found
    BY <1>3 DEF PlannerNext, Call, GetChainInfo, CaptureNodeAnchor, CaptureScannerAnchor, ListPage,
                SelectNotes, OrchardWitness, VerifyNodeAnchor, VerifyScannerHealth,
                VerifySelectedNotes, VerifyChainContext, Fail, localVars
  <2>2. WithinBounds(B)'
    BY <1>0, <2>1, FS_EmptySet DEF WithinBounds
  <2>3. d \in 0..SpendLimit /\ cursor' \in 0..B
    BY <1>0, <2>2, FS_CardinalityType DEF WithinBounds
  <2>4. StagesLeft[pc] \in 0..12 /\ StagesLeft[pc'] \in 0..12 /\ StagesLeft[pc'] + 1 <= StagesLeft[pc]
    <3>1. \/ pc = "info" /\ pc' = "anchor"
          \/ pc = "anchor" /\ pc' = "health"
          \/ pc = "health" /\ pc' = "list"
          \/ pc = "list" /\ pc' = "select"
          \/ pc = "select" /\ pc' = "actions"
          \/ pc = "witness" /\ pc' = "recheck"
          \/ pc = "recheck" /\ pc' = "compare"
          \/ pc = "compare" /\ pc' = "verify_anchor"
          \/ pc = "verify_anchor" /\ pc' = "verify_health"
          \/ pc = "verify_health" /\ pc' = "verify_context"
          \/ pc = "verify_context" /\ pc' = "done"
          \/ pc \notin {"done", "failed"} /\ pc' = "failed"
      <4>1. ASSUME NEW s, NEW x, ListPage(s, x) PROVE pc = s /\ pc' \in {pc, x, "failed"}
        BY <4>1 DEF ListPage
      <4>2. SelectNotes => pc = "select" /\ pc' \in {"actions", "failed"}
        BY DEF SelectNotes
      <4>3. OrchardWitness => pc = "witness" /\ pc' \in {"recheck", "failed"}
        BY DEF OrchardWitness
      <4>4. VerifySelectedNotes => pc = "compare" /\ pc' \in {"verify_anchor", "failed"}
        BY DEF VerifySelectedNotes
      <4>5. GetChainInfo => pc = "info" /\ pc' \in {"anchor", "failed"}
        BY DEF GetChainInfo
      <4>6. CaptureNodeAnchor("health") => pc = "anchor" /\ pc' \in {"health", "failed"}
        BY DEF CaptureNodeAnchor
      <4>7. CaptureScannerAnchor => pc = "health" /\ pc' \in {"list", "failed"}
        BY DEF CaptureScannerAnchor
      <4>8. VerifyNodeAnchor("verify_health") => pc = "verify_anchor" /\ pc' \in {"verify_health", "failed"}
        BY DEF VerifyNodeAnchor
      <4>9. VerifyScannerHealth => pc = "verify_health" /\ pc' \in {"verify_context", "failed"}
        BY DEF VerifyScannerHealth
      <4>10. VerifyChainContext => pc = "verify_context" /\ pc' \in {"done", "failed"}
        BY DEF VerifyChainContext
      <4>11. Fail => pc \notin {"done", "failed"} /\ pc' = "failed"
        BY DEF Fail, Ended
      <4> QED
        BY <1>3, <4>1, <4>2, <4>3, <4>4, <4>5, <4>6, <4>7, <4>8, <4>9, <4>10, <4>11
           DEF PlannerNext, Call
    <3>2. /\ \A s \in DOMAIN StagesLeft : StagesLeft[s] \in 0..12
          /\ \A s \in DOMAIN StagesLeft \ {"done", "failed"} : StagesLeft[s] \in 1..12
      BY DEF StagesLeft
    <3>3. pc \in DOMAIN StagesLeft
      BY DEF TypeOK, StagesLeft
    <3>4. CASE pc \notin {"done", "failed"} /\ pc' = "failed"
      <4>1. StagesLeft[pc'] = 0
        BY <3>4 DEF StagesLeft
      <4>2. StagesLeft[pc] \in 1..12
        BY <3>2, <3>3, <3>4
      <4> QED
        BY <4>1, <4>2
    <3>5. CASE pc' # "failed"
      BY <3>1, <3>5 DEF StagesLeft
    <3> QED
      BY <3>1, <3>4, <3>5
  <2>5. StagesLeft[pc] \in Nat /\ StagesLeft[pc'] \in Nat /\ StagesLeft[pc'] < StagesLeft[pc]
    <3>1. \A x \in 0..12, y \in 0..12 : x + 1 <= y => y \in Nat /\ x \in Nat /\ x < y
      OBVIOUS
    <3> QED
      BY <2>4, <3>1, Zenon
  <2> HIDE DEF c, d
  <2>6. /\ Left(B, StagesLeft[pc], cursor, c) \in Nat
        /\ Left(B, StagesLeft[pc'], cursor', d) < Left(B, StagesLeft[pc], cursor, c)
    BY <1>0, <2>3, <2>5, LeftDescends, Zenon
  <2> QED
    BY <1>c, <2>2, <2>6
<1>4. CASE pc' = pc /\ ~FetchAction
  <2>1. ListPage("list", "select") \/ ListPage("recheck", "compare")
    BY <1>4 DEF PlannerNext, Call, GetChainInfo, CaptureNodeAnchor, CaptureScannerAnchor,
                SelectNotes, OrchardWitness, VerifyNodeAnchor, VerifyScannerHealth,
                VerifySelectedNotes, VerifyChainContext, Fail, Ended
  <2> QED
    BY <1>2, <1>4, <2>1
<1> QED
  BY <1>1, <1>3, <1>4, Zenon

(* What Terminates needs of the code, of any chain whose note commitment tree has  *)
(* at most B leaves, and whatever the services do meanwhile: a planning makes at   *)
(* most CallsLeft(B) calls, and no step of the services adds one to it, although   *)
(* the scanner may go back, or on, under the pages.                                *)
THEOREM CallsAreBounded ==
  ASSUME NEW B \in Nat, \A b \in Blocks : Len(Tree[b]) <= B
  PROVE  Spec => /\ [](CallsLeft(B) \in Nat)
                 /\ [][/\ CallsLeft(B)' <= CallsLeft(B)
                       /\ PlannerNext /\ UNCHANGED envVars => CallsLeft(B)' < CallsLeft(B)]_vars
<1> DEFINE I == TypeOK /\ Control /\ Sized /\ WithinBounds(B)
<1>1. Init => WithinBounds(B)
  BY PlannerTypes, FS_EmptySet DEF Init, PlannerInit, WithinBounds
<1>2. I => CallsLeft(B) \in Nat
  <2> SUFFICES ASSUME I
               PROVE  CallsLeft(B) \in Nat
    OBVIOUS
  <2>1. SpendLimit \in Nat /\ cursor \in 0..B /\ Cardinality(found) \in 0..SpendLimit
    BY PlannerTypes, FS_CardinalityType DEF WithinBounds
  <2>2. StagesLeft[pc] \in Nat
    BY DEF StagesLeft, TypeOK
  <2> QED
    BY <2>1, <2>2, LeftDescends DEF CallsLeft
<1>6. (I => CallsLeft(B) \in Nat)'
  <2> HIDE DEF I
  <2> QED
    BY <1>2, PTL
<1>3. ASSUME I, [Next]_vars
      PROVE  /\ WithinBounds(B)' /\ CallsLeft(B)' <= CallsLeft(B)
             /\ PlannerNext /\ UNCHANGED envVars => CallsLeft(B)' < CallsLeft(B)
  <2>1. CASE PlannerNext /\ UNCHANGED envVars
    <3>1. WithinBounds(B)' /\ CallsLeft(B)' < CallsLeft(B)
      BY <1>3, <2>1, CallsDescend
    <3>2. CallsLeft(B)' \in Nat /\ CallsLeft(B) \in Nat
      <4>1. TypeOK' /\ Control' /\ Sized'
        BY <1>3, StepTyped, StepSized
      <4>2. I'
        BY <3>1, <4>1
      <4> HIDE DEF I
      <4> QED
        BY <1>2, <1>6, <1>3, <4>2
    <3> QED
      BY <3>1, <3>2
  <2>2. CASE UNCHANGED <<plannerVars, localVars>> /\ ~(PlannerNext /\ UNCHANGED envVars)
    <3>1. WithinBounds(B)' /\ CallsLeft(B)' = CallsLeft(B)
      BY <1>3, <2>2 DEF WithinBounds, CallsLeft, StagesLeft, plannerVars, localVars
    <3> QED
      BY <1>2, <1>3, <2>2, <3>1
  <2> QED
    BY <1>3, <2>1, <2>2 DEF Next, Terminated, vars
<1>4. TypeOK /\ Control /\ Sized /\ [Next]_vars => TypeOK' /\ Control' /\ Sized'
  BY StepTyped, StepSized
<1>5. Init => TypeOK /\ Control /\ Sized
  BY InitTyped, InitSized
<1> QED
  <2>1. Init => I
    BY <1>1, <1>5
  <2>2. I /\ [Next]_vars => I'
    BY <1>3, <1>4
  <2>3. I /\ [Next]_vars =>
          [/\ CallsLeft(B)' <= CallsLeft(B)
           /\ PlannerNext /\ UNCHANGED envVars => CallsLeft(B)' < CallsLeft(B)]_vars
    BY <1>3
  <2> HIDE DEF I
  <2> QED
    BY <1>2, <2>1, <2>2, <2>3, PTL DEF Spec
=============================================================================
