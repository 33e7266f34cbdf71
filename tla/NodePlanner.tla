---------------------------- MODULE NodePlanner ----------------------------
(***************************************************************************)
(* Planning with the node alone: Plan, PlanSweep and PlanConsolidate when  *)
(* no scanner is configured.  The tree is rebuilt from every block up to   *)
(* the anchor's height, asked for by height one at a time; the unspent     *)
(* notes come from the node's wallet; the witness is computed locally.     *)
(***************************************************************************)
EXTENDS Planner

VARIABLES
  height,     \* the height BuildOrchardIndex asks for next
  cmx,        \* CMXHex: the commitments of the blocks read so far
  byOutpoint  \* ByOutpoint: the position of each action read so far

localVars == <<height, cmx, byOutpoint>>
vars == <<envVars, plannerVars, localVars>>

Init ==
  /\ EnvInit
  /\ PlannerInit
  /\ height = 0
  /\ cmx = <<>>
  /\ byOutpoint = <<>>

(* The index with the actions of one more block; an action seen before, on    *)
(* another fork, is moved to its new position.                                *)
Indexed(acts) ==
  [n \in DOMAIN byOutpoint \cup Range(acts) |->
     IF n \in Range(acts) THEN Len(cmx) + PositionIn(acts, n) ELSE byOutpoint[n]]

(* One turn of BuildOrchardIndex: the block now at this height, appended.  An  *)
(* index without commitments ends the planning.                                *)
IndexBlock ==
  /\ pc = "index"
  /\ IF height <= Height[node]
     THEN /\ cmx' = cmx \o Acts[At(node, height)]
          /\ byOutpoint' = Indexed(Acts[At(node, height)])
          /\ height' = height + 1
          /\ pc' = IF height < Height[info] THEN pc
                   ELSE IF cmx' = <<>> THEN "failed" ELSE "unspent"
     ELSE pc' = "failed" /\ UNCHANGED localVars
  /\ UNCHANGED <<info, snap, plan>>

(* Faulty: the exclusions are left out. *)
CandidatesWithExcluded ==
  {n \in UnspentAt(node) : n \notin pending /\ Confirmations(node, n) >= MinConf}

(* z_listunspent at the node's tip of that moment, and the exclusions. *)
Candidates ==
  {n \in UnspentAt(node) \ Excluded :
     n \notin pending /\ Confirmations(node, n) >= MinConf}

(* listUnspentOrchardNotes, then, without another call, the selection, the   *)
(* lookup in the index, the local witness and the plan.                      *)
ListUnspent ==
  /\ pc = "unspent"
  /\ \E kind \in Kinds :
       \/ /\ Selections(kind, Candidates) = {}
          /\ pc' = "failed" /\ plan' = plan
       \/ \E S \in Selections(kind, Candidates) :
            IF S \subseteq DOMAIN byOutpoint /\ Expirable(Height[info])
            THEN /\ plan' = MakePlan(kind, Height[info], cmx,
                              {[id |-> n, position |-> byOutpoint[n]] : n \in S})
                 /\ pc' = "verify_anchor"
            ELSE pc' = "failed" /\ plan' = plan
  /\ height' = 0
  /\ cmx' = <<>>
  /\ byOutpoint' = <<>>
  /\ UNCHANGED <<info, snap>>

PlannerNext ==
  \/ GetChainInfo /\ UNCHANGED localVars
  \/ CaptureNodeAnchor("index") /\ UNCHANGED localVars
  \/ IndexBlock
  \/ ListUnspent
  \/ VerifyNodeAnchor("verify_context") /\ UNCHANGED localVars
  \/ VerifyChainContext /\ UNCHANGED localVars
  \/ Fail /\ UNCHANGED localVars

Terminated == Ended /\ UNCHANGED vars

(* The node is left alone once the planner has ended: nothing reads it. *)
Next ==
  \/ PlannerNext /\ UNCHANGED envVars
  \/ EnvNext /\ ~Ended /\ UNCHANGED <<plannerVars, localVars>>
  \/ Terminated

Spec == Init /\ [][Next]_vars

-----------------------------------------------------------------------------
TypeOK ==
  /\ EnvType
  /\ pc \in {"info", "anchor", "index", "unspent", "verify_anchor", "verify_context",
             "done", "failed"}
  /\ info \in Blocks \cup {None}
  /\ snap \in Blocks \cup {None}
  /\ height \in Nat
  /\ cmx \in Seq(Notes)
  /\ DOMAIN byOutpoint \subseteq Notes
  /\ \A n \in DOMAIN byOutpoint : byOutpoint[n] \in Nat
  /\ plan \in Plans \cup {None}

-----------------------------------------------------------------------------
(* The inductive invariant.  Control: what has been read at each point, and    *)
(* that the index and the commitments agree.  Grounded: until the node         *)
(* abandons the anchor, the commitments read are those of its chain up to the  *)
(* height reached, and the plan agrees with it; once verifyNodeAnchor has      *)
(* passed, the plan agrees with it unconditionally.                            *)
Control ==
  /\ pc \notin {"info", "failed"} => info \in Blocks
  /\ Captured => snap \in Blocks /\ Height[snap] = Height[info]
  /\ pc \in {"info", "anchor"} => height = 0 /\ cmx = <<>> /\ byOutpoint = <<>>
  /\ pc = "index" => height <= Height[info]
  /\ \A n \in DOMAIN byOutpoint :
       byOutpoint[n] + 1 \in DOMAIN cmx /\ cmx[byOutpoint[n] + 1] = n
  /\ Planned => plan \in Plans /\ plan.anchorHeight = Height[snap]

(* The commitments of the anchor's chain below the height h. *)
TreeBelow(h) == IF h = 0 THEN <<>> ELSE Tree[At(snap, h - 1)]

PlanAtAnchor ==
  /\ plan.anchor = Tree[snap]
  /\ \A n \in plan.notes :
       /\ n.position + 1 \in DOMAIN Tree[snap]
       /\ Tree[snap][n.position + 1] = n.id
       /\ n.id \in UnspentAt(snap) \ Excluded

Grounded ==
  /\ NodeClean
  /\ Captured => snap \in left \cup Chain[node]
  /\ pc = "index" => Lost \/ cmx = TreeBelow(height)
  /\ pc = "unspent" => Lost \/ cmx = Tree[snap]
  /\ Planned => Lost \/ PlanAtAnchor
  /\ Verified => PlanAtAnchor

Sized == Planned => WellFormed

IInv == TypeOK /\ Control /\ Grounded /\ Sized /\ OfOneNetwork
=============================================================================
