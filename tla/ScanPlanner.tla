---------------------------- MODULE ScanPlanner ----------------------------
(***************************************************************************)
(* Planning with juno-scan: planWithScan, planConsolidateWithScan and      *)
(* planSweepWithScan.  They differ in the notes they choose and are one    *)
(* sequence of calls: chain info, anchor hash, scanner health, pages of    *)
(* notes, one block per height of a chosen note, the witness, the pages    *)
(* again, and the three closing checks.                                    *)
(***************************************************************************)
EXTENDS Planner

CONSTANT PageLimit  \* notes in one page of the scanner's listing (Limit)

ASSUME PageTypes == PageLimit \in Nat \ {0}

VARIABLES
  kind,      \* which of the three functions runs; set when it first matters
  cursor,    \* the position after which the next page of notes starts
  listed,    \* the candidates listed so far, kept by the filters
  selected,  \* the candidates chosen
  cache,     \* blockCache: the blocks fetched, at most one per height
  found      \* the chosen notes whose action was found in its block

localVars == <<kind, cursor, listed, selected, cache, found>>
vars == <<envVars, plannerVars, localVars>>

Ids(S) == {n.id : n \in S}

(* The notes the scanner reports: mined and not nullified on the chain it has  *)
(* indexed.  A note with an unconfirmed spend is reported, marked as pending.  *)
WalletNotes ==
  {[id |-> n, height |-> Height[MinedIn(scan, n)], position |-> PositionIn(Tree[scan], n)] :
     n \in UnspentAt(scan)}

(* The answer to ListWalletNotesPage: the first PageLimit notes from the cursor. *)
Remaining == {n \in WalletNotes : n.position >= cursor}
Page == {n \in Remaining :
           Cardinality({m \in Remaining : m.position < n.position}) < PageLimit}

(* Faulty filters: one confirmation short, counted at the scanner's tip, and *)
(* blind to pending spends.                                                  *)
SpendableOneShort(n) ==
  /\ n.id \notin pending
  /\ n.height <= Height[snap]
  /\ Height[snap] - n.height >= MinConf
SpendableAtScanTip(n) == n.id \notin pending /\ Height[scan] - n.height + 1 >= MinConf
SpendableThoughPending(n) ==
  n.height <= Height[snap] /\ Height[snap] - n.height + 1 >= MinConf

(* The filters of listSpendableNotesFromScan, at the captured height. *)
Spendable(n) ==
  /\ n.id \notin pending
  /\ n.height <= Height[snap]
  /\ Height[snap] - n.height + 1 >= MinConf

Init ==
  /\ EnvInit
  /\ PlannerInit
  /\ kind = None
  /\ cursor = 0
  /\ listed = {}
  /\ selected = {}
  /\ cache = <<>>
  /\ found = {}

(* Faulty: the scanner is compared with the anchor by height alone. *)
ScannerAtHeight == Height[scan] = Height[snap]

(* requireScannerHealthAtAnchor: the scanner is at the captured anchor. *)
ScannerAtAnchor == scan = snap

CaptureScannerAnchor ==
  /\ pc = "health"
  /\ pc' = IF ScannerAtAnchor THEN "list" ELSE "failed"
  /\ UNCHANGED <<info, snap, plan, localVars>>

(* One page of listSpendableNotesFromScan.  A note kept twice ends the planning; *)
(* a cursor asks for the next page; the last page leads to `next`.               *)
ListPage(stage, next) ==
  /\ pc = stage
  /\ LET kept == {n \in Page : Spendable(n)} IN
     IF Ids(kept) \cap Ids(listed) # {}
     THEN pc' = "failed" /\ UNCHANGED <<cursor, listed>>
     ELSE /\ listed' = listed \cup kept
          /\ IF Page = Remaining
             THEN pc' = next /\ cursor' = 0
             ELSE /\ pc' = pc
                  /\ \E last \in Page :
                       /\ \A n \in Page : n.position <= last.position
                       /\ cursor' = last.position + 1
  /\ UNCHANGED <<info, snap, plan, kind, selected, cache, found>>

(* filterExcludedSpendableNotes, and a faulty variant of it without effect. *)
AllListed == listed
Candidates == {n \in listed : n.id \notin Excluded}

(* The selection of the kind of plan. *)
SelectNotes ==
  /\ pc = "select"
  /\ \E k \in Kinds :
       /\ kind' = k
       /\ IF Selections(k, Candidates) = {}
          THEN pc' = "failed" /\ UNCHANGED selected
          ELSE pc' = "actions" /\ selected' \in Selections(k, Candidates)
  /\ listed' = {}
  /\ UNCHANGED <<info, snap, plan, cursor, cache, found>>

(* orchardActionForNote: the block at the note's height, fetched once and by *)
(* its hash (so the moment of getblock does not matter), has the action.     *)
BlockFor(n) == IF n.height \in DOMAIN cache THEN cache[n.height] ELSE At(node, n.height)
BlockServed(n) == n.height \in DOMAIN cache \/ n.height <= Height[node]

FetchAction ==
  /\ pc = "actions"
  /\ \E n \in selected :
       /\ n.id \notin found
       /\ IF BlockServed(n) /\ n.id \in Range(Acts[BlockFor(n)])
          THEN /\ cache' = [h \in DOMAIN cache \cup {n.height} |->
                              IF h = n.height THEN BlockFor(n) ELSE cache[h]]
               /\ found' = found \cup {n.id}
               /\ pc' = IF found' = Ids(selected) THEN "witness" ELSE pc
          ELSE pc' = "failed" /\ UNCHANGED <<cache, found>>
  /\ UNCHANGED <<info, snap, plan, kind, cursor, listed, selected>>

(* orchardWitnessAtAnchor: the root and the paths of the positions asked for.   *)
(* The scanner answers at the height requested or, ignoring it, at its own tip. *)
WitnessAnswer(height) ==
  /\ height <= Height[scan]
  /\ \A n \in selected : n.position < Len(Tree[At(scan, height)])

OrchardWitness ==
  /\ pc = "witness"
  /\ \E height \in {Height[snap], Height[scan]} :
       IF /\ WitnessAnswer(height)
          /\ height = Height[snap]
          /\ Expirable(Height[snap])
       THEN /\ plan' = MakePlan(kind, height, Tree[At(scan, height)],
                         {[id |-> n.id, position |-> n.position] : n \in selected})
            /\ pc' = "recheck"
       ELSE pc' = "failed" /\ UNCHANGED plan
  /\ selected' = {}
  /\ cache' = <<>>
  /\ found' = {}
  /\ UNCHANGED <<info, snap, kind, cursor, listed>>

(* Faulty: the pages are listed again until the chosen notes come back. *)
RetrySelectedNotes ==
  /\ pc = "compare"
  /\ pc' = IF PlanIds \subseteq Ids(listed) THEN "verify_anchor" ELSE "recheck"
  /\ listed' = {}
  /\ UNCHANGED <<info, snap, plan, kind, cursor, selected, cache, found>>

(* verifySelectedNotesStillSpendable, once the pages have been listed again. *)
VerifySelectedNotes ==
  /\ pc = "compare"
  /\ pc' = IF PlanIds \subseteq Ids(listed) THEN "verify_anchor" ELSE "failed"
  /\ listed' = {}
  /\ UNCHANGED <<info, snap, plan, kind, cursor, selected, cache, found>>

VerifyScannerHealth ==
  /\ pc = "verify_health"
  /\ pc' = IF ScannerAtAnchor THEN "verify_context" ELSE "failed"
  /\ UNCHANGED <<info, snap, plan, localVars>>

(* One call, answered. *)
Call ==
  \/ GetChainInfo /\ UNCHANGED localVars
  \/ CaptureNodeAnchor("health") /\ UNCHANGED localVars
  \/ CaptureScannerAnchor
  \/ ListPage("list", "select")
  \/ SelectNotes
  \/ FetchAction
  \/ OrchardWitness
  \/ ListPage("recheck", "compare")
  \/ VerifySelectedNotes
  \/ VerifyNodeAnchor("verify_health") /\ UNCHANGED localVars
  \/ VerifyScannerHealth
  \/ VerifyChainContext /\ UNCHANGED localVars

PlannerNext ==
  \/ Call
  \/ Fail /\ UNCHANGED localVars

Terminated == Ended /\ UNCHANGED vars

(* The services are left alone once the planner has ended: nothing reads them. *)
Next ==
  \/ PlannerNext /\ UNCHANGED envVars
  \/ EnvNext /\ ~Ended /\ UNCHANGED <<plannerVars, localVars>>
  \/ Terminated

Spec == Init /\ [][Next]_vars

(* Every call returns: it answers, fails, or is ended by its context (the CLI   *)
(* gives the whole command five minutes).  No call has to fail.                 *)
FairSpec == Spec /\ WF_vars(Call /\ UNCHANGED envVars)

-----------------------------------------------------------------------------
ListedNotes == [id : Notes, height : Nat, position : Nat]

TypeOK ==
  /\ EnvType
  /\ pc \in {"info", "anchor", "health", "list", "select", "actions", "witness", "recheck",
             "compare", "verify_anchor", "verify_health", "verify_context", "done", "failed"}
  /\ info \in Blocks \cup {None}
  /\ snap \in Blocks \cup {None}
  /\ kind \in Kinds \cup {None}
  /\ cursor \in Nat
  /\ listed \subseteq ListedNotes
  /\ selected \subseteq ListedNotes
  /\ DOMAIN cache \subseteq Nat /\ \A h \in DOMAIN cache : cache[h] \in Blocks
  /\ found \subseteq Notes
  /\ plan \in Plans \cup {None}

(* A note of a returned plan has its MinConf confirmations at the anchor itself, *)
(* whatever tip the scanner had when it was listed.                              *)
ConfirmedAtAnchor ==
  pc = "done" => \A n \in PlanIds : Confirmations(snap, n) >= MinConf

(* A sweep is complete: paging and filtering lose no note that the wallet could  *)
(* spend at the anchor, unless a transaction was spending it.  It rests on the   *)
(* scanner's cursor being a position, which is the scanner's to choose.          *)
SweepComplete ==
  pc = "done" /\ plan.kind = "sweep" =>
    \A n \in UnspentAt(snap) \ (Excluded \cup MempoolNotes \cup PlanIds) :
      \/ Confirmations(snap, n) < MinConf
      \/ \E b \in Blocks : snap \in Chain[b] /\ n \in SpentOn(b)

(* A spend of a chosen note that is in the mempool when the recheck starts, and  *)
(* stays there, makes the planning fail, whichever page reports it.              *)
RecheckFailsClosed ==
  \A n \in MempoolNotes :
    (/\ pc = "recheck" /\ cursor = 0 /\ listed = {}
     /\ n \in PlanIds
     /\ [](n \in pending)) ~> (pc = "failed")

(* Planning ends, whatever the services do: the pages come to an end and no      *)
(* call is repeated for ever.                                                    *)
Terminates == <>Ended

-----------------------------------------------------------------------------
(* The inductive invariant behind the safety properties.  Control: what has been *)
(* read at each point.  Grounded: until the node abandons the captured anchor,   *)
(* the anchor is on both chains and what was read agrees with it; once           *)
(* verifyNodeAnchor has passed, the plan agrees with it unconditionally.         *)
Control ==
  /\ pc \notin {"info", "failed"} => info \in Blocks
  /\ Captured => snap \in Blocks /\ Height[snap] = Height[info]
  /\ pc \in {"info", "anchor", "health"} => listed = {}
  /\ pc \in {"actions", "witness"} => kind \in Kinds
  /\ Planned => plan \in Plans /\ plan.anchorHeight = Height[snap]

(* The note is spendable at the anchor, is the leaf its position says, and has *)
(* its confirmations.                                                          *)
AtAnchor(n) ==
  /\ n.id \in UnspentAt(snap)
  /\ n.position + 1 \in DOMAIN Tree[snap]
  /\ Tree[snap][n.position + 1] = n.id
  /\ Confirmations(snap, n.id) >= MinConf

PlanAtAnchor ==
  /\ plan.anchor = Tree[snap]
  /\ \A n \in plan.notes : AtAnchor(n) /\ n.id \notin Excluded

Grounded ==
  /\ NodeClean
  /\ Captured => snap \in left \cup Chain[node]
  /\ Captured /\ pc # "health" => snap \in left \cup Chain[scan]
  /\ pc \in {"list", "select"} => Lost \/ \A n \in listed : AtAnchor(n)
  /\ pc \in {"actions", "witness"} =>
       Lost \/ \A n \in selected : AtAnchor(n) /\ n.id \notin Excluded
  /\ Planned => Lost \/ PlanAtAnchor
  /\ Verified => PlanAtAnchor

(* A choice of notes within the limit stays one when it becomes a plan. *)
Sized ==
  /\ IsFiniteSet(listed)
  /\ pc \in {"actions", "witness"} =>
       selected # {} /\ IsFiniteSet(selected) /\ Cardinality(selected) <= SpendLimit
  /\ Planned => WellFormed

IInv == TypeOK /\ Control /\ Grounded /\ Sized /\ OfOneNetwork

(* The notes a sweep of the anchor must spend, the excluded ones apart: spendable *)
(* there, spent by no block above it, and that no mempool transaction may spend.  *)
Sweepable ==
  {n \in UnspentAt(snap) \ MempoolNotes :
     /\ Confirmations(snap, n) >= MinConf
     /\ \A b \in Blocks : snap \in Chain[b] => n \notin SpentOn(b)}

(* The invariant behind SweepComplete: until the node abandons the captured      *)
(* anchor, the sweepable notes below the cursor are listed, then all of them,    *)
(* then chosen, then planned; and planned for good once the anchor is verified.  *)
Complete ==
  /\ pending \subseteq MempoolNotes
  /\ pc \in {"info", "anchor", "health"} => cursor = 0
  /\ pc = "list" =>
       Lost \/ \A n \in Sweepable : PositionIn(Tree[snap], n) < cursor => n \in Ids(listed)
  /\ pc = "select" => Lost \/ Sweepable \subseteq Ids(listed)
  /\ pc \in {"actions", "witness"} /\ kind = "sweep" =>
       Lost \/ Sweepable \ Excluded \subseteq Ids(selected)
  /\ Planned /\ plan.kind = "sweep" => Lost \/ Sweepable \ Excluded \subseteq PlanIds
  /\ Verified /\ plan.kind = "sweep" => Sweepable \ Excluded \subseteq PlanIds
=============================================================================
