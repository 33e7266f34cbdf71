------------------------------ MODULE ChainEnv ------------------------------
(***************************************************************************)
(* The services juno-txbuild talks to, as they move while it plans: the    *)
(* node's best chain (extended, reorganised, or replaced when the RPC      *)
(* endpoint is switched to another node), the scanner's index that follows *)
(* it, and the unconfirmed spends they report.                             *)
(***************************************************************************)
EXTENDS BlockTree

CONSTANTS
  StartTips,     \* the node's tip when the request arrives
  MempoolNotes,  \* the wallet notes that unconfirmed transactions may spend
  Readopt        \* may the node return to a block it has abandoned?

ASSUME EnvTypes ==
  /\ StartTips \subseteq Blocks
  /\ MempoolNotes \subseteq Wallet
  /\ Readopt \in BOOLEAN

VARIABLES
  node,     \* the node's tip
  scan,     \* the tip the scanner has indexed
  left,     \* the blocks that have been on the node's chain and are not now
  pending   \* the notes spent by an unconfirmed transaction

envVars == <<node, scan, left, pending>>

EnvType ==
  /\ node \in Blocks
  /\ scan \in Blocks
  /\ left \subseteq Blocks
  /\ pending \subseteq Wallet

EnvInit ==
  /\ node \in StartTips
  /\ scan \in Chain[node]
  /\ left = {}
  /\ pending = {}

(* The best chain becomes another one: longer, shorter, of another fork or, *)
(* behind a switched endpoint, of another network.                          *)
NodeMove ==
  \E b \in Blocks \ {node} :
    /\ Readopt \/ Chain[b] \cap left = {}
    /\ node' = b
    /\ left' = (left \cup Chain[node]) \ Chain[b]
    /\ UNCHANGED <<scan, pending>>

(* The scanner indexes the next block of the node's chain. *)
ScanAdvance ==
  \E b \in Chain[node] :
    /\ scan \in Chain[b]
    /\ Height[b] = Height[scan] + 1
    /\ scan' = b
    /\ UNCHANGED <<node, left, pending>>

(* The scanner rolls back to the last block it shares with the node, or to  *)
(* the node's genesis block when they share none.                           *)
ScanRollback ==
  /\ scan \notin Chain[node]
  /\ LET shared == Chain[scan] \cap Chain[node] IN
     \E b \in Chain[node] :
       /\ IF shared = {} THEN Height[b] = 0
          ELSE b \in shared /\ \A c \in shared : Height[c] <= Height[b]
       /\ scan' = b
  /\ UNCHANGED <<node, left, pending>>

MempoolAdd ==
  \E n \in MempoolNotes \ pending :
    /\ pending' = pending \cup {n}
    /\ UNCHANGED <<node, scan, left>>

MempoolDrop ==
  \E n \in pending :
    /\ pending' = pending \ {n}
    /\ UNCHANGED <<node, scan, left>>

EnvNext ==
  \/ NodeMove
  \/ ScanAdvance
  \/ ScanRollback
  \/ MempoolAdd
  \/ MempoolDrop

(* No block the node has abandoned is on its chain. *)
NodeClean == left \cap Chain[node] = {}
=============================================================================
