----------------------------- MODULE AtomicPlan -----------------------------
(***************************************************************************)
(* What a planner promises, however many calls it makes: at one instant,   *)
(* on the node's best chain of that instant, it picks a block as anchor    *)
(* and some notes spendable at that block, and offers exactly them; later  *)
(* it returns the offer, unless the expiry has come too close, or gives    *)
(* up, which it may do at any time.                                        *)
(***************************************************************************)
EXTENDS ChainEnv

CONSTANTS Excluded, ExpiryOffset, SpendLimit, None

VARIABLES
  stage,  \* "planning", "decided", "returned" or "aborted"
  offer   \* the anchor and notes decided on

vars == <<envVars, stage, offer>>

(* The plans a block can anchor. *)
Offers(b) ==
  {[anchorHeight |-> Height[b],
    anchor       |-> Tree[b],
    expiryHeight |-> Height[b] + 1 + ExpiryOffset,
    notes        |-> {[id |-> n, position |-> PositionIn(Tree[b], n)] : n \in S}] :
      S \in {T \in SUBSET (UnspentAt(b) \ Excluded) :
               T # {} /\ Cardinality(T) <= SpendLimit}}

Init ==
  /\ EnvInit
  /\ stage = "planning"
  /\ offer = None

Decide ==
  /\ stage = "planning"
  /\ \E b \in Chain[node] : offer' \in Offers(b)
  /\ stage' = "decided"
  /\ UNCHANGED envVars

Return ==
  /\ stage = "decided"
  /\ Height[node] >= offer.anchorHeight
  /\ Height[node] + 4 <= offer.expiryHeight
  /\ stage' = "returned"
  /\ UNCHANGED <<envVars, offer>>

Abort ==
  /\ stage \in {"planning", "decided"}
  /\ stage' = "aborted"
  /\ offer' = None
  /\ UNCHANGED envVars

Next ==
  \/ Decide
  \/ Return
  \/ Abort
  \/ EnvNext /\ UNCHANGED <<stage, offer>>

Spec == Init /\ [][Next]_vars
=============================================================================
