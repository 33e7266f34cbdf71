---------------------------- MODULE Reservations ----------------------------
(***************************************************************************)
(* Coordinators that plan for one wallet at the same time.  A plan is not  *)
(* a lock: each attempt reads the reservations, plans with their notes     *)
(* excluded, reserves all the notes of the plan or none, and only then     *)
(* signs.  Planning is the promise of AtomicPlan, at one instant; it, the  *)
(* expiry height it writes and its last check are this program's, the rest *)
(* is what README.md:85-98 asks of its callers.  Coordinators crash,       *)
(* transactions are mined late or never, and the chain is reorganised.     *)
(***************************************************************************)
EXTENDS Integers, FiniteSets

CONSTANTS
  Attempts,      \* attempts to build and sign one transaction
  Notes,         \* the notes of the wallet
  SpendLimit,    \* MaxOrchardSpendNotes
  ExpiryOffset,  \* --expiry-offset
  Threshold,     \* txExpiringSoonThreshold
  Final,         \* blocks on top of a block that no reorganisation replaces it under
  MaxExpiry,     \* the last expiry height considered
  MaxReorgs,     \* reorganisations considered
  None

ASSUME ReservationTypes ==
  /\ SpendLimit \in Nat /\ ExpiryOffset \in Nat /\ Threshold \in Nat
  /\ Final \in Nat /\ MaxExpiry \in Nat /\ MaxReorgs \in Nat
  /\ None \notin Attempts \cup Nat

VARIABLES
  holder,    \* the store of reservations: the attempt a note is reserved for
  pc,        \* where each attempt is
  excluded,  \* the ExcludedNoteIDs of each
  chosen,    \* the notes of its plan
  expiry,    \* the expiry height of its plan
  mined,     \* the height its transaction is mined at, or None
  height,    \* the height of the best chain
  top,       \* the greatest it has been
  reorgs     \* the reorganisations so far

attemptVars == <<pc, excluded, chosen, expiry>>
chainVars == <<mined, height, top, reorgs>>
vars == <<holder, attemptVars, chainVars>>

Reserved == {n \in Notes : holder[n] # None}
Spent == UNION {chosen[a] : a \in {b \in Attempts : mined[b] # None}}

(* The transaction of a signed plan can be broadcast for good. *)
Signed(a) == pc[a] = "signed"

Init ==
  /\ holder = [n \in Notes |-> None]
  /\ pc = [a \in Attempts |-> "idle"]
  /\ excluded = [a \in Attempts |-> {}]
  /\ chosen = [a \in Attempts |-> {}]
  /\ expiry = [a \in Attempts |-> 0]
  /\ mined = [a \in Attempts |-> None]
  /\ height = 0 /\ top = 0 /\ reorgs = 0

Goto(a, where) == pc' = [pc EXCEPT ![a] = where]

(* The plan is discarded, or lost in a crash; the attempt starts again. *)
Restart(a) ==
  /\ Goto(a, "idle")
  /\ excluded' = [excluded EXCEPT ![a] = {}]
  /\ chosen' = [chosen EXCEPT ![a] = {}]
  /\ expiry' = [expiry EXCEPT ![a] = 0]

ReadReservations(a) ==
  /\ pc[a] = "idle"
  /\ Goto(a, "read")
  /\ excluded' = [excluded EXCEPT ![a] = Reserved]
  /\ UNCHANGED <<holder, chosen, expiry, chainVars>>

(* The instant a plan is of: its notes are unspent and not excluded, its expiry *)
(* counts from the tip.  The exclusions have then done their work.              *)
Plan(a) ==
  /\ pc[a] = "read"
  /\ \E S \in SUBSET ((Notes \ Spent) \ excluded[a]) :
       /\ S # {} /\ Cardinality(S) <= SpendLimit
       /\ chosen' = [chosen EXCEPT ![a] = S]
  /\ expiry' = [expiry EXCEPT ![a] = height + 1 + ExpiryOffset]
  /\ expiry'[a] <= MaxExpiry
  /\ excluded' = [excluded EXCEPT ![a] = {}]
  /\ Goto(a, "planned")
  /\ UNCHANGED <<holder, chainVars>>

(* verifyChainContext's bound on the expiry, and the return of the plan. *)
Return(a) ==
  /\ pc[a] = "planned"
  /\ IF height + 1 + Threshold <= expiry[a]
     THEN Goto(a, "built") /\ UNCHANGED <<excluded, chosen, expiry>>
     ELSE Restart(a)
  /\ UNCHANGED <<holder, chainVars>>

FreeUnchecked(S) == TRUE  \* faulty: no unique constraint on the note
Free(S) == S \cap Reserved = {}

Reserve(a) ==
  /\ pc[a] = "built"
  /\ IF Free(chosen[a])
     THEN /\ holder' = [n \in Notes |-> IF n \in chosen[a] THEN a ELSE holder[n]]
          /\ Goto(a, "reserved") /\ UNCHANGED <<excluded, chosen, expiry>>
     ELSE Restart(a) /\ UNCHANGED holder
  /\ UNCHANGED chainVars

(* However slow it was: the reservation may have been released meanwhile. *)
Sign(a) ==
  /\ pc[a] = "reserved"
  /\ Goto(a, "signed")
  /\ UNCHANGED <<holder, excluded, chosen, expiry, chainVars>>

(* The store of reservations outlives a coordinator; what it was about to sign   *)
(* does not.                                                                     *)
Crash(a) ==
  /\ \/ pc[a] \in {"read", "planned", "built"} /\ Restart(a)
     \/ pc[a] = "reserved" /\ Goto(a, "abandoned") /\ UNCHANGED <<excluded, chosen, expiry>>
  /\ UNCHANGED <<holder, chainVars>>

Buried(a) == mined[a] # None /\ mined[a] + Final <= height

(* Faulty: one confirmation, or a tip at the expiry height, is taken for final. *)
ConclusiveAtTip(a) == mined[a] # None \/ expiry[a] <= height

(* Faulty: the end of a plan is its transaction. *)
ConclusiveIfMined(a) == Buried(a)

(* Confirmed, expired, or rejected for a note that another transaction has spent. *)
Conclusive(a) ==
  \/ Buried(a)
  \/ expiry[a] + Final <= height
  \/ \E b \in Attempts : Buried(b) /\ chosen[b] \cap chosen[a] # {}

(* By any coordinator, whether or not the attempt has signed or will. *)
Release(a) ==
  /\ \E n \in Notes : holder[n] = a
  /\ Conclusive(a)
  /\ holder' = [n \in Notes |-> IF holder[n] = a THEN None ELSE holder[n]]
  /\ UNCHANGED <<attemptVars, chainVars>>

(* The next block may hold it: a transaction is valid up to its expiry height. *)
Mineable(a) ==
  /\ Signed(a) /\ mined[a] = None
  /\ chosen[a] \cap Spent = {}
  /\ height + 1 <= expiry[a]

Block ==
  /\ height < MaxExpiry + Final
  /\ \E T \in SUBSET {a \in Attempts : Mineable(a)} :
       /\ \A a, b \in T : a # b => chosen[a] \cap chosen[b] = {}
       /\ mined' = [a \in Attempts |-> IF a \in T THEN height + 1 ELSE mined[a]]
  /\ height' = height + 1
  /\ top' = IF height < top THEN top ELSE height + 1
  /\ UNCHANGED <<holder, attemptVars, reorgs>>

(* The last blocks are undone, none of them under Final others. *)
Reorg ==
  /\ reorgs < MaxReorgs
  /\ \E h \in 0..(height - 1) :
       /\ top - Final <= h
       /\ height' = h
       /\ mined' = [a \in Attempts |->
                      IF mined[a] # None /\ mined[a] > h THEN None ELSE mined[a]]
  /\ reorgs' = reorgs + 1
  /\ UNCHANGED <<holder, attemptVars, top>>

Coordinator(a) ==
  \/ ReadReservations(a)
  \/ Plan(a)
  \/ Return(a)
  \/ Reserve(a)
  \/ Sign(a)
  \/ Crash(a)
  \/ Release(a)

Next == (\E a \in Attempts : Coordinator(a)) \/ Block \/ Reorg

Spec == Init /\ [][Next]_vars

(* Blocks are found, and some coordinator looks at every reservation again. *)
FairSpec == Spec /\ WF_vars(Block) /\ \A a \in Attempts : WF_vars(Release(a))

-----------------------------------------------------------------------------
(* A note is reserved for an attempt that has reserved all the notes of its plan. *)
TypeOK ==
  /\ holder \in [Notes -> Attempts \cup {None}]
  /\ pc \in [Attempts -> {"idle", "read", "planned", "built", "reserved", "abandoned", "signed"}]
  /\ excluded \in [Attempts -> SUBSET Notes]
  /\ chosen \in [Attempts -> SUBSET Notes]
  /\ expiry \in [Attempts -> Nat]
  /\ mined \in [Attempts -> Nat \cup {None}]
  /\ height \in Nat /\ top \in Nat /\ reorgs \in Nat
  /\ \A n \in Reserved :
       /\ pc[holder[n]] \in {"reserved", "abandoned", "signed"}
       /\ n \in chosen[holder[n]]
       /\ \A m \in chosen[holder[n]] : holder[m] = holder[n]

(* Two signed plans that can both still be mined share no note, whatever         *)
(* coordinators crash, stall or retry: a plan is built from reservations read    *)
(* earlier, and the recheck at its end is no reservation.  A plan is live until  *)
(* no reorganisation can bring it back.                                          *)
Live(a) ==
  /\ Signed(a)
  /\ top - Final < expiry[a]
  /\ \A b \in Attempts :
       mined[b] # None /\ mined[b] <= top - Final => chosen[b] \cap chosen[a] = {}

NoTwoLivePlans ==
  \A a, b \in Attempts : a # b /\ Live(a) /\ Live(b) => chosen[a] \cap chosen[b] = {}

(* A transaction enters a block only while its notes are reserved for it, so no  *)
(* note that another attempt has reserved is spent under it, even by the         *)
(* transaction of a plan long released that a reorganisation makes valid again.  *)
MinedWhileReserved ==
  [][\A a \in Attempts : mined[a] = None /\ mined'[a] # None =>
       \A n \in chosen[a] : holder[n] = a]_vars

(* No reservation lasts for ever, not even one whose coordinator crashed before   *)
(* it signed: every plan has an expiry height, and blocks are found.              *)
ReservationsEnd == \A n \in Notes : holder[n] # None ~> holder[n] = None
=============================================================================
