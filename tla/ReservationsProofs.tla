------------------------- MODULE ReservationsProofs -------------------------
(***************************************************************************)
(* For any number of attempts, notes and reorganisations: no two signed    *)
(* plans that can still be mined share a note, and a transaction is mined  *)
(* only while its notes are reserved for it.  The argument is Covered: an  *)
(* attempt that has reserved its notes still holds all of them, or its     *)
(* plan is dead, and a dead plan stays dead.                               *)
(***************************************************************************)
EXTENDS Reservations, TLAPS

HasReserved(a) == pc[a] \in {"reserved", "abandoned", "signed"}

(* No block at a height the chain may go back to, or beyond, can hold it anew. *)
Dead(a) ==
  \/ expiry[a] <= top - Final
  \/ \E b \in Attempts :
       mined[b] # None /\ mined[b] <= top - Final /\ chosen[b] \cap chosen[a] # {}

(* The chain is never so short that a final block is undone; what is mined was *)
(* signed, and spends a note once.                                             *)
ChainSound ==
  /\ top - Final <= height /\ height <= top
  /\ \A a \in Attempts : mined[a] # None => Signed(a) /\ mined[a] <= height
  /\ \A a, b \in Attempts :
       a # b /\ mined[a] # None /\ mined[b] # None => chosen[a] \cap chosen[b] = {}

(* A plan that has reserved spends something. *)
Substantial ==
  \A a \in Attempts : pc[a] \in {"planned", "built"} \/ HasReserved(a) => chosen[a] # {}

Covered ==
  \A a \in Attempts : HasReserved(a) => Dead(a) \/ \A n \in chosen[a] : holder[n] = a

IInv == TypeOK /\ ChainSound /\ Substantial /\ Covered

-----------------------------------------------------------------------------
LEMMA InitIInv == Init => IInv
<1> SUFFICES ASSUME Init PROVE IInv
  OBVIOUS
<1> USE ReservationTypes DEF Init
<1>1. TypeOK
  BY DEF TypeOK, Reserved
<1>2. ChainSound
  BY DEF ChainSound
<1>3. Substantial /\ Covered
  BY DEF Substantial, Covered, HasReserved
<1> QED
  BY <1>1, <1>2, <1>3 DEF IInv

(* The height of a mined transaction is a number. *)
LEMMA MinedTyped ==
  ASSUME TypeOK, NEW a \in Attempts, mined[a] # None
  PROVE  mined[a] \in Nat
BY DEF TypeOK

(* A conclusive end is final: the plan is dead. *)
LEMMA ConclusiveDead ==
  ASSUME IInv, NEW a \in Attempts, HasReserved(a), Conclusive(a)
  PROVE  Dead(a)
<1> USE ReservationTypes
<1>1. chosen[a] # {} /\ height <= top /\ height \in Nat /\ top \in Nat /\ expiry[a] \in Nat
  BY DEF IInv, Substantial, ChainSound, TypeOK
<1>2. CASE Buried(a)
  <2>1. mined[a] # None /\ mined[a] <= top - Final
    BY <1>1, <1>2, MinedTyped DEF Buried, IInv
  <2> QED
    BY <1>1, <2>1 DEF Dead
<1>3. CASE expiry[a] + Final <= height
  BY <1>1, <1>3 DEF Dead
<1>4. CASE \E b \in Attempts : Buried(b) /\ chosen[b] \cap chosen[a] # {}
  <2>1. PICK b \in Attempts : Buried(b) /\ chosen[b] \cap chosen[a] # {}
    BY <1>4
  <2>2. mined[b] # None /\ mined[b] <= top - Final
    BY <1>1, <2>1, MinedTyped DEF Buried, IInv
  <2> QED
    BY <2>1, <2>2 DEF Dead
<1> QED
  BY <1>2, <1>3, <1>4 DEF Conclusive

(* No next block can hold a dead plan. *)
LEMMA DeadUnmineable ==
  ASSUME IInv, NEW a \in Attempts, Dead(a)
  PROVE  ~Mineable(a)
<1> SUFFICES ASSUME Mineable(a) PROVE FALSE
  OBVIOUS
<1> USE ReservationTypes
<1>1. top - Final <= height /\ height \in Nat /\ top \in Nat /\ expiry[a] \in Nat
  BY DEF IInv, ChainSound, TypeOK
<1>2. ~(expiry[a] <= top - Final)
  BY <1>1 DEF Mineable
<1>3. PICK b \in Attempts : mined[b] # None /\ chosen[b] \cap chosen[a] # {}
  BY <1>2 DEF Dead
<1>4. chosen[b] \subseteq Spent
  BY <1>3 DEF Spent
<1> QED
  BY <1>3, <1>4 DEF Mineable

(* A step of the attempts leaves alone what has reserved. *)
LEMMA AttemptsKeepDead ==
  ASSUME IInv, UNCHANGED chainVars, NEW a \in Attempts, Dead(a),
         UNCHANGED <<chosen[a], expiry[a]>>,
         \A b \in Attempts : Signed(b) => UNCHANGED chosen[b]
  PROVE  Dead(a)'
<1>1. UNCHANGED <<mined, height, top>>
  BY DEF chainVars
<1>2. CASE expiry[a] <= top - Final
  BY <1>1, <1>2 DEF Dead
<1>3. CASE ~(expiry[a] <= top - Final)
  <2>1. PICK b \in Attempts :
          mined[b] # None /\ mined[b] <= top - Final /\ chosen[b] \cap chosen[a] # {}
    BY <1>3 DEF Dead
  <2>2. UNCHANGED chosen[b]
    BY <2>1 DEF IInv, ChainSound
  <2> QED
    BY <1>1, <2>1, <2>2 DEF Dead
<1> QED
  BY <1>2, <1>3

(* Blocks and reorganisations keep what is final. *)
LEMMA ChainKeepsDead ==
  ASSUME IInv, Block \/ Reorg, NEW a \in Attempts, Dead(a)
  PROVE  Dead(a)'
<1> USE ReservationTypes
<1>1. /\ UNCHANGED <<chosen, expiry>>
      /\ top' \in Nat /\ top \in Nat /\ height \in Nat /\ expiry[a] \in Nat
      /\ Final \in Nat /\ top <= top'
  BY DEF IInv, TypeOK, ChainSound, Block, Reorg, attemptVars
<1>2. CASE expiry[a] <= top - Final
  BY <1>1, <1>2 DEF Dead
<1>3. CASE ~(expiry[a] <= top - Final)
  <2>1. PICK b \in Attempts :
          mined[b] # None /\ mined[b] <= top - Final /\ chosen[b] \cap chosen[a] # {}
    BY <1>3 DEF Dead
  <2>2. mined[b] \in Nat
    BY <2>1, MinedTyped DEF IInv
  <2>3. mined'[b] = mined[b]
    <3>1. CASE Block
      BY <2>1, <3>1 DEF Block, Mineable
    <3>2. CASE Reorg
      BY <1>1, <2>1, <2>2, <3>2 DEF Reorg
    <3> QED
      BY <3>1, <3>2
  <2>4. mined'[b] # None /\ mined'[b] <= top' - Final
    BY <1>1, <2>1, <2>2, <2>3
  <2>5. chosen'[b] \cap chosen'[a] # {}
    BY <1>1, <2>1
  <2> QED
    BY <2>4, <2>5 DEF Dead
<1> QED
  BY <1>2, <1>3

-----------------------------------------------------------------------------
LEMMA StepTyped ==
  ASSUME IInv, Next
  PROVE  TypeOK'
<1> USE ReservationTypes
<1>1. TypeOK /\ ChainSound
  BY DEF IInv
<1>2. ASSUME NEW a \in Attempts, ReadReservations(a)
      PROVE  TypeOK'
  BY <1>1, <1>2 DEF TypeOK, ReadReservations, Goto, Reserved, chainVars
<1>3. ASSUME NEW a \in Attempts, Plan(a)
      PROVE  TypeOK'
  <2>1. PICK S \in SUBSET ((Notes \ Spent) \ excluded[a]) : chosen' = [chosen EXCEPT ![a] = S]
    BY <1>3 DEF Plan
  <2>2. S \in SUBSET Notes /\ height + 1 + ExpiryOffset \in Nat
    BY <1>1, <2>1 DEF TypeOK
  <2> QED
    BY <1>1, <1>3, <2>1, <2>2 DEF TypeOK, Plan, Goto, Reserved, chainVars
<1>4. ASSUME NEW a \in Attempts, Return(a)
      PROVE  TypeOK'
  BY <1>1, <1>4 DEF TypeOK, Return, Restart, Goto, Reserved, chainVars
<1>5. ASSUME NEW a \in Attempts, Reserve(a)
      PROVE  TypeOK'
  <2>1. CASE Free(chosen[a])
    <3>1. /\ holder' = [n \in Notes |-> IF n \in chosen[a] THEN a ELSE holder[n]]
          /\ pc' = [pc EXCEPT ![a] = "reserved"]
          /\ UNCHANGED <<excluded, chosen, expiry, mined, height, top, reorgs>>
      BY <1>5, <2>1 DEF Reserve, Goto, chainVars
    <3>2. pc[a] = "built"
      BY <1>5 DEF Reserve
    <3>3. ASSUME NEW n \in Notes, holder'[n] # None
          PROVE  /\ pc'[holder'[n]] \in {"reserved", "abandoned", "signed"}
                 /\ n \in chosen[holder'[n]]
                 /\ \A m \in chosen[holder'[n]] : holder'[m] = holder'[n]
      <4>1. CASE n \in chosen[a]
        BY <1>1, <3>1, <4>1 DEF TypeOK
      <4>2. CASE n \notin chosen[a]
        <5>1. holder'[n] = holder[n] /\ n \in Reserved
          BY <3>1, <3>3, <4>2 DEF Reserved
        <5>2. \A m \in chosen[holder[n]] : m \in Notes /\ holder[m] = holder[n]
          BY <1>1, <5>1 DEF TypeOK, Reserved
        <5>3. \A m \in chosen[holder[n]] : m \notin chosen[a]
          BY <2>1, <5>1, <5>2 DEF Free, Reserved
        <5>4. holder[n] # a /\ holder[n] \in Attempts
          BY <1>1, <3>2, <5>1 DEF TypeOK, Reserved
        <5> QED
          BY <1>1, <3>1, <5>1, <5>2, <5>3, <5>4 DEF TypeOK
      <4> QED
        BY <4>1, <4>2
    <3> QED
      BY <1>1, <3>1, <3>3 DEF TypeOK, Reserved
  <2>2. CASE ~Free(chosen[a])
    BY <1>1, <1>5, <2>2 DEF TypeOK, Reserve, Restart, Goto, Reserved, chainVars
  <2> QED
    BY <2>1, <2>2
<1>6. ASSUME NEW a \in Attempts, Sign(a)
      PROVE  TypeOK'
  BY <1>1, <1>6 DEF TypeOK, Sign, Goto, Reserved, chainVars
<1>7. ASSUME NEW a \in Attempts, Crash(a)
      PROVE  TypeOK'
  <2>1. CASE pc[a] \in {"read", "planned", "built"} /\ Restart(a)
    BY <1>1, <1>7, <2>1 DEF TypeOK, Crash, Restart, Goto, Reserved, chainVars
  <2>2. CASE pc[a] = "reserved" /\ Goto(a, "abandoned") /\ UNCHANGED <<excluded, chosen, expiry>>
    BY <1>1, <1>7, <2>2 DEF TypeOK, Crash, Goto, Reserved, chainVars
  <2> QED
    BY <1>7, <2>1, <2>2 DEF Crash
<1>8. ASSUME NEW a \in Attempts, Release(a)
      PROVE  TypeOK'
  <2>1. /\ holder' = [n \in Notes |-> IF holder[n] = a THEN None ELSE holder[n]]
        /\ UNCHANGED <<pc, excluded, chosen, expiry, mined, height, top, reorgs>>
    BY <1>8 DEF Release, attemptVars, chainVars
  <2>2. ASSUME NEW n \in Notes, holder'[n] # None
        PROVE  /\ n \in Reserved /\ holder'[n] = holder[n]
               /\ \A m \in chosen[holder[n]] : m \in Notes /\ holder'[m] = holder[n]
    <3>1. n \in Reserved /\ holder'[n] = holder[n] /\ holder[n] # a
      BY <2>1, <2>2 DEF Reserved
    <3>2. \A m \in chosen[holder[n]] : m \in Notes /\ holder[m] = holder[n]
      BY <1>1, <3>1 DEF TypeOK, Reserved
    <3> QED
      BY <2>1, <3>1, <3>2
  <2>3. holder' \in [Notes -> Attempts \cup {None}]
    BY <1>1, <2>1 DEF TypeOK
  <2> QED
    BY <1>1, <2>1, <2>2, <2>3 DEF TypeOK, Reserved
<1>9. CASE Block
  BY <1>1, <1>9 DEF TypeOK, Block, Reserved, attemptVars
<1>10. CASE Reorg
  BY <1>1, <1>10 DEF TypeOK, Reorg, Reserved, attemptVars
<1> QED
  BY <1>2, <1>3, <1>4, <1>5, <1>6, <1>7, <1>8, <1>9, <1>10 DEF Next, Coordinator

(* Restarting, planning and reserving concern attempts that have signed nothing. *)
LEMMA AttemptStepShape ==
  ASSUME IInv, NEW a \in Attempts, Coordinator(a)
  PROVE  /\ UNCHANGED chainVars
         /\ \A b \in Attempts \ {a} : UNCHANGED <<pc[b], chosen[b], expiry[b]>>
         /\ HasReserved(a) => HasReserved(a)' /\ UNCHANGED <<chosen[a], expiry[a]>>
         /\ Signed(a) => Signed(a)'
<1>1. TypeOK
  BY DEF IInv
<1> USE <1>1 DEF TypeOK, HasReserved, Signed
<1>2. CASE ReadReservations(a)
  BY <1>2 DEF ReadReservations, Goto
<1>3. CASE Plan(a)
  BY <1>3 DEF Plan, Goto
<1>4. CASE Return(a)
  BY <1>4 DEF Return, Restart, Goto
<1>5. CASE Reserve(a)
  BY <1>5 DEF Reserve, Restart, Goto
<1>6. CASE Sign(a)
  BY <1>6 DEF Sign, Goto
<1>7. CASE Crash(a)
  BY <1>7 DEF Crash, Restart, Goto
<1>8. CASE Release(a)
  BY <1>8 DEF Release, attemptVars
<1> QED
  BY <1>2, <1>3, <1>4, <1>5, <1>6, <1>7, <1>8 DEF Coordinator

LEMMA StepChainSound ==
  ASSUME IInv, Next
  PROVE  ChainSound'
<1> USE ReservationTypes
<1>1. TypeOK /\ ChainSound
  BY DEF IInv
<1>2. ASSUME NEW a \in Attempts, Coordinator(a)
      PROVE  ChainSound'
  <2>1. /\ UNCHANGED <<mined, height, top>>
        /\ \A b \in Attempts : Signed(b) => Signed(b)' /\ UNCHANGED chosen[b]
    BY <1>2, AttemptStepShape DEF chainVars, Signed, HasReserved
  <2> QED
    BY <1>1, <2>1 DEF ChainSound
<1>3. CASE Block
  <2>1. PICK T \in SUBSET {a \in Attempts : Mineable(a)} :
          /\ \A a, b \in T : a # b => chosen[a] \cap chosen[b] = {}
          /\ mined' = [a \in Attempts |-> IF a \in T THEN height + 1 ELSE mined[a]]
    BY <1>3 DEF Block
  <2>2. /\ UNCHANGED <<pc, chosen>> /\ height' = height + 1
        /\ top' = IF height < top THEN top ELSE height + 1
    BY <1>3 DEF Block, attemptVars
  <2>3. top' - Final <= height' /\ height' <= top'
    BY <1>1, <2>2 DEF ChainSound, TypeOK
  <2>4. \A a \in Attempts : mined'[a] # None => Signed(a)' /\ mined'[a] <= height'
    <3> SUFFICES ASSUME NEW a \in Attempts, mined'[a] # None
                 PROVE  Signed(a)' /\ mined'[a] <= height'
      OBVIOUS
    <3>1. CASE a \in T
      BY <1>1, <2>1, <2>2, <3>1 DEF Mineable, Signed, TypeOK
    <3>2. CASE a \notin T
      BY <1>1, <2>1, <2>2, <3>2, MinedTyped DEF ChainSound, Signed, TypeOK
    <3> QED
      BY <3>1, <3>2
  <2>5. \A a, b \in Attempts :
          a # b /\ mined'[a] # None /\ mined'[b] # None => chosen'[a] \cap chosen'[b] = {}
    <3>1. \A a \in T, b \in Attempts :
            mined[b] # None => chosen[a] \cap chosen[b] = {}
      BY DEF Mineable, Spent
    <3> QED
      BY <1>1, <2>1, <2>2, <3>1 DEF ChainSound
  <2> QED
    BY <2>3, <2>4, <2>5 DEF ChainSound
<1>4. CASE Reorg
  <2>1. PICK h \in 0..(height - 1) :
          /\ top - Final <= h /\ height' = h
          /\ mined' = [a \in Attempts |-> IF mined[a] # None /\ mined[a] > h THEN None ELSE mined[a]]
    BY <1>4 DEF Reorg
  <2>2. UNCHANGED <<pc, chosen, top>>
    BY <1>4 DEF Reorg, attemptVars
  <2>3. top' - Final <= height' /\ height' <= top'
    BY <1>1, <2>1, <2>2 DEF ChainSound, TypeOK
  <2>4. \A a \in Attempts : mined'[a] # None => mined'[a] = mined[a] /\ mined'[a] <= height'
    BY <1>1, <2>1, MinedTyped
  <2> QED
    BY <1>1, <2>2, <2>3, <2>4 DEF ChainSound, Signed
<1> QED
  BY <1>2, <1>3, <1>4 DEF Next

LEMMA StepSubstantial ==
  ASSUME IInv, Next
  PROVE  Substantial'
<1>1. TypeOK /\ Substantial
  BY DEF IInv
<1>2. ASSUME NEW a \in Attempts, Coordinator(a)
      PROVE  Substantial'
  <2>1. \A b \in Attempts \ {a} : UNCHANGED <<pc[b], chosen[b]>>
    BY <1>2, AttemptStepShape
  <2>2. (pc[a] \in {"planned", "built"} \/ HasReserved(a))' => chosen'[a] # {}
    <3> USE <1>1 DEF TypeOK, Substantial, HasReserved
    <3>1. CASE ReadReservations(a)
      BY <3>1 DEF ReadReservations, Goto
    <3>2. CASE Plan(a)
      BY <3>2 DEF Plan, Goto
    <3>3. CASE Return(a)
      BY <3>3 DEF Return, Restart, Goto
    <3>4. CASE Reserve(a)
      BY <3>4 DEF Reserve, Restart, Goto
    <3>5. CASE Sign(a)
      BY <3>5 DEF Sign, Goto
    <3>6. CASE Crash(a)
      BY <3>6 DEF Crash, Restart, Goto
    <3>7. CASE Release(a)
      BY <3>7 DEF Release, attemptVars
    <3> QED
      BY <1>2, <3>1, <3>2, <3>3, <3>4, <3>5, <3>6, <3>7 DEF Coordinator
  <2> QED
    BY <1>1, <2>1, <2>2 DEF Substantial, HasReserved
<1>3. CASE Block \/ Reorg
  BY <1>1, <1>3 DEF Block, Reorg, attemptVars, Substantial, HasReserved
<1> QED
  BY <1>2, <1>3 DEF Next

LEMMA StepCovered ==
  ASSUME IInv, Next
  PROVE  Covered'
<1>1. TypeOK /\ ChainSound /\ Covered
  BY DEF IInv
<1>2. ASSUME NEW a \in Attempts, Coordinator(a)
      PROVE  Covered'
  <2>1. /\ UNCHANGED chainVars
        /\ \A b \in Attempts : Signed(b) => UNCHANGED chosen[b]
        /\ \A b \in Attempts \ {a} : UNCHANGED <<pc[b], chosen[b], expiry[b]>>
    BY <1>2, AttemptStepShape DEF Signed, HasReserved
  <2>2. \A b \in Attempts : HasReserved(b) => UNCHANGED <<chosen[b], expiry[b]>>
    BY <1>2, <2>1, AttemptStepShape
  <2>3. \A b \in Attempts : HasReserved(b) /\ Dead(b) => Dead(b)'
    BY <2>1, <2>2, AttemptsKeepDead
  <2>4. CASE Reserve(a) /\ Free(chosen[a])
    <3>1. /\ holder' = [n \in Notes |-> IF n \in chosen[a] THEN a ELSE holder[n]]
          /\ UNCHANGED chosen /\ chosen[a] \subseteq Notes
      BY <1>1, <2>4 DEF Reserve, TypeOK
    <3>2. ASSUME NEW b \in Attempts, HasReserved(b)'
          PROVE  Dead(b)' \/ \A n \in chosen'[b] : holder'[n] = b
      <4>1. CASE b = a
        BY <3>1, <4>1
      <4>2. CASE b # a
        <5>1. HasReserved(b)
          BY <2>1, <3>2, <4>2 DEF HasReserved
        <5>2. CASE Dead(b)
          BY <2>3, <5>1, <5>2
        <5>3. CASE \A n \in chosen[b] : holder[n] = b
          <6>1. \A n \in chosen[b] : n \in Notes /\ holder[n] # None
            BY <1>1, <5>3, ReservationTypes DEF TypeOK
          <6>2. \A n \in chosen[b] : n \notin chosen[a]
            BY <2>4, <6>1 DEF Free, Reserved
          <6> QED
            BY <3>1, <5>3, <6>1, <6>2
        <5> QED
          BY <1>1, <5>1, <5>2, <5>3 DEF Covered
      <4> QED
        BY <4>1, <4>2
    <3> QED
      BY <3>2 DEF Covered
  <2>5. CASE Release(a)
    <3>1. /\ holder' = [n \in Notes |-> IF holder[n] = a THEN None ELSE holder[n]]
          /\ UNCHANGED <<pc, chosen>>
      BY <2>5 DEF Release, attemptVars
    <3>2. HasReserved(a) /\ Dead(a)
      <4>1. HasReserved(a)
        BY <1>1, <2>5, ReservationTypes DEF Release, TypeOK, Reserved, HasReserved
      <4> QED
        BY <2>5, <4>1, ConclusiveDead DEF Release
    <3>3. ASSUME NEW b \in Attempts, HasReserved(b)'
          PROVE  Dead(b)' \/ \A n \in chosen'[b] : holder'[n] = b
      <4>1. HasReserved(b)
        BY <3>1, <3>3 DEF HasReserved
      <4>2. CASE Dead(b)
        BY <2>3, <4>1, <4>2
      <4>3. CASE ~Dead(b)
        <5>1. b # a /\ \A n \in chosen[b] : n \in Notes /\ holder[n] = b
          BY <1>1, <3>2, <4>1, <4>3 DEF Covered, TypeOK
        <5> QED
          BY <3>1, <5>1
      <4> QED
        BY <4>2, <4>3
    <3> QED
      BY <3>3 DEF Covered
  <2>6. CASE ~Release(a) /\ ~(Reserve(a) /\ Free(chosen[a]))
    <3>1. UNCHANGED holder
      BY <1>2, <2>6
      DEF Coordinator, ReadReservations, Plan, Return, Reserve, Sign, Crash
    <3>2. HasReserved(a)' => HasReserved(a)
      <4> USE <1>1 DEF TypeOK, HasReserved
      <4>1. CASE ReadReservations(a)
        BY <4>1 DEF ReadReservations, Goto
      <4>2. CASE Plan(a)
        BY <4>2 DEF Plan, Goto
      <4>3. CASE Return(a)
        BY <4>3 DEF Return, Restart, Goto
      <4>4. CASE Reserve(a)
        BY <2>6, <4>4 DEF Reserve, Restart, Goto
      <4>5. CASE Sign(a)
        BY <4>5 DEF Sign, Goto
      <4>6. CASE Crash(a)
        BY <4>6 DEF Crash, Restart, Goto
      <4> QED
        BY <1>2, <2>6, <4>1, <4>2, <4>3, <4>4, <4>5, <4>6 DEF Coordinator
    <3>3. \A b \in Attempts : HasReserved(b)' => HasReserved(b)
      BY <2>1, <3>2 DEF HasReserved
    <3> QED
      BY <1>1, <2>2, <2>3, <3>1, <3>3 DEF Covered
  <2> QED
    BY <2>4, <2>5, <2>6
<1>3. CASE Block \/ Reorg
  <2>1. UNCHANGED <<holder, pc, chosen>>
    BY <1>3 DEF Block, Reorg, attemptVars
  <2>2. \A b \in Attempts : Dead(b) => Dead(b)'
    BY <1>3, ChainKeepsDead
  <2> QED
    BY <1>1, <2>1, <2>2 DEF Covered, HasReserved
<1> QED
  BY <1>2, <1>3 DEF Next

LEMMA StepIInv == IInv /\ [Next]_vars => IInv'
<1>1. ASSUME IInv, Next
      PROVE  IInv'
  BY <1>1, StepTyped, StepChainSound, StepSubstantial, StepCovered DEF IInv
<1>2. ASSUME IInv, UNCHANGED vars
      PROVE  IInv'
  BY <1>2 DEF vars, attemptVars, chainVars, IInv, TypeOK, ChainSound, Substantial, Covered,
              HasReserved, Dead, Signed, Reserved
<1> QED
  BY <1>1, <1>2

-----------------------------------------------------------------------------
(* What the proofs rest on: every attempt that has reserved its notes holds all  *)
(* of them until its plan is dead for good, in every behaviour of any number of  *)
(* coordinators and of the chain.                                                *)
THEOREM Invariance == Spec => []IInv
<1>1. Init => IInv
  BY InitIInv
<1>2. IInv /\ [Next]_vars => IInv'
  BY StepIInv
<1> QED
  BY <1>1, <1>2, PTL DEF Spec

(* The store and the attempts keep their types, and reservations are all or      *)
(* nothing.                                                                      *)
THEOREM TypeCorrect == Spec => []TypeOK
<1>1. IInv => TypeOK
  BY DEF IInv
<1> QED
  BY <1>1, Invariance, PTL

(* Two signed plans that can both still be mined share no note: they both hold   *)
(* their notes.                                                                  *)
THEOREM NoConflict == Spec => []NoTwoLivePlans
<1>1. IInv => NoTwoLivePlans
  <2> SUFFICES ASSUME IInv, NEW a \in Attempts, NEW b \in Attempts, a # b, Live(a), Live(b)
               PROVE  chosen[a] \cap chosen[b] = {}
    BY DEF NoTwoLivePlans
  <2>1. ASSUME NEW c \in Attempts, Live(c)
        PROVE  \A n \in chosen[c] : holder[n] = c
    <3>1. HasReserved(c)
      BY <2>1 DEF Live, Signed, HasReserved
    <3>2. ~Dead(c)
      BY <2>1, ReservationTypes DEF Live, Dead, IInv, TypeOK
    <3> QED
      BY <3>1, <3>2 DEF IInv, Covered
  <2> QED
    BY <2>1
<1> QED
  BY <1>1, Invariance, PTL

(* A transaction enters a block only while its notes are reserved for it: what   *)
(* no longer holds them is dead, and no block takes it.                          *)
THEOREM MinedOnlyReserved == Spec => MinedWhileReserved
<1> DEFINE Held == \A a \in Attempts : mined[a] = None /\ mined'[a] # None =>
                     \A n \in chosen[a] : holder[n] = a
<1>1. IInv /\ [Next]_vars => Held
  <2> SUFFICES ASSUME IInv, [Next]_vars, NEW a \in Attempts, mined[a] = None, mined'[a] # None
               PROVE  \A n \in chosen[a] : holder[n] = a
    OBVIOUS
  <2>1. mined' # mined
    OBVIOUS
  <2>2. ASSUME NEW b \in Attempts, Coordinator(b)
        PROVE  FALSE
    BY <2>1, <2>2, AttemptStepShape DEF chainVars
  <2>3. CASE Block
    <3>1. Mineable(a)
      BY <2>3 DEF Block
    <3>2. HasReserved(a) /\ ~Dead(a)
      BY <3>1, DeadUnmineable DEF Mineable, Signed, HasReserved
    <3> QED
      BY <3>2 DEF IInv, Covered
  <2>4. CASE Reorg
    BY <2>4 DEF Reorg
  <2> QED
    BY <2>1, <2>2, <2>3, <2>4 DEF Next, vars, chainVars
<1> QED
  BY <1>1, Invariance, PTL DEF MinedWhileReserved, Spec
=============================================================================
