--------------------------- MODULE SelectionProofs ---------------------------
(***************************************************************************)
(* The notes and the fee of a withdrawal, for every wallet, amount, policy *)
(* and word size: the fee pays for the transaction that is really made, no *)
(* smaller set of notes would do, and a refusal is always a true one.  And *)
(* the notes of a consolidation: no larger set would do.                   *)
(***************************************************************************)
EXTENDS NoteSelection, Consolidation, FiniteSetTheorems, WellFoundedInduction, TLAPS

(* The natural numbers are well ordered, which is induction: a set with 0 and *)
(* with the successors of its members has them all.                           *)
LEMMA LeastNumber ==
  ASSUME NEW T, T \subseteq Nat, T # {}
  PROVE  \E x \in T : \A y \in T : x <= y
<1>1. PICK x \in T : \A y \in T : ~(<<y, x>> \in OpToRel(<, Nat))
  BY NatLessThanWellFounded, WFMin
<1>2. \A y \in T : y \in Nat /\ x \in Nat /\ ~(y < x)
  BY <1>1 DEF OpToRel
<1> QED
  BY <1>2

(* A set with 0 and with the successors of its members has every number. *)
LEMMA Induction ==
  ASSUME NEW P, 0 \in P, \A k \in Nat : k \in P => k + 1 \in P
  PROVE  Nat \subseteq P
<1> SUFFICES ASSUME ~(Nat \subseteq P)
             PROVE  FALSE
  OBVIOUS
<1>1. PICK x \in Nat \ P : \A y \in Nat \ P : x <= y
  BY LeastNumber
<1>2. x # 0 /\ x - 1 \in Nat /\ x - 1 \in P
  BY <1>1
<1> QED
  BY <1>1, <1>2

(* Sums of the first elements of a sequence exist, so that a recursion over    *)
(* them is defined.                                                          *)
LEMMA PrefixSums ==
  ASSUME NEW N \in Nat, NEW d \in [1..N -> Int]
  PROVE  \E f \in [0..N -> Int] : f[0] = 0 /\ \A k \in 1..N : f[k] = f[k - 1] + d[k]
<1> DEFINE Sums(f, m) == f[0] = 0 /\ \A k \in 1..m : f[k] = f[k - 1] + d[k]
           P == {m \in Nat : m <= N => \E f \in [0..m -> Int] : Sums(f, m)}
<1>1. 0 \in P
  <2>1. [k \in 0..0 |-> 0] \in [0..0 -> Int] /\ Sums([k \in 0..0 |-> 0], 0)
    OBVIOUS
  <2> QED
    BY <2>1
<1>2. ASSUME NEW m \in Nat, m \in P
      PROVE  m + 1 \in P
  <2>0. SUFFICES ASSUME m + 1 <= N
                 PROVE  \E f \in [0..(m + 1) -> Int] : Sums(f, m + 1)
    <3>1. m + 1 \in Nat
      OBVIOUS
    <3> HIDE DEF Sums
    <3> QED
      BY <3>1
  <2>1. PICK f \in [0..m -> Int] : Sums(f, m)
    BY <1>2, <2>0
  <2> DEFINE g == [k \in 0..(m + 1) |-> IF k = m + 1 THEN f[m] + d[m + 1] ELSE f[k]]
  <2>2. g \in [0..(m + 1) -> Int]
    BY <2>0
  <2>3. g[0] = 0
    BY <2>1
  <2>4. \A k \in 1..(m + 1) : g[k] = g[k - 1] + d[k]
    BY <2>0, <2>1
  <2> QED
    BY <2>2, <2>3, <2>4
<1> HIDE DEF P
<1>3. N \in P
  BY <1>1, <1>2, Induction
<1> QED
  BY <1>3 DEF P

(* f has the sums of the first values at the indices S. *)
SumsUp(f, v, S) ==
  /\ f \in [0..Len(v) -> Nat]
  /\ f[0] = 0
  /\ \A k \in 1..Len(v) : f[k] = f[k - 1] + (IF k \in S THEN v[k] ELSE 0)
  /\ SumOf(v, S) = f[Len(v)]

(* SumOf is the last of the sums its recursion defines. *)
LEMMA SumUnfolds == ASSUME NEW v \in Seq(Nat), NEW S PROVE \E f : SumsUp(f, v, S)
<1> DEFINE N == Len(v)
           d == [k \in 1..N |-> IF k \in S THEN v[k] ELSE 0]
           Rule(f) == [k \in 0..N |-> IF k = 0 THEN 0 ELSE f[k - 1] + (IF k \in S THEN v[k] ELSE 0)]
           F == CHOOSE f : f = Rule(f)
<1>1. N \in Nat /\ (\A k \in 1..N : v[k] \in Nat) /\ d \in [1..N -> Int]
  OBVIOUS
<1>2. PICK f \in [0..N -> Int] : f[0] = 0 /\ \A k \in 1..N : f[k] = f[k - 1] + d[k]
  BY <1>1, PrefixSums
<1>3. f = Rule(f)
  <2>1. \A k \in 0..N : f[k] = Rule(f)[k]
    BY <1>2
  <2> QED
    BY <2>1
<1>4. F = Rule(F)
  BY <1>3
<1>5. SumOf(v, S) = F[N]
  BY DEF SumOf
<1> HIDE DEF F
<1>6. /\ F[0] = 0
      /\ \A k \in 1..N : F[k] = F[k - 1] + (IF k \in S THEN v[k] ELSE 0)
      /\ F = [k \in 0..N |-> F[k]]
  <2>1. \A k \in 0..N : F[k] = Rule(F)[k]
    BY <1>4
  <2>2. F = [k \in 0..N |-> F[k]]
    BY <1>4
  <2> QED
    BY <1>1, <2>1, <2>2
<1>7. \A k \in 0..N : F[k] \in Nat
  <2> DEFINE P == {k \in Nat : k <= N => F[k] \in Nat}
  <2>1. 0 \in P
    BY <1>6
  <2>2. ASSUME NEW k \in Nat, k \in P
        PROVE  k + 1 \in P
    <3>1. ASSUME k + 1 <= N
          PROVE  F[k + 1] \in Nat
      <4>1. F[k] \in Nat /\ k + 1 \in 1..N /\ (k + 1) - 1 = k
        BY <1>1, <2>2, <3>1
      <4>2. F[k + 1] = F[(k + 1) - 1] + (IF k + 1 \in S THEN v[k + 1] ELSE 0)
        BY <1>6, <4>1
      <4> QED
        BY <1>1, <4>1, <4>2
    <3> QED
      BY <3>1
  <2> HIDE DEF P
  <2>3. Nat \subseteq P
    BY <2>1, <2>2, Induction
  <2> QED
    BY <1>1, <2>3 DEF P
<1>8. F \in [0..N -> Nat]
  BY <1>6, <1>7
<1> QED
  BY <1>5, <1>6, <1>8 DEF SumsUp

(* A sum is a number. *)
LEMMA SumNat == ASSUME NEW v \in Seq(Nat), NEW S PROVE SumOf(v, S) \in Nat
<1>1. PICK f : SumsUp(f, v, S)
  BY SumUnfolds
<1>2. Len(v) \in 0..Len(v)
  OBVIOUS
<1> QED
  BY <1>1, <1>2 DEF SumsUp

(* The sum of no notes. *)
LEMMA SumNone ==
  ASSUME NEW v \in Seq(Nat), NEW S
  PROVE  (\A k \in 1..Len(v) : k \notin S) => SumOf(v, S) = 0
<1>1. PICK f : SumsUp(f, v, S)
  BY SumUnfolds
<1>2. SUFFICES ASSUME \A k \in 1..Len(v) : k \notin S
               PROVE  f[Len(v)] = 0
  BY <1>1 DEF SumsUp
<1> DEFINE P == {k \in Nat : k <= Len(v) => f[k] = 0}
<1>3. 0 \in P
  BY <1>1 DEF SumsUp
<1>4. ASSUME NEW k \in Nat, k \in P
      PROVE  k + 1 \in P
  <2>1. ASSUME k + 1 <= Len(v)
        PROVE  f[k + 1] = 0
    <3>1. k + 1 \in 1..Len(v) /\ (k + 1) - 1 = k /\ f[k] = 0
      BY <1>4, <2>1
    <3> QED
      BY <1>1, <1>2, <3>1 DEF SumsUp
  <2> QED
    BY <2>1
<1> HIDE DEF P
<1>5. Nat \subseteq P
  BY <1>3, <1>4, Induction
<1> QED
  BY <1>5 DEF P, SumsUp

(* One more note adds its value. *)
LEMMA SumAdds ==
  ASSUME NEW v \in Seq(Nat), NEW S, NEW x \in 1..Len(v), x \notin S
  PROVE  SumOf(v, S \cup {x}) = SumOf(v, S) + v[x]
<1>1. PICK f : SumsUp(f, v, S)
  BY SumUnfolds
<1>2. PICK g : SumsUp(g, v, S \cup {x})
  BY SumUnfolds
<1>0. /\ f \in [0..Len(v) -> Nat] /\ g \in [0..Len(v) -> Nat]
      /\ \A k \in 1..Len(v) : v[k] \in Nat
  BY <1>1, <1>2 DEF SumsUp
<1> DEFINE P == {k \in Nat : k <= Len(v) => g[k] = f[k] + (IF x <= k THEN v[x] ELSE 0)}
<1>3. 0 \in P
  BY <1>1, <1>2 DEF SumsUp
<1>4. ASSUME NEW k \in Nat, k \in P
      PROVE  k + 1 \in P
  <2>1. ASSUME k + 1 <= Len(v)
        PROVE  g[k + 1] = f[k + 1] + (IF x <= k + 1 THEN v[x] ELSE 0)
    <3>1. k + 1 \in 1..Len(v) /\ (k + 1) - 1 = k /\ k \in 0..Len(v)
          /\ g[k] = f[k] + (IF x <= k THEN v[x] ELSE 0)
      BY <1>4, <2>1
    <3>2. /\ f[k + 1] = f[k] + (IF k + 1 \in S THEN v[k + 1] ELSE 0)
          /\ g[k + 1] = g[k] + (IF k + 1 \in S \cup {x} THEN v[k + 1] ELSE 0)
      BY <1>1, <1>2, <3>1 DEF SumsUp
    <3>3. f[k] \in Nat /\ g[k] \in Nat /\ v[k + 1] \in Nat /\ v[x] \in Nat
      BY <1>0, <3>1
    <3>4. CASE x = k + 1
      <4>1. f[k + 1] = f[k] /\ g[k + 1] = g[k] + v[x] /\ ~(x <= k) /\ x <= k + 1
        BY <3>2, <3>3, <3>4
      <4> QED
        BY <3>1, <3>3, <4>1
    <3>5. CASE x # k + 1
      <4>1. (x <= k + 1 <=> x <= k) /\ (k + 1 \in S \cup {x} <=> k + 1 \in S)
        BY <3>5
      <4>2. \E e \in Nat : f[k + 1] = f[k] + e /\ g[k + 1] = g[k] + e
        BY <3>2, <3>3, <4>1
      <4> QED
        BY <3>1, <3>3, <4>1, <4>2
    <3> QED
      BY <3>4, <3>5
  <2> QED
    BY <2>1
<1> HIDE DEF P
<1>5. Nat \subseteq P
  BY <1>3, <1>4, Induction
<1> QED
  BY <1>1, <1>2, <1>5 DEF P, SumsUp

(* More notes are worth no less. *)
LEMMA SumGrows ==
  ASSUME NEW v \in Seq(Nat), NEW T, NEW S \in SUBSET T
  PROVE  SumOf(v, S) <= SumOf(v, T)
<1>1. PICK f : SumsUp(f, v, S)
  BY SumUnfolds
<1>2. PICK g : SumsUp(g, v, T)
  BY SumUnfolds
<1>0. /\ f \in [0..Len(v) -> Nat] /\ g \in [0..Len(v) -> Nat]
      /\ \A k \in 1..Len(v) : v[k] \in Nat
  BY <1>1, <1>2 DEF SumsUp
<1> DEFINE P == {k \in Nat : k <= Len(v) => f[k] <= g[k]}
<1>3. 0 \in P
  BY <1>1, <1>2 DEF SumsUp
<1>4. ASSUME NEW k \in Nat, k \in P
      PROVE  k + 1 \in P
  <2>1. ASSUME k + 1 <= Len(v)
        PROVE  f[k + 1] <= g[k + 1]
    <3>1. k + 1 \in 1..Len(v) /\ (k + 1) - 1 = k /\ k \in 0..Len(v) /\ f[k] <= g[k]
      BY <1>4, <2>1
    <3>2. /\ f[k + 1] = f[k] + (IF k + 1 \in S THEN v[k + 1] ELSE 0)
          /\ g[k + 1] = g[k] + (IF k + 1 \in T THEN v[k + 1] ELSE 0)
      BY <1>1, <1>2, <3>1 DEF SumsUp
    <3>3. f[k] \in Nat /\ g[k] \in Nat /\ v[k + 1] \in Nat /\ (k + 1 \in S => k + 1 \in T)
      BY <1>0, <3>1
    <3> QED
      BY <3>1, <3>2, <3>3
  <2> QED
    BY <2>1
<1> HIDE DEF P
<1>5. Nat \subseteq P
  BY <1>3, <1>4, Induction
<1> QED
  BY <1>1, <1>2, <1>5 DEF P, SumsUp

(* The sum of two sets of notes without one in common. *)
LEMMA SumDisjoint ==
  ASSUME NEW v \in Seq(Nat), NEW S, NEW T, S \cap T = {}
  PROVE  SumOf(v, S \cup T) = SumOf(v, S) + SumOf(v, T)
<1>1. PICK f : SumsUp(f, v, S)
  BY SumUnfolds
<1>2. PICK g : SumsUp(g, v, T)
  BY SumUnfolds
<1>3. PICK h : SumsUp(h, v, S \cup T)
  BY SumUnfolds
<1>0. /\ f \in [0..Len(v) -> Nat] /\ g \in [0..Len(v) -> Nat] /\ h \in [0..Len(v) -> Nat]
      /\ \A p \in 1..Len(v) : v[p] \in Nat
  BY <1>1, <1>2, <1>3 DEF SumsUp
<1> DEFINE P == {m \in Nat : m <= Len(v) => h[m] = f[m] + g[m]}
<1>4. 0 \in P
  BY <1>1, <1>2, <1>3 DEF SumsUp
<1>5. ASSUME NEW m \in Nat, m \in P
      PROVE  m + 1 \in P
  <2>1. ASSUME m + 1 <= Len(v)
        PROVE  h[m + 1] = f[m + 1] + g[m + 1]
    <3>1. m + 1 \in 1..Len(v) /\ (m + 1) - 1 = m /\ m \in 0..Len(v) /\ h[m] = f[m] + g[m]
      BY <1>5, <2>1
    <3>2. /\ f[m + 1] = f[m] + (IF m + 1 \in S THEN v[m + 1] ELSE 0)
          /\ g[m + 1] = g[m] + (IF m + 1 \in T THEN v[m + 1] ELSE 0)
          /\ h[m + 1] = h[m] + (IF m + 1 \in S \cup T THEN v[m + 1] ELSE 0)
      BY <1>1, <1>2, <1>3, <3>1 DEF SumsUp
    <3>3. f[m] \in Nat /\ g[m] \in Nat /\ v[m + 1] \in Nat
      BY <1>0, <3>1
    <3>4. ~(m + 1 \in S /\ m + 1 \in T)
      OBVIOUS
    <3> QED
      BY <3>1, <3>2, <3>3, <3>4
  <2> QED
    BY <2>1
<1> HIDE DEF P
<1>6. Nat \subseteq P
  BY <1>4, <1>5, Induction
<1> QED
  BY <1>1, <1>2, <1>3, <1>6 DEF P, SumsUp

(* A finite number of indices, not none, has a last. *)
LEMMA LastIndex ==
  ASSUME NEW m \in Nat, NEW S \in SUBSET (1..m), S # {}
  PROVE  \E x \in S : \A y \in S : y <= x
<1> DEFINE T == {b \in Nat : \A y \in S : y <= b}
<1>1. m \in T
  OBVIOUS
<1>2. PICK b \in T : \A c \in T : b <= c
  BY <1>1, LeastNumber
<1>3. CASE b \in S
  BY <1>2, <1>3
<1>4. CASE b \notin S
  <2>1. b # 0
    <3>1. PICK y \in S : TRUE
      OBVIOUS
    <3> QED
      BY <1>2, <3>1
  <2>2. b - 1 \in Nat /\ \A y \in S : y <= b - 1
    BY <1>2, <1>4, <2>1
  <2> QED
    BY <1>2, <2>2
<1> QED
  BY <1>3, <1>4

(* Of as many notes none is worth more than the largest. *)
LEMMA LargestWorthMost ==
  ASSUME NEW v \in Seq(Nat), Ascending(v)
  PROVE  \A S \in SUBSET (1..Len(v)) :
           /\ IsFiniteSet(S) /\ Cardinality(S) \in 0..Len(v)
           /\ SumOf(v, S) <= SumOf(v, (Len(v) - Cardinality(S) + 1)..Len(v))
<1> DEFINE P == {c \in Nat : \A m \in 0..Len(v) : \A S \in SUBSET (1..m) :
                   Cardinality(S) = c => SumOf(v, S) <= SumOf(v, (m - c + 1)..m)}
<1>0. /\ Len(v) \in Nat /\ \A k \in 1..Len(v) : v[k] \in Nat
      /\ \A m \in 0..Len(v) : \A S \in SUBSET (1..m) : IsFiniteSet(S) /\ Cardinality(S) \in 0..m
  <2>1. Len(v) \in Nat /\ \A k \in 1..Len(v) : v[k] \in Nat
    OBVIOUS
  <2>2. ASSUME NEW m \in 0..Len(v), NEW S \in SUBSET (1..m)
        PROVE  IsFiniteSet(S) /\ Cardinality(S) \in 0..m
    <3>1. IsFiniteSet(1..m) /\ Cardinality(1..m) = m
      BY FS_Interval
    <3>2. IsFiniteSet(S) /\ Cardinality(S) <= Cardinality(1..m)
      BY <3>1, FS_Subset
    <3>3. Cardinality(S) \in Nat
      BY <3>2, FS_CardinalityType
    <3> QED
      BY <3>1, <3>2, <3>3
  <2> QED
    BY <2>1, <2>2
<1>1. 0 \in P
  <2>1. ASSUME NEW m \in 0..Len(v), NEW S \in SUBSET (1..m), Cardinality(S) = 0
        PROVE  SumOf(v, S) <= SumOf(v, (m - 0 + 1)..m)
    <3>1. S = {}
      BY <1>0, <2>1, FS_EmptySet
    <3> QED
      BY <3>1, SumGrows
  <2> QED
    BY <2>1
<1>2. ASSUME NEW c \in Nat, c \in P
      PROVE  c + 1 \in P
  <2>1. ASSUME NEW m \in 0..Len(v), NEW S \in SUBSET (1..m), Cardinality(S) = c + 1
        PROVE  SumOf(v, S) <= SumOf(v, (m - (c + 1) + 1)..m)
    <3>1. S # {} /\ m \in Nat
      <4>1. S = {} => Cardinality(S) = 0
        BY FS_EmptySet
      <4> QED
        BY <2>1, <4>1
    <3>2. PICK x \in S : \A y \in S : y <= x
      BY <3>1, LastIndex
    <3> DEFINE R == S \ {x}
               B == (m - (c + 1) + 1)..(m - 1)
    <3>3. m >= 1 /\ m - 1 \in 0..Len(v) /\ R \in SUBSET (1..(m - 1))
      BY <1>0, <3>2
    <3>4. Cardinality(R) = c
      <4>1. IsFiniteSet(S)
        BY <1>0
      <4>2. Cardinality(R) = Cardinality(S) - 1
        BY <4>1, FS_RemoveElement
      <4> QED
        BY <2>1, <4>2
    <3>5. SumOf(v, R) <= SumOf(v, (m - 1 - c + 1)..(m - 1))
      BY <1>2, <3>3, <3>4
    <3>6. (m - 1 - c + 1)..(m - 1) = B
      OBVIOUS
    <3>7. SumOf(v, S) = SumOf(v, R) + v[x]
      <4>1. S = R \cup {x} /\ x \notin R /\ x \in 1..Len(v)
        BY <1>0
      <4> HIDE DEF R
      <4> QED
        BY <4>1, SumAdds
    <3>8. SumOf(v, (m - (c + 1) + 1)..m) = SumOf(v, B) + v[m]
      <4>1. c + 1 <= m
        BY <1>0, <2>1
      <4>2. (m - (c + 1) + 1)..m = B \cup {m} /\ m \notin B /\ m \in 1..Len(v)
        BY <1>0, <3>3, <4>1
      <4> HIDE DEF B
      <4> QED
        BY <4>2, SumAdds
    <3>9. v[x] <= v[m] /\ v[x] \in Nat /\ v[m] \in Nat
      BY <1>0, <3>3 DEF Ascending
    <3>10. SumOf(v, R) \in Nat /\ SumOf(v, B) \in Nat
      BY SumNat
    <3> HIDE DEF R, B
    <3> QED
      BY <3>5, <3>6, <3>7, <3>8, <3>9, <3>10
  <2> QED
    BY <2>1
<1> HIDE DEF P
<1>3. Nat \subseteq P
  BY <1>1, <1>2, Induction
<1>4. ASSUME NEW S \in SUBSET (1..Len(v))
      PROVE  SumOf(v, S) <= SumOf(v, (Len(v) - Cardinality(S) + 1)..Len(v))
  <2>1. Len(v) \in 0..Len(v) /\ Cardinality(S) \in Nat
    BY <1>0
  <2>2. Cardinality(S) \in P
    BY <1>3, <2>1
  <2> QED
    BY <2>1, <2>2 DEF P
<1>5. ASSUME NEW S \in SUBSET (1..Len(v))
      PROVE  IsFiniteSet(S) /\ Cardinality(S) \in 0..Len(v)
  <2>1. Len(v) \in 0..Len(v)
    BY <1>0
  <2> QED
    BY <1>0, <2>1
<1> QED
  BY <1>4, <1>5

-----------------------------------------------------------------------------
(* A product of naturals is one. *)
LEMMA ProductNat == \A a, b \in Nat : a * b \in Nat
OBVIOUS

(* A product grows with its factor. *)
LEMMA ProductGrows ==
  ASSUME NEW a \in Nat, NEW b \in Nat, NEW c \in Nat, a <= b
  PROVE  a * c <= b * c
<1>1. PICK d \in Nat : b = a + d
  <2>1. b - a \in Nat /\ b = a + (b - a)
    OBVIOUS
  <2> QED
    BY <2>1
<1>2. b * c = a * c + d * c
  BY <1>1
<1>3. a * c \in Nat /\ d * c \in Nat
  BY <1>1, ProductNat
<1> QED
  BY <1>2, <1>3

(* The largest of the two counts and two. *)
LEMMA RequiredFee ==
  ASSUME NEW s \in Nat, NEW o \in Nat
  PROVE  \E m \in Nat :
           /\ m >= s /\ m >= o /\ m >= 2 /\ m \in {s, o, 2}
           /\ RequiredFeeSend(s, o) = ActionFee * m
<1> DEFINE m == CHOOSE x \in {s, o, 2} : x >= s /\ x >= o /\ x >= 2
<1>1. \E x \in {s, o, 2} : x >= s /\ x >= o /\ x >= 2
  OBVIOUS
<1>2. m \in {s, o, 2} /\ m >= s /\ m >= o /\ m >= 2
  BY <1>1
<1> HIDE DEF m
<1>3. m \in Nat
  BY <1>2
<1>4. RequiredFeeSend(s, o) = ActionFee * m
  BY DEF RequiredFeeSend, m
<1> QED
  BY <1>2, <1>3, <1>4

(* A fee never falls with one more spend or one more output. *)
LEMMA FeeGrows ==
  ASSUME policy \in Policies, NEW s \in Nat, NEW o \in Nat, NEW s1 \in Nat, NEW o1 \in Nat,
         s <= s1, o <= o1
  PROVE  Fee(s, o) \in Nat /\ Fee(s1, o1) \in Nat /\ Fee(s, o) <= Fee(s1, o1)
<1> DEFINE M == IF policy.Multiplier = 0 THEN 1 ELSE policy.Multiplier
<1>1. M \in Nat /\ policy.AddZat \in Nat
  BY WalletTypes
<1>2. PICK p \in Nat : p >= s /\ p >= o /\ p >= 2 /\ p \in {s, o, 2}
                       /\ RequiredFeeSend(s, o) = ActionFee * p
  BY RequiredFee
<1>3. PICK q \in Nat : q >= s1 /\ q >= o1 /\ q >= 2
                       /\ RequiredFeeSend(s1, o1) = ActionFee * q
  BY RequiredFee
<1>4. p <= q
  BY <1>2, <1>3
<1>5. ActionFee * p \in Nat /\ ActionFee * q \in Nat /\ ActionFee * p <= ActionFee * q
  <2>1. ActionFee \in Nat /\ ActionFee * p = p * ActionFee /\ ActionFee * q = q * ActionFee
    BY FeesTypes
  <2> QED
    BY <2>1, <1>4, ProductNat, ProductGrows
<1> DEFINE a == RequiredFeeSend(s, o)
           b == RequiredFeeSend(s1, o1)
<1>6. a \in Nat /\ b \in Nat /\ a <= b
  BY <1>2, <1>3, <1>5
<1>7. Fee(s, o) = a * M + policy.AddZat /\ Fee(s1, o1) = b * M + policy.AddZat
  BY DEF Fee, Apply
<1> HIDE DEF a, b, M
<1>8. a * M \in Nat /\ b * M \in Nat /\ a * M <= b * M
  BY <1>1, <1>6, ProductNat, ProductGrows
<1> QED
  BY <1>1, <1>7, <1>8

(* A fee is a natural number, and one more output never lowers it. *)
LEMMA FeeTyped ==
  ASSUME Requested
  PROVE  \A s, o \in Nat : Fee(s, o) \in Nat /\ Fee(s, o) <= Fee(s, o + 1)
<1> SUFFICES ASSUME NEW s \in Nat, NEW o \in Nat
             PROVE  Fee(s, o) \in Nat /\ Fee(s, o) <= Fee(s, o + 1)
  OBVIOUS
<1>1. o + 1 \in Nat /\ s <= s /\ o <= o + 1 /\ policy \in Policies
  BY DEF Requested
<1> QED
  BY <1>1, FeeGrows

(* The request, typed. *)
LEMMA RequestTyped ==
  ASSUME Requested
  PROVE  /\ n \in Nat /\ \A p \in 1..n : vals[p] \in Nat /\ vals[p] <= MaxU64
         /\ amount \in Nat /\ amount >= 1 /\ outputs \in Nat /\ minChange \in Nat
         /\ MaxU64 \in Nat
<1>1. vals \in Seq(1..MaxU64) /\ MaxU64 \in Nat
  BY SelectionTypes, WalletTypes, FeesTypes DEF Requested
<1>2. n \in Nat /\ \A p \in 1..n : vals[p] \in 1..MaxU64
  BY <1>1 DEF n
<1>3. amount \in 1..MaxU64 /\ outputs \in 1..OutputLimit /\ minChange \in Nat
  BY SelectionTypes DEF Requested
<1> QED
  BY <1>1, <1>2, <1>3, SelectionTypes

(* A request starts with nothing chosen. *)
LEMMA InitInv == Init => IInv
<1> SUFFICES ASSUME Init
             PROVE  IInv
  OBVIOUS
<1>1. Requested
  BY DEF Init, Requested
<1>2. n \in Nat /\ MaxU64 \in Nat
  BY <1>1, RequestTyped
<1>3. TypeOK
  BY <1>2 DEF Init, TypeOK, NoPair
<1> QED
  BY <1>1, <1>3 DEF Init, IInv, Loops, Chosen, Settled, FeeBounds, NoPair

-----------------------------------------------------------------------------
(* A stage that ends without choosing keeps the invariant. *)
LEMMA EndInv ==
  ASSUME IInv, UNCHANGED request, stage # "end",
         NEW result \in {"insufficient_balance", "error"}, End(result)
  PROVE  IInv'
BY DEF IInv, TypeOK, Requested, Loops, Chosen, Settled, FeeBounds, End, request, n, Covers, Needed,
       Fee

(* A choice that pays exactly, or enough for a change output, by the fee of as *)
(* many spends as there are notes in it.                                       *)
LEMMA PickInv ==
  ASSUME IInv, UNCHANGED request, stage # "end",
         NEW S \in SUBSET (1..n), NEW sum \in 0..MaxU64, NEW outs \in {outputs, outputs + 1},
         Fits(Needed(Cardinality(S), outs)), Cardinality(S) \in Nat,
         \/ outs = outputs /\ sum = Needed(Cardinality(S), outputs)
         \/ outs = outputs + 1 /\ Covers(sum, Cardinality(S)),
         Pick(S, sum, Cardinality(S), outs)
  PROVE  IInv'
<1>1. Requested /\ Requested'
  BY DEF IInv, Requested, request
<1>2. amount \in Nat /\ outputs \in Nat /\ MaxU64 \in Nat
  BY <1>1, RequestTyped
<1>3. Fee(Cardinality(S), outs) \in 0..MaxU64
  <2>1. outs \in Nat
    BY <1>2
  <2>2. Fee(Cardinality(S), outs) \in Nat
    BY <1>1, <2>1, FeeTyped
  <2> QED
    BY <1>2, <2>2 DEF Fits, Needed
<1>4. TypeOK'
  BY <1>3 DEF IInv, TypeOK, Pick, request, n
<1>5. Loops'
  BY DEF IInv, Loops, Pick, request, n, Covers, Needed, Fee
<1>6. Chosen'
  BY DEF IInv, Chosen, Pick, request, Covers, Needed, Fee
<1>7. Settled' /\ FeeBounds'
  BY DEF IInv, Loops, Pick, Settled, FeeBounds
<1> QED
  BY <1>1, <1>4, <1>5, <1>6, <1>7 DEF IInv

(* A stage entered with indices in range. *)
LEMMA EnterInv ==
  ASSUME IInv, UNCHANGED request, stage # "end", stage # "settle",
         NEW next \in {"one_fit", "two_exact", "two_fit", "greedy"},
         NEW i0 \in 0..(n + 1), NEW j0 \in 0..n, Enter(next, i0, j0),
         stage # "greedy",
         next \in {"two_exact", "two_fit"} => i0 >= 1,
         next = "greedy" => i0 = 0
  PROVE  IInv'
<1>1. Requested /\ Requested' /\ n \in Nat
  BY RequestTyped DEF IInv, Requested, request
<1>2. TypeOK'
  BY DEF IInv, TypeOK, Enter, request, n
<1>3. selected' = {} /\ total' = 0
  BY DEF IInv, TypeOK, Loops, Enter
<1>4. next = "greedy" => selected' = (n - i0 + 1)..n /\ i0 <= n
  BY <1>1, <1>3
<1>5. Loops'
  BY <1>3, <1>4 DEF IInv, Loops, Enter, request, n, Covers, Needed, Fee
<1>6. Chosen' /\ Settled' /\ FeeBounds'
  BY DEF IInv, Loops, Enter, Chosen, Settled, FeeBounds
<1> QED
  BY <1>1, <1>2, <1>5, <1>6 DEF IInv

(* The number of notes of a single, of a pair, and of the largest ones. *)
LEMMA Sizes ==
  /\ \A p : Cardinality({p}) = 1
  /\ \A p, q : p # q => Cardinality({p, q}) = 2
<1>1. \A p : IsFiniteSet({p}) /\ Cardinality({p}) = 1
  BY FS_Singleton
<1>2. ASSUME NEW p, NEW q, p # q
      PROVE  Cardinality({p, q}) = 2
  <2>1. {p, q} = {p} \cup {q} /\ q \notin {p}
    BY <1>2
  <2>2. Cardinality({p} \cup {q}) = 1 + 1
    BY <1>1, <2>1, FS_AddElement
  <2> QED
    BY <2>1, <2>2
<1> QED
  BY <1>1, <1>2

(* One note that pays exactly. *)
LEMMA OneExactInv == ASSUME IInv, OneExact, UNCHANGED request PROVE IInv'
<1> DEFINE exact == {p \in 1..n : vals[p] = Needed(1, outputs)}
<1>0. Requested /\ n \in Nat /\ (\A p \in 1..n : vals[p] \in 0..MaxU64) /\ outputs \in Nat
  BY RequestTyped DEF IInv
<1>1. CASE End("error")
  BY <1>1, EndInv DEF OneExact
<1>2. CASE NeededFits(1, outputs) /\ exact # {}
  <2>1. PICK p \in exact : Pick({p}, vals[p], 1, outputs)
    BY <1>2 DEF OneExact, End, Pick
  <2>2. {p} \in SUBSET (1..n) /\ Cardinality({p}) = 1
    BY Sizes
  <2> QED
    BY <1>0, <1>2, <2>1, <2>2, PickInv DEF OneExact, NeededFits
<1>3. CASE Enter("one_fit", 0, 0)
  BY <1>0, <1>3, EnterInv DEF OneExact
<1> QED
  BY <1>1, <1>2, <1>3 DEF OneExact

(* One note that pays for a change output too. *)
LEMMA OneFitInv == ASSUME IInv, OneFit, UNCHANGED request PROVE IInv'
<1> DEFINE enough == {p \in 1..n : Covers(vals[p], 1)}
<1>0. Requested /\ n \in Nat /\ (\A p \in 1..n : vals[p] \in 0..MaxU64) /\ outputs \in Nat
  BY RequestTyped DEF IInv
<1>1. CASE End("error")
  BY <1>1, EndInv DEF OneFit
<1>2. CASE NeededFits(1, outputs + 1) /\ enough # {}
  <2>1. PICK p \in enough : Pick({p}, vals[p], 1, outputs + 1)
    BY <1>2 DEF OneFit, End, Pick
  <2>2. {p} \in SUBSET (1..n) /\ Cardinality({p}) = 1
    BY Sizes
  <2> QED
    BY <1>0, <1>2, <2>1, <2>2, PickInv DEF OneFit, NeededFits
<1>3. CASE Enter("two_exact", 1, n)
  BY <1>0, <1>3, EnterInv DEF OneFit
<1> QED
  BY <1>1, <1>2, <1>3 DEF OneFit

(* The pair found from both ends: distinct, and their sum is the need. *)
LEMMA TwoExactInv == ASSUME IInv, TwoExact, UNCHANGED request PROVE IInv'
<1>0. /\ Requested /\ n \in Nat /\ (\A p \in 1..n : vals[p] \in Nat) /\ outputs \in Nat
      /\ MaxU64 \in Nat
      /\ i \in 0..(n + 1) /\ j \in 0..n /\ i >= 1
  BY RequestTyped DEF IInv, TypeOK, Loops, TwoExact
<1>1. CASE End("error")
  BY <1>1, EndInv DEF TwoExact
<1>2. CASE Enter("two_fit", 1, 0)
  BY <1>0, <1>2, EnterInv DEF TwoExact
<1>3. CASE /\ NeededFits(2, outputs) /\ i < j
           /\ Fits(vals[i] + vals[j]) /\ vals[i] + vals[j] = Needed(2, outputs)
           /\ Pick({i, j}, vals[i] + vals[j], 2, outputs)
  <2>1. {i, j} \in SUBSET (1..n) /\ i # j
    BY <1>0, <1>3
  <2>3. Cardinality({i, j}) = 2
    BY <2>1, Sizes, Zenon
  <2>2. vals[i] + vals[j] \in 0..MaxU64
    BY <1>0, <1>3 DEF Fits
  <2> QED
    BY <1>0, <1>3, <2>1, <2>2, <2>3, PickInv DEF TwoExact, NeededFits
<1>4. CASE i < j /\ Enter(stage, i + 1, j)
  BY <1>0, <1>4, EnterInv DEF TwoExact
<1>5. CASE i < j /\ Enter(stage, i, j - 1)
  BY <1>0, <1>5, EnterInv DEF TwoExact
<1> QED
  BY <1>1, <1>2, <1>3, <1>4, <1>5 DEF TwoExact

(* The pair kept is a pair of notes that covers, whatever turn it came from. *)
LEMMA TwoFitInv == ASSUME IInv, TwoFit, UNCHANGED request PROVE IInv'
<1>0. /\ Requested /\ n \in Nat /\ (\A p \in 1..n : vals[p] \in Nat) /\ outputs \in Nat
      /\ MaxU64 \in Nat /\ amount \in Nat
      /\ i \in 0..(n + 1) /\ j \in 0..n /\ i >= 1 /\ best \in (0..n) \X (0..n)
  BY RequestTyped DEF IInv, TypeOK, Loops, TwoFit
<1>1. CASE End("error")
  BY <1>1, EndInv DEF TwoFit
<1>2. CASE Enter("greedy", 0, 0)
  BY <1>0, <1>2, EnterInv DEF TwoFit
<1>3. CASE /\ NeededFits(2, outputs + 1) /\ best # NoPair
           /\ Pick({best[1], best[2]}, vals[best[1]] + vals[best[2]], 2, outputs + 1)
  <2>1. /\ 1 <= best[1] /\ best[1] < best[2] /\ best[2] <= n
        /\ vals[best[1]] + vals[best[2]] <= MaxU64
        /\ Covers(vals[best[1]] + vals[best[2]], 2)
    BY <1>3 DEF IInv, Loops
  <2>2. best[1] \in 1..n /\ best[2] \in 1..n /\ best[1] # best[2]
    BY <1>0, <2>1
  <2>3. /\ {best[1], best[2]} \in SUBSET (1..n)
        /\ vals[best[1]] + vals[best[2]] \in 0..MaxU64
    BY <1>0, <2>1, <2>2
  <2>4. Cardinality({best[1], best[2]}) = 2
    BY <2>2, Sizes, Zenon
  <2> QED
    BY <1>0, <1>3, <2>1, <2>3, <2>4, PickInv DEF TwoFit, NeededFits
<1>4. CASE i < n /\ Enter(stage, i + 1, j)
  BY <1>0, <1>4, EnterInv DEF TwoFit
<1>5. ASSUME i < n, NEW p \in 1..n, Completes(p), Fits(vals[i] + vals[p]),
             best' \in {best, <<i, p>>}, i' = i + 1,
             UNCHANGED <<stage, j, selected, total, fee, change, outcome>>
      PROVE  IInv'
  <2>1. TypeOK'
    <3>1. <<i, p>> \in (0..n) \X (0..n) /\ i + 1 \in 0..(n + 1)
      BY <1>0, <1>5
    <3> QED
      BY <1>5, <3>1 DEF IInv, TypeOK, request, n
  <2>2. /\ 1 <= i /\ i < p /\ p <= n /\ vals[i] + vals[p] <= MaxU64
        /\ Covers(vals[i] + vals[p], 2)
    <3>1. Needed(2, outputs + 1) \in Nat
      <4>1. 2 \in Nat /\ outputs + 1 \in Nat
        BY <1>0
      <4>2. Fee(2, outputs + 1) \in Nat
        BY <1>0, <4>1, FeeTyped
      <4> QED
        BY <1>0, <4>2 DEF Needed
    <3> QED
      BY <1>0, <1>5, <3>1 DEF Completes, Fits, Covers
  <2>3. Loops'
    <3>1. /\ vals' = vals /\ n' = n
          /\ \A sum : Covers(sum, 2)' <=> Covers(sum, 2)
      BY DEF request, n, Covers, Needed, Fee
    <3>2. best' = best => (best' # NoPair =>
            /\ 1 <= best'[1] /\ best'[1] < best'[2] /\ best'[2] <= n
            /\ vals[best'[1]] + vals[best'[2]] <= MaxU64
            /\ Covers(vals[best'[1]] + vals[best'[2]], 2))
      BY DEF IInv, Loops
    <3>3. best' = <<i, p>> =>
            /\ 1 <= best'[1] /\ best'[1] < best'[2] /\ best'[2] <= n
            /\ vals[best'[1]] + vals[best'[2]] <= MaxU64
            /\ Covers(vals[best'[1]] + vals[best'[2]], 2)
      BY <2>2
    <3>4. stage = "two_fit" /\ i' >= 1
      BY <1>0, <1>5 DEF TwoFit
    <3>5. stage' # "end" => outcome' = "none" /\ change' = 0
      BY <1>5 DEF IInv, Loops
    <3>6. selected' = {} /\ total' = 0
      BY <1>5, <3>4 DEF IInv, Loops
    <3>7. /\ 1 <= best'[1] /\ best'[1] < best'[2] /\ best'[2] <= n
          /\ vals[best'[1]] + vals[best'[2]] <= MaxU64
          /\ Covers(vals[best'[1]] + vals[best'[2]], 2)
          \/ best' = NoPair
      BY <1>5, <3>2, <3>3
    <3> QED
      BY <1>5, <3>1, <3>4, <3>5, <3>6, <3>7 DEF Loops, Covers, NoPair, Needed, Fee
  <2>4. Requested' /\ Chosen' /\ Settled' /\ FeeBounds'
    BY <1>5 DEF TwoFit, IInv, Requested, request, Loops, Chosen, Settled, FeeBounds
  <2> QED
    BY <2>1, <2>3, <2>4 DEF IInv
<1> QED
  BY <1>1, <1>2, <1>3, <1>4, <1>5 DEF TwoFit

(* The notes taken are the largest, and the fee is for as many spends. *)
LEMMA GreedyInv == ASSUME IInv, Greedy, UNCHANGED request PROVE IInv'
<1> DEFINE k == i + 1
           sum == total + vals[n - i]
           taken == selected \cup {n - i}
<1>0. /\ Requested /\ n \in Nat /\ (\A p \in 1..n : vals[p] \in Nat) /\ outputs \in Nat
      /\ MaxU64 \in Nat /\ total \in 0..MaxU64
      /\ i \in 0..n /\ selected = (n - i + 1)..n
  <2>1. Requested /\ stage = "greedy" /\ TypeOK /\ Loops
    BY DEF IInv, Greedy
  <2>2. /\ n \in Nat /\ (\A p \in 1..n : vals[p] \in Nat) /\ outputs \in Nat
        /\ MaxU64 \in Nat
    BY <2>1, RequestTyped
  <2>3. i \in 0..(n + 1) /\ i <= n /\ selected = (n - i + 1)..n /\ total \in 0..MaxU64
    BY <2>1 DEF TypeOK, Loops
  <2> QED
    BY <2>1, <2>2, <2>3
<1>1. CASE End("insufficient_balance") \/ End("error")
  BY <1>1, EndInv DEF Greedy
<1>2. ASSUME i < n, Fits(sum)
      PROVE  /\ taken = (n - k + 1)..n /\ taken \in SUBSET (1..n) /\ Cardinality(taken) = k
             /\ k \in 0..n /\ sum \in 0..MaxU64
  <2>1. taken = (n - k + 1)..n /\ k \in 0..n
    BY <1>0, <1>2
  <2>2. Cardinality(taken) = k
    <3>1. n - k + 1 \in Int /\ n \in Int
      BY <1>0
    <3>2. Cardinality((n - k + 1)..n) = IF n - k + 1 > n THEN 0 ELSE n - (n - k + 1) + 1
      BY <3>1, FS_Interval
    <3>3. (IF n - k + 1 > n THEN 0 ELSE n - (n - k + 1) + 1) = k
      BY <1>0, <1>2
    <3> HIDE DEF k, taken
    <3> QED
      BY <2>1, <3>2, <3>3
  <2>3. sum \in 0..MaxU64
    BY <1>0, <1>2 DEF Fits
  <2> QED
    BY <1>0, <2>1, <2>2, <2>3
<1>3. CASE /\ i < n /\ Fits(sum) /\ NeededFits(k, outputs) /\ sum = Needed(k, outputs)
           /\ Pick(taken, sum, k, outputs)
  <2>1. /\ taken \in SUBSET (1..n) /\ Cardinality(taken) = k /\ k \in Nat /\ sum \in 0..MaxU64
    BY <1>2, <1>3
  <2> HIDE DEF k, sum, taken
  <2> QED
    BY <1>3, <2>1, PickInv DEF Greedy, NeededFits
<1>4. CASE /\ i < n /\ Fits(sum) /\ NeededFits(k, outputs + 1) /\ Covers(sum, k)
           /\ Pick(taken, sum, k, outputs + 1)
  <2>1. /\ taken \in SUBSET (1..n) /\ Cardinality(taken) = k /\ k \in Nat /\ sum \in 0..MaxU64
    BY <1>2, <1>4
  <2> HIDE DEF k, sum, taken
  <2> QED
    BY <1>4, <2>1, PickInv DEF Greedy, NeededFits
<1>5. CASE /\ i < n /\ Fits(sum) /\ i' = k /\ selected' = taken /\ total' = sum
           /\ UNCHANGED <<stage, j, best, fee, change, outcome>>
  <2>1. /\ taken = (n - k + 1)..n /\ taken \in SUBSET (1..n) /\ k \in 0..n /\ sum \in 0..MaxU64
    BY <1>2, <1>5
  <2>2. TypeOK'
    BY <1>0, <1>5, <2>1 DEF IInv, TypeOK, request, n
  <2>3. Loops'
    BY <1>0, <1>5, <2>1 DEF IInv, Loops, Greedy, request, n, Covers, Needed, Fee
  <2>4. Requested' /\ Chosen' /\ Settled' /\ FeeBounds'
    BY <1>5 DEF Greedy, IInv, Requested, request, Loops, Chosen, Settled, FeeBounds
  <2> QED
    BY <2>2, <2>3, <2>4 DEF IInv
<1> QED
  BY <1>1, <1>3, <1>4, <1>5 DEF Greedy

(* The choice becomes a plan: whatever is left is change, or dust that the fee *)
(* takes, and what the fee takes is less than MinChangeZat.                    *)
LEMMA SettleInv == ASSUME IInv, Settle, UNCHANGED request PROVE IInv'
<1> DEFINE spends == Cardinality(selected)
           rest == total - amount - fee
<1>0. /\ Requested /\ n \in Nat /\ amount \in Nat /\ outputs \in Nat /\ minChange \in Nat
      /\ MaxU64 \in Nat /\ total \in 0..MaxU64 /\ fee \in 0..MaxU64 /\ selected \subseteq 1..n
  BY RequestTyped DEF IInv, TypeOK
<1>1. spends \in Nat
  <2>1. IsFiniteSet(1..n)
    BY <1>0, FS_Interval
  <2>2. IsFiniteSet(selected)
    BY <1>0, <2>1, FS_Subset
  <2> QED
    BY <2>2, FS_CardinalityType
<1>2. /\ Fee(spends, outputs) \in Nat /\ Fee(spends, outputs + 1) \in Nat
      /\ Fee(spends, outputs) <= Fee(spends, outputs + 1)
  <2>1. outputs + 1 \in Nat
    BY <1>0
  <2> QED
    BY <1>0, <1>1, <2>1, FeeTyped
<1>3. \/ fee = Fee(spends, outputs) /\ rest = 0
      \/ fee = Fee(spends, outputs + 1) /\ rest \in Nat
  BY <1>0, <1>2 DEF IInv, Chosen, Settle, Covers, Needed
<1>4. Requested' /\ UNCHANGED <<i, j, best, selected, total>> /\ stage' = "end"
  BY DEF Settle, IInv, Requested, request
<1>5. CASE outcome' = "too_many_inputs" /\ UNCHANGED <<fee, change>>
  BY <1>4, <1>5 DEF IInv, TypeOK, Loops, Chosen, Settled, FeeBounds, request, n, Covers, Needed, Fee
<1>6. CASE /\ fee' = IF Dust(rest) THEN fee + rest ELSE fee
           /\ change' = total - amount - fee'
           /\ outcome' \in {"invalid_request", "ok"}
  <2>1. /\ change' = IF Dust(rest) THEN 0 ELSE rest
        /\ fee' \in 0..MaxU64 /\ change' \in 0..MaxU64
        /\ total = amount + fee' + change'
        /\ change' > 0 => change' >= minChange
    BY <1>0, <1>3, <1>6 DEF Dust
  <2>2. TypeOK'
    BY <1>4, <1>6, <2>1 DEF IInv, TypeOK, request, n
  <2>3. /\ fee' >= Fee(spends, outputs + (IF change' > 0 THEN 1 ELSE 0))
        /\ fee' <= Fee(spends, outputs + 1) + (IF minChange = 0 THEN 0 ELSE minChange - 1)
    <3>1. CASE fee = Fee(spends, outputs) /\ rest = 0
      <4>0. ~Dust(rest)
        BY <1>0, <3>1 DEF Dust
      <4>1. change' = 0 /\ fee' = fee
        BY <1>6, <2>1, <3>1, <4>0
      <4>2. outputs + (IF change' > 0 THEN 1 ELSE 0) = outputs
        BY <1>0, <4>1
      <4> QED
        BY <1>0, <1>2, <3>1, <4>1, <4>2
    <3>2. CASE fee = Fee(spends, outputs + 1) /\ rest \in Nat /\ Dust(rest)
      <4>1. change' = 0 /\ fee' = fee + rest /\ rest < minChange /\ outputs + 0 = outputs
        BY <1>0, <1>6, <2>1, <3>2 DEF Dust
      <4> QED
        BY <1>0, <1>2, <3>2, <4>1
    <3>3. CASE fee = Fee(spends, outputs + 1) /\ rest \in Nat /\ ~Dust(rest)
      <4>1. fee' = fee /\ outputs + 0 = outputs /\ change' = rest
        BY <1>0, <1>6, <2>1, <3>3
      <4> QED
        BY <1>0, <1>2, <3>3, <4>1
    <3> QED
      BY <1>3, <3>1, <3>2, <3>3
  <2>4. FeeBounds'
    <3>1. /\ selected' = selected /\ minChange' = minChange /\ outputs' = outputs
          /\ \A s, o : Fee(s, o)' = Fee(s, o)
      BY <1>4 DEF request, Fee
    <3> QED
      BY <2>3, <3>1 DEF FeeBounds, Fee
  <2>5. Loops' /\ Chosen' /\ Settled'
    BY <1>4, <1>6, <2>1 DEF IInv, Loops, Chosen, Settled, request, n, Covers, Needed, Fee
  <2> QED
    BY <1>4, <2>2, <2>4, <2>5 DEF IInv
<1> QED
  BY <1>5, <1>6 DEF Settle

-----------------------------------------------------------------------------
(* So does what a plan needs. *)
LEMMA NeededGrows ==
  ASSUME Requested, NEW s \in Nat, NEW o \in Nat, NEW s1 \in Nat, NEW o1 \in Nat,
         s <= s1, o <= o1
  PROVE  Needed(s, o) \in Nat /\ Needed(s1, o1) \in Nat /\ Needed(s, o) <= Needed(s1, o1)
<1>1. amount \in Nat /\ policy \in Policies
  BY RequestTyped DEF Requested
<1>2. Fee(s, o) \in Nat /\ Fee(s1, o1) \in Nat /\ Fee(s, o) <= Fee(s1, o1)
  BY <1>1, FeeGrows
<1> QED
  BY <1>1, <1>2 DEF Needed

(* The values are numbers in ascending order, and so are their sums. *)
LEMMA WalletTyped ==
  ASSUME Requested
  PROVE  /\ vals \in Seq(Nat) /\ Ascending(vals) /\ n = Len(vals) /\ n \in Nat
         /\ \A p \in 1..n : vals[p] \in Nat
         /\ \A S : Sum(S) \in Nat
<1>1. vals \in Seq(1..MaxU64) /\ Ascending(vals) /\ MaxU64 \in Nat
  BY SelectionTypes, WalletTypes, FeesTypes DEF Requested
<1>2. vals \in Seq(Nat)
  <2>1. 1..MaxU64 \subseteq Nat
    OBVIOUS
  <2> QED
    BY <1>1, <2>1
<1>3. \A S : Sum(S) \in Nat
  BY <1>2, SumNat DEF Sum
<1> QED
  BY <1>1, <1>2, <1>3 DEF n

(* The sum of one note. *)
LEMMA SumOfOne ==
  ASSUME Requested, NEW p \in 1..n
  PROVE  Sum({p}) = vals[p] /\ Cardinality({p}) = 1
<1>1. Sum({}) = 0
  BY WalletTyped, SumNone DEF Sum
<1>2. Sum({} \cup {p}) = Sum({}) + vals[p]
  BY WalletTyped, SumAdds DEF Sum
<1>3. {} \cup {p} = {p} /\ vals[p] \in Nat
  BY WalletTyped
<1>4. Cardinality({p}) = 1
  BY Sizes, Zenon
<1>5. Sum({p}) = 0 + vals[p]
  BY <1>1, <1>2, <1>3
<1> QED
  BY <1>3, <1>4, <1>5

(* The sum of two. *)
LEMMA SumOfTwo ==
  ASSUME Requested, NEW p \in 1..n, NEW q \in 1..n, p # q
  PROVE  Sum({p, q}) = vals[p] + vals[q] /\ Cardinality({p, q}) = 2
<1>1. Sum({p} \cup {q}) = Sum({p}) + vals[q]
  BY WalletTyped, SumAdds DEF Sum
<1>2. {p} \cup {q} = {p, q} /\ Sum({p}) = vals[p]
  BY SumOfOne
<1>3. Cardinality({p, q}) = 2
  BY Sizes, Zenon
<1> QED
  BY <1>1, <1>2, <1>3

(* A set of notes is finite; of one or two notes it is a single or a pair; and *)
(* it is worth no more than as many of the largest.                            *)
LEMMA SetsOfNotes ==
  ASSUME Requested, NEW S \in SUBSET (1..n)
  PROVE  /\ IsFiniteSet(S) /\ Cardinality(S) \in 0..n
         /\ S # {} <=> Cardinality(S) # 0
         /\ Cardinality(S) = 1 => \E p \in 1..n : S = {p} /\ Sum(S) = vals[p]
         /\ Cardinality(S) = 2 => \E p, q \in 1..n : p < q /\ S = {p, q}
                                                     /\ Sum(S) = vals[p] + vals[q]
         /\ Sum(S) <= Sum(Top(Cardinality(S)))
<1>1. /\ IsFiniteSet(S) /\ Cardinality(S) \in 0..n
      /\ Sum(S) <= Sum(Top(Cardinality(S)))
  BY WalletTyped, LargestWorthMost DEF Sum, Top
<1>2. S # {} <=> Cardinality(S) # 0
  BY <1>1, FS_EmptySet
<1>3. ASSUME NEW p \in S
      PROVE  Cardinality(S \ {p}) = Cardinality(S) - 1 /\ IsFiniteSet(S \ {p})
  BY <1>1, FS_RemoveElement
<1>4. ASSUME Cardinality(S) = 1
      PROVE  \E p \in 1..n : S = {p} /\ Sum(S) = vals[p]
  <2>1. PICK p : p \in S
    <3>1. S # {}
      BY <1>2, <1>4
    <3> QED
      BY <3>1, Zenon
  <2>2. Cardinality(S \ {p}) = 0 /\ IsFiniteSet(S \ {p})
    BY <1>3, <1>4, <2>1
  <2>3. S \ {p} = {}
    BY <2>2, FS_EmptySet, Zenon
  <2>4. S = {p} /\ p \in 1..n
    BY <2>1, <2>3, Zenon
  <2> QED
    BY <2>4, SumOfOne
<1>5. ASSUME Cardinality(S) = 2
      PROVE  \E p, q \in 1..n : p < q /\ S = {p, q} /\ Sum(S) = vals[p] + vals[q]
  <2>1. PICK p : p \in S
    <3>1. S # {}
      BY <1>2, <1>5
    <3> QED
      BY <3>1, Zenon
  <2>2. Cardinality(S \ {p}) = 1 /\ IsFiniteSet(S \ {p})
    BY <1>3, <1>5, <2>1
  <2>3. PICK q \in S \ {p} : TRUE
    <3>1. S \ {p} = {} => Cardinality(S \ {p}) = 0
      BY FS_EmptySet, Zenon
    <3>2. Cardinality(S \ {p}) # 0
      BY <2>2
    <3> QED
      BY <3>1, <3>2, Zenon
  <2>4. Cardinality((S \ {p}) \ {q}) = 0 /\ IsFiniteSet((S \ {p}) \ {q})
    BY <2>2, <2>3, FS_RemoveElement
  <2>5. (S \ {p}) \ {q} = {}
    BY <2>4, FS_EmptySet, Zenon
  <2>6. S = {p, q} /\ S = {q, p} /\ p \in 1..n /\ q \in 1..n /\ p # q
    <3>1. p \in 1..n /\ q \in 1..n /\ p # q
      BY <2>1, <2>3, Zenon
    <3>2. S = {p, q}
      <4>1. ASSUME NEW x \in S, x # p, x # q
            PROVE  FALSE
        <5>1. x \in (S \ {p}) \ {q}
          BY <4>1, Zenon
        <5> QED
          BY <2>5, <5>1, Zenon
      <4> QED
        BY <2>1, <2>3, <4>1, Zenon
    <3>3. S = {q, p}
      BY <3>2, Zenon
    <3> QED
      BY <3>1, <3>2, <3>3
  <2>7. /\ Sum(S) = vals[p] + vals[q] /\ vals[p] \in Nat /\ vals[q] \in Nat
    BY <2>6, SumOfTwo, WalletTyped
  <2>8. CASE p < q
    BY <2>6, <2>7, <2>8
  <2>9. CASE q < p
    BY <2>6, <2>7, <2>9
  <2> QED
    BY <2>6, <2>8, <2>9
<1> QED
  BY <1>1, <1>2, <1>4, <1>5

-----------------------------------------------------------------------------
(* What the search says of a wallet stays true as long as the request does. *)
LEMMA Unmoved ==
  ASSUME UNCHANGED request
  PROVE  /\ vals' = vals /\ outputs' = outputs /\ n' = n
         /\ \A s, o : Needed(s, o)' = Needed(s, o)
         /\ \A sum, c : Covers(sum, c)' <=> Covers(sum, c)
         /\ \A S : Sum(S)' = Sum(S)
         /\ Overflows' <=> Overflows
         /\ Unpayable' <=> Unpayable
         /\ \A c : Top(c)' = Top(c)
<1>1. vals' = vals /\ outputs' = outputs /\ n' = n /\ amount' = amount /\ policy' = policy
  BY DEF request, n
<1>2. /\ \A s, o : Needed(s, o)' = Needed(s, o)
      /\ \A sum, c : Covers(sum, c)' <=> Covers(sum, c)
      /\ \A S : Sum(S)' = Sum(S)
      /\ \A c : Top(c)' = Top(c)
  BY <1>1 DEF Needed, Fee, Covers, Sum, Top
<1>3. Overflows' <=> Overflows
  BY <1>1 DEF Overflows, Sum, Needed, Fee
<1>4. Unpayable' <=> Unpayable
  BY <1>1 DEF Unpayable, Sum, Funds, Needed, Fee
<1> QED
  BY <1>1, <1>2, <1>3, <1>4

(* Nor does a choice lose what makes it the least. *)
LEMMA ChoiceKept ==
  ASSUME UNCHANGED request, NEW chosen, selected' = chosen
  PROVE  /\ Fewest(selected)' <=> Fewest(chosen)
         /\ Closest(selected)' <=> Closest(chosen)
         /\ Sum(selected)' = Sum(chosen)
<1>1. vals' = vals /\ outputs' = outputs /\ n' = n /\ amount' = amount /\ policy' = policy
  BY DEF request, n
<1> QED
  BY <1>1 DEF Fewest, Closest, Sum, Funds, Needed, Fee

(* A stage that ends, with a reason. *)
LEMMA EndSearch ==
  ASSUME UNCHANGED request, NEW result \in {"insufficient_balance", "error"}, End(result),
         result = "error" => Overflows, result = "insufficient_balance" => Unpayable
  PROVE  Searched' /\ Optimal' /\ InsufficientIsTrue' /\ NoSpuriousError'
<1>1. stage' = "end" /\ outcome' = result /\ (Overflows' <=> Overflows) /\ (Unpayable' <=> Unpayable)
  BY Unmoved, Zenon DEF End
<1>2. Searched' /\ Optimal'
  BY <1>1 DEF Searched, Optimal
<1>3. InsufficientIsTrue' /\ NoSpuriousError'
  BY <1>1 DEF InsufficientIsTrue, NoSpuriousError
<1> QED
  BY <1>2, <1>3

(* A choice that no other betters. *)
LEMMA PickSearch ==
  ASSUME IInv, UNCHANGED request, stage # "end",
         NEW S, NEW sum, NEW c, NEW outs, Pick(S, sum, c, outs),
         sum = Sum(S), Fewest(S), Cardinality(S) <= 2 => Closest(S)
  PROVE  Searched' /\ Optimal' /\ InsufficientIsTrue' /\ NoSpuriousError'
<1>1. stage' = "settle" /\ outcome' = "none" /\ selected' = S /\ total' = sum
  BY DEF Pick, IInv, Loops
<1>2. Fewest(selected)' /\ (Cardinality(selected') <= 2 => Closest(selected)')
      /\ total' = Sum(selected)'
  BY <1>1, ChoiceKept
<1>3. Searched' /\ InsufficientIsTrue' /\ NoSpuriousError'
  BY <1>1 DEF Searched, InsufficientIsTrue, NoSpuriousError
<1>4. Optimal'
  BY <1>1, <1>2 DEF Optimal
<1> QED
  BY <1>3, <1>4

(* One note alone is chosen before any other set is considered. *)
LEMMA FewestOne ==
  ASSUME Requested, NEW p \in 1..n
  PROVE  Fewest({p})
<1>1. Cardinality({p}) = 1
  BY SumOfOne
<1>2. ASSUME NEW S \in (SUBSET (1..n)) \ {{}}
      PROVE  ~(Cardinality(S) < 1)
  <2>1. S \in SUBSET (1..n) /\ S # {}
    BY Zenon
  <2>2. Cardinality(S) \in 0..n /\ Cardinality(S) # 0
    BY <2>1, SetsOfNotes, Zenon
  <2>3. n \in Nat
    BY RequestTyped
  <2> QED
    BY <2>2, <2>3
<1> QED
  BY <1>1, <1>2, Zenon DEF Fewest

(* What overflows on the way would for all the notes. *)
LEMMA NeedOverflows ==
  ASSUME Requested, NEW s \in 1..(IF n > 2 THEN n ELSE 2), NEW o \in {outputs, outputs + 1},
         ~NeededFits(s, o)
  PROVE  Overflows
<1> DEFINE m == IF n > 2 THEN n ELSE 2
<1>1. n \in Nat /\ outputs \in Nat /\ MaxU64 \in Nat
  BY RequestTyped
<1>2. m \in Nat /\ s \in Nat /\ o \in Nat /\ outputs + 1 \in Nat /\ s <= m /\ o <= outputs + 1
  BY <1>1
<1>3. Needed(s, o) \in Nat /\ Needed(m, outputs + 1) \in Nat
      /\ Needed(s, o) <= Needed(m, outputs + 1)
  <2> HIDE DEF m
  <2> QED
    BY <1>2, NeededGrows
<1>4. Needed(s, o) > MaxU64
  BY <1>1, <1>3 DEF NeededFits, Fits
<1> QED
  BY <1>1, <1>3, <1>4 DEF Overflows

(* The sum of some notes overflows only if that of all does. *)
LEMMA SumOverflows ==
  ASSUME Requested, NEW S \in SUBSET (1..n), ~Fits(Sum(S))
  PROVE  Overflows
<1>1. Sum(S) <= Sum(1..n) /\ Sum(S) \in Nat /\ Sum(1..n) \in Nat
  BY WalletTyped, SumGrows DEF Sum
<1>2. MaxU64 \in Nat
  BY RequestTyped
<1> QED
  BY <1>1, <1>2 DEF Overflows, Fits

(* A step to a stage that has not chosen yet owes only what that stage knows. *)
LEMMA StillSearching ==
  ASSUME stage' # "settle", outcome' = "none"
  PROVE  Optimal' /\ InsufficientIsTrue' /\ NoSpuriousError'
BY DEF Optimal, InsufficientIsTrue, NoSpuriousError

(* A pair is chosen when no single note pays for a plan with change. *)
LEMMA FewestTwo ==
  ASSUME Requested, NEW p \in 1..n, NEW q \in 1..n, p # q,
         \A r \in 1..n : ~Covers(vals[r], 1)
  PROVE  Fewest({p, q})
<1>1. Cardinality({p, q}) = 2
  BY SumOfTwo
<1>2. ASSUME NEW S \in (SUBSET (1..n)) \ {{}}, Cardinality(S) < 2
      PROVE  ~Funds(S)
  <2>1. S \in SUBSET (1..n) /\ S # {}
    BY Zenon
  <2>2. Cardinality(S) \in 0..n /\ Cardinality(S) # 0
    BY <2>1, SetsOfNotes, Zenon
  <2>3. n \in Nat
    BY RequestTyped
  <2>4. Cardinality(S) = 1
    BY <1>2, <2>2, <2>3
  <2>5. PICK r \in 1..n : S = {r} /\ Sum(S) = vals[r]
    BY <2>1, <2>4, SetsOfNotes
  <2> QED
    BY <2>4, <2>5 DEF Funds, Covers
<1> QED
  BY <1>1, <1>2, Zenon DEF Fewest

(* Either a note pays exactly, and nothing is better, or none does. *)
LEMMA OneExactSearch ==
  ASSUME SearchInv, OneExact, UNCHANGED request
  PROVE  Searched' /\ Optimal' /\ InsufficientIsTrue' /\ NoSpuriousError'
<1> DEFINE exact == {p \in 1..n : vals[p] = Needed(1, outputs)}
<1>0. IInv /\ Requested /\ stage = "one_exact" /\ outcome = "none" /\ n \in Nat
  BY RequestTyped DEF SearchInv, IInv, OneExact, Loops
<1>1. CASE ~NeededFits(1, outputs) /\ End("error")
  <2>1. Overflows
    BY <1>0, <1>1, NeedOverflows
  <2> QED
    BY <1>1, <2>1, EndSearch
<1>2. CASE exact # {}
  <2>1. PICK p \in exact :
          Pick({p}, vals[p], 1, outputs) \/ (~NeededFits(1, outputs) /\ End("error"))
    BY <1>2 DEF OneExact
  <2>2. Sum({p}) = vals[p] /\ Cardinality({p}) = 1 /\ Fewest({p})
    BY <1>0, SumOfOne, FewestOne
  <2>3. Closest({p})
    BY <2>2 DEF Closest
  <2>4. CASE Pick({p}, vals[p], 1, outputs)
    BY <1>0, <2>2, <2>3, <2>4, PickSearch
  <2> QED
    BY <1>1, <2>1, <2>4
<1>3. CASE exact = {} /\ Enter("one_fit", 0, 0)
  <2>1. UNCHANGED <<vals, amount, outputs, policy, n>> /\ stage' = "one_fit" /\ outcome' = "none"
    BY <1>0, <1>3 DEF request, n, Enter
  <2>2. \A p \in 1..n : vals[p] # Needed(1, outputs)
    BY <1>3
  <2>3. Searched'
    BY <2>1, <2>2 DEF Searched, Needed, Fee
  <2> QED
    BY <2>1, <2>3, StillSearching
<1> QED
  BY <1>1, <1>2, <1>3 DEF OneExact

(* In ascending order the first note that covers is the least that does. *)
LEMMA OneFitSearch ==
  ASSUME SearchInv, OneFit, UNCHANGED request
  PROVE  Searched' /\ Optimal' /\ InsufficientIsTrue' /\ NoSpuriousError'
<1> DEFINE enough == {p \in 1..n : Covers(vals[p], 1)}
<1>0. /\ IInv /\ Requested /\ stage = "one_fit" /\ outcome = "none" /\ n \in Nat
      /\ \A p \in 1..n : vals[p] # Needed(1, outputs)
  BY RequestTyped DEF SearchInv, IInv, OneFit, Loops, Searched
<1>1. CASE ~NeededFits(1, outputs + 1) /\ End("error")
  <2>1. Overflows
    BY <1>0, <1>1, NeedOverflows
  <2> QED
    BY <1>1, <2>1, EndSearch
<1>2. ASSUME NEW p \in enough, \A q \in enough : p <= q, Pick({p}, vals[p], 1, outputs + 1)
      PROVE  Searched' /\ Optimal' /\ InsufficientIsTrue' /\ NoSpuriousError'
  <2>1. Sum({p}) = vals[p] /\ Cardinality({p}) = 1 /\ Fewest({p})
    BY <1>0, SumOfOne, FewestOne
  <2>2. ASSUME NEW S \in SUBSET (1..n), Cardinality(S) = 1
        PROVE  Sum(S) # Needed(1, outputs) /\ (Funds(S) => vals[p] <= Sum(S))
    <3>1. PICK q \in 1..n : Sum(S) = vals[q]
      BY <1>0, <2>2, SetsOfNotes
    <3>2. ASSUME Funds(S)
          PROVE  vals[p] <= vals[q]
      <4>1. q \in enough
        BY <2>2, <3>1, <3>2 DEF Funds, Covers
      <4>2. Ascending(vals) /\ n = Len(vals)
        BY <1>0, WalletTyped
      <4> QED
        BY <1>2, <4>1, <4>2 DEF Ascending
    <3> QED
      BY <1>0, <3>1, <3>2
  <2>3. Closest({p})
    BY <2>1, <2>2 DEF Closest
  <2> QED
    BY <1>0, <1>2, <2>1, <2>3, PickSearch
<1>3. CASE enough = {} /\ Enter("two_exact", 1, n)
  <2>1. UNCHANGED <<vals, amount, outputs, policy, n>> /\ stage' = "two_exact" /\ outcome' = "none"
        /\ i' = 1 /\ j' = n
    BY <1>0, <1>3 DEF request, n, Enter
  <2>2. \A p \in 1..n : ~Covers(vals[p], 1)
    BY <1>3
  <2>3. Searched'
    BY <1>0, <2>1, <2>2 DEF Searched, Needed, Fee, Covers
  <2> QED
    BY <2>1, <2>3, StillSearching
<1> QED
  BY <1>1, <1>2, <1>3 DEF OneFit

(* A turn of the search from both ends drops no pair that pays exactly: a note *)
(* dropped on the left is too small with every note still in, on the right too *)
(* large.                                                                      *)
LEMMA TwoExactSearch ==
  ASSUME SearchInv, TwoExact, UNCHANGED request
  PROVE  Searched' /\ Optimal' /\ InsufficientIsTrue' /\ NoSpuriousError'
<1>0. /\ IInv /\ Requested /\ stage = "two_exact" /\ outcome = "none" /\ n \in Nat
      /\ i \in 1..(n + 1) /\ j \in 0..n /\ (\A p \in 1..n : vals[p] \in Nat)
      /\ Ascending(vals) /\ n = Len(vals)
      /\ \A p \in 1..n : vals[p] # Needed(1, outputs) /\ ~Covers(vals[p], 1)
      /\ \A p, q \in 1..n : p < q /\ vals[p] + vals[q] = Needed(2, outputs) => i <= p /\ q <= j
      /\ Needed(2, outputs) \in Nat
  <2>1. IInv /\ Requested /\ stage = "two_exact" /\ outcome = "none" /\ Searched /\ TypeOK /\ i >= 1
    BY DEF SearchInv, IInv, TwoExact, Loops
  <2>2. n \in Nat /\ outputs \in Nat
    BY <2>1, RequestTyped
  <2>3. Needed(2, outputs) \in Nat
    BY <2>1, <2>2, NeededGrows
  <2>4. i \in 1..(n + 1) /\ j \in 0..n
    BY <2>1, <2>2 DEF TypeOK
  <2> QED
    BY <2>1, <2>2, <2>3, <2>4, WalletTyped DEF Searched
<1>1. CASE ~NeededFits(2, outputs) /\ End("error")
  <2>1. Overflows
    BY <1>0, <1>1, NeedOverflows
  <2> QED
    BY <1>1, <2>1, EndSearch
<1>2. CASE i >= j /\ Enter("two_fit", 1, 0)
  <2>1. UNCHANGED <<vals, amount, outputs, policy, n>> /\ stage' = "two_fit" /\ outcome' = "none"
        /\ i' = 1
    BY <1>0, <1>2 DEF request, n, Enter
  <2>2. \A p, q \in 1..n : p < q => vals[p] + vals[q] # Needed(2, outputs)
    BY <1>0, <1>2
  <2>3. Searched'
    BY <1>0, <2>1, <2>2 DEF Searched, Needed, Fee, Covers
  <2> QED
    BY <2>1, <2>3, StillSearching
<1>3. CASE i < j /\ ~Fits(vals[i] + vals[j]) /\ End("error")
  <2>1. i \in 1..n /\ j \in 1..n /\ i # j /\ {i, j} \in SUBSET (1..n)
    BY <1>0, <1>3
  <2>2. Sum({i, j}) = vals[i] + vals[j]
    BY <1>0, <2>1, SumOfTwo
  <2>3. Overflows
    BY <1>0, <1>3, <2>1, <2>2, SumOverflows
  <2> QED
    BY <1>3, <2>3, EndSearch
<1>4. CASE i < j /\ vals[i] + vals[j] = Needed(2, outputs) /\ Pick({i, j}, vals[i] + vals[j], 2, outputs)
  <2>1. i \in 1..n /\ j \in 1..n /\ i # j
    BY <1>0, <1>4
  <2>2. Sum({i, j}) = vals[i] + vals[j] /\ Cardinality({i, j}) = 2 /\ Fewest({i, j})
    BY <1>0, <2>1, SumOfTwo, FewestTwo
  <2>3. Closest({i, j})
    BY <1>4, <2>2 DEF Closest
  <2> QED
    BY <1>0, <1>4, <2>2, <2>3, PickSearch
<1>5. CASE i < j /\ vals[i] + vals[j] < Needed(2, outputs) /\ Enter(stage, i + 1, j)
  <2>1. UNCHANGED <<vals, amount, outputs, policy, n>> /\ stage' = "two_exact" /\ outcome' = "none"
        /\ i' = i + 1 /\ j' = j
    BY <1>0, <1>5 DEF request, n, Enter
  <2>2. ASSUME NEW p \in 1..n, NEW q \in 1..n, p < q, vals[p] + vals[q] = Needed(2, outputs)
        PROVE  i + 1 <= p /\ q <= j
    <3>1. i <= p /\ q <= j /\ i \in 1..n /\ j \in 1..n
      BY <1>0, <1>5, <2>2
    <3>2. vals[q] <= vals[j]
      BY <1>0, <3>1 DEF Ascending
    <3> QED
      BY <1>0, <1>5, <2>2, <3>1, <3>2
  <2>3. Searched'
    BY <1>0, <2>1, <2>2 DEF Searched, Needed, Fee, Covers
  <2> QED
    BY <2>1, <2>3, StillSearching
<1>6. CASE i < j /\ vals[i] + vals[j] > Needed(2, outputs) /\ Enter(stage, i, j - 1)
  <2>1. UNCHANGED <<vals, amount, outputs, policy, n>> /\ stage' = "two_exact" /\ outcome' = "none"
        /\ i' = i /\ j' = j - 1
    BY <1>0, <1>6 DEF request, n, Enter
  <2>2. ASSUME NEW p \in 1..n, NEW q \in 1..n, p < q, vals[p] + vals[q] = Needed(2, outputs)
        PROVE  i <= p /\ q <= j - 1
    <3>1. i <= p /\ q <= j /\ i \in 1..n /\ j \in 1..n
      BY <1>0, <1>6, <2>2
    <3>2. vals[i] <= vals[p]
      BY <1>0, <3>1 DEF Ascending
    <3> QED
      BY <1>0, <1>6, <2>2, <3>1, <3>2
  <2>3. Searched'
    BY <1>0, <2>1, <2>2 DEF Searched, Needed, Fee, Covers
  <2> QED
    BY <2>1, <2>3, StillSearching
<1> QED
  BY <1>1, <1>2, <1>3, <1>4, <1>5, <1>6 DEF TwoExact

(* The first note that completes i makes the least pair that starts with i, and *)
(* the least of these is kept; the search may stop at a note that covers alone,  *)
(* since there is none when it starts.                                           *)
LEMMA TwoFitSearch ==
  ASSUME SearchInv, TwoFit, UNCHANGED request
  PROVE  Searched' /\ Optimal' /\ InsufficientIsTrue' /\ NoSpuriousError'
<1> DEFINE more == i < n /\ vals[i] < Needed(2, outputs + 1)
           completing == {k \in 1..n : Completes(k)}
           b == vals[best[1]] + vals[best[2]]
<1>0. /\ IInv /\ Requested /\ stage = "two_fit" /\ outcome = "none" /\ n \in Nat
      /\ i \in 1..(n + 1) /\ (\A p \in 1..n : vals[p] \in Nat)
      /\ Ascending(vals) /\ n = Len(vals) /\ selected = {} /\ total = 0
      /\ Needed(1, outputs + 1) \in Nat /\ Needed(2, outputs + 1) \in Nat
      /\ Needed(1, outputs + 1) <= Needed(2, outputs + 1)
  <2>1. IInv /\ Requested /\ stage = "two_fit" /\ outcome = "none" /\ TypeOK /\ i >= 1
        /\ selected = {} /\ total = 0
    BY DEF SearchInv, IInv, TwoFit, Loops
  <2>2. n \in Nat /\ outputs + 1 \in Nat
    BY <2>1, RequestTyped
  <2>3. /\ Needed(1, outputs + 1) \in Nat /\ Needed(2, outputs + 1) \in Nat
        /\ Needed(1, outputs + 1) <= Needed(2, outputs + 1)
    <3>1. 1 \in Nat /\ 2 \in Nat /\ 1 <= 2 /\ outputs + 1 <= outputs + 1
      BY <2>2
    <3> QED
      BY <2>1, <2>2, <3>1, NeededGrows
  <2>4. i \in 1..(n + 1)
    BY <2>1, <2>2 DEF TypeOK
  <2> QED
    BY <2>1, <2>2, <2>3, <2>4, WalletTyped
<1>01. /\ \A p \in 1..n : vals[p] # Needed(1, outputs) /\ ~Covers(vals[p], 1)
       /\ \A p, q \in 1..n : p < q => vals[p] + vals[q] # Needed(2, outputs)
       /\ \A p, q \in 1..n : p < q /\ p < i /\ Covers(vals[p] + vals[q], 2) =>
            best # NoPair /\ b <= vals[p] + vals[q]
  BY <1>0 DEF SearchInv, Searched
<1>02. best # NoPair => best[1] \in 1..n /\ best[2] \in 1..n /\ best[1] < best[2]
  BY <1>0 DEF IInv, Loops, TypeOK
<1>03. ~more => \A p, q \in 1..n : p < q /\ Covers(vals[p] + vals[q], 2) =>
                  best # NoPair /\ b <= vals[p] + vals[q]
  <2>1. ASSUME i < n, vals[i] >= Needed(2, outputs + 1)
        PROVE  FALSE
    <3>1. i \in 1..n /\ vals[i] \in Nat
      BY <1>0, <2>1
    <3>2. vals[i] >= Needed(1, outputs + 1)
      BY <1>0, <2>1, <3>1
    <3> QED
      BY <1>01, <3>1, <3>2 DEF Covers
  <2>2. ASSUME ~more
        PROVE  i >= n
    <3>1. i < n => i \in 1..n /\ vals[i] \in Nat
      BY <1>0
    <3> QED
      BY <1>0, <2>1, <2>2, <3>1
  <2>3. ASSUME ~more, NEW p \in 1..n, NEW q \in 1..n, p < q
        PROVE  p < i
    BY <1>0, <2>2, <2>3
  <2> HIDE DEF more, b
  <2> QED
    BY <1>01, <2>3
<1>1. CASE ~NeededFits(2, outputs + 1) /\ End("error")
  <2>1. Overflows
    BY <1>0, <1>1, NeedOverflows
  <2> QED
    BY <1>1, <2>1, EndSearch
<1>2. CASE ~more /\ best = NoPair /\ Enter("greedy", 0, 0)
  <2>1. UNCHANGED <<vals, amount, outputs, policy, n>> /\ stage' = "greedy" /\ outcome' = "none"
        /\ i' = 0 /\ selected' = {} /\ total' = 0
    BY <1>0, <1>2 DEF request, n, Enter
  <2>2. \A p, q \in 1..n : p < q => ~Covers(vals[p] + vals[q], 2)
    BY <1>03, <1>2
  <2>3. Sum({}) = 0
    BY <1>0, WalletTyped, SumNone DEF Sum
  <2>4. Sum(selected)' = 0
    BY <2>1, <2>3 DEF Sum
  <2>5. \A c \in 1..i' : FALSE
    BY <2>1
  <2>6. /\ \A p \in 1..n' : vals'[p] # Needed(1, outputs)' /\ ~Covers(vals[p], 1)'
        /\ \A p, q \in 1..n' : p < q => vals'[p] + vals'[q] # Needed(2, outputs)'
                                        /\ ~Covers(vals[p] + vals[q], 2)'
    BY <1>01, <2>1, <2>2 DEF Needed, Fee, Covers
  <2>7. Searched'
    BY <2>1, <2>4, <2>5, <2>6 DEF Searched
  <2> QED
    BY <2>1, <2>7, StillSearching
<1>3. CASE ~more /\ best # NoPair /\ Pick({best[1], best[2]}, b, 2, outputs + 1)
  <2>1. best[1] \in 1..n /\ best[2] \in 1..n /\ best[1] # best[2]
    BY <1>02, <1>3
  <2>2. Sum({best[1], best[2]}) = b /\ Cardinality({best[1], best[2]}) = 2 /\ Fewest({best[1], best[2]})
    BY <1>0, <1>01, <2>1, SumOfTwo, FewestTwo
  <2>3. ASSUME NEW S \in SUBSET (1..n), Cardinality(S) = 2
        PROVE  Sum(S) # Needed(2, outputs) /\ (Funds(S) => b <= Sum(S))
    <3>1. PICK p, q \in 1..n : p < q /\ Sum(S) = vals[p] + vals[q]
      BY <1>0, <2>3, SetsOfNotes
    <3>2. Funds(S) => Covers(vals[p] + vals[q], 2)
      BY <2>3, <3>1 DEF Funds, Covers
    <3> QED
      BY <1>01, <1>03, <1>3, <3>1, <3>2
  <2>4. Closest({best[1], best[2]})
    BY <2>2, <2>3 DEF Closest
  <2> QED
    BY <1>0, <1>3, <2>2, <2>4, PickSearch
<1>4. CASE more /\ completing = {} /\ Enter(stage, i + 1, j)
  <2>1. UNCHANGED <<vals, amount, outputs, policy, n, best>> /\ stage' = "two_fit"
        /\ outcome' = "none" /\ i' = i + 1
    BY <1>0, <1>4 DEF request, n, Enter
  <2>2. ASSUME NEW p \in 1..n, NEW q \in 1..n, p < q, p < i + 1, Covers(vals[p] + vals[q], 2)
        PROVE  best # NoPair /\ b <= vals[p] + vals[q]
    <3>1. CASE p = i
      <4>1. Completes(q)
        BY <1>0, <2>2, <3>1 DEF Covers, Completes
      <4> QED
        BY <1>4, <4>1
    <3>2. CASE p # i
      BY <1>0, <1>01, <2>2, <3>2
    <3> QED
      BY <3>1, <3>2
  <2>3. Searched'
    BY <1>01, <2>1, <2>2 DEF Searched, Needed, Fee, Covers
  <2> QED
    BY <2>1, <2>3, StillSearching
<1>5. ASSUME more, NEW k \in completing, \A l \in completing : k <= l
      PROVE  /\ i \in 1..n /\ i # k /\ {i, k} \in SUBSET (1..n) /\ Sum({i, k}) = vals[i] + vals[k]
             /\ \A q \in 1..n : i < q /\ Covers(vals[i] + vals[q], 2) =>
                  vals[i] + vals[k] <= vals[i] + vals[q]
  <2>1. i \in 1..n /\ k \in 1..n /\ i # k /\ i < k
    BY <1>0, <1>5 DEF Completes
  <2>2. Sum({i, k}) = vals[i] + vals[k]
    BY <1>0, <2>1, SumOfTwo
  <2>3. ASSUME NEW q \in 1..n, i < q, Covers(vals[i] + vals[q], 2)
        PROVE  vals[i] + vals[k] <= vals[i] + vals[q]
    <3>1. Completes(q)
      BY <1>0, <2>1, <2>3 DEF Covers, Completes
    <3>2. k <= q
      BY <1>5, <3>1
    <3>3. vals[k] <= vals[q]
      BY <1>0, <2>1, <3>2 DEF Ascending
    <3> QED
      BY <1>0, <2>1, <3>3
  <2> QED
    BY <2>1, <2>2, <2>3
<1>6. ASSUME more, NEW k \in completing, \A l \in completing : k <= l,
             best' = (IF Better(k) THEN <<i, k>> ELSE best), i' = i + 1,
             UNCHANGED <<stage, j, selected, total, fee, change, outcome>>
      PROVE  Searched' /\ Optimal' /\ InsufficientIsTrue' /\ NoSpuriousError'
  <2>1. UNCHANGED <<vals, amount, outputs, policy, n>> /\ stage' = "two_fit"
        /\ outcome' = "none" /\ i' = i + 1
    BY <1>0, <1>6 DEF request, n
  <2> DEFINE b1 == vals[best'[1]] + vals[best'[2]]
  <2>2. best' # NoPair /\ b1 <= vals[i] + vals[k] /\ (best # NoPair => b1 <= b) /\ b1 \in Nat
    <3>1. /\ i \in 1..n /\ k \in 1..n /\ vals[i] \in Nat /\ vals[k] \in Nat
          /\ vals[i] + vals[k] \in Nat
      BY <1>0, <1>5, <1>6
    <3>2. best # NoPair => b \in Nat
      BY <1>0, <1>02
    <3>3. CASE Better(k)
      <4>1. best' = <<i, k>> /\ best'[1] = i /\ best'[2] = k
        BY <1>6, <3>3
      <4>2. b1 = vals[i] + vals[k]
        BY <4>1
      <4>3. best # NoPair => vals[i] + vals[k] < b
        BY <3>3 DEF Better
      <4>4. best' # NoPair
        BY <3>1, <4>1 DEF NoPair
      <4> HIDE DEF b, b1
      <4> QED
        BY <3>1, <3>2, <4>2, <4>3, <4>4
    <3>4. CASE ~Better(k)
      <4>1. best' = best /\ b1 = b
        BY <1>6, <3>4
      <4>2. best # NoPair /\ ~(vals[i] + vals[k] < b)
        BY <3>4 DEF Better
      <4> HIDE DEF b, b1
      <4> QED
        BY <3>1, <3>2, <4>1, <4>2
    <3> QED
      BY <3>3, <3>4
  <2>3. ASSUME NEW p \in 1..n, NEW q \in 1..n, p < q, p < i + 1, Covers(vals[p] + vals[q], 2)
        PROVE  best' # NoPair /\ b1 <= vals[p] + vals[q]
    <3>0. vals[p] + vals[q] \in Nat
      BY <1>0
    <3>1. CASE p = i
      <4>1. vals[i] + vals[k] <= vals[p] + vals[q]
        <5>1. i < q /\ Covers(vals[i] + vals[q], 2)
          BY <2>3, <3>1
        <5> HIDE DEF more, completing
        <5>2. vals[i] + vals[k] <= vals[i] + vals[q]
          BY <1>5, <1>6, <5>1
        <5> QED
          BY <3>1, <5>2
      <4>2. vals[i] + vals[k] \in Nat
        <5>1. i \in 1..n /\ k \in 1..n
          BY <1>0, <1>6
        <5> QED
          BY <1>0, <5>1
      <4> HIDE DEF b1
      <4> QED
        BY <2>2, <3>0, <4>1, <4>2
    <3>2. CASE p # i
      <4>1. best # NoPair /\ b <= vals[p] + vals[q]
        BY <1>0, <1>01, <2>3, <3>2
      <4>2. b \in Nat
        <5>1. best[1] \in 1..n /\ best[2] \in 1..n
          BY <1>02, <4>1
        <5>2. vals[best[1]] \in Nat /\ vals[best[2]] \in Nat
          BY <1>0, <5>1
        <5> QED
          BY <5>2
      <4> HIDE DEF b, b1
      <4> QED
        BY <2>2, <3>0, <4>1, <4>2
    <3> QED
      BY <3>1, <3>2
  <2>4. Searched'
    <3>1. /\ \A p \in 1..n' : vals'[p] # Needed(1, outputs)' /\ ~Covers(vals[p], 1)'
          /\ \A p, q \in 1..n' : p < q => vals'[p] + vals'[q] # Needed(2, outputs)'
          /\ \A p, q \in 1..n' : p < q /\ p < i' /\ Covers(vals[p] + vals[q], 2)' =>
               best' # NoPair' /\ vals'[best'[1]] + vals'[best'[2]] <= vals'[p] + vals'[q]
      BY <1>01, <2>1, <2>3 DEF Needed, Fee, Covers, NoPair
    <3> QED
      BY <2>1, <3>1 DEF Searched
  <2> QED
    BY <2>1, <2>4, StillSearching
<1>7. ASSUME more, NEW k \in completing, \A l \in completing : k <= l,
             ~Fits(vals[i] + vals[k]), End("error")
      PROVE  Searched' /\ Optimal' /\ InsufficientIsTrue' /\ NoSpuriousError'
  <2>1. {i, k} \in SUBSET (1..n) /\ Sum({i, k}) = vals[i] + vals[k]
    BY <1>5, <1>7
  <2>2. Overflows
    BY <1>0, <1>7, <2>1, SumOverflows
  <2> QED
    BY <1>7, <2>2, EndSearch
<1> HIDE DEF more, completing, b
<1> QED
  BY <1>1, <1>2, <1>3, <1>4, <1>6, <1>7 DEF TwoFit, more, completing, b

(* The largest notes are worth the most of as many: if they do not pay, no other *)
(* set of that size does; and one or two of them are never the choice here,       *)
(* since the stages before have ruled them out.                                   *)
LEMMA GreedySearch ==
  ASSUME SearchInv, Greedy, UNCHANGED request
  PROVE  Searched' /\ Optimal' /\ InsufficientIsTrue' /\ NoSpuriousError'
<1> DEFINE k == i + 1
           sum == total + vals[n - i]
           taken == selected \cup {n - i}
<1>0. /\ IInv /\ Requested /\ stage = "greedy" /\ outcome = "none" /\ n \in Nat
      /\ i \in 0..n /\ selected = Top(i) /\ total = Sum(selected) /\ outputs \in Nat
  <2>1. /\ IInv /\ Requested /\ stage = "greedy" /\ outcome = "none" /\ TypeOK
        /\ i <= n /\ selected = Top(i) /\ total = Sum(selected)
    BY DEF SearchInv, Searched, IInv, Greedy, Loops, Top
  <2>2. n \in Nat /\ outputs \in Nat
    BY <2>1, RequestTyped
  <2> QED
    BY <2>1, <2>2 DEF TypeOK
<1>01. /\ \A p \in 1..n : vals[p] # Needed(1, outputs) /\ ~Covers(vals[p], 1)
       /\ \A p, q \in 1..n : p < q => /\ vals[p] + vals[q] # Needed(2, outputs)
                                      /\ ~Covers(vals[p] + vals[q], 2)
       /\ \A c \in 1..i : ~Covers(Sum(Top(c)), c)
  BY <1>0 DEF SearchInv, Searched
<1>02. ASSUME NEW S \in SUBSET (1..n), Cardinality(S) \in 1..i
       PROVE  ~Funds(S)
  <2>1. /\ Sum(S) <= Sum(Top(Cardinality(S))) /\ Sum(S) \in Nat /\ Sum(Top(Cardinality(S))) \in Nat
    BY <1>0, SetsOfNotes, WalletTyped
  <2>2. Needed(Cardinality(S), outputs + 1) \in Nat
    <3>1. /\ Cardinality(S) \in Nat /\ outputs + 1 \in Nat
          /\ Cardinality(S) <= Cardinality(S) /\ outputs + 1 <= outputs + 1
      BY <1>0, <1>02
    <3> QED
      BY <1>0, <3>1, NeededGrows
  <2>3. ~Covers(Sum(Top(Cardinality(S))), Cardinality(S))
    BY <1>01, <1>02
  <2> QED
    BY <2>1, <2>2, <2>3 DEF Covers, Funds
<1>03. ASSUME NEW S \in SUBSET (1..n), Cardinality(S) \in {1, 2}
       PROVE  Sum(S) # Needed(Cardinality(S), outputs) /\ ~Covers(Sum(S), Cardinality(S))
  <2>1. CASE Cardinality(S) = 1
    <3>1. PICK p \in 1..n : Sum(S) = vals[p]
      BY <1>0, <2>1, SetsOfNotes
    <3> QED
      BY <1>01, <2>1, <3>1
  <2>2. CASE Cardinality(S) = 2
    <3>1. PICK p, q \in 1..n : p < q /\ Sum(S) = vals[p] + vals[q]
      BY <1>0, <2>2, SetsOfNotes
    <3> QED
      BY <1>01, <2>2, <3>1
  <2> QED
    BY <1>03, <2>1, <2>2
<1>04. ASSUME i < n
       PROVE  /\ taken = Top(k) /\ taken \in SUBSET (1..n) /\ Cardinality(taken) = k
              /\ sum = Sum(taken) /\ k \in 1..n
  <2>1. taken = (n - k + 1)..n /\ taken \in SUBSET (1..n) /\ k \in 1..n
        /\ n - i \in 1..n /\ n - i \notin selected
    BY <1>0, <1>04 DEF Top
  <2>2. Cardinality(taken) = k
    <3>1. n - k + 1 \in Int /\ n \in Int
      BY <1>0
    <3>2. Cardinality((n - k + 1)..n) = IF n - k + 1 > n THEN 0 ELSE n - (n - k + 1) + 1
      BY <3>1, FS_Interval
    <3>3. (IF n - k + 1 > n THEN 0 ELSE n - (n - k + 1) + 1) = k
      BY <1>0, <1>04
    <3> HIDE DEF k, taken
    <3> QED
      BY <2>1, <3>2, <3>3
  <2>3. Sum(taken) = sum
    BY <1>0, <2>1, WalletTyped, SumAdds DEF Sum
  <2>4. taken = Top(k)
    BY <2>1 DEF Top
  <2> QED
    BY <2>1, <2>2, <2>3, <2>4
<1>05. ASSUME i < n
       PROVE  Fewest(taken)
  <2>1. ASSUME NEW S \in (SUBSET (1..n)) \ {{}}, Cardinality(S) < k
        PROVE  ~Funds(S)
    <3>1. S \in SUBSET (1..n) /\ S # {}
      BY Zenon
    <3>2. Cardinality(S) \in 0..n /\ Cardinality(S) # 0
      BY <1>0, <3>1, SetsOfNotes, Zenon
    <3>3. Cardinality(S) \in 1..i
      BY <1>0, <2>1, <3>2
    <3> QED
      BY <1>02, <3>1, <3>3
  <2>2. Cardinality(taken) = k
    BY <1>04, <1>05
  <2> HIDE DEF k, taken
  <2> QED
    BY <2>1, <2>2, Zenon DEF Fewest
<1>1. CASE i = n /\ End("insufficient_balance")
  <2>1. ASSUME NEW S \in (SUBSET (1..n)) \ {{}}
        PROVE  ~Funds(S) /\ (Cardinality(S) <= 2 => Sum(S) # Needed(Cardinality(S), outputs))
    <3>1. S \in SUBSET (1..n) /\ S # {}
      BY Zenon
    <3>2. Cardinality(S) \in 0..n /\ Cardinality(S) # 0
      BY <1>0, <3>1, SetsOfNotes, Zenon
    <3>3. Cardinality(S) \in 1..i /\ (Cardinality(S) <= 2 => Cardinality(S) \in {1, 2})
      BY <1>0, <1>1, <3>2
    <3> QED
      BY <1>02, <1>03, <3>1, <3>3
  <2>2. Unpayable
    BY <2>1, Zenon DEF Unpayable
  <2> QED
    BY <1>1, <2>2, EndSearch
<1>2. CASE i < n /\ ~Fits(sum) /\ End("error")
  <2>1. Overflows
    BY <1>0, <1>04, <1>2, SumOverflows
  <2> QED
    BY <1>2, <2>1, EndSearch
<1>3. CASE /\ i < n /\ End("error")
           /\ ~NeededFits(k, outputs) \/ ~NeededFits(k, outputs + 1)
  <2>1. k \in 1..(IF n > 2 THEN n ELSE 2)
    BY <1>0, <1>3
  <2>2. Overflows
    <3> HIDE DEF k
    <3> QED
      BY <1>0, <1>3, <2>1, NeedOverflows
  <2> QED
    BY <1>3, <2>2, EndSearch
<1>4. CASE i < n /\ sum = Needed(k, outputs) /\ Pick(taken, sum, k, outputs)
  <2>1. Closest(taken)
    BY <1>04, <1>4 DEF Closest
  <2>2. stage # "end" /\ sum = Sum(taken) /\ Fewest(taken)
    BY <1>0, <1>04, <1>05, <1>4
  <2> HIDE DEF k, sum, taken
  <2> QED
    BY <1>0, <1>4, <2>1, <2>2, PickSearch
<1>5. CASE i < n /\ Covers(sum, k) /\ Pick(taken, sum, k, outputs + 1)
  <2>1. /\ stage # "end" /\ sum = Sum(taken) /\ Fewest(taken)
        /\ taken \in SUBSET (1..n) /\ Cardinality(taken) = k /\ k \in 1..n
    BY <1>0, <1>04, <1>05, <1>5
  <2>2. ~(Cardinality(taken) <= 2)
    <3> HIDE DEF sum, taken
    <3>1. Cardinality(taken) <= 2 => Cardinality(taken) \in {1, 2}
      BY <1>0, <2>1
    <3> QED
      BY <1>03, <1>5, <2>1, <3>1
  <2> HIDE DEF k, sum, taken
  <2> QED
    BY <1>0, <1>5, <2>1, <2>2, PickSearch
<1>6. CASE /\ i < n /\ ~Covers(sum, k)
           /\ i' = k /\ selected' = taken /\ total' = sum
           /\ UNCHANGED <<stage, j, best, fee, change, outcome>>
  <2>1. UNCHANGED <<vals, amount, outputs, policy, n>> /\ stage' = "greedy" /\ outcome' = "none"
    BY <1>0, <1>6 DEF request, n
  <2>2. /\ \A p \in 1..n' : vals'[p] # Needed(1, outputs)' /\ ~Covers(vals[p], 1)'
        /\ \A p, q \in 1..n' : p < q => vals'[p] + vals'[q] # Needed(2, outputs)'
                                        /\ ~Covers(vals[p] + vals[q], 2)'
    BY <1>01, <2>1 DEF Needed, Fee, Covers
  <2>3. \A c \in 1..k : ~Covers(Sum(Top(c)), c)
    <3>1. ASSUME NEW c \in 1..k
          PROVE  c \in 1..i \/ c = k
      BY <1>0, <3>1
    <3>2. sum = Sum(Top(k))
      BY <1>04, <1>6
    <3> HIDE DEF k, sum, taken
    <3> QED
      BY <1>01, <1>6, <3>1, <3>2
  <2>4. \A c \in 1..i' : ~Covers(Sum(Top(c)), c)'
    BY <1>6, <2>1, <2>3 DEF Covers, Sum, Top, Needed, Fee
  <2>5. total' = Sum(selected)'
    <3>1. sum = Sum(taken)
      BY <1>04, <1>6
    <3> HIDE DEF sum, taken
    <3> QED
      BY <1>6, <2>1, <3>1 DEF Sum
  <2>6. Searched'
    BY <2>1, <2>2, <2>4, <2>5 DEF Searched
  <2> QED
    BY <2>1, <2>6, StillSearching
<1> HIDE DEF k, sum, taken
<1> QED
  BY <1>1, <1>2, <1>3, <1>4, <1>5, <1>6 DEF Greedy, k, sum, taken

(* The choice is final: only its fee and its change are settled. *)
LEMMA SettleSearch ==
  ASSUME SearchInv, Settle, UNCHANGED request
  PROVE  Searched' /\ Optimal' /\ InsufficientIsTrue' /\ NoSpuriousError'
<1>1. /\ stage = "settle" /\ stage' = "end" /\ selected' = selected /\ total' = total
      /\ outcome' \in {"too_many_inputs", "invalid_request", "ok"}
  BY DEF Settle
<1>2. total = Sum(selected) /\ Fewest(selected) /\ (Cardinality(selected) <= 2 => Closest(selected))
  BY <1>1 DEF SearchInv, Optimal
<1>3. total' = Sum(selected)' /\ Fewest(selected)' /\ (Cardinality(selected') <= 2 => Closest(selected)')
  BY <1>1, <1>2, ChoiceKept
<1>4. Optimal'
  BY <1>3 DEF Optimal
<1> QED
  BY <1>1, <1>4 DEF Searched, InsufficientIsTrue, NoSpuriousError

(* Without notes nothing pays, so that the first refusal is true. *)
LEMMA InitSearch == Init => Searched /\ Optimal /\ InsufficientIsTrue /\ NoSpuriousError
<1> SUFFICES ASSUME Init
             PROVE  Searched /\ Optimal /\ InsufficientIsTrue /\ NoSpuriousError
  OBVIOUS
<1>1. ASSUME vals = <<>>
      PROVE  Unpayable
  <2>1. 1..n = {}
    BY <1>1 DEF n
  <2>2. (SUBSET (1..n)) \ {{}} = {}
    BY <2>1
  <2> QED
    BY <2>2, Zenon DEF Unpayable
<1> QED
  BY <1>1 DEF Init, Searched, Optimal, InsufficientIsTrue, NoSpuriousError

-----------------------------------------------------------------------------
(* The inductive invariant of the selection. *)
THEOREM Invariance == Spec => []IInv
<1>1. IInv /\ [Next]_vars => IInv'
  <2> SUFFICES ASSUME IInv, [Next]_vars
               PROVE  IInv'
    OBVIOUS
  <2>1. CASE Step /\ UNCHANGED request
    BY <2>1, OneExactInv, OneFitInv, TwoExactInv, TwoFitInv, GreedyInv, SettleInv DEF Step
  <2>2. CASE UNCHANGED vars
    BY <2>2 DEF vars, request, n, IInv, TypeOK, Requested, Loops, Chosen, Settled, FeeBounds,
                Covers, Needed, Fee
  <2> QED
    BY <2>1, <2>2 DEF Next
<1> QED
  BY <1>1, InitInv, PTL DEF Spec

(* Every variable of the selection keeps its type: no index leaves the wallet, *)
(* no total, fee or change leaves its word, no subtraction goes below zero.    *)
THEOREM TypeCorrect == Spec => []TypeOK
BY Invariance, PTL DEF IInv

(* The fee of a plan pays for the actions the transaction has, its change      *)
(* output included, and exceeds the policy's fee for one more output by less   *)
(* than MinChangeZat, whatever strategy chose the notes and even after dust    *)
(* was moved into the fee.                                                     *)
THEOREM FeesAreBounded == Spec => []FeeBounds
BY Invariance, PTL DEF IInv

(* The invariant of the whole search: what the stages behind have ruled out,  *)
(* and that the choice made is the least one.                                 *)
THEOREM SearchInvariance == Spec => []SearchInv
<1>1. Init => SearchInv
  BY InitInv, InitSearch DEF SearchInv
<1>2. SearchInv /\ [Next]_vars => SearchInv'
  <2> SUFFICES ASSUME SearchInv, [Next]_vars
               PROVE  SearchInv'
    OBVIOUS
  <2>1. CASE Step /\ UNCHANGED request
    <3>1. IInv'
      BY <2>1, OneExactInv, OneFitInv, TwoExactInv, TwoFitInv, GreedyInv, SettleInv
         DEF Step, SearchInv
    <3>2. Searched' /\ Optimal' /\ InsufficientIsTrue' /\ NoSpuriousError'
      BY <2>1, OneExactSearch, OneFitSearch, TwoExactSearch, TwoFitSearch, GreedySearch,
         SettleSearch DEF Step
    <3> QED
      BY <3>1, <3>2 DEF SearchInv
  <2>2. CASE UNCHANGED vars
    <3>1. IInv'
      BY <2>2 DEF SearchInv, vars, request, n, IInv, TypeOK, Requested, Loops, Chosen, Settled,
                  FeeBounds, Covers, Needed, Fee
    <3>2. UNCHANGED request /\ UNCHANGED <<stage, i, j, best, selected, total, outcome>>
      BY <2>2 DEF vars
    <3>3. UNCHANGED <<vals, amount, outputs, policy, n>>
      BY <3>2 DEF request, n
    <3>4. Searched'
      BY <3>2, <3>3 DEF SearchInv, Searched, Needed, Fee, Covers, Sum, Top
    <3>5. Optimal'
      BY <3>2, <3>3 DEF SearchInv, Optimal, Fewest, Closest, Funds, Needed, Fee, Sum
    <3>6. InsufficientIsTrue' /\ NoSpuriousError'
      BY <3>2, Unmoved DEF SearchInv, InsufficientIsTrue, NoSpuriousError
    <3> QED
      BY <3>1, <3>4, <3>5, <3>6 DEF SearchInv
  <2> QED
    BY <2>1, <2>2 DEF Next
<1> QED
  BY <1>1, <1>2, PTL DEF Spec

(* A plan spends what it pays: the notes it spends are worth the amount, the  *)
(* fee and the change, and a change output is never dust.                     *)
THEOREM ValueIsConserved == Spec => []ValueConserved
<1>1. SearchInv => ValueConserved
  BY DEF SearchInv, IInv, Settled, Optimal, ValueConserved
<1> QED
  BY <1>1, SearchInvariance, PTL

(* "insufficient funds" is said only when no set of notes pays for a plan with *)
(* change and neither one note nor two pay exactly for one without, although   *)
(* the search looks at singles, pairs and the largest notes only.              *)
THEOREM RefusalsAreTrue == Spec => []InsufficientIsTrue
BY SearchInvariance, PTL DEF SearchInv

(* No plan spends more notes than needed, and "too_many_inputs" is said only   *)
(* when no set of notes within the signer's limit pays for a plan with change. *)
THEOREM FewestNotesAreSpent == Spec => []FewestNotes
<1>1. SearchInv => FewestNotes
  BY DEF SearchInv, Optimal, FewestNotes
<1> QED
  BY <1>1, SearchInvariance, PTL

(* A plan of one or two notes pays exactly if any as many can, and else leaves *)
(* the least change.                                                           *)
THEOREM ChangeIsLeast == Spec => []LeastChange
<1>1. SearchInv => LeastChange
  BY DEF SearchInv, Optimal, LeastChange
<1> QED
  BY <1>1, SearchInvariance, PTL

(* A request is refused for overflow only if the value of all its notes, or    *)
(* what a plan of all of them needs, exceeds a word.                           *)
THEOREM ErrorsAreOverflows == Spec => []NoSpuriousError
BY SearchInvariance, PTL DEF SearchInv

-----------------------------------------------------------------------------
(* The request of a consolidation, typed. *)
LEMMA MergeTyped ==
  ASSUME MergeRequested
  PROVE  /\ vals \in Seq(Nat) /\ Ascending(vals) /\ n = Len(vals) /\ n \in Nat /\ MaxU64 \in Nat
         /\ maxSpends \in Nat /\ maxSpends >= 2
         /\ Most \in 0..n /\ Most <= maxSpends /\ (n >= 2 => Most >= 2)
         /\ \A c \in Nat : MergeFee(c) \in Nat
<1>1. vals \in Seq(1..MaxU64) /\ Ascending(vals) /\ MaxU64 \in Nat
  BY WalletTypes, FeesTypes DEF MergeRequested
<1>2. vals \in Seq(Nat)
  <2>1. 1..MaxU64 \subseteq Nat
    OBVIOUS
  <2> QED
    BY <1>1, <2>1
<1>3. n = Len(vals) /\ n \in Nat
  BY <1>2 DEF n
<1>4. maxSpends \in Nat /\ maxSpends >= 2
  BY WalletTypes DEF MergeRequested
<1>5. /\ Most \in 0..n /\ Most <= maxSpends /\ (n >= 2 => Most >= 2)
  BY <1>3, <1>4 DEF Most
<1>6. ASSUME NEW c \in Nat
      PROVE  MergeFee(c) \in Nat
  <2>1. policy \in Policies /\ 1 \in Nat /\ c <= c /\ 1 <= 1
    BY DEF MergeRequested
  <2>2. Fee(c, 1) \in Nat
    BY <2>1, FeeGrows
  <2> QED
    BY <2>2 DEF Fee, MergeFee
<1> QED
  BY <1>1, <1>2, <1>3, <1>4, <1>5, <1>6

(* A mix of c notes has c of them, and is worth no more than all. *)
LEMMA BlendSize ==
  ASSUME MergeRequested, NEW c \in 0..n, NEW small \in 0..c
  PROVE  /\ Mix(c, small) \subseteq 1..n /\ Cardinality(Mix(c, small)) = c
         /\ Mix(c, small) = 1..small \cup (n - (c - small) + 1)..n
         /\ (1..small) \cap ((n - (c - small) + 1)..n) = {}
<1>1. n \in Nat /\ c \in Nat /\ small \in Nat /\ c <= n /\ small <= c
  BY MergeTyped
<1> DEFINE low == 1..small
           high == (n - (c - small) + 1)..n
<1>2. Mix(c, small) = low \cup high
  BY DEF Mix
<1>3. IsFiniteSet(low) /\ Cardinality(low) = small
  <2>1. 1 \in Int /\ small \in Int
    BY <1>1
  <2>2. IsFiniteSet(low) /\ Cardinality(low) = IF 1 > small THEN 0 ELSE small - 1 + 1
    BY <2>1, FS_Interval
  <2>3. (IF 1 > small THEN 0 ELSE small - 1 + 1) = small
    BY <1>1
  <2> HIDE DEF low
  <2> QED
    BY <2>2, <2>3
<1>4. IsFiniteSet(high) /\ Cardinality(high) = c - small
  <2>1. n - (c - small) + 1 \in Int /\ n \in Int
    BY <1>1
  <2>2. /\ IsFiniteSet(high)
        /\ Cardinality(high) = IF n - (c - small) + 1 > n THEN 0 ELSE n - (n - (c - small) + 1) + 1
    BY <2>1, FS_Interval
  <2>3. (IF n - (c - small) + 1 > n THEN 0 ELSE n - (n - (c - small) + 1) + 1) = c - small
    BY <1>1
  <2> HIDE DEF high
  <2> QED
    BY <2>2, <2>3
<1>5. low \cap high = {} /\ low \subseteq 1..n /\ high \subseteq 1..n
  BY <1>1
<1>6. Cardinality(low \cup high) = c
  <2> HIDE DEF low, high
  <2>1. Cardinality(low \cup high) = Cardinality(low) + Cardinality(high) - Cardinality({})
    <3>1. Cardinality(low \cup high) = Cardinality(low) + Cardinality(high) - Cardinality(low \cap high)
      BY <1>3, <1>4, FS_Union
    <3> QED
      BY <1>5, <3>1
  <2>2. Cardinality({}) = 0
    BY FS_EmptySet
  <2> QED
    BY <1>1, <1>3, <1>4, <2>1, <2>2
<1> HIDE DEF low, high
<1> QED
  BY <1>2, <1>5, <1>6 DEF low, high

(* As many notes with as many of the smallest are worth no more than the mix. *)
LEMMA BlendWorthMost ==
  ASSUME MergeRequested, NEW S \in SUBSET (1..n), NEW m \in 0..n, 1..m \subseteq S
  PROVE  /\ Cardinality(S) \in 0..n /\ m <= Cardinality(S)
         /\ Sum(S) <= Sum(Mix(Cardinality(S), m))
<1> DEFINE c == Cardinality(S)
           R == S \ (1..m)
           high == (n - (c - m) + 1)..n
<1>1. /\ vals \in Seq(Nat) /\ Ascending(vals) /\ n = Len(vals) /\ n \in Nat /\ m \in Nat
  BY MergeTyped
<1>2. IsFiniteSet(S) /\ c \in 0..n
  BY <1>1, LargestWorthMost DEF Sum
<1>3. IsFiniteSet(1..m) /\ Cardinality(1..m) = m
  BY <1>1, FS_Interval
<1>4. m <= c
  BY <1>2, <1>3, FS_Subset
<1>5. Cardinality(R) = c - m
  <2>1. S \cap (1..m) = 1..m
    OBVIOUS
  <2>2. Cardinality(R) = Cardinality(S) - Cardinality(S \cap (1..m))
    BY <1>2, FS_Difference
  <2> QED
    BY <1>3, <2>1, <2>2
<1>6. R \in SUBSET (1..n) /\ S = 1..m \cup R /\ (1..m) \cap R = {}
  OBVIOUS
<1>7. Sum(R) <= Sum(high)
  <2>1. Sum(R) <= Sum((Len(vals) - Cardinality(R) + 1)..Len(vals))
    BY <1>1, <1>6, LargestWorthMost DEF Sum
  <2> HIDE DEF R, c
  <2> QED
    BY <1>1, <1>5, <2>1
<1>8. Sum(S) = Sum(1..m) + Sum(R)
  <2> HIDE DEF R
  <2> QED
    BY <1>1, <1>6, SumDisjoint DEF Sum
<1>9. Sum(Mix(c, m)) = Sum(1..m) + Sum(high)
  <2>1. m \in 0..c
    BY <1>1, <1>2, <1>4
  <2>2. Mix(c, m) = 1..m \cup high /\ (1..m) \cap high = {}
    <3> HIDE DEF c
    <3> QED
      BY <1>2, <2>1, BlendSize
  <2> HIDE DEF high, c
  <2> QED
    BY <1>1, <2>2, SumDisjoint DEF Sum
<1>10. /\ Sum(1..m) \in Nat /\ Sum(R) \in Nat /\ Sum(high) \in Nat
  BY <1>1, SumNat DEF Sum
<1> HIDE DEF c, R, high
<1> QED
  BY <1>2, <1>4, <1>7, <1>8, <1>9, <1>10 DEF c

(* A payable set that has been passed over: it is smaller, or has no more of the *)
(* smallest notes.                                                               *)
LEMMA PassedOver ==
  ASSUME MergeInv, outcome \in {"none", "ok", "insufficient_balance"},
         NEW S \in SUBSET (1..n), NEW m \in 0..n, Payable(S), 1..m \subseteq S
  PROVE  /\ Cardinality(S) \in 2..Most /\ Cardinality(S) <= count
         /\ Cardinality(S) = count => m <= smallest
<1> DEFINE c == Cardinality(S)
<1>1. /\ MergeRequested /\ n \in Nat /\ vals \in Seq(Nat)
      /\ Most \in 0..n /\ maxSpends \in Nat /\ MergeFee(c) \in Nat
      /\ count \in 0..n /\ smallest \in 0..n
  <2>1. MergeRequested /\ MergeTypeOK
    BY DEF MergeInv
  <2>2. c \in Nat
    BY DEF Payable
  <2>3. /\ n \in Nat /\ vals \in Seq(Nat) /\ Most \in 0..n /\ maxSpends \in Nat
        /\ MergeFee(c) \in Nat
    BY <2>1, <2>2, MergeTyped
  <2> QED
    BY <2>1, <2>3 DEF MergeTypeOK
<1>2. c \in 2..maxSpends /\ Sum(S) > MergeFee(c)
  BY DEF Payable
<1>3. /\ c \in 0..n /\ m <= c
      /\ Sum(S) <= Sum(Mix(c, m))
  BY <1>1, BlendWorthMost
<1>4. c \in 2..Most
  BY <1>1, <1>2, <1>3 DEF Most
<1>5. Sum(S) \in Nat /\ Sum(Mix(c, m)) \in Nat
  BY <1>1, SumNat DEF Sum
<1>6. ~(Sum(Mix(c, m)) <= MergeFee(c))
  BY <1>1, <1>2, <1>3, <1>5
<1>7. \A d \in 2..Most : \A small \in 0..d :
        d > count \/ (d = count /\ small > smallest) =>
          Sum(Mix(d, small)) <= MergeFee(d)
  BY DEF MergeInv, Behind
<1>8. m \in 0..c
  BY <1>1, <1>3
<1> HIDE DEF c
<1>9. ~(c > count \/ (c = count /\ m > smallest))
  BY <1>4, <1>6, <1>7, <1>8
<1> QED
  BY <1>1, <1>3, <1>4, <1>9 DEF c

(* A consolidation starts with every mix to try. *)
LEMMA MergeInitInv == MergeInit => MergeInv
<1> SUFFICES ASSUME MergeInit
             PROVE  MergeInv
  OBVIOUS
<1>1. MergeRequested
  BY DEF MergeInit, MergeRequested
<1>2. /\ n \in Nat /\ MaxU64 \in Nat /\ vals \in Seq(Nat) /\ Sum(1..n) \in Nat
      /\ Most \in 0..n
  BY <1>1, MergeTyped, SumNat DEF Sum
<1>3. /\ count = Most /\ smallest = Most /\ selected = {} /\ fee = 0 /\ amount = 0
      /\ outcome \in {"none", "invalid_request", "error"}
      /\ outcome = "none" => n >= 2 /\ Sum(1..n) <= MaxU64
  <2>1. outcome = CASE n < 2 -> "invalid_request"
                    [] n >= 2 /\ ~Fits(Sum(1..n)) -> "error"
                    [] OTHER -> "none"
    BY DEF MergeInit
  <2>2. CASE n < 2
    BY <1>2, <2>1, <2>2 DEF MergeInit
  <2>3. CASE n >= 2 /\ ~Fits(Sum(1..n))
    BY <1>2, <2>1, <2>3 DEF MergeInit
  <2>4. CASE n >= 2 /\ Fits(Sum(1..n))
    BY <1>2, <2>1, <2>4 DEF MergeInit, Fits
  <2> QED
    BY <1>2, <2>2, <2>3, <2>4
<1>4. MergeTypeOK
  BY <1>2, <1>3 DEF MergeTypeOK
<1>5. Behind
  <2>1. ASSUME NEW c \in 2..Most, NEW small \in 0..c
        PROVE  ~(c > count \/ (c = count /\ small > smallest))
    BY <1>2, <1>3, <2>1
  <2> QED
    BY <1>3, <2>1 DEF Behind
<1>6. Planned /\ count <= Most
  BY <1>2, <1>3 DEF Planned
<1> QED
  BY <1>1, <1>4, <1>5, <1>6 DEF MergeInv

(* A turn either plans the mix it tries or leaves it behind; either way what is *)
(* behind does not pay.                                                        *)
LEMMA TryInv == ASSUME MergeInv, Try, UNCHANGED <<vals, policy, maxSpends>> PROVE MergeInv'
<1>1. /\ MergeRequested /\ outcome = "none"
      /\ count \in 0..n /\ smallest \in 0..n /\ smallest <= count /\ selected \subseteq 1..n
      /\ fee \in 0..MaxU64 /\ amount \in 0..MaxU64 /\ count <= Most
      /\ n >= 2 /\ Sum(1..n) <= MaxU64
      /\ \A c \in 2..Most : \A small \in 0..c :
           c > count \/ (c = count /\ small > smallest) =>
             Sum(Mix(c, small)) <= MergeFee(c)
  BY DEF MergeInv, MergeTypeOK, Behind, Try
<1>2. /\ vals \in Seq(Nat) /\ n \in Nat /\ MaxU64 \in Nat /\ Most \in 0..n
      /\ count \in Nat /\ smallest \in 0..count /\ MergeFee(count) \in Nat
  <2>1. /\ vals \in Seq(Nat) /\ n \in Nat /\ MaxU64 \in Nat /\ Most \in 0..n
    BY <1>1, MergeTyped
  <2>2. count \in Nat /\ smallest \in 0..count
    BY <1>1, <2>1
  <2>3. MergeFee(count) \in Nat
    BY <1>1, <2>2, MergeTyped
  <2> QED
    BY <2>1, <2>2, <2>3
<1>3. UNCHANGED <<vals, policy, maxSpends>>
  OBVIOUS
<1>4. /\ \A S : Sum(S)' = Sum(S)
  BY <1>3 DEF Sum
<1>5. /\ MergeRequested' /\ n' = n /\ Most' = Most
  BY <1>1, <1>3 DEF MergeRequested, Most, n
<1>6. /\ \A c, small : Mix(c, small)' = Mix(c, small)
      /\ \A c : MergeFee(c)' = MergeFee(c)
  BY <1>3 DEF Mix, n, MergeFee
<1>7. ASSUME (MergeEnds("insufficient_balance") /\ count < 2) \/ MergeEnds("error")
      PROVE  MergeInv'
  <2>1. UNCHANGED <<count, smallest, selected, fee, amount>>
        /\ outcome' \in {"insufficient_balance", "error"}
        /\ (outcome' = "insufficient_balance" => count < 2)
    BY <1>7 DEF MergeEnds
  <2>2. MergeTypeOK'
    BY <1>1, <1>2, <1>5, <2>1 DEF MergeTypeOK
  <2>3. Behind'
    BY <1>1, <1>4, <1>5, <1>6, <2>1 DEF Behind
  <2>4. Planned' /\ count' <= Most'
    BY <1>1, <1>5, <2>1 DEF Planned
  <2> QED
    BY <1>5, <2>2, <2>3, <2>4 DEF MergeInv
<1>8. ASSUME count >= 2, Fits(MergeFee(count)), Sum(Mix(count, smallest)) > MergeFee(count),
             selected' = Mix(count, smallest), fee' = MergeFee(count),
             amount' = Sum(Mix(count, smallest)) - MergeFee(count), outcome' = "ok",
             UNCHANGED <<count, smallest>>
      PROVE  MergeInv'
  <2>1. Mix(count, smallest) \subseteq 1..n
    BY <1>1, <1>2, BlendSize
  <2>2. Sum(Mix(count, smallest)) <= Sum(1..n) /\ Sum(Mix(count, smallest)) \in Nat
        /\ Sum(1..n) \in Nat
    BY <1>2, <2>1, SumGrows, SumNat DEF Sum
  <2>3. fee' \in 0..MaxU64 /\ amount' \in 0..MaxU64 /\ amount' > 0
        /\ Sum(Mix(count, smallest)) = amount' + fee'
    <3>1. MergeFee(count) <= MaxU64
      BY <1>8 DEF Fits
    <3> DEFINE sum == Sum(Mix(count, smallest))
               all == Sum(1..n)
               due == MergeFee(count)
    <3>2. /\ sum \in Nat /\ all \in Nat /\ sum <= all /\ all <= MaxU64 /\ due \in Nat
          /\ due <= MaxU64 /\ sum > due /\ fee' = due /\ amount' = sum - due /\ MaxU64 \in Nat
      BY <1>1, <1>2, <1>8, <2>2, <3>1
    <3> HIDE DEF sum, all, due
    <3>3. fee' \in 0..MaxU64 /\ amount' \in 0..MaxU64 /\ amount' > 0 /\ sum = amount' + fee'
      BY <3>2
    <3> QED
      BY <3>3 DEF sum
  <2>4. MergeTypeOK'
    BY <1>1, <1>2, <1>5, <1>8, <2>1, <2>3 DEF MergeTypeOK
  <2>5. Behind'
    BY <1>1, <1>4, <1>5, <1>6, <1>8 DEF Behind
  <2>6. Planned'
    <3>1. selected' = Mix(count, smallest)' /\ fee' = MergeFee(count)'
      BY <1>6, <1>8
    <3>2. Sum(selected)' = amount' + fee'
      BY <1>4, <1>8, <2>3
    <3> QED
      BY <1>8, <2>3, <3>1, <3>2, <1>3 DEF Planned, Mix, MergeFee, n
  <2>7. count' <= Most'
    BY <1>1, <1>5, <1>8
  <2> QED
    BY <1>5, <2>4, <2>5, <2>6, <2>7 DEF MergeInv
<1>9. ASSUME count >= 2, ~(Sum(Mix(count, smallest)) > MergeFee(count)),
             \/ smallest > 0 /\ count' = count /\ smallest' = smallest - 1
             \/ smallest = 0 /\ count' = count - 1 /\ smallest' = count - 1,
             UNCHANGED <<selected, fee, amount, outcome>>
      PROVE  MergeInv'
  <2>1. count' \in 0..n /\ smallest' \in 0..n /\ smallest' <= count' /\ count' <= Most
    BY <1>1, <1>2, <1>9
  <2>2. MergeTypeOK'
    BY <1>1, <1>5, <1>9, <2>1 DEF MergeTypeOK
  <2>3. ASSUME NEW c \in 2..Most, NEW small \in 0..c,
               c > count' \/ (c = count' /\ small > smallest')
        PROVE  Sum(Mix(c, small)) <= MergeFee(c)
    <3>1. CASE c = count /\ small = smallest
      <4>1. Sum(Mix(count, smallest)) \in Nat
        BY <1>2, SumNat DEF Sum
      <4>2. Sum(Mix(count, smallest)) <= MergeFee(count)
        BY <1>2, <1>9, <4>1
      <4> QED
        BY <3>1, <4>2
    <3>2. CASE ~(c = count /\ small = smallest)
      <4>1. c > count \/ (c = count /\ small > smallest)
        BY <1>2, <1>9, <2>3, <3>2
      <4> QED
        BY <1>1, <4>1
    <3> QED
      BY <3>1, <3>2
  <2>4. Behind'
    BY <1>1, <1>4, <1>5, <1>6, <1>9, <2>3 DEF Behind
  <2>5. Planned'
    BY <1>1, <1>9 DEF Planned
  <2> QED
    BY <1>5, <2>1, <2>2, <2>4, <2>5 DEF MergeInv
<1>10. count >= 2 \/ count < 2
  BY <1>2
<1>11. smallest > 0 \/ smallest = 0
  BY <1>2
<1> QED
  BY <1>7, <1>8, <1>9, <1>10, <1>11 DEF Try

(* The inductive invariant of a consolidation. *)
THEOREM MergeInvariance == MergeSpec => []MergeInv
<1>1. MergeInv /\ [MergeNext]_mergeVars => MergeInv'
  <2> SUFFICES ASSUME MergeInv, [MergeNext]_mergeVars
               PROVE  MergeInv'
    OBVIOUS
  <2>1. CASE Try /\ UNCHANGED <<vals, policy, maxSpends>>
    BY <2>1, TryInv
  <2>2. CASE UNCHANGED mergeVars
    BY <2>2 DEF mergeVars, n, Sum, Most, MergeInv, MergeTypeOK,
                MergeRequested, Behind, Planned, Mix, MergeFee
  <2> QED
    BY <2>1, <2>2 DEF MergeNext
<1> QED
  BY <1>1, MergeInitInv, PTL DEF MergeSpec

(* Since every mix with more notes, or as many and more of the smallest, is       *)
(* behind, so is every set of notes.                                             *)
LEMMA MergeMeans == MergeInv => MostNotes /\ SmallestFirst /\ MergeConserves
<1> SUFFICES ASSUME MergeInv
             PROVE  MostNotes /\ SmallestFirst /\ MergeConserves
  OBVIOUS
<1>1. /\ MergeRequested /\ n \in Nat /\ vals \in Seq(Nat) /\ maxSpends \in Nat
      /\ Most \in 0..n /\ Most <= maxSpends
      /\ count \in 0..n /\ smallest \in 0..count /\ count <= Most
  <2>1. MergeRequested /\ MergeTypeOK /\ count <= Most
    BY DEF MergeInv
  <2>2. /\ n \in Nat /\ vals \in Seq(Nat) /\ maxSpends \in Nat
        /\ Most \in 0..n /\ Most <= maxSpends
    BY <2>1, MergeTyped
  <2> QED
    BY <2>1, <2>2 DEF MergeTypeOK
<1>2. ASSUME outcome = "ok"
      PROVE  /\ selected = Mix(count, smallest) /\ Cardinality(selected) = count /\ count >= 2
             /\ fee = MergeFee(count) /\ Sum(selected) = amount + fee /\ amount > 0
             /\ fee \in Nat /\ amount \in Nat
  <2>1. /\ selected = Mix(count, smallest) /\ count >= 2
        /\ fee = MergeFee(count) /\ Sum(selected) = amount + fee /\ amount > 0
    BY <1>2 DEF MergeInv, Planned
  <2>2. Cardinality(Mix(count, smallest)) = count
    BY <1>1, BlendSize
  <2>3. fee \in 0..MaxU64 /\ amount \in 0..MaxU64 /\ MaxU64 \in Nat
    BY <1>1, MergeTyped DEF MergeInv, MergeTypeOK
  <2> QED
    BY <2>1, <2>2, <2>3
<1>3. ASSUME NEW S \in SUBSET (1..n), Payable(S), outcome \in {"ok", "insufficient_balance"}
      PROVE  Cardinality(S) <= count /\ Cardinality(S) \in 2..Most
  <2>1. 0 \in 0..n /\ 1..0 \subseteq S
    BY <1>1
  <2> QED
    BY <1>3, <2>1, PassedOver
<1>4. MostNotes
  <2>1. ASSUME outcome = "ok"
        PROVE  Payable(selected)
    <3>1. count \in 2..maxSpends
      BY <1>1, <1>2, <2>1
    <3>2. Sum(selected) > MergeFee(count)
      BY <1>2, <2>1
    <3> QED
      BY <1>2, <2>1, <3>1, <3>2 DEF Payable
  <2>2. ASSUME outcome = "insufficient_balance", NEW S \in SUBSET (1..n), Payable(S)
        PROVE  FALSE
    <3>1. count < 2
      BY <2>2 DEF MergeInv, Planned
    <3> QED
      BY <1>1, <1>3, <2>2, <3>1
  <2> QED
    BY <1>1, <1>2, <1>3, <2>1, <2>2 DEF MostNotes
<1>5. SmallestFirst
  <2>1. ASSUME outcome = "ok", NEW S \in SUBSET (1..n), Payable(S),
               Cardinality(S) = Cardinality(selected), NEW m \in 1..n, 1..m \subseteq S
        PROVE  1..m \subseteq selected
    <3>1. m \in 0..n
      BY <1>1
    <3>2. m <= smallest
      BY <1>2, <2>1, <3>1, PassedOver
    <3>3. 1..m \subseteq 1..smallest
      BY <1>1, <3>2
    <3> QED
      BY <1>2, <2>1, <3>3 DEF Mix
  <2> QED
    BY <1>1, <2>1 DEF SmallestFirst
<1>6. MergeConserves
  BY <1>2 DEF MergeConserves
<1> QED
  BY <1>4, <1>5, <1>6

(* A consolidation keeps its types: no index leaves the wallet, and no fee or  *)
(* amount its word, though only the sum of all the notes is checked.           *)
THEOREM MergesAreTyped == MergeSpec => []MergeTypeOK
<1>1. MergeInv => MergeTypeOK
  BY DEF MergeInv
<1> QED
  BY <1>1, MergeInvariance, PTL

(* A consolidation merges as many notes as any set of notes that pays its fee   *)
(* has, although it tries only mixes of the smallest and the largest, and it is *)
(* refused for lack of funds only when no set pays.                             *)
THEOREM MostNotesAreMerged == MergeSpec => []MostNotes
BY MergeInvariance, MergeMeans, PTL

(* Of the sets of that size that pay none has more of the smallest notes.       *)
THEOREM SmallestNotesGoFirst == MergeSpec => []SmallestFirst
BY MergeInvariance, MergeMeans, PTL

(* What is spent is sent, less the fee of as many spends, and something is sent. *)
THEOREM MergesConserveValue == MergeSpec => []MergeConserves
BY MergeInvariance, MergeMeans, PTL
=============================================================================
