---------------------------- MODULE ListingProofs ----------------------------
(***************************************************************************)
(* Whatever the services answer: a plan names each note once, each note of *)
(* a scanner-backed plan was reported again with its value, and the values *)
(* of a node-backed plan are exactly the amounts the node wrote, for every *)
(* base, number of decimals and word.                                      *)
(***************************************************************************)
EXTENDS NoteListing, FiniteSetTheorems, SequenceTheorems, WellFoundedInduction, TLAPS

(* Induction, from the order of the natural numbers being well-founded: a set *)
(* with 0 and with the successors of its members has every number.            *)
LEMMA Induction ==
  ASSUME NEW P, 0 \in P, \A k \in Nat : k \in P => k + 1 \in P
  PROVE  Nat \subseteq P
<1> DEFINE T == Nat \ P
<1> SUFFICES ASSUME T # {}
             PROVE  FALSE
  OBVIOUS
<1>1. PICK x \in T : \A y \in T : ~(<<y, x>> \in OpToRel(<, Nat))
  BY NatLessThanWellFounded, WFMin
<1>2. \A y \in T : y \in Nat /\ x \in Nat /\ ~(y < x)
  BY <1>1 DEF OpToRel
<1>3. x # 0 /\ x - 1 \in Nat /\ x - 1 \in P
  BY <1>2
<1> QED
  BY <1>2, <1>3

(* f starts with a value of V and goes on by a step for each number up to N. *)
Recurs(f, N, V, start, step) ==
  f \in [0..N -> V] /\ f[0] = start /\ \A k \in 1..N : f[k] = step[k][f[k - 1]]

(* A recursion over the first numbers, with a step for each, defines a function. *)
LEMMA Recursion ==
  ASSUME NEW N \in Nat, NEW V, NEW start \in V, NEW step \in [1..N -> [V -> V]]
  PROVE  \E f : Recurs(f, N, V, start, step)
<1> DEFINE Next1(k, x) == step[k][x]
<1>1. \A k \in 1..N, x \in V : Next1(k, x) \in V
  OBVIOUS
<1> HIDE DEF Next1
<1> DEFINE Follows(f, m) == f[0] = start /\ \A k \in 1..m : f[k] = Next1(k, f[k - 1])
           P == {m \in Nat : m <= N => \E f \in [0..m -> V] : Follows(f, m)}
<1>2. 0 \in P
  <2>1. [k \in 0..0 |-> start] \in [0..0 -> V] /\ Follows([k \in 0..0 |-> start], 0)
    OBVIOUS
  <2> QED
    BY <2>1
<1>3. ASSUME NEW m \in Nat, m \in P
      PROVE  m + 1 \in P
  <2>1. SUFFICES ASSUME m + 1 <= N
                 PROVE  \E f \in [0..(m + 1) -> V] : Follows(f, m + 1)
    <3>1. m + 1 \in Nat
      OBVIOUS
    <3> HIDE DEF Follows
    <3> QED
      BY <3>1
  <2>2. PICK f \in [0..m -> V] : Follows(f, m)
    <3>1. m <= N
      BY <2>1
    <3> HIDE DEF Follows
    <3> QED
      BY <1>3, <3>1
  <2> DEFINE top == Next1(m + 1, f[m])
             g == [k \in 0..(m + 1) |-> IF k = m + 1 THEN top ELSE f[k]]
  <2>3. top \in V
    <3>1. m + 1 \in 1..N /\ f[m] \in V
      BY <2>1
    <3> QED
      BY <1>1, <3>1
  <2>4. /\ \A k \in 0..m : g[k] = f[k]
        /\ g[m + 1] = top
    OBVIOUS
  <2>5. g \in [0..(m + 1) -> V]
    <3> HIDE DEF top
    <3> QED
      BY <2>3
  <2>6. ASSUME NEW k \in 1..(m + 1)
        PROVE  g[k] = Next1(k, g[k - 1])
    <3>1. CASE k = m + 1
      <4>1. k - 1 = m /\ m \in 0..m
        BY <3>1
      <4> HIDE DEF g
      <4> QED
        BY <2>4, <3>1, <4>1
    <3>2. CASE k \in 1..m
      <4>1. k - 1 \in 0..m /\ k \in 0..m
        BY <3>2
      <4>2. f[k] = Next1(k, f[k - 1])
        BY <2>2, <3>2
      <4> HIDE DEF g
      <4> QED
        BY <2>4, <4>1, <4>2
    <3> QED
      BY <3>1, <3>2
  <2>7. g[0] = start
    BY <2>2
  <2> HIDE DEF g
  <2> QED
    BY <2>5, <2>6, <2>7
<1>4. N \in P
  <2> HIDE DEF P
  <2> QED
    BY <1>2, <1>3, Induction
<1>5. PICK f \in [0..N -> V] : Follows(f, N)
  <2>1. N <= N
    OBVIOUS
  <2> HIDE DEF Follows
  <2> QED
    BY <1>4, <2>1
<1> QED
  BY <1>5 DEF Next1, Recurs

-----------------------------------------------------------------------------
(* The notes that pass a filter. *)

(* They are notes of the answer and of the set, in a sequence. *)
LEMMA AmongTyped ==
  ASSUME NEW answer, NEW S, Len(answer) \in Nat
  PROVE  Among(answer, S) \in Seq({x \in S : \E m \in 1..Len(answer) : x = answer[m]})
<1> DEFINE N == Len(answer)
           T == {x \in S : \E m \in 1..N : x = answer[m]}
           Taken(k, s) == IF answer[k] \in S THEN Append(s, answer[k]) ELSE s
           Rule(f) == [k \in 0..N |->
                         IF k = 0 THEN <<>>
                         ELSE IF answer[k] \in S THEN Append(f[k - 1], answer[k]) ELSE f[k - 1]]
           step == [k \in 1..N |-> [s \in Seq(T) |-> Taken(k, s)]]
           F == CHOOSE f : f = Rule(f)
<1>1. ASSUME NEW k \in 1..N, NEW s \in Seq(T)
      PROVE  Taken(k, s) \in Seq(T)
  <2>1. CASE answer[k] \in S
    <3>1. answer[k] \in T
      BY <2>1
    <3> HIDE DEF T
    <3> QED
      BY <2>1, <3>1
  <2> QED
    BY <2>1
<1> HIDE DEF Taken
<1>2. step \in [1..N -> [Seq(T) -> Seq(T)]]
  <2> HIDE DEF T
  <2> QED
    BY <1>1
<1>3. PICK f : Recurs(f, N, Seq(T), <<>>, step)
  <2>1. <<>> \in Seq(T)
    OBVIOUS
  <2>2. N \in Nat
    OBVIOUS
  <2> HIDE DEF step, T, N
  <2> QED
    BY <1>2, <2>1, <2>2, Recursion
<1>4. f = Rule(f)
  <2> USE DEF Recurs
  <2>1. ASSUME NEW k \in 1..N
        PROVE  f[k] = Taken(k, f[k - 1])
    <3>1. f[k - 1] \in Seq(T)
      BY <1>3
    <3>2. f[k] = step[k][f[k - 1]]
      BY <1>3
    <3> HIDE DEF T
    <3> QED
      BY <3>1, <3>2
  <2>2. ASSUME NEW k \in 0..N
        PROVE  f[k] = IF k = 0 THEN <<>>
                      ELSE IF answer[k] \in S THEN Append(f[k - 1], answer[k]) ELSE f[k - 1]
    <3>1. CASE k = 0
      BY <1>3, <3>1
    <3>2. CASE k # 0
      <4>1. k \in 1..N
        BY <3>2
      <4>2. f[k] = Taken(k, f[k - 1])
        BY <2>1, <4>1
      <4> QED
        BY <3>2, <4>2 DEF Taken
    <3> QED
      BY <3>1, <3>2
  <2>3. f = [k \in 0..N |-> f[k]]
    BY <1>3
  <2> HIDE DEF step, T, N
  <2> QED
    BY <2>2, <2>3
<1>5. F = Rule(F)
  BY <1>4
<1>6. Among(answer, S) = F[N]
  BY DEF Among
<1> HIDE DEF F
<1>7. F[0] = <<>> /\ \A k \in 1..N : F[k] = Taken(k, F[k - 1])
  <2>1. \A k \in 0..N : F[k] = Rule(F)[k]
    BY <1>5
  <2>2. F[0] = <<>>
    BY <2>1
  <2>3. \A k \in 1..N : k \in 0..N /\ k # 0
    OBVIOUS
  <2> HIDE DEF N
  <2> QED
    BY <2>1, <2>2, <2>3 DEF Taken
<1> DEFINE P == {k \in Nat : k <= N => F[k] \in Seq(T)}
<1>8. 0 \in P
  <2>1. F[0] \in Seq(T)
    <3> HIDE DEF T
    <3> QED
      BY <1>7
  <2> HIDE DEF T, N
  <2> QED
    BY <2>1
<1>9. ASSUME NEW k \in Nat, k \in P
      PROVE  k + 1 \in P
  <2>1. ASSUME k + 1 <= N
        PROVE  F[k + 1] \in Seq(T)
    <3>1. F[k] \in Seq(T) /\ k + 1 \in 1..N /\ (k + 1) - 1 = k
      BY <1>9, <2>1
    <3>2. F[k + 1] = Taken(k + 1, F[k])
      BY <1>7, <3>1
    <3> HIDE DEF T
    <3> QED
      BY <1>1, <3>1, <3>2
  <2> QED
    BY <2>1
<1> HIDE DEF P
<1>10. N \in P
  BY <1>8, <1>9, Induction
<1> QED
  BY <1>6, <1>10 DEF P

-----------------------------------------------------------------------------
(* Decimal amounts. *)

(* The powers of the base. *)
LEMMA PowerUnfolds ==
  /\ Power \in [0..Decimals -> Nat \ {0}]
  /\ Power[0] = 1
  /\ \A k \in 1..Decimals : Power[k] = Base * Power[k - 1]
<1> DEFINE N == Decimals
           V == Nat \ {0}
           Rule(f) == [k \in 0..N |-> IF k = 0 THEN 1 ELSE Base * f[k - 1]]
           step == [k \in 1..N |-> [x \in V |-> Base * x]]
           F == CHOOSE f : f = Rule(f)
<1>1. N \in Nat /\ Base \in V /\ 1 \in V
  BY AmountsTypes
<1>2. step \in [1..N -> [V -> V]]
  <2>1. \A x \in V : Base * x \in V
    BY <1>1
  <2> QED
    BY <2>1
<1>3. PICK f : Recurs(f, N, V, 1, step)
  <2>1. N \in Nat /\ 1 \in V
    BY <1>1
  <2> HIDE DEF step, V, N
  <2> QED
    BY <1>2, <2>1, Recursion
<1>4. f = Rule(f)
  <2> USE DEF Recurs
  <2>1. ASSUME NEW k \in 1..N
        PROVE  f[k] = Base * f[k - 1]
    <3>1. f[k - 1] \in V
      <4> HIDE DEF V, N, step
      <4>1. k - 1 \in 0..N
        BY <1>1
      <4>2. f \in [0..N -> V]
        BY <1>3
      <4> QED
        BY <4>1, <4>2
    <3>2. f[k] = step[k][f[k - 1]]
      BY <1>3
    <3> QED
      BY <3>1, <3>2
  <2> HIDE DEF step
  <2>2. \A k \in 0..N : f[k] = Rule(f)[k]
    BY <1>1, <1>3, <2>1
  <2>3. f = [k \in 0..N |-> f[k]]
    BY <1>3
  <2> QED
    BY <2>2, <2>3
<1>5. F = Rule(F)
  BY <1>4
<1>6. Power = F
  BY DEF Power
<1> HIDE DEF F
<1>7. /\ F[0] = 1
      /\ \A k \in 1..N : F[k] = Base * F[k - 1]
      /\ F = [k \in 0..N |-> F[k]]
  <2>1. \A k \in 0..N : F[k] = Rule(F)[k]
    BY <1>5
  <2>2. F = [k \in 0..N |-> F[k]]
    BY <1>5
  <2>3. F[0] = 1
    BY <1>1, <2>1
  <2>4. \A k \in 1..N : k \in 0..N /\ k # 0
    BY <1>1
  <2> HIDE DEF N
  <2> QED
    BY <2>1, <2>2, <2>3, <2>4
<1> DEFINE P == {k \in Nat : k <= N => F[k] \in V}
<1>8. 0 \in P
  BY <1>7
<1>9. ASSUME NEW k \in Nat, k \in P
      PROVE  k + 1 \in P
  <2>1. ASSUME k + 1 <= N
        PROVE  F[k + 1] \in V
    <3>1. F[k] \in V /\ k + 1 \in 1..N /\ (k + 1) - 1 = k
      BY <1>1, <1>9, <2>1
    <3>2. F[k + 1] = Base * F[k]
      BY <1>7, <3>1
    <3> QED
      BY <1>1, <3>1, <3>2
  <2> QED
    BY <2>1
<1> HIDE DEF P
<1>10. Nat \subseteq P
  BY <1>8, <1>9, Induction
<1>11. \A k \in 0..N : F[k] \in V
  BY <1>1, <1>10 DEF P
<1> QED
  BY <1>6, <1>7, <1>11

(* Two powers of the base whose exponents add up to the decimals make a coin. *)
LEMMA PowersSplit ==
  ASSUME NEW k \in 0..Decimals
  PROVE  /\ Unit \in Nat \ {0} /\ Power[k] \in Nat \ {0} /\ Power[Decimals - k] \in Nat \ {0}
         /\ Unit \div Power[k] = Power[Decimals - k]
<1> DEFINE D == Decimals
           P == {j \in Nat : j <= D => Unit = Power[j] * Power[D - j]}
<1>1. /\ D \in Nat /\ Base \in Nat \ {0}
      /\ \A j \in 0..D : Power[j] \in Nat \ {0}
      /\ Power[0] = 1 /\ \A j \in 1..D : Power[j] = Base * Power[j - 1]
  BY AmountsTypes, PowerUnfolds
<1>2. Unit = Power[D] /\ D \in 0..D
  BY <1>1 DEF Unit
<1>3. 0 \in P
  BY <1>1, <1>2
<1>4. ASSUME NEW j \in Nat, j \in P
      PROVE  j + 1 \in P
  <2>1. ASSUME j + 1 <= D
        PROVE  Unit = Power[j + 1] * Power[D - (j + 1)]
    <3> DEFINE a == Power[j]
               b == Power[D - (j + 1)]
    <3>1. /\ j + 1 \in 1..D /\ (j + 1) - 1 = j /\ j \in 0..D
          /\ D - j \in 1..D /\ (D - j) - 1 = D - (j + 1) /\ D - (j + 1) \in 0..D
      BY <1>1, <2>1
    <3>2. Unit = a * Power[D - j] /\ Power[j + 1] = Base * a /\ Power[D - j] = Base * b
      BY <1>1, <1>4, <2>1, <3>1
    <3>3. a \in Nat /\ b \in Nat
      BY <1>1, <3>1
    <3> HIDE DEF a, b
    <3>4. a * (Base * b) = (Base * a) * b
      BY <1>1, <3>3
    <3> QED
      BY <3>2, <3>4 DEF b
  <2> QED
    BY <2>1
<1> HIDE DEF P
<1>5. k \in P
  BY <1>1, <1>3, <1>4, Induction
<1>6. Unit = Power[k] * Power[D - k]
  BY <1>1, <1>5 DEF P
<1>7. D - k \in 0..D /\ k \in 0..D
  BY <1>1
<1>8. Unit \in Nat \ {0} /\ Power[k] \in Nat \ {0} /\ Power[D - k] \in Nat \ {0}
  BY <1>1, <1>2, <1>7
<1>9. \A x, y \in Nat \ {0} : (x * y) \div x = y
  OBVIOUS
<1> QED
  BY <1>6, <1>8, <1>9

(* The digits, padded with zeros. *)
Digit(digits, k) == IF k <= Len(digits) THEN digits[k] ELSE 0

(* The number that the digits make, one after the other. *)
LEMMA FractionUnfolds ==
  ASSUME NEW digits \in Seq(0..(Base - 1))
  PROVE  \E f : /\ f \in [0..Decimals -> Nat] /\ f[0] = 0
                /\ \A k \in 1..Decimals : f[k] = Base * f[k - 1] + Digit(digits, k)
                /\ Fraction(digits) = f[Decimals]
<1> DEFINE N == Decimals
           Rule(f) == [k \in 0..N |-> IF k = 0 THEN 0 ELSE Base * f[k - 1] + Digit(digits, k)]
           step == [k \in 1..N |-> [x \in Nat |-> Base * x + Digit(digits, k)]]
           F == CHOOSE f : f = Rule(f)
<1>1. N \in Nat /\ Base \in Nat /\ \A k \in 1..N : Digit(digits, k) \in Nat
  BY AmountsTypes DEF Digit
<1>2. step \in [1..N -> [Nat -> Nat]]
  <2>1. \A k \in 1..N, x \in Nat : Base * x + Digit(digits, k) \in Nat
    BY <1>1
  <2> QED
    BY <2>1
<1>3. PICK f : Recurs(f, N, Nat, 0, step)
  <2>1. N \in Nat /\ 0 \in Nat
    BY <1>1
  <2> HIDE DEF step, N
  <2> QED
    BY <1>2, <2>1, Recursion
<1>4. f = Rule(f)
  <2> USE DEF Recurs
  <2>1. ASSUME NEW k \in 1..N
        PROVE  f[k] = Base * f[k - 1] + Digit(digits, k)
    <3>1. f[k - 1] \in Nat
      <4> HIDE DEF N, step
      <4>1. k - 1 \in 0..N
        BY <1>1
      <4>2. f \in [0..N -> Nat]
        BY <1>3
      <4> QED
        BY <4>1, <4>2
    <3>2. f[k] = step[k][f[k - 1]]
      BY <1>3
    <3> QED
      BY <3>1, <3>2
  <2> HIDE DEF step
  <2>2. \A k \in 0..N : f[k] = Rule(f)[k]
    BY <1>1, <1>3, <2>1
  <2>3. f = [k \in 0..N |-> f[k]]
    BY <1>3
  <2> QED
    BY <2>2, <2>3
<1>5. F = Rule(F)
  BY <1>4
<1>6. Fraction(digits) = F[N]
  BY DEF Fraction, Digit
<1> HIDE DEF F
<1>7. /\ F[0] = 0
      /\ \A k \in 1..N : F[k] = Base * F[k - 1] + Digit(digits, k)
      /\ F = [k \in 0..N |-> F[k]]
  <2>1. \A k \in 0..N : F[k] = Rule(F)[k]
    BY <1>5
  <2>2. F = [k \in 0..N |-> F[k]]
    BY <1>5
  <2>3. F[0] = 0
    BY <1>1, <2>1
  <2>4. \A k \in 1..N : k \in 0..N /\ k # 0
    BY <1>1
  <2> HIDE DEF N
  <2> QED
    BY <2>1, <2>2, <2>3, <2>4
<1> DEFINE P == {k \in Nat : k <= N => F[k] \in Nat}
<1>8. 0 \in P
  BY <1>7
<1>9. ASSUME NEW k \in Nat, k \in P
      PROVE  k + 1 \in P
  <2>1. ASSUME k + 1 <= N
        PROVE  F[k + 1] \in Nat
    <3>1. F[k] \in Nat /\ k + 1 \in 1..N /\ (k + 1) - 1 = k
      BY <1>1, <1>9, <2>1
    <3>2. F[k + 1] = Base * F[k] + Digit(digits, k + 1)
      BY <1>7, <3>1
    <3>3. Base * F[k] \in Nat /\ Digit(digits, k + 1) \in Nat
      BY <1>1, <3>1
    <3> QED
      BY <3>2, <3>3
  <2> QED
    BY <2>1
<1> HIDE DEF P
<1>10. Nat \subseteq P
  BY <1>8, <1>9, Induction
<1>11. \A k \in 0..N : F[k] \in Nat
  BY <1>1, <1>10 DEF P
<1> QED
  BY <1>6, <1>7, <1>11

(* The amount written, digit after digit. *)
LEMMA ExactUnfolds ==
  ASSUME NEW amount, amount.digits \in Seq(0..(Base - 1)), amount.whole \in Nat,
         Len(amount.digits) <= Decimals
  PROVE  \E f : /\ f \in [0..Len(amount.digits) -> Nat] /\ f[0] = amount.whole * Unit
                /\ \A k \in 1..Len(amount.digits) :
                     f[k] = f[k - 1] + amount.digits[k] * Power[Decimals - k]
                /\ Exact(amount) = f[Len(amount.digits)]
<1> DEFINE N == Len(amount.digits)
           d(k) == amount.digits[k] * (Unit \div Power[k])
           Rule(f) == [k \in 0..N |-> IF k = 0 THEN amount.whole * Unit
                                      ELSE f[k - 1] + amount.digits[k] * (Unit \div Power[k])]
           step == [k \in 1..N |-> [x \in Nat |-> x + d(k)]]
           F == CHOOSE f : f = Rule(f)
<1>1. /\ N \in Nat /\ Decimals \in Nat /\ amount.whole * Unit \in Nat
      /\ \A k \in 1..N : d(k) = amount.digits[k] * Power[Decimals - k] /\ d(k) \in Nat
  <2>1. N \in Nat /\ Decimals \in Nat /\ 0 \in 0..Decimals
    BY AmountsTypes
  <2>2. amount.whole * Unit \in Nat
    <3>1. Unit \in Nat
      BY <2>1, PowersSplit
    <3> QED
      BY <3>1
  <2>3. ASSUME NEW k \in 1..N
        PROVE  d(k) = amount.digits[k] * Power[Decimals - k] /\ d(k) \in Nat
    <3>1. k \in 0..Decimals
      BY <2>1
    <3>2. amount.digits[k] \in 0..(Base - 1)
      BY ElementOfSeq
    <3>3. amount.digits[k] \in Nat
      BY <3>2, AmountsTypes
    <3>4. Unit \div Power[k] = Power[Decimals - k] /\ Power[Decimals - k] \in Nat
      BY <3>1, PowersSplit
    <3> QED
      BY <3>3, <3>4
  <2> HIDE DEF N
  <2> QED
    BY <2>1, <2>2, <2>3
<1> HIDE DEF d
<1>2. step \in [1..N -> [Nat -> Nat]]
  <2>1. \A k \in 1..N, x \in Nat : x + d(k) \in Nat
    BY <1>1
  <2> QED
    BY <2>1
<1>3. PICK f : Recurs(f, N, Nat, amount.whole * Unit, step)
  <2> DEFINE start == amount.whole * Unit
  <2>1. N \in Nat /\ start \in Nat
    BY <1>1
  <2> HIDE DEF step, N, start
  <2>2. \E f : Recurs(f, N, Nat, start, step)
    BY <1>2, <2>1, Recursion
  <2> QED
    BY <2>2 DEF start
<1>4. f = Rule(f)
  <2> USE DEF Recurs
  <2>1. ASSUME NEW k \in 1..N
        PROVE  f[k] = f[k - 1] + d(k)
    <3>1. f[k - 1] \in Nat
      <4> HIDE DEF N, step
      <4>1. k - 1 \in 0..N
        BY <1>1
      <4>2. f \in [0..N -> Nat]
        BY <1>3
      <4> QED
        BY <4>1, <4>2
    <3>2. f[k] = step[k][f[k - 1]]
      BY <1>3
    <3> QED
      BY <3>1, <3>2
  <2> HIDE DEF step
  <2>2. \A k \in 0..N : f[k] = Rule(f)[k]
    BY <1>1, <1>3, <2>1 DEF d
  <2>3. f = [k \in 0..N |-> f[k]]
    BY <1>3
  <2> QED
    BY <2>2, <2>3
<1>5. F = Rule(F)
  BY <1>4
<1>6. Exact(amount) = F[N]
  BY DEF Exact
<1> HIDE DEF F
<1>7. /\ F[0] = amount.whole * Unit
      /\ \A k \in 1..N : F[k] = F[k - 1] + d(k)
      /\ F = [k \in 0..N |-> F[k]]
  <2>1. \A k \in 0..N : F[k] = Rule(F)[k]
    BY <1>5
  <2>2. F = [k \in 0..N |-> F[k]]
    BY <1>5
  <2>3. F[0] = amount.whole * Unit
    <3>1. 0 \in 0..N
      BY <1>1
    <3> HIDE DEF N
    <3> QED
      BY <2>1, <3>1
  <2>4. \A k \in 1..N : k \in 0..N /\ k # 0
    BY <1>1
  <2> HIDE DEF N
  <2> QED
    BY <2>1, <2>2, <2>3, <2>4 DEF d
<1> DEFINE P == {k \in Nat : k <= N => F[k] \in Nat}
<1>8. 0 \in P
  BY <1>1, <1>7
<1>9. ASSUME NEW k \in Nat, k \in P
      PROVE  k + 1 \in P
  <2>1. ASSUME k + 1 <= N
        PROVE  F[k + 1] \in Nat
    <3>1. F[k] \in Nat /\ k + 1 \in 1..N /\ (k + 1) - 1 = k
      BY <1>1, <1>9, <2>1
    <3>2. F[k + 1] = F[k] + d(k + 1)
      BY <1>7, <3>1
    <3> QED
      BY <1>1, <3>1, <3>2
  <2> QED
    BY <2>1
<1> HIDE DEF P
<1>10. Nat \subseteq P
  BY <1>8, <1>9, Induction
<1>11. \A k \in 0..N : F[k] \in Nat
  BY <1>1, <1>10 DEF P
<1>12. F \in [0..N -> Nat]
  BY <1>7, <1>11
<1>13. \A k \in 1..N : F[k] = F[k - 1] + amount.digits[k] * Power[Decimals - k]
  BY <1>1, <1>7
<1> QED
  BY <1>6, <1>7, <1>12, <1>13

(* The amount that is parsed is the one written, before it is put on a word: the *)
(* digits that pad the fraction count nothing.                                   *)
LEMMA ParsedIsExact ==
  ASSUME NEW amount, amount.digits \in Seq(0..(Base - 1)), amount.whole \in Nat,
         Len(amount.digits) <= Decimals
  PROVE  /\ Exact(amount) = amount.whole * Unit + Fraction(amount.digits)
         /\ Exact(amount) \in Nat
<1> DEFINE D == Decimals
           L == Len(amount.digits)
           d(k) == Digit(amount.digits, k)
           W == amount.whole * Unit
<1>1. PICK f : /\ f \in [0..D -> Nat] /\ f[0] = 0
               /\ \A k \in 1..D : f[k] = Base * f[k - 1] + d(k)
               /\ Fraction(amount.digits) = f[D]
  BY FractionUnfolds
<1>2. PICK e : /\ e \in [0..L -> Nat] /\ e[0] = W
               /\ \A k \in 1..L : e[k] = e[k - 1] + amount.digits[k] * Power[D - k]
               /\ Exact(amount) = e[L]
  BY ExactUnfolds
<1>3. /\ D \in Nat /\ L \in Nat /\ L <= D /\ Base \in Nat
      /\ \A k \in 1..D : d(k) \in Nat
      /\ \A k \in 1..L : d(k) = amount.digits[k]
      /\ \A k \in 1..D : k > L => d(k) = 0
      /\ \A k \in 0..D : Power[k] \in Nat
      /\ Power[0] = 1 /\ \A k \in 1..D : Power[k] = Base * Power[k - 1]
  <2>1. D \in Nat /\ L \in Nat /\ L <= D /\ Base \in Nat
    BY AmountsTypes
  <2>2. \A k \in 1..L : amount.digits[k] \in 0..(Base - 1)
    BY ElementOfSeq
  <2>3. \A k \in 1..D : IF k <= L THEN k \in 1..L ELSE k > L
    BY <2>1
  <2>4. /\ \A k \in 1..L : d(k) = amount.digits[k] /\ amount.digits[k] \in Nat
        /\ \A k \in 1..D : k > L => d(k) = 0
    <3> HIDE DEF D
    <3> QED
      BY <2>1, <2>2 DEF Digit
  <2>5. \A k \in 1..D : d(k) \in Nat
    <3> HIDE DEF D, L, d
    <3> QED
      BY <2>3, <2>4
  <2> QED
    BY <2>1, <2>4, <2>5, PowerUnfolds
<1> DEFINE g(k) == f[k] * Power[D - k]
<1>4. ASSUME NEW k \in Nat, k + 1 <= D
      PROVE  g(k + 1) = g(k) + d(k + 1) * Power[D - (k + 1)] /\ g(k) \in Nat
  <2> DEFINE x == f[k]
             y == d(k + 1)
             p == Power[D - (k + 1)]
  <2>1. /\ k + 1 \in 1..D /\ (k + 1) - 1 = k /\ k \in 0..D
        /\ D - k \in 1..D /\ (D - k) - 1 = D - (k + 1) /\ D - (k + 1) \in 0..D
    BY <1>3, <1>4
  <2>2. f[k + 1] = Base * x + y /\ Power[D - k] = Base * p
    BY <1>1, <1>3, <2>1
  <2>3. x \in Nat /\ y \in Nat /\ p \in Nat
    BY <1>1, <1>3, <2>1
  <2> HIDE DEF x, y, p, d
  <2>4. (Base * x + y) * p = x * (Base * p) + y * p /\ x * (Base * p) \in Nat
    BY <1>3, <2>3
  <2> QED
    BY <2>2, <2>4 DEF x, y, p
<1> HIDE DEF g
<1> DEFINE P == {k \in Nat : /\ k <= L => e[k] = W + g(k)
                             /\ L <= k /\ k <= D => g(k) = g(L)}
<1>5. 0 \in P
  <2>1. g(0) = 0
    <3>1. Power[D - 0] \in Nat
      BY <1>3
    <3> QED
      BY <1>1, <3>1 DEF g
  <2>2. W \in Nat
    BY <1>2, <1>3
  <2>3. L = 0 => g(0) = g(L)
    OBVIOUS
  <2> HIDE DEF W, L
  <2> QED
    BY <1>2, <1>3, <2>1, <2>2, <2>3
<1>6. ASSUME NEW k \in Nat, k \in P
      PROVE  k + 1 \in P
  <2>1. ASSUME k + 1 <= L
        PROVE  e[k + 1] = W + g(k + 1)
    <3> DEFINE a == d(k + 1) * Power[D - (k + 1)]
    <3>1. k + 1 \in 1..L /\ (k + 1) - 1 = k /\ k + 1 <= D /\ k <= L
      BY <1>3, <2>1
    <3>2. e[k + 1] = e[k] + a
      BY <1>2, <1>3, <3>1
    <3>3. e[k] = W + g(k) /\ g(k + 1) = g(k) + a /\ g(k) \in Nat
      BY <1>4, <1>6, <3>1
    <3>4. a \in Nat /\ W \in Nat
      <4>1. D - (k + 1) \in 0..D /\ k + 1 \in 1..D /\ 0 \in 0..L
        BY <1>3, <3>1
      <4>2. Power[D - (k + 1)] \in Nat /\ d(k + 1) \in Nat
        BY <1>3, <4>1
      <4>3. W \in Nat
        BY <1>2, <4>1
      <4> HIDE DEF d, W
      <4> QED
        BY <4>2, <4>3
    <3> HIDE DEF a, W
    <3> QED
      BY <3>2, <3>3, <3>4
  <2>2. ASSUME L <= k + 1, k + 1 <= D
        PROVE  g(k + 1) = g(L)
    <3>1. CASE L = k + 1
      BY <3>1
    <3>2. CASE L # k + 1
      <4>1. L <= k /\ k <= D /\ k + 1 \in 1..D /\ k + 1 > L /\ D - (k + 1) \in 0..D
        BY <1>3, <2>2, <3>2
      <4>2. d(k + 1) = 0 /\ Power[D - (k + 1)] \in Nat
        BY <1>3, <4>1
      <4>3. g(k + 1) = g(k) + 0 /\ g(k) \in Nat
        BY <1>4, <2>2, <4>2
      <4> QED
        BY <1>6, <4>1, <4>3
    <3> QED
      BY <3>1, <3>2
  <2> HIDE DEF W, L
  <2> QED
    BY <2>1, <2>2
<1> HIDE DEF P
<1>7. Nat \subseteq P
  BY <1>5, <1>6, Induction
<1>8. e[L] = W + g(L) /\ g(D) = g(L)
  <2>1. /\ L \in Nat /\ D \in Nat /\ L <= L /\ L <= D /\ D <= D
    BY <1>3
  <2> HIDE DEF W, L, D
  <2>2. L \in P /\ D \in P
    BY <1>7, <2>1
  <2> QED
    BY <2>1, <2>2 DEF P
<1>9. g(D) = f[D]
  <2>1. D - D = 0 /\ D \in 0..D /\ f[D] \in Nat
    BY <1>1, <1>3
  <2> QED
    BY <1>3, <2>1 DEF g
<1>10. e[L] \in Nat
  <2>1. L \in 0..L
    BY <1>3
  <2> HIDE DEF L
  <2> QED
    BY <1>2, <2>1
<1> QED
  BY <1>1, <1>2, <1>8, <1>9, <1>10

-----------------------------------------------------------------------------
(* One step of the listing. *)

(* An answer of a service is a sequence. *)
LEMMA AnswerTyped ==
  ASSUME NEW S, NEW answer \in SeqsUpTo(S, PageMax)
  PROVE  /\ Len(answer) \in Nat /\ DOMAIN answer = 1..Len(answer)
         /\ \A k \in 1..Len(answer) : answer[k] \in S /\ answer[k] \in Told(answer)
         /\ Told(answer) \subseteq S
<1>1. PICK m \in 0..PageMax : answer \in [1..m -> S]
  BY DEF SeqsUpTo
<1>2. m \in Nat /\ answer \in Seq(S)
  BY <1>1, ListingTypes
<1>3. Len(answer) = m /\ DOMAIN answer = 1..m
  BY <1>1, <1>2
<1> QED
  BY <1>1, <1>2, <1>3 DEF Told

(* The notes of an answer in a set are in both. *)
LEMMA AmongBoth ==
  ASSUME NEW S, NEW T, NEW answer \in SeqsUpTo(S, PageMax), NEW kept, kept = Among(answer, T)
  PROVE  /\ Len(kept) \in Nat /\ DOMAIN kept = 1..Len(kept)
         /\ \A k \in 1..Len(kept) : kept[k] \in T /\ kept[k] \in S /\ kept[k] \in Told(answer)
<1> DEFINE U == {x \in T : \E m \in 1..Len(answer) : x = answer[m]}
           V == {x \in T : x \in S /\ x \in Told(answer)}
<1>1. U \subseteq V
  BY AnswerTyped
<1>2. kept \in Seq(U)
  BY AnswerTyped, AmongTyped
<1>3. kept \in Seq(V)
  <2> HIDE DEF U, V
  <2> QED
    BY <1>1, <1>2
<1>4. Len(kept) \in Nat /\ DOMAIN kept = 1..Len(kept)
  BY <1>3
<1>5. \A k \in 1..Len(kept) : kept[k] \in V
  <2> HIDE DEF V
  <2> QED
    BY <1>3, ElementOfSeq
<1> QED
  BY <1>3, <1>4, <1>5

(* What begins has nothing kept. *)
LEMMA InitIInv == Init => IInv
<1> SUFFICES ASSUME Init
             PROVE  IInv
  OBVIOUS
<1>1. out = <<>> /\ plan = <<>> /\ reported = {}
  BY DEF Init
<1>2. Stages
  BY DEF Init, Stages
<1>3. Listed
  BY <1>1 DEF Listed
<1>4. Rechecking /\ Amounted
  BY <1>1 DEF Init, Rechecking, Amounted
<1> QED
  BY <1>2, <1>3, <1>4 DEF IInv

(* A failure keeps nothing. *)
LEMMA FailKeeps == IInv /\ Fail => IInv'
<1> SUFFICES ASSUME IInv, Fail
             PROVE  IInv'
  OBVIOUS
<1>1. /\ out' = <<>> /\ plan' = <<>> /\ reported' = {} /\ seen' = {} /\ cursor' = EndCursor
      /\ pc' = "failed" /\ UNCHANGED <<source, minNote>>
  BY DEF Fail
<1>2. Stages'
  BY <1>1 DEF IInv, Stages
<1>3. Listed'
  BY <1>1 DEF Listed
<1>4. Rechecking' /\ Amounted'
  BY <1>1 DEF Rechecking, Amounted
<1> QED
  BY <1>2, <1>3, <1>4 DEF IInv

(* A listing that makes no call has nothing listed. *)
LEMMA ListNoneKeeps == IInv /\ ListNone => IInv'
<1> SUFFICES ASSUME IInv, ListNone
             PROVE  IInv'
  OBVIOUS
<1>1. /\ pc = "list" /\ source = "scan" /\ pc' = "choose"
      /\ UNCHANGED <<source, minNote, out, cursor, seen, plan, reported>>
  BY DEF ListNone
<1>2. Stages' /\ Listed' /\ Rechecking' /\ Amounted'
  BY <1>1 DEF IInv, Stages, Listed, Rechecking, Amounted, Candidates, Confirmed, Written
<1> QED
  BY <1>2 DEF IInv

(* A note that passes the filters and checks makes a candidate that fits. *)
LEMMA CandidateFits ==
  ASSUME NEW n \in ScanNotes, Spendable(n), ~(n.position > MaxU32)
  PROVE  Candidate(n) \in ScanCandidates /\ n.direction = "incoming" /\ ~n.pending
<1>1. /\ n.value \in Int /\ n.value <= MaxI64 /\ n.position \in Int \cup {None}
      /\ MaxU32 \in Nat /\ MaxI64 \in Nat
  BY ListingTypes, AmountsTypes
<1>2. n.position # None /\ n.position >= 0 /\ n.value > 0
  BY DEF Spendable
<1>3. n.value \in 1..MaxI64 /\ n.position \in 0..MaxU32
  BY <1>1, <1>2
<1>4. n.direction = "incoming" /\ ~n.pending
  BY DEF Spendable
<1> QED
  BY <1>3, <1>4 DEF ScanCandidates, Candidate

(* A page adds candidates that fit, each of a note that the page reports. *)
LEMMA PageKeeps ==
  ASSUME IInv, source = "scan", pc \in {"list", "recheck"},
         NEW page \in SeqsUpTo(ScanNotes, PageMax),
         NEW next \in Cursors \cup {EndCursor},
         NEW kept, kept = Among(page, {n \in Told(page) : Spendable(n)}),
         ~Rejects(page, kept),
         out' = out \o [k \in DOMAIN kept |-> Candidate(kept[k])],
         reported' = {n \in reported \cup Told(page) :
                        \E k \in DOMAIN plan : plan[k].id = NoteId(n)},
         cursor' = next,
         IF next = EndCursor
         THEN pc' = (IF pc = "list" THEN "choose" ELSE "compare") /\ seen' = {}
         ELSE pc' = pc /\ seen' = seen \cup {next},
         UNCHANGED <<source, minNote, plan>>
  PROVE  IInv'
<1> DEFINE new == [k \in DOMAIN kept |-> Candidate(kept[k])]
<1>1. /\ Len(kept) \in Nat /\ DOMAIN kept = 1..Len(kept)
      /\ \A k \in 1..Len(kept) : Spendable(kept[k]) /\ kept[k] \in ScanNotes /\ kept[k] \in Told(page)
  <2> DEFINE T == {n \in Told(page) : Spendable(n)}
  <2>1. kept = Among(page, T)
    OBVIOUS
  <2> HIDE DEF T
  <2>2. /\ Len(kept) \in Nat /\ DOMAIN kept = 1..Len(kept)
        /\ \A k \in 1..Len(kept) : kept[k] \in T /\ kept[k] \in ScanNotes /\ kept[k] \in Told(page)
    BY <2>1, AmongBoth
  <2> QED
    BY <2>2 DEF T
<1>2. Told(page) \subseteq ScanNotes
  BY AnswerTyped
<1>3. \A k \in 1..Len(kept) : ~(kept[k].position > MaxU32)
  BY <1>1 DEF Rejects
<1>4. \A k \in 1..Len(kept) : /\ Candidate(kept[k]) \in ScanCandidates
                               /\ kept[k].direction = "incoming" /\ ~kept[k].pending
  BY <1>1, <1>3, CandidateFits
<1>5. new \in Seq(ScanCandidates) /\ Len(new) = Len(kept)
  BY <1>1, <1>4
<1>6. out \in Seq(ScanCandidates) /\ Candidates = ScanCandidates /\ Candidates' = ScanCandidates
  BY DEF IInv, Listed, Candidates
<1>7. /\ out' \in Seq(ScanCandidates) /\ Len(out') = Len(out) + Len(kept)
      /\ Len(out) \in Nat /\ DOMAIN out = 1..Len(out) /\ DOMAIN out' = 1..(Len(out) + Len(kept))
      /\ \A k \in 1..Len(out) : out'[k] = out[k]
      /\ \A k \in 1..(Len(out) + Len(kept)) :
           k > Len(out) => k - Len(out) \in 1..Len(kept) /\ out'[k] = Candidate(kept[k - Len(out)])
  <2>1. out' = out \o new
    OBVIOUS
  <2>2. \A k \in 1..Len(kept) : new[k] = Candidate(kept[k])
    BY <1>1
  <2> HIDE DEF new
  <2>3. /\ out' \in Seq(ScanCandidates) /\ Len(out') = Len(out) + Len(new)
        /\ \A k \in 1..(Len(out) + Len(new)) :
             out'[k] = IF k <= Len(out) THEN out[k] ELSE new[k - Len(out)]
    <3> DEFINE C == ScanCandidates
    <3>1. out \in Seq(C) /\ new \in Seq(C)
      BY <1>5, <1>6
    <3> HIDE DEF C
    <3>2. /\ out \o new \in Seq(C) /\ Len(out \o new) = Len(out) + Len(new)
          /\ \A k \in 1..(Len(out) + Len(new)) :
               (out \o new)[k] = IF k <= Len(out) THEN out[k] ELSE new[k - Len(out)]
      BY <3>1, ConcatProperties
    <3> QED
      BY <2>1, <3>2 DEF C
  <2>4. Len(out) \in Nat /\ DOMAIN out = 1..Len(out) /\ DOMAIN out' = 1..Len(out')
    BY <1>6, <2>3
  <2>5. ASSUME NEW k \in 1..(Len(out) + Len(kept)), k > Len(out)
        PROVE  k - Len(out) \in 1..Len(kept) /\ out'[k] = Candidate(kept[k - Len(out)])
    <3>1. k - Len(out) \in 1..Len(kept) /\ ~(k <= Len(out)) /\ k \in 1..(Len(out) + Len(new))
      BY <1>1, <1>5, <2>4, <2>5
    <3> QED
      BY <2>2, <2>3, <3>1
  <2>6. ASSUME NEW k \in 1..Len(out)
        PROVE  out'[k] = out[k]
    <3>1. k <= Len(out) /\ k \in 1..(Len(out) + Len(new))
      BY <1>1, <1>5, <2>4
    <3> QED
      BY <2>3, <3>1
  <2> QED
    BY <1>5, <2>3, <2>4, <2>5, <2>6
<1>8. Stages'
  <2>1. reported' \subseteq ScanNotes \cup NodeNotes
    BY <1>2 DEF IInv, Stages
  <2> QED
    BY <2>1 DEF IInv, Stages
<1>9. Listed'
  <2>1. pc' \in {"list", "choose"} => pc = "list"
    OBVIOUS
  <2>2. \A k \in DOMAIN plan' : plan'[k] \in Candidates'
    BY <1>6 DEF IInv, Listed
  <2> QED
    BY <1>6, <1>7, <2>1, <2>2 DEF IInv, Listed
<1>10. ASSUME NEW k \in 1..(Len(out) + Len(kept)), NEW m \in DOMAIN plan,
              out'[k].id = plan[m].id, pc' \in {"recheck", "compare"}
       PROVE  \E n \in reported' : /\ NoteId(n) = out'[k].id /\ n.value = out'[k].value
                                     /\ n.direction = "incoming" /\ ~n.pending
  <2>1. CASE k <= Len(out)
    <3>1. pc = "recheck" /\ k \in DOMAIN out /\ out'[k] = out[k]
      BY <1>7, <1>10, <2>1
    <3>2. PICK n \in reported : /\ NoteId(n) = out[k].id /\ n.value = out[k].value
                                /\ n.direction = "incoming" /\ ~n.pending
      BY <1>10, <3>1 DEF IInv, Rechecking, Confirmed
    <3>3. n \in reported'
      BY <1>10, <3>1, <3>2
    <3> QED
      BY <3>1, <3>2, <3>3
  <2>2. CASE k > Len(out)
    <3>1. /\ k - Len(out) \in 1..Len(kept)
          /\ out'[k] = Candidate(kept[k - Len(out)])
      BY <1>7, <2>2
    <3>2. PICK x : x = kept[k - Len(out)]
      OBVIOUS
    <3>3. x \in Told(page) /\ x.direction = "incoming" /\ ~x.pending
      BY <1>1, <1>4, <3>1, <3>2
    <3>4. out'[k].id = NoteId(x) /\ out'[k].value = x.value
      <4>1. Candidate(x).id = NoteId(x) /\ Candidate(x).value = x.value
        BY DEF Candidate
      <4> QED
        BY <3>1, <3>2, <4>1
    <3>5. x \in reported'
      BY <1>10, <3>3, <3>4
    <3> QED
      BY <3>3, <3>4, <3>5
  <2>3. k <= Len(out) \/ k > Len(out)
    BY <1>7
  <2> QED
    BY <2>1, <2>2, <2>3, Zenon
<1>11. Rechecking' /\ Amounted'
  <2>1. pc' # "done" /\ source' = "scan" /\ plan' = plan
    OBVIOUS
  <2>2. Amounted'
    BY <2>1 DEF Amounted
  <2>3. ASSUME pc' \in {"recheck", "compare"},
               NEW k \in DOMAIN out', NEW m \in DOMAIN plan', out'[k].id = plan'[m].id
        PROVE  \E n \in reported' : /\ NoteId(n) = out'[k].id /\ n.value = out'[k].value
                                    /\ n.direction = "incoming" /\ ~n.pending
    <3>1. k \in 1..(Len(out) + Len(kept)) /\ m \in DOMAIN plan /\ out'[k].id = plan[m].id
      BY <1>7, <2>1, <2>3
    <3> QED
      BY <1>10, <2>3, <3>1, Zenon
  <2>4. Rechecking'
    BY <2>1, <2>3, Zenon DEF Rechecking, Confirmed
  <2> QED
    BY <2>2, <2>4
<1> QED
  BY <1>8, <1>9, <1>11 DEF IInv

(* A page of either listing. *)
LEMMA ScanPageKeeps ==
  ASSUME IInv, ScanPage("list", "choose") \/ ScanPage("recheck", "compare")
  PROVE  IInv'
<1>1. source = "scan" /\ pc \in {"list", "recheck"}
  BY DEF ScanPage
<1>2. CASE Fail
  BY <1>2, FailKeeps
<1>3. CASE ~Fail
  <2>1. PICK page \in SeqsUpTo(ScanNotes, PageMax), next \in Cursors \cup {EndCursor} :
          LET kept == Among(page, {n \in Told(page) : Spendable(n)}) IN
          /\ ~Rejects(page, kept)
          /\ out' = out \o [k \in DOMAIN kept |-> Candidate(kept[k])]
          /\ reported' = {n \in reported \cup Told(page) :
                            \E k \in DOMAIN plan : plan[k].id = NoteId(n)}
          /\ cursor' = next
          /\ IF next = EndCursor
             THEN pc' = (IF pc = "list" THEN "choose" ELSE "compare") /\ seen' = {}
             ELSE pc' = pc /\ seen' = seen \cup {next}
          /\ UNCHANGED <<source, minNote, plan>>
    BY <1>3 DEF ScanPage
  <2> QED
    BY <1>1, <2>1, PageKeeps
<1> QED
  BY <1>2, <1>3

(* An amount that is not refused is read exactly, if a word can hold it. *)
LEMMA ReadExactly ==
  ASSUME NEW e \in NodeNotes, ~Refuses(e.amount)
  PROVE  /\ UnspentNote(e) \in NodeCandidates /\ UnspentNote(e).id = NoteId(e)
         /\ Exact(e.amount) \in {UnspentNote(e).value} \cup {x \in Nat : x > MaxU64}
<1> DEFINE total == e.amount.whole * Unit + Fraction(e.amount.digits)
<1>1. /\ e.amount.whole \in Nat /\ e.amount.digits \in Seq(0..(Base - 1))
      /\ Len(e.amount.digits) <= Decimals
  <2>1. e.amount.whole # None /\ ~(Len(e.amount.digits) > Decimals)
    BY DEF Refuses
  <2>2. Len(e.amount.digits) \in Nat /\ Decimals \in Nat
    BY ListingTypes, AmountsTypes, LenProperties
  <2> QED
    BY <2>1, <2>2, ListingTypes
<1>2. Exact(e.amount) = total /\ Exact(e.amount) \in Nat
  BY <1>1, ParsedIsExact
<1>3. MaxU64 \in Nat
  BY AmountsTypes
<1>4. UnspentNote(e).id = NoteId(e) /\ UnspentNote(e).value = total % (MaxU64 + 1)
  BY DEF UnspentNote, ParseZECToZat
<1>5. \A x \in Nat : x % (MaxU64 + 1) \in 0..MaxU64 /\ (x <= MaxU64 => x % (MaxU64 + 1) = x)
  BY <1>3, SMTT(30)
<1> HIDE DEF total
<1>6. UnspentNote(e).value \in 0..MaxU64
  BY <1>2, <1>4, <1>5
<1>7. UnspentNote(e) \in NodeCandidates
  <2>1. UnspentNote(e) = [id |-> NoteId(e), value |-> UnspentNote(e).value]
    BY DEF UnspentNote
  <2> QED
    BY <1>6, <2>1 DEF NodeCandidates
<1>8. total <= MaxU64 \/ total > MaxU64
  BY <1>2, <1>3
<1> QED
  BY <1>2, <1>4, <1>5, <1>7, <1>8

(* The node's entries are listed by one call. *)
LEMMA ListUnspentKeeps == IInv /\ ListUnspent => IInv'
<1> SUFFICES ASSUME IInv, ListUnspent, ~Fail
             PROVE  IInv'
  BY FailKeeps
<1>1. PICK answer \in SeqsUpTo(NodeNotes, PageMax) :
        LET kept == Among(answer, AccountNotes) IN
        /\ \A k \in DOMAIN kept : ~Refuses(kept[k].amount)
        /\ pc' = "choose"
        /\ out' = [k \in DOMAIN kept |-> UnspentNote(kept[k])]
        /\ reported' = Told(answer)
        /\ UNCHANGED <<source, minNote, cursor, seen, plan>>
  BY DEF ListUnspent
<1>2. PICK kept : kept = Among(answer, AccountNotes)
  OBVIOUS
<1>3. /\ Len(kept) \in Nat /\ DOMAIN kept = 1..Len(kept)
      /\ \A k \in 1..Len(kept) : kept[k] \in NodeNotes /\ kept[k] \in Told(answer)
  BY <1>2, AmongBoth
<1>4. /\ \A k \in 1..Len(kept) : ~Refuses(kept[k].amount)
      /\ out' = [k \in 1..Len(kept) |-> UnspentNote(kept[k])]
      /\ pc' = "choose" /\ reported' = Told(answer)
      /\ UNCHANGED <<source, minNote, cursor, seen, plan>>
  BY <1>1, <1>2, <1>3
<1>5. pc = "list" /\ source = "node" /\ plan = <<>>
  BY DEF ListUnspent, IInv, Listed
<1>6. Told(answer) \subseteq NodeNotes
  BY AnswerTyped
<1>7. \A k \in 1..Len(kept) :
        /\ UnspentNote(kept[k]) \in NodeCandidates
        /\ UnspentNote(kept[k]).id = NoteId(kept[k])
        /\ Exact(kept[k].amount) \in {UnspentNote(kept[k]).value} \cup {x \in Nat : x > MaxU64}
  BY <1>3, <1>4, ReadExactly
<1>8. Stages'
  BY <1>4, <1>5, <1>6 DEF IInv, Stages
<1>9. Listed'
  <2>1. out' \in Seq(NodeCandidates)
    BY <1>3, <1>4, <1>7
  <2>2. Candidates' = NodeCandidates
    BY <1>4, <1>5 DEF Candidates
  <2> QED
    BY <1>4, <1>5, <2>1, <2>2 DEF Listed
<1>10. Amounted'
  <2>1. ASSUME NEW k \in DOMAIN out'
        PROVE  \E e \in reported' :
                 /\ e \in NodeNotes /\ NoteId(e) = out'[k].id
                 /\ Exact(e.amount) \in {out'[k].value} \cup {x \in Nat : x > MaxU64}
    <3>1. k \in 1..Len(kept) /\ out'[k] = UnspentNote(kept[k])
      BY <1>3, <1>4
    <3>2. kept[k] \in reported' /\ kept[k] \in NodeNotes
      BY <1>3, <1>4, <3>1
    <3> QED
      BY <1>7, <3>1, <3>2
  <2>2. plan' = <<>>
    BY <1>4, <1>5
  <2> QED
    BY <2>1, <2>2 DEF Amounted, Written
<1>11. Rechecking'
  BY <1>4, <1>5 DEF Rechecking
<1> QED
  BY <1>8, <1>9, <1>10, <1>11 DEF IInv

(* The plan's notes are candidates, each of another note. *)
LEMMA ChooseKeeps == IInv /\ Choose => IInv'
<1> SUFFICES ASSUME IInv, Choose, ~Fail
             PROVE  IInv'
  BY FailKeeps
<1>1. PICK choice \in SUBSET Choosable :
        /\ ValidIds(choice)
        /\ plan' = [k \in choice |-> out[k]]
        /\ pc' = (IF source = "scan" THEN "recheck" ELSE "done")
        /\ out' = <<>>
        /\ UNCHANGED <<source, minNote, cursor, seen, reported>>
  BY DEF Choose
<1>2. pc = "choose" /\ out \in Seq(Candidates) /\ choice \subseteq DOMAIN out
  BY DEF Choose, IInv, Listed, Choosable
<1>3. \A k \in choice : out[k] \in Candidates
  BY <1>2, ElementOfSeq
<1>4. DOMAIN plan' = choice /\ \A k \in choice : plan'[k] = out[k]
  BY <1>1
<1>5. Candidates' = Candidates
  BY <1>1 DEF Candidates
<1>6. Stages'
  BY <1>1 DEF IInv, Stages
<1>7. Listed'
  <2>1. \A k, m \in choice : out[k].id = out[m].id => k = m
    BY <1>1 DEF ValidIds
  <2>2. pc' \notin {"list", "choose"} /\ out' \in Seq(Candidates)
    BY <1>1
  <2> QED
    BY <1>3, <1>4, <1>5, <2>1, <2>2 DEF Listed
<1>8. Rechecking'
  <2>1. out' = <<>> /\ source' = source /\ (source = "scan" => pc' = "recheck")
    BY <1>1
  <2> QED
    BY <2>1 DEF Rechecking
<1>9. Amounted'
  <2>1. out' = <<>> /\ source' = source /\ reported' = reported
    BY <1>1
  <2>2. ASSUME source = "node", NEW k \in choice
        PROVE  Written(out[k])
    BY <1>2, <2>2 DEF IInv, Amounted
  <2> QED
    BY <1>4, <2>1, <2>2 DEF Amounted, Written
<1> QED
  BY <1>6, <1>7, <1>8, <1>9 DEF IInv

(* A plan whose notes are all listed again, of the value they had, is kept. *)
LEMMA CompareKeeps == IInv /\ Compare => IInv'
<1> SUFFICES ASSUME IInv, Compare, ~Fail
             PROVE  IInv'
  BY FailKeeps
<1>1. /\ pc = "compare" /\ pc' = "done" /\ out' = <<>>
      /\ \A k \in DOMAIN plan : StillSpendable(plan[k])
      /\ UNCHANGED <<source, minNote, cursor, seen, plan, reported>>
  BY DEF Compare
<1>2. source = "scan"
  BY <1>1 DEF IInv, Stages
<1>3. Stages'
  BY <1>1 DEF IInv, Stages
<1>4. Listed'
  BY <1>1 DEF IInv, Listed, Candidates
<1>5. ASSUME NEW m \in DOMAIN plan
      PROVE  Confirmed(plan[m])
  <2>1. PICK k \in DOMAIN out : out[k].id = plan[m].id /\ out[k].value = plan[m].value
    BY <1>1 DEF StillSpendable
  <2>2. Confirmed(out[k])
    BY <1>1, <1>2, <2>1 DEF IInv, Rechecking
  <2> QED
    BY <2>1, <2>2 DEF Confirmed
<1>6. Rechecking'
  BY <1>1, <1>5 DEF Rechecking, Confirmed
<1>7. Amounted'
  BY <1>1, <1>2 DEF Amounted
<1> QED
  BY <1>3, <1>4, <1>6, <1>7 DEF IInv

(* Nothing changes. *)
LEMMA StutterKeeps == IInv /\ UNCHANGED vars => IInv'
<1> SUFFICES ASSUME IInv, UNCHANGED vars
             PROVE  IInv'
  OBVIOUS
<1>1. UNCHANGED <<source, minNote, pc, out, cursor, seen, plan, reported>>
  BY DEF vars
<1> QED
  BY <1>1 DEF IInv, Stages, Listed, Rechecking, Amounted, Candidates, Confirmed, Written

-----------------------------------------------------------------------------
(* The inductive invariant of a listing. *)
THEOREM Invariance == Spec => []IInv
<1>1. IInv /\ [Next]_vars => IInv'
  BY ListNoneKeeps, ScanPageKeeps, ListUnspentKeeps, ChooseKeeps, CompareKeeps, StutterKeeps
     DEF Next, Step, Terminated
<1> QED
  BY InitIInv, <1>1, PTL DEF Spec

(* Whatever the services answer, no candidate is kept whose value or position does *)
(* not fit its word.                                                              *)
THEOREM TypeCorrect == Spec => []TypeOK
<1>1. IInv => TypeOK
  <2> SUFFICES ASSUME IInv
               PROVE  TypeOK
    OBVIOUS
  <2>1. out \in Seq(Candidates) /\ \A k \in DOMAIN out : out[k] \in Candidates
    BY ElementOfSeq DEF IInv, Listed
  <2>2. \A k \in DOMAIN plan : plan[k] \in Candidates
    BY DEF IInv, Listed
  <2>3. MaxU64 \in Nat /\ MaxI64 \in 0..MaxU64
    BY AmountsTypes, ListingTypes
  <2>4. ASSUME NEW c \in Candidates
        PROVE  c.value \in 0..MaxU64 /\ (source = "scan" => c.position \in 0..MaxU32 /\ c.value > 0)
    BY <2>3 DEF IInv, Stages, Candidates, ScanCandidates, NodeCandidates
  <2> QED
    BY <2>1, <2>2, <2>4 DEF TypeOK, IInv, Stages
<1> QED
  BY <1>1, Invariance, PTL

(* A plan names no note twice, however the services repeat and spell them. *)
THEOREM NotesAreNamedOnce == Spec => []NoteOnce
<1>1. IInv => NoteOnce
  BY DEF IInv, Listed, NoteOnce
<1> QED
  BY <1>1, Invariance, PTL

(* Every note of a returned scanner-backed plan was reported by the second listing, *)
(* incoming, not being spent, and of the value that the fee was computed from.      *)
THEOREM NotesAreRechecked == Spec => []RecheckedNotes
<1>1. IInv => RecheckedNotes
  BY DEF IInv, Rechecking, RecheckedNotes, Confirmed
<1> QED
  BY <1>1, Invariance, PTL

(* In every base, with any number of decimals and any word: the value of each note  *)
(* of a node-backed plan is the amount that the node wrote, if a word holds it.     *)
THEOREM AmountsAreExact == Spec => []AmountsExact
<1>1. IInv => AmountsExact
  BY DEF IInv, Amounted, AmountsExact, Written
<1> QED
  BY <1>1, Invariance, PTL

-----------------------------------------------------------------------------
(* How far the listing is from its end: the stages to come, and in each the      *)
(* cursors that may still be followed.                                           *)
Stage == [list |-> 4, choose |-> 3, recheck |-> 2, compare |-> 1, done |-> 0, failed |-> 0]
Distance == Stage[pc] * (Cardinality(Cursors) + 1) + (Cardinality(Cursors) - Cardinality(seen))

(* A following page is asked for with a cursor not yet seen. *)
LEMMA StepDescends ==
  ASSUME IsFiniteSet(Cursors), IInv, Step
  PROVE  Distance \in Nat /\ Distance' \in Nat /\ Distance' < Distance
<1> DEFINE C == Cardinality(Cursors)
           c == Cardinality(seen)
           d == Cardinality(seen')
<1>1. seen' = seen \/ seen' = {} \/ \E next \in Cursors \ seen : seen' = seen \cup {next}
  BY DEF Step, ListNone, ScanPage, ListUnspent, Choose, Compare, Fail, Repeats
<1>2. seen \subseteq Cursors /\ seen' \subseteq Cursors
  BY <1>1 DEF IInv, Stages
<1>3. IsFiniteSet(seen) /\ C \in Nat /\ c \in 0..C /\ d \in 0..C
  BY <1>2, FS_Subset, FS_CardinalityType
<1>4. CASE pc' = pc
  <2>1. /\ pc \in {"list", "recheck"}
        /\ \E next \in Cursors \ seen : seen' = seen \cup {next}
    BY <1>4 DEF Step, ListNone, ScanPage, ListUnspent, Choose, Compare, Fail, Repeats
  <2>2. d = c + 1
    BY <1>3, <2>1, FS_AddElement
  <2> HIDE DEF C, c, d
  <2>3. Stage[pc] \in Nat
    BY <2>1 DEF Stage
  <2>4. Stage[pc] * (C + 1) \in Nat
    BY <1>3, <2>3
  <2>5. Distance = Stage[pc] * (C + 1) + (C - c) /\ Distance' = Stage[pc] * (C + 1) + (C - d)
    BY <1>4 DEF Distance, C, c, d
  <2> QED
    BY <1>3, <2>2, <2>4, <2>5
<1>5. CASE pc' # pc
  <2>1. \/ pc = "list" /\ pc' \in {"choose", "failed"}
        \/ pc = "choose" /\ pc' \in {"recheck", "done", "failed"}
        \/ pc = "recheck" /\ pc' \in {"compare", "failed"}
        \/ pc = "compare" /\ pc' \in {"done", "failed"}
    BY <1>5 DEF Step, ListNone, ScanPage, ListUnspent, Choose, Compare, Fail
  <2>2. Stage[pc] \in 1..4 /\ Stage[pc'] \in 0..3 /\ Stage[pc'] < Stage[pc]
    BY <2>1 DEF Stage
  <2> HIDE DEF C, c, d
  <2>3. Distance = Stage[pc] * (C + 1) + (C - c) /\ Distance' = Stage[pc'] * (C + 1) + (C - d)
    BY DEF Distance, C, c, d
  <2> DEFINE r == Stage[pc]
             s == Stage[pc']
             u == C + 1
  <2>4. r \in Nat /\ s \in Nat /\ s + 1 <= r /\ u \in Nat
    BY <1>3, <2>2
  <2>5. Distance = r * u + (C - c) /\ Distance' = s * u + (C - d)
    BY <2>3
  <2> HIDE DEF r, s
  <2>6. r * u \in Nat /\ s * u \in Nat /\ s * u + u <= r * u
    <3>1. r - (s + 1) \in Nat
      BY <2>4
    <3>2. (r - (s + 1)) * u \in Nat /\ r * u = (s + 1) * u + (r - (s + 1)) * u
      BY <2>4, <3>1
    <3>3. (s + 1) * u = s * u + u /\ s * u \in Nat
      BY <2>4
    <3> HIDE DEF u
    <3> QED
      BY <2>4, <3>2, <3>3
  <2> QED
    BY <1>3, <2>5, <2>6
<1> QED
  BY <1>4, <1>5

(* What Terminates needs of the code.  Whatever cursors the scanner returns, as    *)
(* long as they are of a finite set, every step brings the listing nearer to its   *)
(* end: there are fewer than 5 * (Cardinality(Cursors) + 1) of them.               *)
THEOREM ListingsAreBounded ==
  ASSUME IsFiniteSet(Cursors)
  PROVE  Spec => [][Step => Distance' < Distance /\ Distance \in Nat]_vars
<1>1. IInv /\ [Next]_vars => [Step => Distance' < Distance /\ Distance \in Nat]_vars
  BY StepDescends DEF Next
<1> QED
  BY <1>1, Invariance, PTL DEF Spec
=============================================================================
