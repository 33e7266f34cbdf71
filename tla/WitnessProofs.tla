--------------------------- MODULE WitnessProofs ---------------------------
(***************************************************************************)
(* For a tree of any depth and any request: the builder is refused only    *)
(* for the request, and the path that it answers with for a position leads *)
(* from that leaf to the root of all of them.  The argument is in two      *)
(* parts.  Kept: the loop keeps one witness for each position below the    *)
(* leaf reached, and each has seen the tree so far.  PathLeadsToRoot: the  *)
(* path of a witness that has seen a tree leads to the root of that tree,  *)
(* because a node with its sibling at its side makes the node above.       *)
(***************************************************************************)
EXTENDS WitnessTree, FiniteSetTheorems, SequenceTheorems, WellFoundedInduction, TLAPS

(* The witness of a position once a tree has been seen. *)
WitnessOf(position, t) == [leaf |-> position, seen |-> t]

(* Where the loop is: in its range while there are leaves left, at its end after. *)
Control ==
  /\ pc = "check" => i = 0 /\ active = <<>>
  /\ pc \in {"append", "paths", "attach", "done"} => Valid
  /\ pc = "append" => i < Len(leaves)
  /\ pc \in {"paths", "attach", "done"} => i = Len(leaves)

(* One witness for each position asked for and passed, up to date. *)
Kept ==
  /\ active \in Seq([out : DOMAIN positions, witness : [leaf : Nat, seen : Seq(STRING)]])
  /\ \A m \in DOMAIN active :
       /\ positions[active[m].out] < i
       /\ active[m].witness = WitnessOf(positions[active[m].out], tree)
  /\ \A k \in DOMAIN positions : positions[k] < i => \E m \in DOMAIN active : active[m].out = k
  /\ \A m, n \in DOMAIN active : active[m].out = active[n].out => m = n

FullAnswer ==
  [root  |-> Root(leaves),
   paths |-> [k \in DOMAIN positions |->
                [position |-> positions[k], auth |-> AuthPath(WitnessOf(positions[k], leaves))]]]

Answered == pc \in {"attach", "done"} => answer = FullAnswer

(* The note of each position is given the path of a witness that has seen every  *)
(* leaf, and the plan the root of all the leaves.                                *)
PathsComplete ==
  pc = "done" =>
    /\ answer.root = Root(leaves)
    /\ attached = [k \in DOMAIN positions |-> AuthPath(WitnessOf(positions[k], leaves))]

Refused ==
  /\ error \notin {"internal", "mismatch"}
  /\ error = "invalid_request" => ~Valid

Typed ==
  /\ request \in Requests
  /\ pc \in {"check", "append", "paths", "attach", "done", "failed"}
  /\ i \in 0..Len(leaves) /\ tree = SubSeq(leaves, 1, i)
  /\ i < Capacity
  /\ error \in Codes \cup {None}
  /\ (error # None) <=> (pc = "failed")

IInv == Typed /\ Control /\ Kept /\ Answered /\ PathsComplete /\ Refused

-----------------------------------------------------------------------------
(* The tree. *)

(* Induction, from the order of the natural numbers being well-founded: a set *)
(* with 0 and with the successors of its members has every number.            *)
LEMMA Induction ==
  ASSUME NEW P, 0 \in P, \A k \in Nat : k \in P => k + 1 \in P
  PROVE  Nat \subseteq P
<1> DEFINE T == Nat \ P
<1> SUFFICES ASSUME T # {}
             PROVE  FALSE
  OBVIOUS
<1>1. PICK x \in T : \A y \in T : ~(<<y, x>> \in OpToRel(<, Nat))
  BY NatLessThanWellFounded, WFMin
<1>2. \A y \in T : y \in Nat /\ x \in Nat /\ ~(y < x)
  BY <1>1 DEF OpToRel
<1>3. x # 0 /\ x - 1 \in Nat /\ x - 1 \in P
  BY <1>2
<1> QED
  BY <1>2, <1>3

(* The leaves under the nodes: a power of two for each height. *)
LEMMA WidthUnfolds ==
  /\ Width[0] = 1
  /\ \A h \in 1..Depth : Width[h] = 2 * Width[h - 1]
  /\ \A h \in 0..Depth : Width[h] \in Nat \ {0}
<1> DEFINE N == Depth
           start == 1
           Over(h, x) == 2 * x
           Rule(f, m) == [h \in 0..m |-> IF h = 0 THEN start ELSE Over(h, f[h - 1])]
           P == {m \in Nat : \E f : f = Rule(f, m)}
           F == CHOOSE f : f = Rule(f, N)
<1>1. N \in Nat
  BY WitnessTypes
<1> HIDE DEF start, Over
<1>2. 0 \in P
  <2>1. [h \in 0..0 |-> start] = Rule([h \in 0..0 |-> start], 0)
    OBVIOUS
  <2> QED
    BY <2>1
<1>3. ASSUME NEW m \in Nat, m \in P
      PROVE  m + 1 \in P
  <2>1. PICK f : f = Rule(f, m)
    BY <1>3
  <2> DEFINE g == [h \in 0..(m + 1) |-> IF h = m + 1 THEN Over(m + 1, f[m]) ELSE f[h]]
  <2>2. ASSUME NEW h \in 0..(m + 1)
        PROVE  g[h] = Rule(g, m + 1)[h]
    <3>1. CASE h = 0
      <4>1. g[0] = f[0] /\ f[0] = start
        <5>1. f[0] = Rule(f, m)[0]
          BY <2>1
        <5> QED
          BY <5>1
      <4> HIDE DEF g
      <4> QED
        BY <3>1, <4>1
    <3>2. CASE h \in 1..m
      <4>1. f[h] = Over(h, f[h - 1])
        <5>1. f[h] = Rule(f, m)[h]
          BY <2>1
        <5> QED
          BY <3>2, <5>1
      <4>2. g[h] = f[h] /\ g[h - 1] = f[h - 1] /\ h # 0
        BY <3>2
      <4> HIDE DEF g
      <4> QED
        BY <4>1, <4>2
    <3>3. CASE h = m + 1
      <4>1. g[h] = Over(m + 1, f[m]) /\ g[h - 1] = f[m] /\ h # 0
        BY <3>3
      <4> HIDE DEF g
      <4> QED
        BY <3>3, <4>1
    <3> QED
      BY <3>1, <3>2, <3>3
  <2>3. g = Rule(g, m + 1)
    <3>1. g = [h \in 0..(m + 1) |-> g[h]]
      OBVIOUS
    <3>2. Rule(g, m + 1) = [h \in 0..(m + 1) |-> Rule(g, m + 1)[h]]
      OBVIOUS
    <3> HIDE DEF g, Rule
    <3> QED
      BY <2>2, <3>1, <3>2
  <2> HIDE DEF g, Rule
  <2> QED
    BY <2>3
<1>4. N \in P
  <2> HIDE DEF P
  <2> QED
    BY <1>1, <1>2, <1>3, Induction
<1>5. F = Rule(F, N)
  <2> HIDE DEF Rule
  <2> QED
    BY <1>4
<1>6. Width = F
  BY DEF Width, start, Over
<1> HIDE DEF F, P
<1>7. \A h \in 0..N : F[h] = IF h = 0 THEN start ELSE Over(h, F[h - 1])
  <2>1. \A h \in 0..N : F[h] = Rule(F, N)[h]
    BY <1>5
  <2> QED
    BY <2>1
<1>8. F[0] = 1 /\ \A h \in 1..N : F[h] = 2 * F[h - 1]
  <2>1. F[0] = 1
    BY <1>1, <1>7 DEF start
  <2>2. ASSUME NEW h \in 1..N PROVE F[h] = 2 * F[h - 1]
    <3>1. h \in 0..N /\ h # 0
      BY <1>1
    <3> QED
      BY <1>7, <3>1 DEF Over
  <2> QED
    BY <2>1, <2>2
<1> DEFINE Q == {h \in Nat : h <= N => F[h] \in Nat \ {0}}
<1>9. Nat \subseteq Q
  <2>1. 0 \in Q
    BY <1>8
  <2>2. ASSUME NEW h \in Nat, h \in Q
        PROVE  h + 1 \in Q
    <3>1. ASSUME h + 1 <= N PROVE F[h + 1] \in Nat \ {0}
      <4>1. F[h] \in Nat \ {0} /\ h + 1 \in 1..N /\ (h + 1) - 1 = h
        BY <1>1, <2>2, <3>1
      <4>2. F[h + 1] = 2 * F[h]
        BY <1>8, <4>1
      <4> QED
        BY <4>1, <4>2
    <3> QED
      BY <3>1
  <2> HIDE DEF Q
  <2> QED
    BY <2>1, <2>2, Induction
<1>10. \A h \in 0..N : F[h] \in Nat \ {0}
  BY <1>1, <1>9
<1> QED
  BY <1>6, <1>8, <1>10

(* The nodes of a level are pairs of those of the level below. *)
LEMMA NodesUnfold ==
  ASSUME NEW t
  PROVE  /\ Nodes(t)[0] = [k \in 0..(Capacity - 1) |-> IF k < Len(t) THEN t[k + 1] ELSE Empty]
         /\ \A l \in 1..Depth :
              Nodes(t)[l] = [k \in 0..(Width[Depth - l] - 1) |->
                               <<Nodes(t)[l - 1][2 * k], Nodes(t)[l - 1][2 * k + 1]>>]
<1> DEFINE N == Depth
           start == [k \in 0..(Capacity - 1) |-> IF k < Len(t) THEN t[k + 1] ELSE Empty]
           Over(h, x) == [k \in 0..(Width[Depth - h] - 1) |-> <<x[2 * k], x[2 * k + 1]>>]
           Rule(f, m) == [h \in 0..m |-> IF h = 0 THEN start ELSE Over(h, f[h - 1])]
           P == {m \in Nat : \E f : f = Rule(f, m)}
           F == CHOOSE f : f = Rule(f, N)
<1>1. N \in Nat
  BY WitnessTypes
<1> HIDE DEF start, Over
<1>2. 0 \in P
  <2>1. [h \in 0..0 |-> start] = Rule([h \in 0..0 |-> start], 0)
    OBVIOUS
  <2> QED
    BY <2>1
<1>3. ASSUME NEW m \in Nat, m \in P
      PROVE  m + 1 \in P
  <2>1. PICK f : f = Rule(f, m)
    BY <1>3
  <2> DEFINE g == [h \in 0..(m + 1) |-> IF h = m + 1 THEN Over(m + 1, f[m]) ELSE f[h]]
  <2>2. ASSUME NEW h \in 0..(m + 1)
        PROVE  g[h] = Rule(g, m + 1)[h]
    <3>1. CASE h = 0
      <4>1. g[0] = f[0] /\ f[0] = start
        <5>1. f[0] = Rule(f, m)[0]
          BY <2>1
        <5> QED
          BY <5>1
      <4> HIDE DEF g
      <4> QED
        BY <3>1, <4>1
    <3>2. CASE h \in 1..m
      <4>1. f[h] = Over(h, f[h - 1])
        <5>1. f[h] = Rule(f, m)[h]
          BY <2>1
        <5> QED
          BY <3>2, <5>1
      <4>2. g[h] = f[h] /\ g[h - 1] = f[h - 1] /\ h # 0
        BY <3>2
      <4> HIDE DEF g
      <4> QED
        BY <4>1, <4>2
    <3>3. CASE h = m + 1
      <4>1. g[h] = Over(m + 1, f[m]) /\ g[h - 1] = f[m] /\ h # 0
        BY <3>3
      <4> HIDE DEF g
      <4> QED
        BY <3>3, <4>1
    <3> QED
      BY <3>1, <3>2, <3>3
  <2>3. g = Rule(g, m + 1)
    <3>1. g = [h \in 0..(m + 1) |-> g[h]]
      OBVIOUS
    <3>2. Rule(g, m + 1) = [h \in 0..(m + 1) |-> Rule(g, m + 1)[h]]
      OBVIOUS
    <3> HIDE DEF g, Rule
    <3> QED
      BY <2>2, <3>1, <3>2
  <2> HIDE DEF g, Rule
  <2> QED
    BY <2>3
<1>4. N \in P
  <2> HIDE DEF P
  <2> QED
    BY <1>1, <1>2, <1>3, Induction
<1>5. F = Rule(F, N)
  <2> HIDE DEF Rule
  <2> QED
    BY <1>4
<1>6. Nodes(t) = F
  BY DEF Nodes, start, Over
<1> HIDE DEF F, P
<1>7. \A h \in 0..N : F[h] = IF h = 0 THEN start ELSE Over(h, F[h - 1])
  <2>1. \A h \in 0..N : F[h] = Rule(F, N)[h]
    BY <1>5
  <2> QED
    BY <2>1
<1>8. F[0] = start /\ \A h \in 1..N : F[h] = Over(h, F[h - 1])
  <2>1. F[0] = start
    BY <1>1, <1>7
  <2>2. ASSUME NEW h \in 1..N PROVE F[h] = Over(h, F[h - 1])
    <3>1. h \in 0..N /\ h # 0
      BY <1>1
    <3> QED
      BY <1>7, <3>1
  <2> QED
    BY <2>1, <2>2
<1>9. \A h \in 1..N : F[h] = [k \in 0..(Width[Depth - h] - 1) |-> <<F[h - 1][2 * k], F[h - 1][2 * k + 1]>>]
  BY <1>8 DEF Over
<1> QED
  BY <1>6, <1>8, <1>9 DEF start

(* Halving goes one level up. *)
LEMMA Halves ==
  ASSUME NEW p \in Nat, NEW w \in Nat \ {0}
  PROVE  p \div (2 * w) = (p \div w) \div 2
<1> DEFINE q == p \div w
           r == p % w
           a == q \div 2
           b == q % 2
<1>1. q \in Nat /\ r \in 0..(w - 1) /\ p = w * q + r
  OBVIOUS
<1> HIDE DEF q, r
<1>2. a \in Nat /\ b \in 0..1 /\ q = 2 * a + b
  BY <1>1
<1> HIDE DEF a, b
<1>3. p = (2 * w) * a + (w * b + r)
  <2>1. w * q = w * (2 * a) + w * b
    BY <1>1, <1>2
  <2>2. w * (2 * a) = (2 * w) * a
    BY <1>2
  <2> QED
    BY <1>1, <1>2, <2>1, <2>2
<1>4. w * b + r \in 0..(2 * w - 1)
  <2>1. CASE b = 0
    BY <1>1, <2>1
  <2>2. CASE b = 1
    BY <1>1, <2>2
  <2> QED
    BY <1>2, <2>1, <2>2
<1> DEFINE v == 2 * w
           s == w * b + r
<1>5. v \in Nat \ {0} /\ s \in 0..(v - 1) /\ p = v * a + s
  BY <1>3, <1>4
<1> HIDE DEF v, s
<1>6. p \div v = a
  BY <1>2, <1>5
<1> QED
  BY <1>6 DEF v, q, a

(* The nodes above a leaf are in their levels, each above the one below. *)
LEMMA AboveInLevel ==
  ASSUME NEW p \in 0..(Capacity - 1)
  PROVE  /\ Above(p, 0) = p
         /\ \A l \in 1..Depth : Above(p, l) = Above(p, l - 1) \div 2
         /\ \A l \in 0..Depth : Above(p, l) \in 0..(Width[Depth - l] - 1)
<1>1. Depth \in Nat /\ Capacity \in Nat \ {0} /\ p \in Nat
  BY WitnessTypes, WidthUnfolds DEF Capacity
<1>2. Above(p, 0) = p
  BY <1>1, WidthUnfolds DEF Above
<1>3. ASSUME NEW l \in 1..Depth
      PROVE  Above(p, l) = Above(p, l - 1) \div 2
  <2>1. l - 1 \in 0..Depth /\ Width[l] = 2 * Width[l - 1]
    BY <1>1, WidthUnfolds
  <2>2. Width[l - 1] \in Nat \ {0}
    BY <2>1, WidthUnfolds
  <2> QED
    BY <1>1, <2>1, <2>2, Halves DEF Above
<1> DEFINE P == {l \in Nat : l <= Depth => Above(p, l) \in 0..(Width[Depth - l] - 1)}
<1>4. 0 \in P
  BY <1>1, <1>2 DEF Capacity
<1>5. ASSUME NEW l \in Nat, l \in P
      PROVE  l + 1 \in P
  <2>1. ASSUME l + 1 <= Depth
        PROVE  Above(p, l + 1) \in 0..(Width[Depth - (l + 1)] - 1)
    <3>1. l + 1 \in 1..Depth /\ (l + 1) - 1 = l /\ Depth - l \in 1..Depth
          /\ (Depth - l) - 1 = Depth - (l + 1) /\ Depth - (l + 1) \in 0..Depth
      BY <1>1, <2>1
    <3>2. Width[Depth - l] = 2 * Width[Depth - (l + 1)]
      BY <3>1, WidthUnfolds
    <3>3. Width[Depth - (l + 1)] \in Nat
      BY <3>1, WidthUnfolds
    <3>4. Above(p, l + 1) = Above(p, l) \div 2
      BY <1>3, <3>1
    <3>5. Above(p, l) \in 0..(Width[Depth - l] - 1)
      BY <1>1, <1>5, <2>1
    <3> QED
      BY <3>2, <3>3, <3>4, <3>5
  <2> QED
    BY <2>1
<1>6. Nat \subseteq P
  <2> HIDE DEF P
  <2> QED
    BY <1>4, <1>5, Induction
<1>7. \A l \in 0..Depth : Above(p, l) \in 0..(Width[Depth - l] - 1)
  BY <1>1, <1>6
<1> QED
  BY <1>2, <1>3, <1>7

(* A node, with its sibling at its side, makes the node above. *)
LEMMA SiblingsPair ==
  ASSUME NEW t, NEW p \in 0..(Capacity - 1), NEW l \in 1..Depth
  PROVE  Nodes(t)[l][Above(p, l)] =
           LET k == Above(p, l - 1)
           IN  IF k % 2 = 0
               THEN <<Nodes(t)[l - 1][k], Nodes(t)[l - 1][Sibling(k)]>>
               ELSE <<Nodes(t)[l - 1][Sibling(k)], Nodes(t)[l - 1][k]>>
<1> DEFINE k == Above(p, l - 1)
           below == Nodes(t)[l - 1]
<1>1. k \in Nat /\ Above(p, l) = k \div 2 /\ k \div 2 \in 0..(Width[Depth - l] - 1)
  <2>1. l - 1 \in 0..Depth /\ l \in 0..Depth
    BY WitnessTypes
  <2>2. Above(p, l - 1) \in 0..(Width[Depth - (l - 1)] - 1)
    BY <2>1, AboveInLevel
  <2>3. Above(p, l) = Above(p, l - 1) \div 2
    BY AboveInLevel
  <2>4. Above(p, l) \in 0..(Width[Depth - l] - 1)
    BY <2>1, AboveInLevel
  <2> QED
    BY <2>2, <2>3, <2>4
<1>2. Nodes(t)[l] = [m \in 0..(Width[Depth - l] - 1) |-> <<below[2 * m], below[2 * m + 1]>>]
  BY NodesUnfold
<1> HIDE DEF k, below
<1>3. Nodes(t)[l][Above(p, l)] = <<below[2 * (k \div 2)], below[2 * (k \div 2) + 1]>>
  BY <1>1, <1>2
<1>4. CASE k % 2 = 0
  <2>1. 2 * (k \div 2) = k /\ Sibling(k) = 2 * (k \div 2) + 1
    BY <1>1, <1>4 DEF Sibling
  <2> QED
    BY <1>3, <1>4, <2>1 DEF k, below
<1>5. CASE k % 2 # 0
  <2>1. 2 * (k \div 2) + 1 = k /\ Sibling(k) = 2 * (k \div 2)
    BY <1>1, <1>5 DEF Sibling
  <2> QED
    BY <1>3, <1>5, <2>1 DEF k, below
<1> QED
  BY <1>4, <1>5

(* The authentication path of a leaf leads to the root, through the nodes above it. *)
LEMMA PathLeadsToRoot ==
  ASSUME NEW t, Len(t) \in Nat, Len(t) <= Capacity, NEW p \in 0..(Len(t) - 1)
  PROVE  PathRoot(t[p + 1], p, AuthPath(WitnessOf(p, t))) = Root(t)
<1> DEFINE N == Depth
           path == AuthPath(WitnessOf(p, t))
           Rule(f) == [l \in 0..N |->
                         IF l = 0 THEN t[p + 1]
                         ELSE IF Above(p, l - 1) % 2 = 0
                              THEN <<f[l - 1], path[l]>>
                              ELSE <<path[l], f[l - 1]>>]
           F == CHOOSE f : f = Rule(f)
           climb == [l \in 0..N |-> Nodes(t)[l][Above(p, l)]]
<1>1. /\ N \in Nat /\ Capacity \in Nat \ {0} /\ p \in 0..(Capacity - 1)
      /\ Above(p, 0) = p /\ Above(p, N) = 0
  <2>1. N \in Nat /\ Capacity \in Nat \ {0}
    BY WitnessTypes, WidthUnfolds DEF Capacity
  <2>2. p \in 0..(Capacity - 1)
    BY <2>1
  <2>3. Above(p, N) \in 0..(Width[N - N] - 1)
    BY <2>1, <2>2, AboveInLevel
  <2>4. N - N = 0 /\ Width[0] = 1
    BY <2>1, WidthUnfolds
  <2>5. Above(p, N) = 0
    BY <2>3, <2>4
  <2> QED
    BY <2>1, <2>2, <2>5, AboveInLevel
<1>2. climb[0] = t[p + 1]
  <2>1. Nodes(t)[0] = [k \in 0..(Capacity - 1) |-> IF k < Len(t) THEN t[k + 1] ELSE Empty]
    BY NodesUnfold
  <2> QED
    BY <1>1, <2>1
<1>3. \A l \in 1..N : path[l] = Nodes(t)[l - 1][Sibling(Above(p, l - 1))]
  BY DEF AuthPath, WitnessOf
<1> HIDE DEF path
<1>4. climb = Rule(climb)
  <2>1. ASSUME NEW l \in 1..N
        PROVE  climb[l] = Rule(climb)[l]
    <3>1. l \in 0..N /\ l - 1 \in 0..N /\ l # 0
      BY <1>1
    <3>2. climb[l] = Nodes(t)[l][Above(p, l)] /\ climb[l - 1] = Nodes(t)[l - 1][Above(p, l - 1)]
      BY <3>1
    <3>3. path[l] = Nodes(t)[l - 1][Sibling(Above(p, l - 1))]
      BY <1>3
    <3> HIDE DEF climb
    <3>4. climb[l] = IF Above(p, l - 1) % 2 = 0
                     THEN <<climb[l - 1], path[l]>> ELSE <<path[l], climb[l - 1]>>
      BY <1>1, <3>2, <3>3, SiblingsPair
    <3> QED
      BY <3>1, <3>4
  <2>2. climb[0] = Rule(climb)[0]
    <3> HIDE DEF climb
    <3> QED
      BY <1>1, <1>2
  <2>3. \A l \in 0..N : climb[l] = Rule(climb)[l]
    <3>1. \A l \in 0..N : l = 0 \/ l \in 1..N
      BY <1>1
    <3> HIDE DEF climb, Rule
    <3> QED
      BY <2>1, <2>2, <3>1
  <2>4. climb = [l \in 0..N |-> climb[l]] /\ Rule(climb) = [l \in 0..N |-> Rule(climb)[l]]
    <3>1. climb = [l \in 0..N |-> climb[l]]
      OBVIOUS
    <3> HIDE DEF climb
    <3> QED
      BY <3>1
  <2> HIDE DEF climb, Rule
  <2> QED
    BY <2>3, <2>4
<1>5. F = Rule(F)
  <2> HIDE DEF climb, Rule
  <2> QED
    BY <1>4
<1>6. PathRoot(t[p + 1], p, path) = F[N]
  BY DEF PathRoot
<1> HIDE DEF F
<1>7. \A l \in 0..N : F[l] = Rule(F)[l] /\ climb[l] = Rule(climb)[l]
  <2> HIDE DEF climb, Rule
  <2> QED
    BY <1>4, <1>5
<1> DEFINE P == {l \in Nat : l <= N => F[l] = climb[l]}
<1> HIDE DEF climb
<1>8. 0 \in P
  <2>1. 0 \in 0..N
    BY <1>1
  <2> QED
    BY <1>7, <2>1
<1>9. ASSUME NEW l \in Nat, l \in P
      PROVE  l + 1 \in P
  <2>1. ASSUME l + 1 <= N
        PROVE  F[l + 1] = climb[l + 1]
    <3>1. l + 1 \in 0..N /\ l + 1 # 0 /\ (l + 1) - 1 = l /\ F[l] = climb[l]
      BY <1>1, <1>9, <2>1
    <3>2. Rule(F)[l + 1] = Rule(climb)[l + 1]
      BY <3>1
    <3> HIDE DEF Rule
    <3> QED
      BY <1>7, <3>1, <3>2
  <2> QED
    BY <2>1
<1>10. F[N] = climb[N]
  <2>1. Nat \subseteq P
    <3> HIDE DEF P
    <3> QED
      BY <1>8, <1>9, Induction
  <2> QED
    BY <1>1, <2>1
<1>11. climb[N] = Nodes(t)[N][0]
  BY <1>1 DEF climb
<1> QED
  BY <1>6, <1>10, <1>11 DEF Root, path

-----------------------------------------------------------------------------
(* The data of a request. *)
LEMMA RequestTyped ==
  ASSUME Typed
  PROVE  /\ leaves \in Seq(STRING) /\ positions \in Seq(Nat)
         /\ Len(leaves) \in Nat /\ Len(positions) \in Nat
         /\ DOMAIN positions = 1..Len(positions)
         /\ \A k \in DOMAIN positions : positions[k] \in Nat
         /\ Capacity \in Nat \ {0} /\ i \in Nat /\ i <= Len(leaves)
BY WitnessTypes, WidthUnfolds DEF Typed, leaves, positions, Capacity

(* The leaves read so far. *)
LEMMA TreeTyped ==
  ASSUME Typed
  PROVE  tree \in Seq(STRING) /\ Len(tree) = i /\ \A j \in 1..i : tree[j] = leaves[j]
<1>1. \A j \in 1..i : leaves[j] \in STRING
  BY RequestTyped, ElementOfSeq
<1>2. /\ SubSeq(leaves, 1, i) \in Seq(STRING)
      /\ Len(SubSeq(leaves, 1, i)) = IF 1 <= i THEN i - 1 + 1 ELSE 0
      /\ \A j \in 1..(i - 1 + 1) : SubSeq(leaves, 1, i)[j] = leaves[1 + j - 1]
  BY <1>1, RequestTyped, SubSeqProperties
<1>3. tree = SubSeq(leaves, 1, i) /\ i \in Nat
  BY RequestTyped DEF Typed
<1>4. tree \in Seq(STRING) /\ Len(tree) = i
  BY <1>2, <1>3
<1>5. ASSUME NEW j \in 1..i PROVE tree[j] = leaves[j]
  <2>1. j \in 1..(i - 1 + 1) /\ 1 + j - 1 = j
    BY <1>3, <1>5
  <2> QED
    BY <1>2, <1>3, <2>1
<1> QED
  BY <1>4, <1>5

(* One more leaf. *)
LEMMA TreeGrows ==
  ASSUME Typed, i < Len(leaves)
  PROVE  Append(tree, leaves[i + 1]) = SubSeq(leaves, 1, i + 1)
<1> DEFINE longer == SubSeq(leaves, 1, i + 1)
           grown == Append(tree, leaves[i + 1])
<1>1. leaves \in Seq(STRING) /\ i \in Nat /\ i + 1 \in 1..Len(leaves)
  BY RequestTyped
<1>2. \A j \in 1..(i + 1) : leaves[j] \in STRING
  BY RequestTyped, ElementOfSeq
<1>3. /\ longer \in Seq(STRING) /\ Len(longer) = IF 1 <= i + 1 THEN i + 1 - 1 + 1 ELSE 0
      /\ \A j \in 1..(i + 1 - 1 + 1) : longer[j] = leaves[1 + j - 1]
  BY <1>1, <1>2, SubSeqProperties
<1>4. /\ grown \in Seq(STRING) /\ Len(grown) = Len(tree) + 1
      /\ \A j \in 1..Len(tree) : grown[j] = tree[j]
      /\ grown[Len(tree) + 1] = leaves[i + 1]
  <2>1. leaves[i + 1] \in STRING
    BY <1>1, <1>2
  <2> HIDE DEF grown
  <2> QED
    BY <2>1, TreeTyped, AppendProperties DEF grown
<1> HIDE DEF longer, grown
<1>5. Len(longer) = i + 1 /\ Len(grown) = i + 1
  BY <1>1, <1>3, <1>4, TreeTyped
<1>6. ASSUME NEW j \in 1..(i + 1) PROVE grown[j] = longer[j]
  <2>1. longer[j] = leaves[j]
    <3>1. j \in 1..(i + 1 - 1 + 1) /\ 1 + j - 1 = j
      BY <1>1
    <3> QED
      BY <1>3, <3>1
  <2>2. CASE j = i + 1
    BY <1>4, <2>1, <2>2, TreeTyped
  <2>3. CASE j \in 1..i
    BY <1>4, <2>1, <2>3, TreeTyped
  <2> QED
    BY <1>1, <2>2, <2>3
<1> QED
  BY <1>3, <1>4, <1>5, <1>6, SeqEqual DEF longer, grown

LEMMA InitIInv == Init => IInv
<1> SUFFICES ASSUME Init PROVE IInv
  OBVIOUS
<1> USE DEF Init
<1>1. leaves \in Seq(STRING) /\ positions \in Seq(Nat) /\ None \notin Codes
  BY WitnessTypes DEF leaves, positions
<1>2. Typed
  BY <1>1, WitnessTypes, WidthUnfolds DEF Typed, Capacity
<1>3. Control /\ Answered /\ PathsComplete /\ Refused
  BY <1>1 DEF Control, Answered, PathsComplete, Refused, Codes
<1>4. Kept
  BY <1>1 DEF Kept
<1> QED
  BY <1>2, <1>3, <1>4 DEF IInv

(* A refusal for the request, or a panic. *)
LEMMA RefuseKeeps ==
  ASSUME IInv, pc # "failed", NEW code, Refuse(code),
         code = "panic" \/ (code = "invalid_request" /\ ~Valid)
  PROVE  IInv'
<1>1. /\ pc' = "failed" /\ error' = code
      /\ UNCHANGED <<request, i, tree, active, answer, attached>>
  BY DEF Refuse
<1>2. UNCHANGED <<leaves, positions, Valid>>
  BY <1>1 DEF leaves, positions, Valid, Readable, Counted, Distinct
<1>3. Typed'
  BY <1>1, <1>2, WitnessTypes DEF IInv, Typed, Codes
<1>4. Control' /\ Answered' /\ PathsComplete'
  BY <1>1 DEF Control, Answered, PathsComplete
<1>5. Kept'
  BY <1>1, <1>2 DEF IInv, Kept
<1>6. Refused'
  BY <1>1, <1>2 DEF Refused
<1> QED
  BY <1>3, <1>4, <1>5, <1>6 DEF IInv

LEMMA CheckKeeps == IInv /\ Check => IInv'
<1> SUFFICES ASSUME IInv, Check PROVE IInv'
  OBVIOUS
<1>1. pc = "check"
  BY DEF Check
<1>2. CASE ~Valid
  BY <1>1, <1>2, RefuseKeeps DEF Check
<1>3. CASE Valid
  <2>1. pc' = "append" /\ UNCHANGED <<request, i, tree, active, error, answer, attached>>
    BY <1>3 DEF Check
  <2>2. UNCHANGED <<leaves, positions, Valid>>
    BY <2>1 DEF leaves, positions, Valid, Readable, Counted, Distinct
  <2>3. Typed'
    BY <1>1, <2>1, <2>2 DEF IInv, Typed
  <2>4. i < Len(leaves)
    <3>1. Len(leaves) # 0
      BY <1>3, RequestTyped, EmptySeq DEF IInv, Valid, Readable
    <3> QED
      BY <1>1, <3>1, RequestTyped DEF IInv, Control
  <2>5. Control' /\ Answered' /\ PathsComplete'
    BY <1>3, <2>1, <2>2, <2>4 DEF Control, Answered, PathsComplete
  <2>6. Kept' /\ Refused'
    BY <2>1, <2>2 DEF IInv, Kept, Refused
  <2> QED
    BY <2>3, <2>5, <2>6 DEF IInv
<1> QED
  BY <1>2, <1>3

LEMMA PanicKeeps == IInv /\ Panic => IInv'
BY RefuseKeeps DEF Panic

(* The tree is not full as long as there are leaves to append. *)
LEMMA Room ==
  ASSUME IInv, pc = "append"
  PROVE  ~Full(tree) /\ i + 1 < Capacity
<1>1. Valid /\ i < Len(leaves)
  BY DEF IInv, Control
<1>2. Len(leaves) < Capacity
  BY <1>1 DEF Valid, Counted
<1>3. Len(tree) = i /\ i \in Nat /\ Len(leaves) \in Nat /\ Capacity \in Nat
  BY RequestTyped, TreeTyped DEF IInv
<1> QED
  BY <1>1, <1>2, <1>3 DEF Full

NextLeaf == leaves[i + 1]
Grown == Append(tree, NextLeaf)
Witnessed == [out : DOMAIN positions, witness : [leaf : Nat, seen : Seq(STRING)]]

(* Each witness kept is given the leaf the tree is given. *)
LEMMA AppendKeepsWitnesses ==
  ASSUME IInv, pc = "append"
  PROVE  /\ AppendToAll(NextLeaf) \in Seq(Witnessed)
         /\ Len(AppendToAll(NextLeaf)) = Len(active)
         /\ \A m \in DOMAIN active :
              /\ AppendToAll(NextLeaf)[m].out = active[m].out
              /\ AppendToAll(NextLeaf)[m].witness = WitnessOf(positions[active[m].out], Grown)
<1>1. active \in Seq(Witnessed) /\ Len(active) \in Nat /\ DOMAIN active = 1..Len(active)
  BY LenProperties DEF IInv, Kept, Witnessed
<1>2. Grown \in Seq(STRING)
  <2>1. i + 1 \in 1..Len(leaves)
    BY RequestTyped DEF IInv, Control
  <2>2. NextLeaf \in STRING
    BY <2>1, RequestTyped, ElementOfSeq DEF IInv, NextLeaf
  <2> QED
    BY <2>2, TreeTyped, AppendProperties DEF IInv, Grown
<1>3. ASSUME NEW m \in DOMAIN active
      PROVE  /\ AppendToAll(NextLeaf)[m].out = active[m].out
             /\ AppendToAll(NextLeaf)[m].witness = WitnessOf(positions[active[m].out], Grown)
             /\ AppendToAll(NextLeaf)[m] \in Witnessed
  <2>1. active[m] \in Witnessed
    BY <1>1, ElementOfSeq
  <2>2. active[m].witness = WitnessOf(positions[active[m].out], tree)
    BY DEF IInv, Kept
  <2>3. active[m].out \in DOMAIN positions /\ positions[active[m].out] \in Nat
    BY <2>1, RequestTyped DEF IInv, Witnessed
  <2>4. AppendToAll(NextLeaf)[m] = [out |-> active[m].out, witness |-> Seen(active[m].witness, NextLeaf)]
    BY DEF AppendToAll
  <2>5. Seen(active[m].witness, NextLeaf) = WitnessOf(positions[active[m].out], Grown)
    BY <2>2 DEF Seen, WitnessOf, Grown
  <2>6. WitnessOf(positions[active[m].out], Grown) \in [leaf : Nat, seen : Seq(STRING)]
    BY <1>2, <2>3 DEF WitnessOf
  <2> QED
    BY <2>3, <2>4, <2>5, <2>6 DEF Witnessed
<1>4. AppendToAll(NextLeaf) \in [1..Len(active) -> Witnessed]
  BY <1>1, <1>3 DEF AppendToAll
<1>5. AppendToAll(NextLeaf) \in Seq(Witnessed) /\ Len(AppendToAll(NextLeaf)) = Len(active)
  BY <1>1, <1>4
<1> QED
  BY <1>3, <1>5

(* What a turn keeps: the witnesses so far, and a new one for a position asked for. *)
LEMMA AppendLeafKeepsKept ==
  ASSUME IInv, AppendLeaf
  PROVE  Kept'
<1> DEFINE all == AppendToAll(NextLeaf)
           wanted == {k \in DOMAIN positions : positions[k] = i}
<1>1. /\ pc = "append" /\ tree' = Grown /\ i' = i + 1 /\ request' = request
      /\ \/ wanted = {} /\ active' = all
         \/ \E k \in wanted : active' = Append(all, [out |-> k, witness |-> FromTree(Grown)])
  BY Room DEF AppendLeaf, Grown, NextLeaf
<1>2. UNCHANGED <<leaves, positions>>
  BY <1>1 DEF leaves, positions
<1>3. /\ all \in Seq(Witnessed) /\ Len(all) \in Nat /\ DOMAIN all = 1..Len(all)
      /\ DOMAIN active = 1..Len(active) /\ Len(all) = Len(active)
      /\ \A m \in DOMAIN active : /\ all[m].out = active[m].out
                                  /\ all[m].witness = WitnessOf(positions[active[m].out], Grown)
  <2>1. active \in Seq(Witnessed)
    BY DEF IInv, Kept, Witnessed
  <2> HIDE DEF all
  <2> QED
    BY <1>1, <2>1, AppendKeepsWitnesses, LenProperties DEF all
<1>4. /\ i \in Nat /\ \A k \in DOMAIN positions : positions[k] \in Nat
      /\ \A m \in DOMAIN active : active[m].out \in DOMAIN positions /\ positions[active[m].out] < i
      /\ \A k \in DOMAIN positions : positions[k] < i => \E m \in DOMAIN active : active[m].out = k
      /\ \A m, n \in DOMAIN active : active[m].out = active[n].out => m = n
      /\ \A k, m \in DOMAIN positions : positions[k] = positions[m] => k = m
  <2>1. active \in Seq(Witnessed)
    BY DEF IInv, Kept, Witnessed
  <2>2. ASSUME NEW m \in DOMAIN active PROVE active[m].out \in DOMAIN positions
    <3>1. DOMAIN active = 1..Len(active)
      BY <2>1, LenProperties
    <3>2. active[m] \in Witnessed
      BY <2>1, <3>1, ElementOfSeq
    <3> QED
      BY <3>2 DEF Witnessed
  <2>3. \A k, m \in DOMAIN positions : positions[k] = positions[m] => k = m
    BY <1>1 DEF IInv, Control, Valid, Distinct
  <2> QED
    BY <2>2, <2>3, RequestTyped DEF IInv, Kept
<1> HIDE DEF all
<1>5. CASE wanted = {} /\ active' = all
  <2>1. Witnessed' = Witnessed
    BY <1>2 DEF Witnessed
  <2>2. active' \in Seq(Witnessed')
    BY <1>3, <1>5, <2>1
  <2>3. ASSUME NEW m \in DOMAIN active'
        PROVE  /\ positions'[active'[m].out] < i'
               /\ active'[m].witness = WitnessOf(positions'[active'[m].out], tree')
    <3>1. /\ m \in DOMAIN active /\ active'[m].out = active[m].out
          /\ active'[m].witness = WitnessOf(positions[active[m].out], Grown)
      BY <1>3, <1>5
    <3>2. positions[active[m].out] < i /\ positions[active[m].out] \in Nat
      BY <1>4, <3>1
    <3> QED
      BY <1>1, <1>2, <1>4, <3>1, <3>2
  <2>4. ASSUME NEW k \in DOMAIN positions', positions'[k] < i'
        PROVE  \E m \in DOMAIN active' : active'[m].out = k
    <3>1. positions[k] # i
      BY <1>2, <1>5
    <3>2. positions[k] < i
      BY <1>1, <1>2, <1>4, <2>4, <3>1
    <3> QED
      BY <1>2, <1>3, <1>4, <1>5, <3>2
  <2>5. \A m, n \in DOMAIN active' : active'[m].out = active'[n].out => m = n
    BY <1>3, <1>4, <1>5
  <2> QED
    BY <2>2, <2>3, <2>4, <2>5 DEF Kept, Witnessed, WitnessOf
<1>6. ASSUME NEW k \in wanted, active' = Append(all, [out |-> k, witness |-> FromTree(Grown)])
      PROVE  Kept'
  <2> DEFINE new == [out |-> k, witness |-> FromTree(Grown)]
  <2>1. Grown \in Seq(STRING) /\ Len(Grown) = i + 1
    <3>1. i + 1 \in 1..Len(leaves)
      BY <1>1, RequestTyped DEF IInv, Control
    <3>2. NextLeaf \in STRING
      BY <3>1, RequestTyped, ElementOfSeq DEF IInv, NextLeaf
    <3>3. tree \in Seq(STRING) /\ Len(tree) = i
      BY TreeTyped DEF IInv
    <3> QED
      BY <3>2, <3>3, AppendProperties DEF Grown
  <2>2. k \in DOMAIN positions /\ positions[k] = i
    OBVIOUS
  <2>3. new.out = k /\ new.witness = WitnessOf(positions[k], Grown) /\ new \in Witnessed
    BY <1>4, <2>1, <2>2 DEF FromTree, WitnessOf, Witnessed
  <2> HIDE DEF new
  <2>4. /\ active' \in Seq(Witnessed) /\ DOMAIN active' = 1..(Len(all) + 1)
        /\ \A m \in 1..Len(all) : active'[m] = all[m]
        /\ active'[Len(all) + 1] = new
    <3>1. active' = Append(all, new)
      BY <1>6 DEF new
    <3> QED
      BY <1>3, <2>3, <3>1, AppendProperties, LenProperties
  <2>5. Witnessed' = Witnessed
    BY <1>2 DEF Witnessed
  <2>6. ASSUME NEW m \in DOMAIN active'
        PROVE  /\ positions'[active'[m].out] < i'
               /\ active'[m].witness = WitnessOf(positions'[active'[m].out], tree')
    <3>1. CASE m = Len(all) + 1
      BY <1>1, <1>2, <1>4, <2>2, <2>3, <2>4, <3>1
    <3>2. CASE m \in 1..Len(all)
      BY <1>1, <1>2, <1>3, <1>4, <2>4, <3>2
    <3> QED
      BY <1>3, <2>4, <3>1, <3>2
  <2>7. ASSUME NEW p \in DOMAIN positions', positions'[p] < i'
        PROVE  \E m \in DOMAIN active' : active'[m].out = p
    <3>1. CASE positions[p] = i
      <4>1. p = k
        BY <1>2, <1>4, <2>2, <3>1
      <4> QED
        BY <1>3, <2>3, <2>4, <4>1
    <3>2. CASE positions[p] # i
      <4>1. positions[p] < i
        BY <1>1, <1>2, <1>4, <2>7, <3>2
      <4>2. PICK m \in DOMAIN active : active[m].out = p
        BY <1>2, <1>4, <4>1
      <4> QED
        BY <1>3, <2>4, <4>2
    <3> QED
      BY <3>1, <3>2
  <2>8. ASSUME NEW m \in DOMAIN active', NEW n \in DOMAIN active', active'[m].out = active'[n].out
        PROVE  m = n
    <3>1. ASSUME NEW l \in 1..Len(all) PROVE active'[l].out # k
      <4>1. active'[l].out = active[l].out /\ l \in DOMAIN active
        BY <1>3, <2>4
      <4>2. positions[active[l].out] < i /\ positions[active[l].out] \in Nat
        BY <1>4, <4>1
      <4> QED
        BY <1>4, <2>2, <4>1, <4>2
    <3>2. CASE m \in 1..Len(all) /\ n \in 1..Len(all)
      BY <1>3, <1>4, <2>4, <2>8, <3>2
    <3> QED
      BY <1>3, <2>3, <2>4, <2>8, <3>1, <3>2
  <2> QED
    BY <2>4, <2>5, <2>6, <2>7, <2>8 DEF Kept, Witnessed, WitnessOf
<1> QED
  BY <1>1, <1>5, <1>6

LEMMA AppendLeafKeeps == IInv /\ AppendLeaf => IInv'
<1> SUFFICES ASSUME IInv, AppendLeaf PROVE IInv'
  OBVIOUS
<1>1. /\ pc = "append" /\ i < Len(leaves) /\ tree' = Append(tree, leaves[i + 1]) /\ i' = i + 1
      /\ pc' = IF i' = Len(leaves) THEN "paths" ELSE pc
      /\ UNCHANGED <<request, error, answer, attached>>
  BY Room DEF AppendLeaf
<1>2. UNCHANGED <<leaves, positions, Valid>>
  BY <1>1 DEF leaves, positions, Valid, Readable, Counted, Distinct
<1>3. i \in Nat /\ Len(leaves) \in Nat /\ i + 1 < Capacity
  BY <1>1, Room, RequestTyped DEF IInv
<1>4. Typed'
  <2>1. tree' = SubSeq(leaves', 1, i')
    BY <1>1, <1>2, TreeGrows DEF IInv
  <2> QED
    BY <1>1, <1>2, <1>3, <2>1 DEF IInv, Typed
<1>5. Control'
  BY <1>1, <1>2, <1>3 DEF IInv, Control
<1>6. Kept'
  BY AppendLeafKeepsKept
<1>7. Answered' /\ PathsComplete' /\ Refused'
  BY <1>1, <1>2 DEF IInv, Answered, PathsComplete, Refused
<1> QED
  BY <1>4, <1>5, <1>6, <1>7 DEF IInv

(* At the end of the loop every position has its witness, which has seen all. *)
LEMMA WitnessesComplete ==
  ASSUME IInv, pc = "paths"
  PROVE  /\ tree = leaves
         /\ \A k \in DOMAIN positions :
              \E a \in {active[m] : m \in DOMAIN active} : a.out = k
         /\ \A k \in DOMAIN positions : \A a \in {active[m] : m \in DOMAIN active} :
              a.out = k => a.witness = WitnessOf(positions[k], leaves)
<1>1. Valid /\ i = Len(leaves)
  BY DEF IInv, Control
<1>2. tree = leaves
  BY <1>1, RequestTyped, TreeTyped, SeqEqual DEF IInv
<1>3. ASSUME NEW k \in DOMAIN positions
      PROVE  \E a \in {active[m] : m \in DOMAIN active} : a.out = k
  <2>1. positions[k] < i
    BY <1>1 DEF Valid
  <2>2. PICK m \in DOMAIN active : active[m].out = k
    BY <2>1 DEF IInv, Kept
  <2> QED
    BY <2>2
<1>4. ASSUME NEW k \in DOMAIN positions, NEW m \in DOMAIN active, active[m].out = k
      PROVE  active[m].witness = WitnessOf(positions[k], leaves)
  BY <1>2, <1>4 DEF IInv, Kept
<1> QED
  BY <1>2, <1>3, <1>4

LEMMA PathsKeeps == IInv /\ Paths => IInv'
<1> SUFFICES ASSUME IInv, Paths PROVE IInv'
  OBVIOUS
<1> DEFINE kept == {active[m] : m \in DOMAIN active}
           made(k) == (CHOOSE a \in kept : a.out = k).witness
<1>1. pc = "paths"
  BY DEF Paths
<1>2. ASSUME NEW k \in DOMAIN positions PROVE made(k) = WitnessOf(positions[k], leaves)
  BY <1>1, WitnessesComplete
<1>3. \A k \in DOMAIN positions : \E m \in DOMAIN active : active[m].out = k
  BY <1>1, WitnessesComplete
<1>4. /\ pc' = "attach" /\ UNCHANGED <<request, i, tree, active, error, attached>>
      /\ answer' = [root  |-> Root(tree),
                    paths |-> [k \in DOMAIN positions |->
                                 [position |-> positions[k], auth |-> AuthPath(made(k))]]]
  BY <1>3 DEF Paths
<1> HIDE DEF made
<1>5. answer' = FullAnswer
  <2>1. tree = leaves
    BY <1>1, WitnessesComplete
  <2> QED
    BY <1>2, <1>4, <2>1 DEF FullAnswer
<1>6. UNCHANGED <<leaves, positions, Valid, FullAnswer>>
  <2>1. UNCHANGED <<leaves, positions>>
    BY <1>4 DEF leaves, positions
  <2> QED
    BY <2>1 DEF Valid, Readable, Counted, Distinct, FullAnswer
<1>7. Typed'
  BY <1>1, <1>4, <1>6 DEF IInv, Typed
<1>8. Control' /\ Kept'
  BY <1>1, <1>4, <1>6 DEF IInv, Control, Kept
<1>9. Answered' /\ PathsComplete' /\ Refused'
  BY <1>4, <1>5, <1>6 DEF IInv, Answered, PathsComplete, Refused
<1> QED
  BY <1>7, <1>8, <1>9 DEF IInv

LEMMA AttachKeeps == IInv /\ Attach => IInv'
<1> SUFFICES ASSUME IInv, Attach PROVE IInv'
  OBVIOUS
<1>1. pc = "attach" /\ answer = FullAnswer
  BY DEF Attach, IInv, Answered
<1>2. /\ Len(answer.paths) = Len(positions)
      /\ \A k \in DOMAIN positions :
           /\ answer.paths[k].position = positions[k]
           /\ answer.paths[k].auth = AuthPath(WitnessOf(positions[k], leaves))
  <2>1. DOMAIN positions = 1..Len(positions) /\ Len(positions) \in Nat
    BY RequestTyped DEF IInv
  <2>2. DOMAIN answer.paths = 1..Len(positions)
    BY <1>1, <2>1 DEF FullAnswer
  <2>3. answer.paths = [k \in 1..Len(positions) |->
          [position |-> positions[k], auth |-> AuthPath(WitnessOf(positions[k], leaves))]]
    BY <1>1, <2>1 DEF FullAnswer
  <2>4. Len(answer.paths) = Len(positions)
    BY <2>1, <2>3
  <2> QED
    BY <2>1, <2>3, <2>4
<1>3. /\ pc' = "done" /\ UNCHANGED <<request, i, tree, active, error, answer>>
      /\ attached' = [k \in DOMAIN positions |-> answer.paths[k].auth]
  BY <1>2 DEF Attach
<1>4. UNCHANGED <<leaves, positions, Valid, FullAnswer>>
  <2>1. UNCHANGED <<leaves, positions>>
    BY <1>3 DEF leaves, positions
  <2> QED
    BY <2>1 DEF Valid, Readable, Counted, Distinct, FullAnswer
<1>5. Typed'
  BY <1>1, <1>3, <1>4 DEF IInv, Typed
<1>6. Control' /\ Kept' /\ Answered' /\ Refused'
  BY <1>1, <1>3, <1>4 DEF IInv, Control, Kept, Answered, Refused
<1>7. PathsComplete'
  <2>1. answer'.root = Root(leaves')
    BY <1>1, <1>3, <1>4 DEF FullAnswer
  <2> QED
    BY <1>2, <1>3, <1>4, <2>1 DEF PathsComplete
<1> QED
  BY <1>5, <1>6, <1>7 DEF IInv

LEMMA StutterKeeps == IInv /\ UNCHANGED vars => IInv'
<1> SUFFICES ASSUME IInv, UNCHANGED vars PROVE IInv'
  OBVIOUS
<1>1. UNCHANGED <<request, pc, i, tree, active, error, answer, attached>>
  BY DEF vars
<1>2. UNCHANGED <<leaves, positions, Valid, FullAnswer>>
  BY <1>1 DEF leaves, positions, Valid, Readable, Counted, Distinct, FullAnswer
<1> QED
  BY <1>1, <1>2 DEF IInv, Typed, Control, Kept, Answered, PathsComplete, Refused

(* The loop's invariant: one up-to-date witness for each position passed. *)
THEOREM Invariance == Spec => []IInv
<1>1. IInv /\ [Next]_vars => IInv'
  BY CheckKeeps, AppendLeafKeeps, PanicKeeps, PathsKeeps, AttachKeeps, StutterKeeps
     DEF Next, Terminated
<1> QED
  BY InitIInv, <1>1, PTL DEF Spec

LEMMA CountUpTo ==
  ASSUME NEW n \in Nat
  PROVE  IsFiniteSet(1..n) /\ Cardinality(1..n) = n
<1>1. IsFiniteSet(1..n) /\ Cardinality(1..n) = IF 1 > n THEN 0 ELSE n - 1 + 1
  BY FS_Interval
<1> QED
  BY <1>1

(* Distinct answers go to distinct positions: there are no more of them. *)
LEMMA NoMoreWitnesses == IInv => Len(active) <= Len(positions)
<1> SUFFICES ASSUME IInv PROVE Len(active) <= Len(positions)
  OBVIOUS
<1> DEFINE outOf == [m \in 1..Len(active) |-> active[m].out]
<1>1. active \in Seq(Witnessed)
  BY DEF IInv, Kept, Witnessed
<1>2. Len(active) \in Nat /\ DOMAIN active = 1..Len(active)
  BY <1>1, LenProperties
<1>3. Len(positions) \in Nat /\ DOMAIN positions = 1..Len(positions)
  BY RequestTyped DEF IInv
<1>4. ASSUME NEW m \in 1..Len(active) PROVE active[m].out \in 1..Len(positions)
  <2>1. active[m] \in Witnessed
    BY <1>1, ElementOfSeq
  <2> QED
    BY <1>3, <2>1 DEF Witnessed
<1>5. outOf \in Injection(1..Len(active), 1..Len(positions))
  BY <1>2, <1>4 DEF IInv, Kept, Injection, IsInjective
<1>6. /\ IsFiniteSet(1..Len(positions)) /\ Cardinality(1..Len(positions)) = Len(positions)
      /\ Cardinality(1..Len(active)) = Len(active)
  BY <1>2, <1>3, CountUpTo
<1> HIDE DEF outOf
<1> QED
  BY <1>5, <1>6, FS_Injection

(* As many values as positions: none is named twice. *)
LEMMA CountedDistinct ==
  ASSUME Typed, Cardinality({positions[k] : k \in DOMAIN positions}) = Len(positions)
  PROVE  Distinct
<1> DEFINE named == {positions[k] : k \in DOMAIN positions}
           valueOf == [k \in 1..Len(positions) |-> positions[k]]
<1>1. Len(positions) \in Nat /\ DOMAIN positions = 1..Len(positions)
  BY RequestTyped
<1>2. valueOf \in Surjection(1..Len(positions), named)
  BY <1>1 DEF Surjection
<1>3. IsFiniteSet(1..Len(positions)) /\ Cardinality(1..Len(positions)) = Len(positions)
  BY <1>1, CountUpTo
<1>4. valueOf \in Injection(1..Len(positions), named)
  <2> HIDE DEF valueOf, named
  <2> QED
    BY <1>2, <1>3, FS_Surjection DEF named
<1> QED
  BY <1>1, <1>4 DEF Injection, IsInjective, Distinct

(* For every depth and request, the tree is what has been read of the leaves, it *)
(* is never full, and there are no more witnesses than positions.                *)
THEOREM TypeCorrect == Spec => []TypeOK
<1>1. IInv => TypeOK
  <2> SUFFICES ASSUME IInv PROVE TypeOK
    OBVIOUS
  <2>1. ~Full(tree)
    BY TreeTyped, RequestTyped DEF Full, IInv, Typed
  <2>2. ASSUME NEW k \in DOMAIN active PROVE active[k].out \in DOMAIN positions
    <3>1. active \in Seq(Witnessed)
      BY DEF IInv, Kept, Witnessed
    <3>2. active[k] \in Witnessed
      BY <3>1, ElementOfSeq, LenProperties
    <3> QED
      BY <3>2 DEF Witnessed
  <2> QED
    BY <2>1, <2>2, NoMoreWitnesses DEF TypeOK, IInv, Typed
<1> QED
  BY <1>1, Invariance, PTL

(* For every depth, nothing is refused after the checks but by a panic, and the  *)
(* checks refuse no request of distinct positions within the limits.             *)
THEOREM RefusalsAreTrue == Spec => []RefusesTruly
<1>1. IInv => RefusesTruly
  <2> SUFFICES ASSUME IInv,
                      error = "invalid_request",
                      {leaves[k] : k \in DOMAIN leaves} \subseteq Commitments,
                      {positions[k] : k \in DOMAIN positions} \subseteq 0..(Len(leaves) - 1),
                      Cardinality({positions[k] : k \in DOMAIN positions}) = Len(positions),
                      Len(positions) > 0, Len(positions) <= MaxPositions, Len(leaves) < Capacity
               PROVE  FALSE
    BY DEF RefusesTruly, IInv, Refused
  <2>1. Distinct
    BY CountedDistinct DEF IInv
  <2>2. \A k \in DOMAIN positions : positions[k] < Len(leaves) /\ positions[k] >= 0
    BY RequestTyped DEF IInv
  <2>3. leaves # <<>>
    BY <2>2, RequestTyped DEF IInv
  <2>4. Readable
    BY <2>3, RequestTyped, WitnessTypes DEF Readable, IInv
  <2> QED
    BY <2>1, <2>2, <2>4 DEF Valid, Counted, IInv, Refused
<1> QED
  BY <1>1, Invariance, PTL

(* For every depth, the paths attached are those of witnesses that have seen     *)
(* every leaf, in the order of the notes, and the root is that of all leaves.    *)
THEOREM PathsAreComplete == Spec => []PathsComplete
<1>1. IInv => PathsComplete
  BY DEF IInv
<1> QED
  BY <1>1, Invariance, PTL

(* The path given to each note leads from the commitment at its own position to  *)
(* the root of all the commitments, for a tree of any depth.                     *)
THEOREM PathsAreRight == Spec => []PathsLeadToRoot
<1>1. IInv => PathsLeadToRoot
  <2> SUFFICES ASSUME IInv, pc = "done"
               PROVE  /\ answer.root = Root(leaves)
                      /\ Len(attached) = Len(positions)
                      /\ \A k \in DOMAIN positions :
                           PathRoot(leaves[positions[k] + 1], positions[k], attached[k]) = answer.root
    BY DEF PathsLeadToRoot
  <2>1. /\ answer.root = Root(leaves)
        /\ attached = [k \in DOMAIN positions |-> AuthPath(WitnessOf(positions[k], leaves))]
    BY DEF IInv, PathsComplete
  <2>2. DOMAIN positions = 1..Len(positions) /\ Len(positions) \in Nat /\ Len(leaves) \in Nat
    BY RequestTyped DEF IInv
  <2>3. Len(attached) = Len(positions)
    <3>1. attached = [k \in 1..Len(positions) |-> AuthPath(WitnessOf(positions[k], leaves))]
      BY <2>1, <2>2
    <3> QED
      BY <2>2, <3>1
  <2>4. ASSUME NEW k \in DOMAIN positions
        PROVE  PathRoot(leaves[positions[k] + 1], positions[k], attached[k]) = answer.root
    <3>1. Valid
      BY DEF IInv, Control
    <3>2. positions[k] \in 0..(Len(leaves) - 1) /\ Len(leaves) <= Capacity
      BY <2>2, <3>1, RequestTyped DEF IInv, Valid, Counted
    <3>3. PathRoot(leaves[positions[k] + 1], positions[k], AuthPath(WitnessOf(positions[k], leaves)))
            = Root(leaves)
      BY <2>2, <3>2, PathLeadsToRoot
    <3> QED
      BY <2>1, <3>3
  <2> QED
    BY <2>1, <2>3, <2>4
<1> QED
  BY <1>1, Invariance, PTL
=============================================================================
