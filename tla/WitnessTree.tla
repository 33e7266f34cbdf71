---------------------------- MODULE WitnessTree ----------------------------
(***************************************************************************)
(* The witness builder of a node-backed plan: orchard_witness_inner in     *)
(* rust/txbuild, which appends the commitments one by one and keeps a      *)
(* witness of every leaf asked for, and what the Go side does with its     *)
(* answer.  The tree and witness types are a library's: a tree is the      *)
(* sequence of its leaves, a witness a leaf and the leaves it has seen.    *)
(***************************************************************************)
EXTENDS Integers, Sequences, FiniteSets

CONSTANTS
  Requests,      \* the requests considered: records of cmx and positions
  Commitments,   \* the strings that encode a commitment
  Empty,         \* the value of a leaf that has not been appended
  Depth,         \* 32
  MaxPositions,  \* 1000
  None

(* What an answer may be refused with: three codes of the builder, and a mismatch. *)
Codes == {"invalid_request", "internal", "panic", "mismatch"}

ASSUME WitnessTypes ==
  /\ Depth \in Nat /\ MaxPositions \in Nat
  /\ \A r \in Requests : r.cmx \in Seq(STRING) /\ r.positions \in Seq(Nat)
  /\ None \notin Codes

VARIABLES
  request,   \* the commitments, and the leaf positions of the plan's notes
  pc,        \* "check", "append", "paths", "attach", "done" or "failed"
  i,         \* the leaves appended
  tree,      \* the CommitmentTree
  active,    \* the witnesses kept, each with the index of its answer
  error,     \* the error code of the answer, or None
  answer,    \* root and paths of the answer, or None
  attached   \* the path each note of the plan has been given

vars == <<request, pc, i, tree, active, error, answer, attached>>

leaves == request.cmx
positions == request.positions

(* The leaves under a node of each height, and those that the tree holds. *)
Width[h \in 0..Depth] == IF h = 0 THEN 1 ELSE 2 * Width[h - 1]
Capacity == Width[Depth]

(* The library: the nodes of each level of a tree.  A node is the pair of its *)
(* children.                                                                  *)
Nodes(t) ==
  LET Row[l \in 0..Depth] ==
        IF l = 0 THEN [k \in 0..(Capacity - 1) |-> IF k < Len(t) THEN t[k + 1] ELSE Empty]
        ELSE LET below == Row[l - 1] IN
             [k \in 0..(Width[Depth - l] - 1) |-> <<below[2 * k], below[2 * k + 1]>>]
  IN  Row

Root(t) == Nodes(t)[Depth][0]

Full(t) == Len(t) = Capacity

FromTree(t) == [leaf |-> Len(t) - 1, seen |-> t]

(* A witness and one more leaf. *)
Seen(w, leaf) == [leaf |-> w.leaf, seen |-> Append(w.seen, leaf)]

Sibling(k) == IF k % 2 = 0 THEN k + 1 ELSE k - 1

(* The node above a leaf, at a level. *)
Above(leaf, l) == leaf \div Width[l]

AuthPath(w) ==
  LET nodes == Nodes(w.seen)
  IN  [l \in 1..Depth |-> nodes[l - 1][Sibling(Above(w.leaf, l - 1))]]

(* The root that a leaf and its authentication path lead to. *)
PathRoot(leaf, position, path) ==
  LET Upto[l \in 0..Depth] ==
        IF l = 0 THEN leaf
        ELSE IF Above(position, l - 1) % 2 = 0
             THEN <<Upto[l - 1], path[l]>>
             ELSE <<path[l], Upto[l - 1]>>
  IN  Upto[Depth]

-----------------------------------------------------------------------------
Init ==
  /\ request \in Requests
  /\ pc = "check"
  /\ i = 0 /\ tree = <<>> /\ active = <<>>
  /\ error = None /\ answer = None /\ attached = <<>>

(* An error of the builder, or a panic it catches, is an error of the plan. *)
Refuse(code) ==
  /\ pc' = "failed"
  /\ error' = code
  /\ UNCHANGED <<request, i, tree, active, answer, attached>>

Readable ==
  /\ leaves # <<>> /\ \A k \in DOMAIN leaves : leaves[k] \in Commitments
  /\ Len(positions) \in 1..MaxPositions

Counted == Len(leaves) < Capacity  \* the leaves are counted in a u32

Distinct == \A k, m \in DOMAIN positions : positions[k] = positions[m] => k = m

(* Faulty: the number of leaves is cast to a u32 unchecked. *)
ValidUncounted ==
  Readable /\ Distinct /\ \A k \in DOMAIN positions : positions[k] < Len(leaves)

(* Faulty: a position just past the leaves is let through. *)
ValidUpToCount ==
  Readable /\ Counted /\ Distinct /\ \A k \in DOMAIN positions : positions[k] <= Len(leaves)

Valid ==
  Readable /\ Counted /\ Distinct /\ \A k \in DOMAIN positions : positions[k] < Len(leaves)

Check ==
  /\ pc = "check"
  /\ IF Valid
     THEN pc' = "append" /\ UNCHANGED <<request, i, tree, active, error, answer, attached>>
     ELSE Refuse("invalid_request")

(* Faulty: the new leaf goes to the tree and not to the witnesses. *)
AppendToTreeOnly(leaf) == active

(* The witnesses kept, each given the new leaf. *)
AppendToAll(leaf) ==
  [k \in DOMAIN active |-> [out |-> active[k].out, witness |-> Seen(active[k].witness, leaf)]]

(* One turn of the loop over the leaves: tree, witnesses, then a new witness if *)
(* the leaf is asked for.                                                      *)
AppendLeaf ==
  /\ pc = "append" /\ i < Len(leaves)
  /\ IF Full(tree)
     THEN Refuse("internal")
     ELSE LET leaf == leaves[i + 1]
              wanted == {k \in DOMAIN positions : positions[k] = i} IN
          /\ tree' = Append(tree, leaf)
          /\ \/ /\ wanted = {}
                /\ active' = AppendToAll(leaf)
             \/ \E k \in wanted :
                  active' = Append(AppendToAll(leaf), [out |-> k, witness |-> FromTree(tree')])
          /\ i' = i + 1
          /\ pc' = IF i' = Len(leaves) THEN "paths" ELSE pc
          /\ UNCHANGED <<request, error, answer, attached>>

Panic == pc \in {"append", "paths"} /\ Refuse("panic")

(* paths[out_idx], each with the position asked for; none may be missing. *)
Paths ==
  /\ pc = "paths"
  /\ IF \A k \in DOMAIN positions : \E m \in DOMAIN active : active[m].out = k
     THEN /\ pc' = "attach"
          /\ answer' = [root  |-> Root(tree),
                        paths |-> [k \in DOMAIN positions |->
                                     [position |-> positions[k],
                                      auth |-> AuthPath((CHOOSE a \in {active[m] : m \in DOMAIN active} :
                                                           a.out = k).witness)]]]
          /\ UNCHANGED <<request, i, tree, active, error, attached>>
     ELSE Refuse("internal")

(* Plan takes the paths in order, if there are as many and of its positions. *)
Attach ==
  /\ pc = "attach"
  /\ IF /\ Len(answer.paths) = Len(positions)
        /\ \A k \in DOMAIN positions : answer.paths[k].position = positions[k]
     THEN /\ pc' = "done"
          /\ attached' = [k \in DOMAIN positions |-> answer.paths[k].auth]
          /\ UNCHANGED <<request, i, tree, active, error, answer>>
     ELSE Refuse("mismatch")

Terminated == pc \in {"done", "failed"} /\ UNCHANGED vars

Next == Check \/ AppendLeaf \/ Panic \/ Paths \/ Attach \/ Terminated

Spec == Init /\ [][Next]_vars

-----------------------------------------------------------------------------
(* The tree is what has been read of the leaves, and is never full: the count   *)
(* that bounds the positions bounds the leaves by one less than it can hold.    *)
(* There are at most as many witnesses as positions.                            *)
TypeOK ==
  /\ pc \in {"check", "append", "paths", "attach", "done", "failed"}
  /\ i \in 0..Len(leaves) /\ tree = SubSeq(leaves, 1, i) /\ ~Full(tree)
  /\ Len(active) <= Len(positions)
  /\ \A k \in DOMAIN active : active[k].out \in DOMAIN positions
  /\ error \in Codes \cup {None}
  /\ (error # None) <=> (pc = "failed")

(* Each note of the plan is given the path from its own commitment, at its own   *)
(* position, to the one root of all the commitments read, in whatever order the  *)
(* positions are asked for and however many leaves come after.                   *)
PathsLeadToRoot ==
  pc = "done" =>
    /\ answer.root = Root(leaves)
    /\ Len(attached) = Len(positions)
    /\ \A k \in DOMAIN positions :
         PathRoot(leaves[positions[k] + 1], positions[k], attached[k]) = answer.root

(* No request passes the checks and then fails for a full tree, a witness not    *)
(* made or an answer out of order; and one that names distinct positions of the  *)
(* leaves, within the limits, is never refused.                                  *)
RefusesTruly ==
  /\ error \notin {"internal", "mismatch"}
  /\ error = "invalid_request" =>
       ~ /\ {leaves[k] : k \in DOMAIN leaves} \subseteq Commitments
         /\ {positions[k] : k \in DOMAIN positions} \subseteq 0..(Len(leaves) - 1)
         /\ Cardinality({positions[k] : k \in DOMAIN positions}) = Len(positions)
         /\ Len(positions) > 0 /\ Len(positions) <= MaxPositions /\ Len(leaves) < Capacity
=============================================================================
