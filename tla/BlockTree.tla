----------------------------- MODULE BlockTree -----------------------------
(***************************************************************************)
(* What junocashd and juno-scan can serve: the blocks of every fork and of *)
(* every network, fixed once and for all.  A block is its hash, and a hash *)
(* commits to the predecessors and to the content of the block, so the     *)
(* chain below a block, the actions in it and the note-commitment tree     *)
(* after it are functions of the block.  External to juno-txbuild: the     *)
(* shape is the one its RPC readers rely on.                               *)
(***************************************************************************)
EXTENDS Integers, Sequences, FiniteSets, Functions

CONSTANTS
  Blocks,      \* block hashes, of all forks and networks
  Notes,       \* Orchard actions, each named by its txid:action_index
  Wallet,      \* the actions whose note belongs to the planning wallet
  Networks,    \* "main", "test", "regtest"
  Height,      \* [Blocks -> Nat]
  Chain,       \* [Blocks -> SUBSET Blocks]: the block and its predecessors
  Acts,        \* [Blocks -> Seq(Notes)]: the actions of a block, in order
  Tree,        \* [Blocks -> Seq(Notes)]: the commitments up to a block
  Spends,      \* [Blocks -> SUBSET Notes]: wallet notes nullified in a block
  Network,     \* [Blocks -> Networks]
  NextBranch   \* [Blocks -> Nat]: consensus branch of the block after it

(* The block of b's chain at height h: getblockhash on a node whose tip is b. *)
At(b, h) == CHOOSE c \in Chain[b] : Height[c] = h

ASSUME BlockTreeTypes ==
  /\ Wallet \subseteq Notes
  /\ Height \in [Blocks -> Nat]
  /\ Chain \in [Blocks -> SUBSET Blocks]
  /\ Acts \in [Blocks -> Seq(Notes)]
  /\ Tree \in [Blocks -> Seq(Notes)]
  /\ Spends \in [Blocks -> SUBSET Notes]
  /\ Network \in [Blocks -> Networks]
  /\ NextBranch \in [Blocks -> Nat]

(* A hash commits to its predecessors: a chain has one block per height, and *)
(* cutting it at one of its blocks gives that block's chain.                 *)
ASSUME ChainShape ==
  \A b \in Blocks :
    /\ b \in Chain[b]
    /\ \A h \in 0..Height[b] : \E c \in Chain[b] : Height[c] = h
    /\ \A c \in Chain[b] :
         /\ Height[c] <= Height[b]
         /\ Network[c] = Network[b]
         /\ Chain[c] = {d \in Chain[b] : Height[d] <= Height[c]}
         /\ \A d \in Chain[b] : Height[c] = Height[d] => c = d

(* The commitment tree grows by the actions of each block, so the tree of a  *)
(* predecessor is a prefix and every leaf was mined by a block of the chain;  *)
(* no action is mined twice on one chain.                                     *)
ASSUME TreeGrows ==
  \A b \in Blocks :
    /\ Tree[b] = (IF Height[b] = 0 THEN <<>> ELSE Tree[At(b, Height[b] - 1)])
                 \o Acts[b]
    /\ \A c \in Chain[b] :
         /\ Len(Tree[c]) <= Len(Tree[b])
         /\ \A i \in DOMAIN Tree[c] : Tree[b][i] = Tree[c][i]
    /\ \A m \in Range(Tree[b]) : \E c \in Chain[b] : m \in Range(Acts[c])
    /\ \A i, j \in DOMAIN Tree[b] : Tree[b][i] = Tree[b][j] => i = j

(* A network has one genesis block, and its upgrades activate by height. *)
ASSUME NetworkRules ==
  \A b, c \in Blocks :
    Network[b] = Network[c] =>
      /\ At(b, 0) = At(c, 0)
      /\ Height[b] = Height[c] => NextBranch[b] = NextBranch[c]

(* The wallet notes nullified on b's chain. *)
SpentOn(b) == UNION {Spends[c] : c \in Chain[b]}

(* The block of b's chain that mined the action n. *)
MinedIn(b, n) == CHOOSE c \in Chain[b] : n \in Range(Acts[c])

(* The leaf position of n in the tree t, counted from 0. *)
PositionIn(t, n) == (CHOOSE i \in DOMAIN t : t[i] = n) - 1

(* The notes a wallet holds at tip b: mined, and not nullified, on its chain. *)
UnspentAt(b) == {n \in Wallet : n \in Range(Tree[b])} \ SpentOn(b)

(* Confirmations of the note n at tip b. *)
Confirmations(b, n) == Height[b] - Height[MinedIn(b, n)] + 1
=============================================================================
