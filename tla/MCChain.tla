------------------------------ MODULE MCChain ------------------------------
(***************************************************************************)
(* A small instance of BlockTree for the model checker.                    *)
(*                                                                         *)
(*     m0 --- a1 --- a2 --- a3 --- a4     main                             *)
(*              \--- b2 --- b3            main, a fork from a1             *)
(*     t0 --- t1                          test                             *)
(*                                                                         *)
(* a1 mines two wallet notes.  The transaction of n2 is mined in a2 and in *)
(* b2, at another leaf of the tree.  a3 nullifies n1, b3 nullifies n2.  On *)
(* main the consensus branch changes for the block after height 2, so that *)
(* of a plan of a2 the node at a4 differs in the time to its expiry alone. *)
(***************************************************************************)
EXTENDS Integers, Sequences

MCBlocks == {"m0", "a1", "a2", "a3", "a4", "b2", "b3", "t0", "t1"}
MCNotes == {"n1", "n2", "n3", "e", "x"}
MCWallet == {"n1", "n2", "n3", "e"}
MCNetworks == {"main", "test"}

MCParent == [m0 |-> "m0", a1 |-> "m0", a2 |-> "a1", a3 |-> "a2", a4 |-> "a3",
             b2 |-> "a1", b3 |-> "b2", t0 |-> "t0", t1 |-> "t0"]
MCActs == [m0 |-> <<>>, a1 |-> <<"n1", "e">>, a2 |-> <<"n2">>, a3 |-> <<>>, a4 |-> <<>>,
           b2 |-> <<"x", "n2">>, b3 |-> <<>>, t0 |-> <<>>, t1 |-> <<"n3">>]
MCSpends == [b \in MCBlocks |-> CASE b = "a3" -> {"n1"} [] b = "b3" -> {"n2"} [] OTHER -> {}]
MCNetwork == [b \in MCBlocks |-> IF b \in {"t0", "t1"} THEN "test" ELSE "main"]

MCHeight[b \in MCBlocks] == IF MCParent[b] = b THEN 0 ELSE 1 + MCHeight[MCParent[b]]
MCChainOf[b \in MCBlocks] == {b} \cup (IF MCParent[b] = b THEN {} ELSE MCChainOf[MCParent[b]])
MCTree[b \in MCBlocks] ==
  (IF MCParent[b] = b THEN <<>> ELSE MCTree[MCParent[b]]) \o MCActs[b]
MCNextBranch == [b \in MCBlocks |-> IF b \in {"a2", "a3", "a4", "b2", "b3"} THEN 2 ELSE 1]
=============================================================================
