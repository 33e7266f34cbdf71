--------------------------- MODULE MCWitnessTree ---------------------------
EXTENDS WitnessTree

SeqsTo(S, bound) == UNION {[1..m -> S] : m \in 0..bound}

(* One more leaf than the tree holds.  Two values tell siblings apart; one      *)
(* string encodes no commitment.                                                *)
MCLeaves == SeqsTo({"a", "b"}, 2 ^ Depth + 1) \cup {<<"a", "x">>, <<"x">>}

(* Every order, a repeat, a position past the leaves, one position too many.    *)
MCPositions == SeqsTo(0..(2 ^ Depth - 1), MaxPositions) \cup {<<0, 1, 2>>, <<2 ^ Depth>>, <<9, 0>>}

MCRequests == [cmx : MCLeaves, positions : MCPositions]
=============================================================================
