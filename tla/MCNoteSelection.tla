-------------------------- MODULE MCNoteSelection --------------------------
EXTENDS NoteSelection

CONSTANTS MaxNotes, MaxValue

MCWallets ==
  {v \in UNION {[1..m -> 1..MaxValue] : m \in 0..MaxNotes} : Ascending(v)}
MCPolicies == {[Multiplier |-> 0, AddZat |-> 0], [Multiplier |-> 2, AddZat |-> 1]}
=============================================================================
