--------------------------- MODULE MCNoteListing ---------------------------
EXTENDS NoteListing

(* Two transactions, one also spelt in capitals, one whose id is not   *)
(* canonical, and none.                                                          *)
MCNormal == [t |-> "t", T |-> "t", u |-> "u", x |-> "x", e |-> "e"]

Good == [txid |-> "t", index |-> 0, direction |-> "incoming", pending |-> FALSE,
         position |-> 0, height |-> 1, value |-> 2]

(* A good note, the same with another spelling or another value, with a pending  *)
(* spend, a second note, and notes that each filter or check stops.              *)
MCScanNotes ==
  {Good,
   [Good EXCEPT !.txid = "T"],
   [Good EXCEPT !.value = 3],
   [Good EXCEPT !.pending = TRUE],
   [Good EXCEPT !.txid = "u", !.position = 7],
   [Good EXCEPT !.position = 8],
   [Good EXCEPT !.position = None],
   [Good EXCEPT !.txid = "u", !.position = -1],
   [Good EXCEPT !.txid = "u", !.height = 2],
   [Good EXCEPT !.direction = ""]}

Amount(whole, digits) == [negative |-> FALSE, whole |-> whole, digits |-> digits]

MCAmounts ==
  {Amount(w, d) : w \in {0, 3, 4}, d \in {<<1>>, <<0, 1>>, <<1, 1>>, <<1, 0, 1>>}}
  \cup {[Amount(1, <<>>) EXCEPT !.negative = TRUE], Amount(None, <<>>)}

MCNodeNotes ==
  {[txid |-> t, index |-> 0, pool |-> "orchard", account |-> None, amount |-> a] :
     t \in {"t", "T"}, a \in MCAmounts}
  \cup {[txid |-> t, index |-> 0, pool |-> p, account |-> c, amount |-> Amount(1, <<>>)] :
          t \in {"u", "x", "e"}, p \in {"orchard", "sapling"}, c \in {0, 1}}
=============================================================================
