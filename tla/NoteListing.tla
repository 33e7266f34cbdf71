---------------------------- MODULE NoteListing ----------------------------
(***************************************************************************)
(* The candidate notes of a plan, from services whose answers are taken as *)
(* they come: any page and any next cursor of juno-scan, any entries of    *)
(* z_listunspent.  A scanner-backed plan lists its notes page by page      *)
(* (listSpendableNotesFromScan), and once more after it has chosen         *)
(* (verifySelectedNotesStillSpendable); a node-backed plan lists them by   *)
(* one call (listUnspentOrchardNotes).                                     *)
(***************************************************************************)
EXTENDS Amounts, FiniteSets

CONSTANTS
  ScanNotes,    \* notes juno-scan may report, as records
  Cursors,      \* the cursors it may return
  EndCursor,    \* the empty cursor
  PageMax,      \* notes in a page
  NodeNotes,    \* entries z_listunspent may return, as records
  Normal,       \* the normal form of a txid: trimmed, in lower case
  Canonical,    \* the normal txids that are 64 hexadecimal digits
  NoTxId,       \* the empty one
  TipHeight,    \* the captured height
  MinConf, MinNotes, Account, Excluded, SpendLimit,  \* the request; one of MinNotes
  MaxU32, MaxI64

ASSUME ListingTypes ==
  /\ PageMax \in Nat /\ SpendLimit \in Nat \ {0} /\ MaxU32 \in Nat /\ MaxI64 \in 0..MaxU64
  /\ MinNotes \subseteq 0..MaxU64
  /\ EndCursor \notin Cursors
  /\ None \notin Int
  /\ \A n \in ScanNotes : n.value \in Int /\ n.value <= MaxI64 /\ n.position \in Int \cup {None}
  /\ \A e \in NodeNotes : /\ e.amount.whole \in Nat \cup {None}
                          /\ e.amount.digits \in Seq(0..(Base - 1))

VARIABLES
  source,    \* "scan" or "node"
  minNote,   \* MinNoteZat
  pc,        \* what comes next
  out,       \* the candidates listed so far
  cursor,    \* opts.Cursor, the cursor the next page is asked for with
  seen,      \* seenCursor of the listing under way
  plan,      \* the candidates chosen, by their index
  reported   \* history: what the recheck has reported of the plan's notes, or the node of all

vars == <<source, minNote, pc, out, cursor, seen, plan, reported>>

NoteId(n) == <<Normal[n.txid], n.index>>

(* Faulty: a negative leaf position is kept. *)
SpendableUnplaced(n) ==
  /\ n.direction = "incoming" /\ ~n.pending /\ n.position # None
  /\ n.height \in 0..TipHeight /\ TipHeight - n.height + 1 >= MinConf
  /\ n.index >= 0
  /\ n.value > 0 /\ n.value >= minNote

(* The filters of a scanner's note that pass it over. *)
Spendable(n) ==
  /\ n.direction = "incoming"
  /\ ~n.pending
  /\ n.position # None /\ n.position >= 0
  /\ n.height \in 0..TipHeight
  /\ TipHeight - n.height + 1 >= MinConf
  /\ n.index >= 0
  /\ n.value > 0 /\ n.value >= minNote

(* The notes of an answer that are in S, in its order. *)
Among(answer, S) ==
  LET Upto[k \in 0..Len(answer)] ==
        IF k = 0 THEN <<>>
        ELSE IF answer[k] \in S THEN Append(Upto[k - 1], answer[k]) ELSE Upto[k - 1]
  IN  Upto[Len(answer)]

Candidate(n) == [id |-> NoteId(n), value |-> n.value, position |-> n.position]

(* What ends the listing with an error: a direction that is not one, a position  *)
(* beyond the word, a note listed before.  `kept` is what the filters leave.     *)
Rejects(page, kept) ==
  \/ \E k \in DOMAIN page : page[k].direction \notin {"incoming", "outgoing"}
  \/ \E k \in DOMAIN kept :
       \/ kept[k].position > MaxU32
       \/ \E m \in DOMAIN out : out[m].id = NoteId(kept[k])
       \/ \E m \in 1..(k - 1) : NoteId(kept[m]) = NoteId(kept[k])

NeverRepeats(next) == FALSE  \* faulty: no guard
Repeats(next) == next \in seen

Init ==
  /\ source \in {"scan", "node"}
  /\ minNote \in MinNotes
  /\ pc = "list"
  /\ out = <<>> /\ cursor = EndCursor /\ seen = {} /\ plan = <<>> /\ reported = {}

Fail ==
  /\ pc' = "failed"
  /\ out' = <<>> /\ cursor' = EndCursor /\ seen' = {} /\ plan' = <<>> /\ reported' = {}
  /\ UNCHANGED <<source, minNote>>

Told(answer) == {answer[k] : k \in DOMAIN answer}
SeqsUpTo(S, bound) == UNION {[1..m -> S] : m \in 0..bound}

(* No note of the scanner is worth more than MaxI64: the listing makes no call. *)
ListNone ==
  /\ pc = "list" /\ source = "scan" /\ minNote > MaxI64
  /\ pc' = "choose"
  /\ UNCHANGED <<source, minNote, out, cursor, seen, plan, reported>>

(* One turn of the loop of listSpendableNotesFromScan. *)
ScanPage(stage, after) ==
  /\ pc = stage /\ source = "scan" /\ minNote <= MaxI64
  /\ \E page \in SeqsUpTo(ScanNotes, PageMax), next \in Cursors \cup {EndCursor} :
       LET kept == Among(page, {n \in Told(page) : Spendable(n)}) IN
       IF Rejects(page, kept) \/ (next # EndCursor /\ Repeats(next))
       THEN Fail
       ELSE /\ out' = out \o [k \in DOMAIN kept |-> Candidate(kept[k])]
            /\ reported' = {n \in reported \cup Told(page) :
                               \E k \in DOMAIN plan : plan[k].id = NoteId(n)}
            /\ cursor' = next
            /\ IF next = EndCursor
               THEN pc' = after /\ seen' = {}
               ELSE pc' = pc /\ seen' = seen \cup {next}
            /\ UNCHANGED <<source, minNote, plan>>

(* The filters of an entry of z_listunspent, before its amount is read. *)
OfAccount(e) ==
  /\ e.pool = "orchard"
  /\ e.account \in {None, Account}
  /\ Normal[e.txid] # NoTxId

AccountNotes == {e \in NodeNotes : OfAccount(e)}

UnspentNote(e) == [id |-> NoteId(e), value |-> ParseZECToZat(e.amount)]

(* listUnspentOrchardNotes: one amount that cannot be read ends the listing. *)
ListUnspent ==
  /\ pc = "list" /\ source = "node"
  /\ \E answer \in SeqsUpTo(NodeNotes, PageMax) :
       LET kept == Among(answer, AccountNotes) IN
       IF \E k \in DOMAIN kept : Refuses(kept[k].amount)
       THEN Fail
       ELSE /\ pc' = "choose"
            /\ out' = [k \in DOMAIN kept |-> UnspentNote(kept[k])]
            /\ reported' = Told(answer)
            /\ UNCHANGED <<source, minNote, cursor, seen, plan>>

(* FilterNotesMinValue and filterExcludedUnspentNotes. *)
Choosable == {k \in DOMAIN out : out[k].value >= minNote /\ out[k].id \notin Excluded}

AnyIds(choice) == TRUE  \* faulty: unchecked

(* validatePlanNoteIDs: every id canonical and named once. *)
ValidIds(choice) ==
  \A k \in choice : out[k].id[1] \in Canonical /\ \A m \in choice \ {k} : out[m].id # out[k].id

(* Any choice the selection may make, then the checks of signerCompatiblePlan. *)
Choose ==
  /\ pc = "choose"
  /\ \/ Fail
     \/ \E choice \in SUBSET Choosable :
          /\ choice # {} /\ Cardinality(choice) <= SpendLimit
          /\ ValidIds(choice)
          /\ plan' = [k \in choice |-> out[k]]
          /\ pc' = IF source = "scan" THEN "recheck" ELSE "done"
          /\ out' = <<>>
          /\ UNCHANGED <<source, minNote, cursor, seen, reported>>

(* Faulty: the recheck asks for the note and not for its value. *)
StillListed(c) == \E k \in DOMAIN out : out[k].id = c.id
StillSpendable(c) == \E k \in DOMAIN out : out[k].id = c.id /\ out[k].value = c.value

(* verifySelectedNotesStillSpendable, once listed again. *)
Compare ==
  /\ pc = "compare"
  /\ IF \A k \in DOMAIN plan : StillSpendable(plan[k])
     THEN pc' = "done" /\ out' = <<>> /\ UNCHANGED <<source, minNote, cursor, seen, plan, reported>>
     ELSE Fail

Terminated == pc \in {"done", "failed"} /\ UNCHANGED vars

Step ==
  \/ ListNone
  \/ ScanPage("list", "choose")
  \/ ListUnspent
  \/ Choose
  \/ ScanPage("recheck", "compare")
  \/ Compare

Next == Step \/ Terminated

Spec == Init /\ [][Next]_vars

(* Every call returns.  The services may answer anything. *)
FairSpec == Spec /\ WF_vars(Step)

-----------------------------------------------------------------------------
(* A candidate of the scanner has a value and a leaf position that fit the words *)
(* the plan gives them; a candidate of the node has a value that fits.           *)
TypeOK ==
  /\ source \in {"scan", "node"}
  /\ pc \in {"list", "choose", "recheck", "compare", "done", "failed"}
  /\ minNote \in MinNotes
  /\ seen \subseteq Cursors /\ cursor \in seen \cup {EndCursor}
  /\ reported \subseteq ScanNotes \cup NodeNotes
  /\ \A c \in {out[k] : k \in DOMAIN out} \cup {plan[k] : k \in DOMAIN plan} :
       /\ c.value \in 0..MaxU64
       /\ source = "scan" => c.position \in 0..MaxU32 /\ c.value > 0

(* A plan names a note once, whatever the services repeat and however they spell *)
(* its transaction, on one page or on two.                                       *)
NoteOnce ==
  pc = "done" => \A k, m \in DOMAIN plan : plan[k].id = plan[m].id => k = m

(* The recheck of a scanner-backed plan: each note was reported again by the     *)
(* second listing, incoming, with no pending spend, of the value the fee was     *)
(* computed from.                                                                *)
RecheckedNotes ==
  pc = "done" /\ source = "scan" =>
    \A k \in DOMAIN plan : \E n \in reported :
      /\ NoteId(n) = plan[k].id /\ n.value = plan[k].value
      /\ n.direction = "incoming" /\ ~n.pending

(* The value of a note of a node-backed plan is exactly the amount the node       *)
(* wrote, if a word can hold it.                                                 *)
AmountsExact ==
  pc = "done" /\ source = "node" =>
    \A k \in DOMAIN plan : \E e \in reported :
      /\ e \in NodeNotes /\ NoteId(e) = plan[k].id
      /\ Exact(e.amount) \in {plan[k].value} \cup {x \in Nat : x > MaxU64}

(* The listing ends whatever cursors the scanner returns: it has only so many,    *)
(* and none is followed twice.                                                   *)
Terminates == <>(pc \in {"done", "failed"})

-----------------------------------------------------------------------------
(* The inductive invariant behind them.  Listed: what is kept of a note fits.     *)
(* Rechecking: what the second listing has kept of the plan's notes, the scanner  *)
(* has reported.  Amounted: what is kept of the node's entries is exact.          *)
ScanCandidates ==
  {c \in {Candidate(n) : n \in ScanNotes} : c.value \in 1..MaxI64 /\ c.position \in 0..MaxU32}
NodeCandidates == [id : {NoteId(e) : e \in NodeNotes}, value : 0..MaxU64]
Candidates == IF source = "scan" THEN ScanCandidates ELSE NodeCandidates

Stages ==
  /\ source \in {"scan", "node"}
  /\ pc \in {"list", "choose", "recheck", "compare", "done", "failed"}
  /\ pc \in {"recheck", "compare"} => source = "scan"
  /\ minNote \in MinNotes
  /\ seen \subseteq Cursors /\ cursor \in seen \cup {EndCursor}
  /\ reported \subseteq ScanNotes \cup NodeNotes

Listed ==
  /\ out \in Seq(Candidates)
  /\ \A k \in DOMAIN plan : plan[k] \in Candidates
  /\ pc \in {"list", "choose"} => plan = <<>>
  /\ \A k, m \in DOMAIN plan : plan[k].id = plan[m].id => k = m

(* The scanner has reported the note of a candidate, spendable and of its value. *)
Confirmed(c) ==
  \E n \in reported : /\ NoteId(n) = c.id /\ n.value = c.value
                      /\ n.direction = "incoming" /\ ~n.pending

Rechecking ==
  source = "scan" =>
    /\ pc \in {"recheck", "compare"} =>
         \A k \in DOMAIN out, m \in DOMAIN plan : out[k].id = plan[m].id => Confirmed(out[k])
    /\ pc = "done" => \A k \in DOMAIN plan : Confirmed(plan[k])

(* The node has written exactly the value of a candidate, if a word can hold it. *)
Written(c) ==
  \E e \in reported : /\ e \in NodeNotes /\ NoteId(e) = c.id
                      /\ Exact(e.amount) \in {c.value} \cup {x \in Nat : x > MaxU64}

Amounted ==
  source = "node" => /\ \A k \in DOMAIN out : Written(out[k])
                     /\ \A k \in DOMAIN plan : Written(plan[k])

IInv == Stages /\ Listed /\ Rechecking /\ Amounted
=============================================================================
