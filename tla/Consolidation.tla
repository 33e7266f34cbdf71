--------------------------- MODULE Consolidation ---------------------------
(***************************************************************************)
(* How a consolidation picks its notes: selectNotesForConsolidation tries, *)
(* from the largest number k of notes down to two, the t smallest notes    *)
(* and the k - t largest, t from k down to none, until they pay the fee of *)
(* k spends; PlanConsolidate sends what is left to one output.             *)
(***************************************************************************)
EXTENDS Wallet

VARIABLES
  maxSpends,       \* the limit of the request
  count, smallest  \* the loop indices k and t: notes to merge, and smallest ones of them

mergeVars == <<vals, policy, maxSpends, count, smallest, selected, fee, amount, outcome>>

MergeFee(c) == Apply(policy, RequiredFeeSend(c, 1))

MostButOne == IF maxSpends < n THEN maxSpends ELSE n - 1  \* faulty: one short
Most == IF maxSpends > n THEN n ELSE maxSpends

MergeInit ==
  /\ vals \in Wallets
  /\ policy \in Policies
  /\ maxSpends \in 2..SpendLimit
  /\ count = Most /\ smallest = Most
  /\ selected = {} /\ fee = 0 /\ amount = 0
  /\ outcome = CASE n < 2 -> "invalid_request"
                 [] n >= 2 /\ ~Fits(Sum(1..n)) -> "error"  \* prefix, suffix
                 [] OTHER -> "none"

MergeEnds(result) == outcome' = result /\ UNCHANGED <<count, smallest, selected, fee, amount>>

(* Faulty: the largest notes only, or one note too many. *)
MixOfLargest(c, small) == (n - c + 1)..n
MixOneOver(c, small) == 1..small \cup (n - (c - small))..n

(* Of c notes, some of the smallest and else the largest. *)
Mix(c, small) == 1..small \cup (n - (c - small) + 1)..n

(* One turn of the inner loop, or the step to the next count. *)
Try ==
  /\ outcome = "none"
  /\ \/ count < 2 /\ MergeEnds("insufficient_balance")
     \/ count >= 2 /\ ~Fits(MergeFee(count)) /\ MergeEnds("error")
     \/ /\ count >= 2 /\ Fits(MergeFee(count))
        /\ LET notes == Mix(count, smallest) IN
           IF Sum(notes) > MergeFee(count)
           THEN /\ selected' = notes
                /\ fee' = MergeFee(count)
                /\ amount' = Sum(notes) - MergeFee(count)
                /\ outcome' = "ok"
                /\ UNCHANGED <<count, smallest>>
           ELSE /\ IF smallest > 0
                   THEN count' = count /\ smallest' = smallest - 1
                   ELSE count' = count - 1 /\ smallest' = count - 1
                /\ UNCHANGED <<selected, fee, amount, outcome>>

MergeNext ==
  \/ Try /\ UNCHANGED <<vals, policy, maxSpends>>
  \/ outcome # "none" /\ UNCHANGED mergeVars

MergeSpec == MergeInit /\ [][MergeNext]_mergeVars

-----------------------------------------------------------------------------
MergeTypeOK ==
  /\ count \in 0..n /\ smallest \in 0..n /\ smallest <= count
  /\ selected \subseteq 1..n
  /\ fee \in 0..MaxU64 /\ amount \in 0..MaxU64
  /\ outcome \in {"none", "ok", "insufficient_balance", "invalid_request", "error"}

(* A set of notes that a consolidation could spend. *)
Payable(S) ==
  Cardinality(S) \in 2..maxSpends /\ Sum(S) > MergeFee(Cardinality(S))

(* The plan merges as many notes as any payable set has, and it is refused for  *)
(* lack of funds only when no set is payable.                                   *)
MostNotes ==
  /\ outcome = "ok" =>
       Payable(selected) /\ \A S \in SUBSET (1..n) :
                              Payable(S) => Cardinality(S) <= Cardinality(selected)
  /\ outcome = "insufficient_balance" => \A S \in SUBSET (1..n) : ~Payable(S)

(* Among the payable sets of that size none contains more of the smallest notes: *)
(* a consolidation removes as much dust as the fee allows.                       *)
SmallestFirst ==
  outcome = "ok" =>
    \A S \in SUBSET (1..n) :
      Payable(S) /\ Cardinality(S) = Cardinality(selected) =>
        \A m \in 1..n : 1..m \subseteq S => 1..m \subseteq selected

(* What is spent is sent, less the fee of the spends; nothing is lost in change. *)
MergeConserves ==
  outcome = "ok" =>
    /\ Sum(selected) = amount + fee
    /\ amount > 0
    /\ fee = MergeFee(Cardinality(selected))

-----------------------------------------------------------------------------
(* The inductive invariant behind them.  Behind: every mix of more notes, or of   *)
(* as many with more of the smallest, has been tried and does not pay.  Planned:  *)
(* the plan is the mix of this turn, which pays.                                  *)
MergeRequested == vals \in Wallets /\ policy \in Policies /\ maxSpends \in 2..SpendLimit

Behind ==
  outcome \in {"none", "ok", "insufficient_balance"} =>
    /\ n >= 2 /\ Sum(1..n) <= MaxU64
    /\ \A c \in 2..Most : \A small \in 0..c :
         c > count \/ (c = count /\ small > smallest) => Sum(Mix(c, small)) <= MergeFee(c)

Planned ==
  /\ outcome = "ok" =>
       /\ count >= 2 /\ selected = Mix(count, smallest) /\ fee = MergeFee(count)
       /\ Sum(selected) = amount + fee /\ amount > 0
  /\ outcome = "insufficient_balance" => count < 2

MergeInv == MergeTypeOK /\ MergeRequested /\ count <= Most /\ Behind /\ Planned
=============================================================================
