--------------------------- MODULE NoteSelection ---------------------------
(***************************************************************************)
(* How a withdrawal picks its notes and its fee: SelectNotesWithFeePolicy, *)
(* one stage per strategy and one step per turn of a loop, then the totals *)
(* of Plan and the limits of the signer.  Amounts are unsigned words of at *)
(* most MaxU64; an operation that would exceed it ends in outcome "error", *)
(* as the checked additions of the code do.                                *)
(***************************************************************************)
EXTENDS Wallet

CONSTANTS
  Amounts,       \* the totals requested
  OutputCounts,  \* the numbers of outputs requested
  MinChanges,    \* the values of MinChangeZat
  OutputLimit    \* MaxOrchardOutputs

ASSUME SelectionTypes ==
  /\ Amounts \subseteq 1..MaxU64
  /\ OutputCounts \subseteq 1..OutputLimit
  /\ MinChanges \subseteq Nat
  /\ OutputLimit \in Nat \ {0}

VARIABLES
  outputs, minChange,  \* the rest of the request
  stage,     \* the strategy being tried, "settle" or "end"
  i, j,      \* the indices of the loop of the stage
  best,      \* the pair found so far by the two-note best fit
  total,     \* the sum of the notes chosen, or of those taken so far
  change     \* the change left for the change output

request == <<vals, amount, outputs, policy, minChange>>
vars == <<request, stage, i, j, best, selected, total, fee, change, outcome>>

NoPair == <<0, 0>>

Fee(spends, outs) == Apply(policy, RequiredFeeSend(spends, outs))

(* neededTotal, and whether one of its checked operations overflows. *)
Needed(spends, outs) == amount + Fee(spends, outs)
NeededFits(spends, outs) == Fits(Needed(spends, outs))

Init ==
  /\ vals \in Wallets
  /\ amount \in Amounts
  /\ outputs \in OutputCounts
  /\ policy \in Policies
  /\ minChange \in MinChanges
  /\ stage = IF vals = <<>> THEN "end" ELSE "one_exact"
  /\ outcome = IF vals = <<>> THEN "insufficient_balance" ELSE "none"
  /\ i = 0 /\ j = 0 /\ best = NoPair
  /\ selected = {} /\ total = 0 /\ fee = 0 /\ change = 0

(* Faulty: the fee is the one without a change output. *)
PickCheaply(S, sum, spends, outs) ==
  /\ stage' = "settle"
  /\ selected' = S
  /\ total' = sum
  /\ fee' = Fee(spends, outputs)
  /\ UNCHANGED <<i, j, best, change, outcome>>

Pick(S, sum, spends, outs) ==
  /\ stage' = "settle"
  /\ selected' = S
  /\ total' = sum
  /\ fee' = Fee(spends, outs)
  /\ UNCHANGED <<i, j, best, change, outcome>>

End(result) ==
  /\ stage' = "end"
  /\ outcome' = result
  /\ UNCHANGED <<i, j, best, selected, total, fee, change>>

Enter(next, i0, j0) ==
  /\ stage' = next
  /\ i' = i0 /\ j' = j0
  /\ UNCHANGED <<best, selected, total, fee, change, outcome>>

(* One note that pays the outputs and the fee of a plan without change. *)
OneExact ==
  /\ stage = "one_exact"
  /\ LET exact == {k \in 1..n : vals[k] = Needed(1, outputs)} IN
     \/ ~NeededFits(1, outputs) /\ End("error")
     \/ /\ NeededFits(1, outputs)
        /\ IF exact # {}
           THEN \E k \in exact : (\A l \in exact : k <= l) /\ Pick({k}, vals[k], 1, outputs)
           ELSE Enter("one_fit", 0, 0)

(* The sum of some notes also pays for a change output.  Faulty: off by one. *)
CoversStrictly(sum, spends) == sum > Needed(spends, outputs + 1)
Covers(sum, spends) == sum >= Needed(spends, outputs + 1)

(* The smallest note that also pays for a change output. *)
OneFit ==
  /\ stage = "one_fit"
  /\ LET enough == {k \in 1..n : Covers(vals[k], 1)} IN
     \/ ~NeededFits(1, outputs + 1) /\ End("error")
     \/ /\ NeededFits(1, outputs + 1)
        /\ IF enough # {}
           THEN \E k \in enough : (\A l \in enough : k <= l) /\ Pick({k}, vals[k], 1, outputs + 1)
           ELSE Enter("two_exact", 1, n)

(* One turn of the search from both ends for two notes that pay exactly. *)
TwoExact ==
  /\ stage = "two_exact"
  /\ \/ ~NeededFits(2, outputs) /\ End("error")
     \/ NeededFits(2, outputs) /\ i >= j /\ Enter("two_fit", 1, 0)
     \/ /\ NeededFits(2, outputs) /\ i < j
        /\ LET sum == vals[i] + vals[j] IN
           \/ ~Fits(sum) /\ End("error")
           \/ Fits(sum) /\ sum = Needed(2, outputs) /\ Pick({i, j}, sum, 2, outputs)
           \/ Fits(sum) /\ sum < Needed(2, outputs) /\ Enter(stage, i + 1, j)
           \/ Fits(sum) /\ sum > Needed(2, outputs) /\ Enter(stage, i, j - 1)

(* One turn of the search for the smallest sufficient pair: the first note above *)
(* i that completes it, kept when its sum is below the best one.                 *)
Completes(k) == k > i /\ vals[k] >= Needed(2, outputs + 1) - vals[i]
BetterIfFirst(k) == best = NoPair  \* faulty: the first pair found is kept
Better(k) == best = NoPair \/ vals[i] + vals[k] < vals[best[1]] + vals[best[2]]

TwoFit ==
  /\ stage = "two_fit"
  /\ LET more == i < n /\ vals[i] < Needed(2, outputs + 1)
         completing == {k \in 1..n : Completes(k)} IN
     \/ ~NeededFits(2, outputs + 1) /\ End("error")
     \/ /\ NeededFits(2, outputs + 1) /\ ~more
        /\ IF best = NoPair
           THEN Enter("greedy", 0, 0)
           ELSE Pick({best[1], best[2]}, vals[best[1]] + vals[best[2]], 2, outputs + 1)
     \/ /\ NeededFits(2, outputs + 1) /\ more
        /\ completing = {}
        /\ Enter(stage, i + 1, j)
     \/ /\ NeededFits(2, outputs + 1) /\ more
        /\ \E k \in completing :
             /\ \A l \in completing : k <= l
             /\ IF Fits(vals[i] + vals[k])
                THEN /\ best' = IF Better(k) THEN <<i, k>> ELSE best
                     /\ i' = i + 1
                     /\ UNCHANGED <<stage, j, selected, total, fee, change, outcome>>
                ELSE End("error")

(* One turn of the greedy fallback: the largest note left; enough without change, *)
(* enough with it, or one more.                                                   *)
Greedy ==
  /\ stage = "greedy"
  /\ \/ i = n /\ End("insufficient_balance")
     \/ /\ i < n
        /\ LET k == i + 1
               sum == total + vals[n - i]
               taken == selected \cup {n - i} IN
           \/ ~(Fits(sum) /\ NeededFits(k, outputs)) /\ End("error")
           \/ /\ Fits(sum) /\ NeededFits(k, outputs)
              /\ sum = Needed(k, outputs)
              /\ Pick(taken, sum, k, outputs)
           \/ /\ Fits(sum) /\ NeededFits(k, outputs)
              /\ sum # Needed(k, outputs)
              /\ ~NeededFits(k, outputs + 1)
              /\ End("error")
           \/ /\ Fits(sum) /\ sum # Needed(k, outputs)
              /\ NeededFits(k, outputs + 1)
              /\ IF Covers(sum, k)
                 THEN Pick(taken, sum, k, outputs + 1)
                 ELSE /\ i' = k
                      /\ selected' = taken
                      /\ total' = sum
                      /\ UNCHANGED <<stage, j, best, fee, change, outcome>>

(* selectNotesForPlan's limit, SuppressDustChange, orchardChangeRequired and the *)
(* output limit of signerCompatiblePlan.                                         *)
Dust(c) == 0 < c /\ c < minChange

(* Faulty: dust is suppressed without being added to the fee. *)
SettleLosingDust ==
  /\ stage = "settle"
  /\ stage' = "end"
  /\ LET rest == total - amount - fee IN
     IF Cardinality(selected) > SpendLimit
     THEN outcome' = "too_many_inputs" /\ UNCHANGED <<fee, change>>
     ELSE /\ fee' = fee
          /\ change' = IF Dust(rest) THEN 0 ELSE rest
          /\ outcome' = IF outputs + (IF change' > 0 THEN 1 ELSE 0) > OutputLimit
                        THEN "invalid_request" ELSE "ok"
  /\ UNCHANGED <<i, j, best, selected, total>>

Settle ==
  /\ stage = "settle"
  /\ stage' = "end"
  /\ LET rest == total - amount - fee IN
     IF Cardinality(selected) > SpendLimit
     THEN outcome' = "too_many_inputs" /\ UNCHANGED <<fee, change>>
     ELSE /\ fee' = IF Dust(rest) THEN fee + rest ELSE fee
          /\ change' = total - amount - fee'
          /\ outcome' = IF outputs + (IF change' > 0 THEN 1 ELSE 0) > OutputLimit
                        THEN "invalid_request" ELSE "ok"
  /\ UNCHANGED <<i, j, best, selected, total>>

Step == OneExact \/ OneFit \/ TwoExact \/ TwoFit \/ Greedy \/ Settle
Ended == stage = "end"

Next ==
  \/ Step /\ UNCHANGED request
  \/ Ended /\ UNCHANGED vars

Spec == Init /\ [][Next]_vars

-----------------------------------------------------------------------------
(* A set of notes that a plan with a change output could spend. *)
Funds(S) == Sum(S) >= Needed(Cardinality(S), outputs + 1)

TypeOK ==
  /\ stage \in {"one_exact", "one_fit", "two_exact", "two_fit", "greedy", "settle", "end"}
  /\ outcome \in {"none", "ok", "insufficient_balance", "too_many_inputs",
                  "invalid_request", "error"}
  /\ i \in 0..(n + 1) /\ j \in 0..n
  /\ best \in (0..n) \X (0..n)
  /\ selected \subseteq 1..n
  /\ total \in 0..MaxU64 /\ fee \in 0..MaxU64 /\ change \in 0..MaxU64

(* The fee of a plan is never below the policy's for the actions the transaction  *)
(* really has, its change output included, even after dust was moved into it; and *)
(* it exceeds the policy's fee for one more output by less than MinChangeZat.     *)
FeeBounds ==
  outcome = "ok" =>
    LET spends == Cardinality(selected) IN
    /\ fee >= Fee(spends, outputs + (IF change > 0 THEN 1 ELSE 0))
    /\ fee <= Fee(spends, outputs + 1) + (IF minChange = 0 THEN 0 ELSE minChange - 1)

(* A plan spends what it pays: inputs equal outputs, fee and change, and a change *)
(* output is never dust.                                                          *)
ValueConserved ==
  outcome = "ok" =>
    /\ Sum(selected) = amount + fee + change
    /\ change > 0 => change >= minChange

(* No set of notes pays for a plan with change, and neither one note nor two pay  *)
(* exactly for one without.                                                       *)
Unpayable ==
  \A S \in (SUBSET (1..n)) \ {{}} :
    /\ ~Funds(S)
    /\ Cardinality(S) <= 2 => Sum(S) # Needed(Cardinality(S), outputs)

(* "insufficient funds" is said only when the request is unpayable.               *)
InsufficientIsTrue == outcome = "insufficient_balance" => Unpayable

(* No smaller set of notes pays for a plan with change. *)
Fewest(chosen) ==
  \A S \in (SUBSET (1..n)) \ {{}} : Cardinality(S) < Cardinality(chosen) => ~Funds(S)

(* No plan spends more notes than needed: no smaller set pays for a plan with     *)
(* change.  In particular "too_many_inputs" means that no set within the signer's *)
(* limit does, so that consolidating is the only way.                             *)
FewestNotes == outcome \in {"ok", "too_many_inputs"} => Fewest(selected)

(* Of the sets of as many notes none pays exactly, unless this one does, and none *)
(* that pays for a plan with change is worth less.                                *)
Closest(chosen) ==
  \/ Sum(chosen) = Needed(Cardinality(chosen), outputs)
  \/ \A S \in SUBSET (1..n) : Cardinality(S) = Cardinality(chosen) =>
       /\ Sum(S) # Needed(Cardinality(S), outputs)
       /\ Funds(S) => Sum(chosen) <= Sum(S)

(* When one or two notes suffice, the plan takes the exact ones if there are any, *)
(* and else those that leave the least change.                                    *)
LeastChange == outcome = "ok" /\ Cardinality(selected) <= 2 => Closest(selected)

(* A total the code must form is not a 64-bit value: the sum of the notes or the  *)
(* amount with the fee of all of them.                                            *)
Overflows ==
  Sum(1..n) > MaxU64 \/ Needed(IF n > 2 THEN n ELSE 2, outputs + 1) > MaxU64

(* A request is refused for overflow only if such a total overflows.              *)
NoSpuriousError == outcome = "error" => Overflows

-----------------------------------------------------------------------------
(* The inductive invariant behind FeeBounds.  Requested: the request is one of   *)
(* those considered.  Loops: what each stage knows of its indices, the pair kept *)
(* and the notes taken.  Chosen: a choice pays exactly for a plan without change *)
(* or enough for one with it, by the fee of as many spends.                      *)
Requested ==
  /\ vals \in Wallets /\ amount \in Amounts /\ outputs \in OutputCounts
  /\ policy \in Policies /\ minChange \in MinChanges

Loops ==
  /\ stage # "end" => outcome = "none" /\ change = 0
  /\ stage \in {"one_exact", "one_fit", "two_exact", "two_fit"} => selected = {} /\ total = 0
  /\ stage \in {"two_exact", "two_fit"} => i >= 1
  /\ best # NoPair =>
       /\ 1 <= best[1] /\ best[1] < best[2] /\ best[2] <= n
       /\ vals[best[1]] + vals[best[2]] <= MaxU64
       /\ Covers(vals[best[1]] + vals[best[2]], 2)
  /\ stage = "greedy" => i <= n /\ selected = (n - i + 1)..n

Chosen ==
  stage = "settle" =>
    LET spends == Cardinality(selected) IN
    \/ fee = Fee(spends, outputs) /\ total = Needed(spends, outputs)
    \/ fee = Fee(spends, outputs + 1) /\ Covers(total, spends)

(* The totals of a plan add up, and its change is not dust. *)
Settled ==
  outcome = "ok" =>
    /\ total = amount + fee + change
    /\ change > 0 => change >= minChange

IInv == TypeOK /\ Requested /\ Loops /\ Chosen /\ Settled /\ FeeBounds

(* What the stages behind have ruled out, and what this one has so far: a note    *)
(* that pays exactly, a note that covers, a pair of either kind, the largest      *)
(* notes taken together.                                                         *)
Top(c) == (n - c + 1)..n

Searched ==
  /\ \A p \in 1..n :
       /\ stage \in {"one_fit", "two_exact", "two_fit", "greedy"} => vals[p] # Needed(1, outputs)
       /\ stage \in {"two_exact", "two_fit", "greedy"} => ~Covers(vals[p], 1)
  /\ \A p, q \in 1..n : p < q =>
       /\ stage = "two_exact" /\ vals[p] + vals[q] = Needed(2, outputs) => i <= p /\ q <= j
       /\ stage \in {"two_fit", "greedy"} => vals[p] + vals[q] # Needed(2, outputs)
       /\ stage = "two_fit" /\ p < i /\ Covers(vals[p] + vals[q], 2) =>
            best # NoPair /\ vals[best[1]] + vals[best[2]] <= vals[p] + vals[q]
       /\ stage = "greedy" => ~Covers(vals[p] + vals[q], 2)
  /\ stage = "greedy" => total = Sum(selected) /\ \A c \in 1..i : ~Covers(Sum(Top(c)), c)

(* The choice a plan is made of is the least one. *)
Optimal ==
  stage = "settle" \/ outcome \in {"ok", "too_many_inputs"} =>
    /\ total = Sum(selected)
    /\ Fewest(selected)
    /\ Cardinality(selected) <= 2 => Closest(selected)

SearchInv == IInv /\ Searched /\ Optimal /\ InsufficientIsTrue /\ NoSpuriousError
=============================================================================
