-------------------------------- MODULE Fees --------------------------------
(***************************************************************************)
(* The fee policy and the checked 64-bit arithmetic of internal/logic.  An *)
(* amount is a number; a checked operation overflows when it does not fit. *)
(***************************************************************************)
EXTENDS Integers, Sequences, FiniteSets

CONSTANTS
  ActionFee,  \* 5000: the conventional fee of one action
  MaxU64      \* 2^64 - 1, made small

ASSUME FeesTypes == ActionFee \in Nat \ {0} /\ MaxU64 \in Nat

FitsAlways(x) == TRUE       \* faulty: unchecked
FitsStrictly(x) == x < MaxU64  \* faulty: off by one
Fits(x) == x <= MaxU64

RequiredFeeSend(spends, outs) ==
  ActionFee * (CHOOSE m \in {spends, outs, 2} : m >= spends /\ m >= outs /\ m >= 2)

(* FeePolicy.Apply: a multiplier of 0 counts as 1. *)
Apply(policy, base) ==
  base * (IF policy.Multiplier = 0 THEN 1 ELSE policy.Multiplier) + policy.AddZat

(* The sum of the values at the indices S, a subset of the domain of v. *)
SumOf(v, S) ==
  LET SumTo[k \in 0..Len(v)] ==
        IF k = 0 THEN 0 ELSE SumTo[k - 1] + (IF k \in S THEN v[k] ELSE 0)
  IN  SumTo[Len(v)]

Ascending(v) == \A p, q \in 1..Len(v) : p <= q => v[p] <= v[q]
=============================================================================
