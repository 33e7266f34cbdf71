------------------------------- MODULE Wallet -------------------------------
(***************************************************************************)
(* What the two selections of notes share: a wallet and a fee policy, and  *)
(* the plan that is made of them.  A note is its index in the order of     *)
(* value (ties, broken by note id, are not told apart).                    *)
(***************************************************************************)
EXTENDS Fees

CONSTANTS
  Wallets,    \* the sequences of note values considered, in ascending order
  Policies,   \* the fee policies, records [Multiplier, AddZat]
  SpendLimit  \* MaxOrchardSpendNotes

ASSUME WalletTypes ==
  /\ \A v \in Wallets : v \in Seq(1..MaxU64) /\ Ascending(v)
  /\ Policies \subseteq [Multiplier : Nat, AddZat : Nat]
  /\ SpendLimit \in Nat \ {0}

VARIABLES
  vals,      \* the values of the wallet's notes
  policy,    \* the fee policy of the request
  selected,  \* the notes chosen, or taken so far
  amount,    \* what is sent: requested by a withdrawal, what is left by a consolidation
  fee,       \* the fee chosen
  outcome    \* "none" until the end

n == Len(vals)

Sum(S) == SumOf(vals, S)
=============================================================================
