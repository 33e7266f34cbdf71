------------------------------ MODULE Amounts ------------------------------
(***************************************************************************)
(* ParseZECToZat: a decimal amount of coins as a word of zatoshis.  The    *)
(* text is a record of its sign, its whole part (None if it is no number)  *)
(* and the digits after the point; the base, the number of decimals and    *)
(* the word are constants, 10, 8 and 2^64 - 1 in the code.                 *)
(***************************************************************************)
EXTENDS Integers, Sequences

CONSTANTS Base, Decimals, MaxU64, None

ASSUME AmountsTypes == Base \in Nat \ {0, 1} /\ Decimals \in Nat /\ MaxU64 \in Nat

(* The powers of the base, one for each decimal; the last is a coin in zatoshis. *)
Power[k \in 0..Decimals] == IF k = 0 THEN 1 ELSE Base * Power[k - 1]

Unit == Power[Decimals]

(* Faulty: the digits are read without padding them to all the decimals. *)
FractionUnpadded(digits) ==
  LET Read[k \in 0..Len(digits)] == IF k = 0 THEN 0 ELSE Base * Read[k - 1] + digits[k]
  IN  Read[Len(digits)]

(* The digits, padded with zeros to all the decimals, read as one number. *)
Fraction(digits) ==
  LET Digit(k) == IF k <= Len(digits) THEN digits[k] ELSE 0
      Read[k \in 0..Decimals] == IF k = 0 THEN 0 ELSE Base * Read[k - 1] + Digit(k)
  IN  Read[Decimals]

Refuses(amount) ==
  \/ amount.negative
  \/ Len(amount.digits) > Decimals
  \/ amount.whole = None
  \/ amount.whole > MaxU64 \div Unit

(* The guard is on the whole part alone: with the largest one it lets through,  *)
(* the sum may wrap around.                                                     *)
ParseZECToZat(amount) == (amount.whole * Unit + Fraction(amount.digits)) % (MaxU64 + 1)

(* The amount written, in zatoshis: digit k counts Base^-k coins. *)
Exact(amount) ==
  LET Upto[k \in 0..Len(amount.digits)] ==
        IF k = 0 THEN amount.whole * Unit
        ELSE Upto[k - 1] + amount.digits[k] * (Unit \div Power[k])
  IN  Upto[Len(amount.digits)]
=============================================================================
