------------------------------- MODULE Request -------------------------------
(***************************************************************************)
(* What is asked of the planner, and the checks it must pass before any    *)
(* service is called: those of the command line, and those with which      *)
(* Plan, PlanSweep and PlanConsolidate begin.  A text is empty, blank or   *)
(* written; only its emptiness after trimming matters.                     *)
(***************************************************************************)
EXTENDS Integers, Sequences

CONSTANTS
  Empty, Blank,  \* texts without content
  Canonical,     \* the canonical note ids
  None,          \* an amount that is no decimal number
  MaxU32, MaxU64, MaxAccount,  \* 2^32 - 1, 2^64 - 1 and 2^31 - 1, made small
  SpendLimit, OutputLimit,     \* MaxOrchardSpendNotes, MaxOrchardOutputs
  DefaultConf, DefaultOffset, DefaultMultiplier, DefaultSpends

ASSUME RequestTypes ==
  /\ MaxU32 \in Nat /\ MaxU64 \in Nat /\ MaxAccount \in Nat
  /\ SpendLimit \in Nat /\ OutputLimit \in Nat \ {0}
  /\ DefaultConf \in Nat \ {0} /\ DefaultMultiplier \in Nat \ {0}
  /\ DefaultOffset \in 4..MaxU32
  /\ DefaultSpends \in 2..SpendLimit

Missing(text) == text \in {Empty, Blank}

WithOutputs(r) == r.command \in {"send", "send-many", "rebalance"}

(* plannerUint32Flags: what a Go caller passes has these types. *)
FlagsFit(r) ==
  r.coinType <= MaxU32 /\ r.account <= MaxAccount /\ r.expiryOffset <= MaxU32

(* The flag of consolidate, before its default in PlanConsolidate. *)
SpendsInRange(r) == r.command = "consolidate" => r.maxSpends \in 2..SpendLimit

(* loadOutputs and the checks around it: only send-many and rebalance have a file. *)
OutputsLoad(r) ==
  r.command \in {"send-many", "rebalance"} =>
    ~Missing(r.outputsFile) /\ r.readable /\ Len(r.outputs) <= OutputLimit

(* rpcConfigFromFlags: the flag, or else the environment. *)
RPCURL(r) == IF Missing(r.rpcURL) THEN r.envURL ELSE r.rpcURL

-----------------------------------------------------------------------------
(* normalizedMinConfirmations, normalizedFeeMultiplier and the defaults beside them. *)
MinConfirmations(r) == IF r.minConf <= 0 THEN DefaultConf ELSE r.minConf
FeeMultiplier(r) == IF r.feeMultiplier = 0 THEN DefaultMultiplier ELSE r.feeMultiplier
ExpiryOffset(r) == IF r.expiryOffset = 0 THEN DefaultOffset ELSE r.expiryOffset
MaxSpends(r) == IF r.maxSpends = 0 THEN DefaultSpends ELSE r.maxSpends

(* A sweep or a consolidation without a change address has its destination for one. *)
ChangeAddress(r) ==
  IF Missing(r.change) /\ ~WithOutputs(r) THEN r.to ELSE r.change

(* validateExcludedNoteIDs *)
ExclusionsValid(r) ==
  \A k \in DOMAIN r.excluded :
    /\ r.excluded[k] \in Canonical
    /\ \A m \in 1..(k - 1) : r.excluded[m] # r.excluded[k]

(* The total of the first k amounts, on a word. *)
Total(outputs) ==
  LET Upto[k \in 0..Len(outputs)] ==
        IF k = 0 THEN 0 ELSE (Upto[k - 1] + outputs[k].amount) % (MaxU64 + 1)
  IN  Upto

OutputsWritten(outputs) ==
  /\ Len(outputs) \in 1..OutputLimit
  /\ \A k \in DOMAIN outputs : ~Missing(outputs[k].to) /\ outputs[k].amount \in 1..MaxU64

(* Faulty: a total that wraps is not noticed. *)
OutputsUnsummed(outputs) == OutputsWritten(outputs)

(* addUint64 finds a wrapped total smaller than the one before. *)
OutputsValid(outputs) ==
  /\ OutputsWritten(outputs)
  /\ \A k \in DOMAIN outputs : Total(outputs)[k] >= Total(outputs)[k - 1]

OffsetUnbounded(r) == TRUE  \* faulty: the offset is defaulted and not bounded

(* A transaction that expires sooner is one the node may refuse. *)
OffsetInRange(r) == ExpiryOffset(r) >= 4

(* The checks of Plan, PlanSweep and PlanConsolidate, up to the first call. *)
Valid(r) ==
  /\ ~Missing(RPCURL(r)) /\ ~Missing(r.walletID)
  /\ r.account <= MaxAccount
  /\ ExclusionsValid(r)
  /\ r.command \in {"send", "send-many", "rebalance", "sweep", "consolidate"}
  /\ IF WithOutputs(r) THEN OutputsValid(r.outputs) ELSE ~Missing(r.to)
  /\ ~Missing(ChangeAddress(r))
  /\ r.command = "consolidate" => MaxSpends(r) \in 2..SpendLimit
  /\ OffsetInRange(r)
=============================================================================
