---------------------------- MODULE CommandProofs ----------------------------
(***************************************************************************)
(* For any request, limits and word sizes: no service is called before the *)
(* request is proper, and the exit code, the answer and the plan file      *)
(* agree however the run ends.  The total of the outputs is the delicate   *)
(* part: the code looks only for a total smaller than the one before, and  *)
(* the proof is that then no total has wrapped.                            *)
(***************************************************************************)
EXTENDS Command, WellFoundedInduction, TLAPS

(* Induction, from the order of the natural numbers being well-founded: a set *)
(* with 0 and with the successors of its members has every number.            *)
LEMMA Induction ==
  ASSUME NEW P, 0 \in P, \A k \in Nat : k \in P => k + 1 \in P
  PROVE  Nat \subseteq P
<1> DEFINE T == Nat \ P
<1> SUFFICES ASSUME T # {}
             PROVE  FALSE
  OBVIOUS
<1>1. PICK x \in T : \A y \in T : ~(<<y, x>> \in OpToRel(<, Nat))
  BY NatLessThanWellFounded, WFMin
<1>2. \A y \in T : y \in Nat /\ x \in Nat /\ ~(y < x)
  BY <1>1 DEF OpToRel
<1>3. x # 0 /\ x - 1 \in Nat /\ x - 1 \in P
  BY <1>2
<1> QED
  BY <1>2, <1>3

(* A recursion over the first numbers, with a step for each, defines a function. *)
LEMMA Recursion ==
  ASSUME NEW N \in Nat, NEW start \in Nat, NEW step \in [1..N -> [Nat -> Nat]]
  PROVE  \E f \in [0..N -> Nat] : f[0] = start /\ \A k \in 1..N : f[k] = step[k][f[k - 1]]
<1> DEFINE Next1(k, x) == step[k][x]
<1>1. \A k \in 1..N, x \in Nat : Next1(k, x) \in Nat
  OBVIOUS
<1> HIDE DEF Next1
<1> DEFINE Follows(f, m) == f[0] = start /\ \A k \in 1..m : f[k] = Next1(k, f[k - 1])
           P == {m \in Nat : m <= N => \E f \in [0..m -> Nat] : Follows(f, m)}
<1>2. 0 \in P
  <2>1. [k \in 0..0 |-> start] \in [0..0 -> Nat] /\ Follows([k \in 0..0 |-> start], 0)
    OBVIOUS
  <2> QED
    BY <2>1
<1>3. ASSUME NEW m \in Nat, m \in P
      PROVE  m + 1 \in P
  <2>1. SUFFICES ASSUME m + 1 <= N
                 PROVE  \E f \in [0..(m + 1) -> Nat] : Follows(f, m + 1)
    <3>1. m + 1 \in Nat
      OBVIOUS
    <3> HIDE DEF Follows
    <3> QED
      BY <3>1
  <2>2. PICK f \in [0..m -> Nat] : Follows(f, m)
    <3>1. m <= N
      BY <2>1
    <3> HIDE DEF Follows
    <3> QED
      BY <1>3, <3>1
  <2> DEFINE top == Next1(m + 1, f[m])
             g == [k \in 0..(m + 1) |-> IF k = m + 1 THEN top ELSE f[k]]
  <2>3. top \in Nat
    <3>1. m + 1 \in 1..N /\ f[m] \in Nat
      BY <2>1
    <3> QED
      BY <1>1, <3>1
  <2>4. /\ \A k \in 0..m : g[k] = f[k]
        /\ g[m + 1] = top
    OBVIOUS
  <2>5. g \in [0..(m + 1) -> Nat]
    <3> HIDE DEF top
    <3> QED
      BY <2>3
  <2>6. ASSUME NEW k \in 1..(m + 1)
        PROVE  g[k] = Next1(k, g[k - 1])
    <3>1. CASE k = m + 1
      <4>1. k - 1 = m /\ m \in 0..m
        BY <3>1
      <4> HIDE DEF g
      <4> QED
        BY <2>4, <3>1, <4>1
    <3>2. CASE k \in 1..m
      <4>1. k - 1 \in 0..m /\ k \in 0..m
        BY <3>2
      <4>2. f[k] = Next1(k, f[k - 1])
        BY <2>2, <3>2
      <4> HIDE DEF g
      <4> QED
        BY <2>4, <4>1, <4>2
    <3> QED
      BY <3>1, <3>2
  <2>7. g[0] = start
    BY <2>2
  <2> HIDE DEF g
  <2> QED
    BY <2>5, <2>6, <2>7
<1>4. N \in P
  <2> HIDE DEF P
  <2> QED
    BY <1>2, <1>3, Induction
<1>5. PICK f \in [0..N -> Nat] : Follows(f, N)
  <2>1. N <= N
    OBVIOUS
  <2> HIDE DEF Follows
  <2> QED
    BY <1>4, <2>1
<1> QED
  BY <1>5 DEF Next1

-----------------------------------------------------------------------------
(* The total of the outputs. *)

(* A sum within two words, taken on one. *)
LEMMA Wraps ==
  ASSUME NEW M \in Nat, NEW x \in 0..(M + M + 1)
  PROVE  x % (M + 1) = IF x <= M THEN x ELSE x - (M + 1)
BY SMTT(30)

(* Amounts as they are once checked. *)
Summable(outputs) ==
  /\ Len(outputs) \in Nat
  /\ \A k \in 1..Len(outputs) : outputs[k].amount \in 1..MaxU64

(* The totals on a word, as the loop adds them up. *)
LEMMA TotalUnfolds ==
  ASSUME NEW outputs, Summable(outputs)
  PROVE  /\ Total(outputs) \in [0..Len(outputs) -> Nat]
         /\ Total(outputs)[0] = 0
         /\ \A k \in 1..Len(outputs) :
              Total(outputs)[k] = (Total(outputs)[k - 1] + outputs[k].amount) % (MaxU64 + 1)
<1> DEFINE N == Len(outputs)
           Rule(f) == [k \in 0..N |-> IF k = 0 THEN 0
                                      ELSE (f[k - 1] + outputs[k].amount) % (MaxU64 + 1)]
           step == [k \in 1..N |-> [x \in Nat |-> (x + outputs[k].amount) % (MaxU64 + 1)]]
           F == CHOOSE f : f = Rule(f)
<1>1. N \in Nat /\ MaxU64 \in Nat /\ \A k \in 1..N : outputs[k].amount \in Nat
  BY RequestTypes DEF Summable
<1>2. step \in [1..N -> [Nat -> Nat]]
  <2>1. ASSUME NEW k \in 1..N, NEW x \in Nat
        PROVE  (x + outputs[k].amount) % (MaxU64 + 1) \in Nat
    <3>1. x + outputs[k].amount \in Nat /\ MaxU64 + 1 \in Nat \ {0}
      BY <1>1
    <3> QED
      BY <3>1
  <2> QED
    BY <2>1
<1>3. PICK f \in [0..N -> Nat] : f[0] = 0 /\ \A k \in 1..N : f[k] = step[k][f[k - 1]]
  <2> HIDE DEF step
  <2>1. 0 \in Nat
    OBVIOUS
  <2> QED
    BY <1>1, <1>2, <2>1, Recursion
<1>4. f = Rule(f)
  <2>1. ASSUME NEW k \in 1..N
        PROVE  f[k] = (f[k - 1] + outputs[k].amount) % (MaxU64 + 1)
    <3>1. f[k - 1] \in Nat
      BY <1>1
    <3>2. f[k] = step[k][f[k - 1]]
      BY <1>3
    <3> QED
      BY <3>1, <3>2
  <2> HIDE DEF step
  <2>2. \A k \in 0..N : f[k] = Rule(f)[k]
    BY <1>1, <1>3, <2>1
  <2> QED
    BY <2>2
<1>5. F = Rule(F)
  BY <1>4
<1>6. Total(outputs) = F
  BY DEF Total
<1> HIDE DEF F
<1>7. /\ F[0] = 0
      /\ \A k \in 1..N : F[k] = (F[k - 1] + outputs[k].amount) % (MaxU64 + 1)
      /\ F = [k \in 0..N |-> F[k]]
  <2>1. \A k \in 0..N : F[k] = Rule(F)[k]
    BY <1>5
  <2>2. F = [k \in 0..N |-> F[k]]
    BY <1>5
  <2>3. F[0] = 0
    BY <1>1, <2>1
  <2>4. \A k \in 1..N : k \in 0..N /\ k # 0
    BY <1>1
  <2> HIDE DEF N
  <2> QED
    BY <2>1, <2>2, <2>3, <2>4
<1>8. \A k \in 0..N : F[k] \in Nat
  <2> DEFINE P == {k \in Nat : k <= N => F[k] \in Nat}
  <2>1. 0 \in P
    BY <1>7
  <2>2. ASSUME NEW k \in Nat, k \in P
        PROVE  k + 1 \in P
    <3>1. ASSUME k + 1 <= N
          PROVE  F[k + 1] \in Nat
      <4>1. F[k] \in Nat /\ k + 1 \in 1..N /\ (k + 1) - 1 = k
        BY <1>1, <2>2, <3>1
      <4>2. F[k + 1] = (F[k] + outputs[k + 1].amount) % (MaxU64 + 1)
        BY <1>7, <4>1
      <4>3. F[k] + outputs[k + 1].amount \in Nat /\ MaxU64 + 1 \in Nat \ {0}
        BY <1>1, <4>1
      <4> QED
        BY <4>2, <4>3
    <3> QED
      BY <3>1
  <2> HIDE DEF P
  <2>3. Nat \subseteq P
    BY <2>1, <2>2, Induction
  <2> QED
    BY <1>1, <2>3 DEF P
<1> QED
  BY <1>6, <1>7, <1>8

(* The totals without a word. *)
LEMMA TrueTotalUnfolds ==
  ASSUME NEW outputs, Summable(outputs)
  PROVE  \E f \in [0..Len(outputs) -> Nat] :
           /\ f[0] = 0
           /\ \A k \in 1..Len(outputs) : f[k] = f[k - 1] + outputs[k].amount
           /\ TrueTotal(outputs) = f[Len(outputs)]
<1> DEFINE N == Len(outputs)
           Rule(f) == [k \in 0..N |-> IF k = 0 THEN 0 ELSE f[k - 1] + outputs[k].amount]
           step == [k \in 1..N |-> [x \in Nat |-> x + outputs[k].amount]]
           F == CHOOSE f : f = Rule(f)
<1>1. N \in Nat /\ \A k \in 1..N : outputs[k].amount \in Nat
  BY RequestTypes DEF Summable
<1>2. step \in [1..N -> [Nat -> Nat]]
  BY <1>1
<1>3. PICK f \in [0..N -> Nat] : f[0] = 0 /\ \A k \in 1..N : f[k] = step[k][f[k - 1]]
  <2> HIDE DEF step
  <2>1. 0 \in Nat
    OBVIOUS
  <2> QED
    BY <1>1, <1>2, <2>1, Recursion
<1>4. f = Rule(f)
  <2>1. ASSUME NEW k \in 1..N
        PROVE  f[k] = f[k - 1] + outputs[k].amount
    <3>1. f[k - 1] \in Nat
      BY <1>1
    <3>2. f[k] = step[k][f[k - 1]]
      BY <1>3
    <3> QED
      BY <3>1, <3>2
  <2> HIDE DEF step
  <2>2. \A k \in 0..N : f[k] = Rule(f)[k]
    BY <1>1, <1>3, <2>1
  <2> QED
    BY <2>2
<1>5. F = Rule(F)
  BY <1>4
<1>6. TrueTotal(outputs) = F[N]
  BY DEF TrueTotal
<1> HIDE DEF F
<1>7. /\ F[0] = 0
      /\ \A k \in 1..N : F[k] = F[k - 1] + outputs[k].amount
      /\ F = [k \in 0..N |-> F[k]]
  <2>1. \A k \in 0..N : F[k] = Rule(F)[k]
    BY <1>5
  <2>2. F = [k \in 0..N |-> F[k]]
    BY <1>5
  <2>3. F[0] = 0
    BY <1>1, <2>1
  <2>4. \A k \in 1..N : k \in 0..N /\ k # 0
    BY <1>1
  <2> HIDE DEF N
  <2> QED
    BY <2>1, <2>2, <2>3, <2>4
<1>8. \A k \in 0..N : F[k] \in Nat
  <2> DEFINE P == {k \in Nat : k <= N => F[k] \in Nat}
  <2>1. 0 \in P
    BY <1>7
  <2>2. ASSUME NEW k \in Nat, k \in P
        PROVE  k + 1 \in P
    <3>1. ASSUME k + 1 <= N
          PROVE  F[k + 1] \in Nat
      <4>1. F[k] \in Nat /\ k + 1 \in 1..N /\ (k + 1) - 1 = k
        BY <1>1, <2>2, <3>1
      <4>2. F[k + 1] = F[k] + outputs[k + 1].amount
        BY <1>7, <4>1
      <4> QED
        BY <1>1, <4>1, <4>2
    <3> QED
      BY <3>1
  <2> HIDE DEF P
  <2>3. Nat \subseteq P
    BY <2>1, <2>2, Induction
  <2> QED
    BY <1>1, <2>3 DEF P
<1> QED
  BY <1>6, <1>7, <1>8

(* If no total on a word is smaller than the one before, the last is the true one. *)
LEMMA UnwrappedTotal ==
  ASSUME NEW outputs, Summable(outputs),
         \A k \in 1..Len(outputs) : Total(outputs)[k] >= Total(outputs)[k - 1]
  PROVE  TrueTotal(outputs) <= MaxU64
<1> DEFINE N == Len(outputs)
           t == Total(outputs)
<1>1. PICK f \in [0..N -> Nat] :
        /\ f[0] = 0
        /\ \A k \in 1..N : f[k] = f[k - 1] + outputs[k].amount
        /\ TrueTotal(outputs) = f[N]
  BY TrueTotalUnfolds
<1>2. /\ t \in [0..N -> Nat] /\ t[0] = 0
      /\ \A k \in 1..N : t[k] = (t[k - 1] + outputs[k].amount) % (MaxU64 + 1)
      /\ \A k \in 1..N : t[k] >= t[k - 1]
  BY TotalUnfolds
<1>3. N \in Nat /\ MaxU64 \in Nat /\ \A k \in 1..N : outputs[k].amount \in 1..MaxU64
  BY RequestTypes DEF Summable
<1> HIDE DEF t, N
<1> DEFINE P == {k \in Nat : k <= N => t[k] = f[k] /\ f[k] <= MaxU64}
<1>4. 0 \in P
  BY <1>1, <1>2, <1>3
<1>5. ASSUME NEW k \in Nat, k \in P
      PROVE  k + 1 \in P
  <2>1. ASSUME k + 1 <= N
        PROVE  t[k + 1] = f[k + 1] /\ f[k + 1] <= MaxU64
    <3> DEFINE a == outputs[k + 1].amount
               x == t[k] + a
    <3>1. k + 1 \in 1..N /\ (k + 1) - 1 = k /\ k \in 0..N /\ k <= N
      BY <1>3, <2>1
    <3>2. t[k] = f[k] /\ t[k] \in 0..MaxU64 /\ a \in 1..MaxU64
      BY <1>1, <1>2, <1>3, <1>5, <3>1
    <3>3. t[k + 1] = x % (MaxU64 + 1) /\ t[k + 1] >= t[k] /\ f[k + 1] = f[k] + a
      BY <1>1, <1>2, <3>1
    <3>4. x = t[k] + a
      OBVIOUS
    <3> HIDE DEF a, x
    <3>5. x \in 0..(MaxU64 + MaxU64 + 1)
      BY <1>3, <3>2, <3>4
    <3>6. t[k + 1] = IF x <= MaxU64 THEN x ELSE x - (MaxU64 + 1)
      BY <1>3, <3>3, <3>5, Wraps
    <3> QED
      BY <1>3, <3>2, <3>3, <3>4, <3>5, <3>6
  <2> QED
    BY <2>1
<1> HIDE DEF P
<1>6. N \in P
  BY <1>3, <1>4, <1>5, Induction
<1> QED
  BY <1>1, <1>3, <1>6 DEF P, N

-----------------------------------------------------------------------------
(* What the checks leave. *)

(* A request as the flags, or the types of PlanConfig, let it be. *)
LEMMA RequestTyped ==
  ASSUME NEW r \in Requests
  PROVE  /\ None \notin {0, 1, 2} /\ MaxU32 \in Nat /\ MaxU64 \in Nat /\ MaxAccount \in Nat
         /\ r.caller \in {"cli", "go"} /\ r.json \in BOOLEAN /\ r.out \in BOOLEAN
         /\ r.coinType \in Nat /\ r.account \in Nat /\ r.expiryOffset \in Nat
         /\ r.caller = "go" => r.coinType <= MaxU32 /\ r.expiryOffset <= MaxU32
         /\ r.minConf \in Int /\ r.feeMultiplier \in Nat /\ r.maxSpends \in Int
         /\ Len(r.outputs) \in Nat /\ DOMAIN r.outputs = 1..Len(r.outputs)
         /\ Len(r.excluded) \in Nat /\ DOMAIN r.excluded = 1..Len(r.excluded)
BY CommandTypes, RequestTypes

(* An exclusion that differs from those before it differs from all others. *)
LEMMA ExcludedOnce ==
  ASSUME NEW r \in Requests, ExclusionsValid(r)
  PROVE  /\ {r.excluded[k] : k \in DOMAIN r.excluded} \subseteq Canonical
         /\ \A k, m \in DOMAIN r.excluded : r.excluded[k] = r.excluded[m] => k = m
<1>1. Len(r.excluded) \in Nat /\ DOMAIN r.excluded = 1..Len(r.excluded)
  BY RequestTyped
<1>2. \A k \in 1..Len(r.excluded) :
        /\ r.excluded[k] \in Canonical
        /\ \A m \in 1..(k - 1) : r.excluded[m] # r.excluded[k]
  BY <1>1 DEF ExclusionsValid
<1>3. ASSUME NEW k \in 1..Len(r.excluded), NEW m \in 1..Len(r.excluded),
             r.excluded[k] = r.excluded[m]
      PROVE  k = m
  <2>1. CASE k < m
    <3>1. k \in 1..(m - 1)
      BY <2>1
    <3> QED
      BY <1>2, <1>3, <3>1
  <2>2. CASE m < k
    <3>1. m \in 1..(k - 1)
      BY <2>2
    <3> QED
      BY <1>2, <1>3, <3>1
  <2> QED
    BY <1>1, <2>1, <2>2
<1> QED
  BY <1>1, <1>2, <1>3

(* A request that passes the checks is proper. *)
LEMMA ValidIsProper ==
  ASSUME NEW r \in Requests, Valid(r), r.caller = "cli" => FlagsFit(r)
  PROVE  Proper(r)
<1>1. /\ MaxU32 \in Nat /\ MaxAccount \in Nat /\ r.coinType \in Nat /\ r.account \in Nat
      /\ Len(r.outputs) \in Nat /\ DOMAIN r.outputs = 1..Len(r.outputs)
  BY RequestTyped
<1>2. {RPCURL(r), r.walletID, ChangeAddress(r)} \cap {Empty, Blank} = {}
  BY DEF Valid, Missing
<1>3. r.account \in 0..MaxAccount
  BY <1>1 DEF Valid
<1>4. r.coinType \in 0..MaxU32
  BY <1>1, RequestTyped DEF FlagsFit
<1>5. ASSUME WithOutputs(r)
      PROVE  /\ Len(r.outputs) \in 1..OutputLimit
             /\ \A k \in DOMAIN r.outputs : /\ r.outputs[k].to \notin {Empty, Blank}
                                            /\ r.outputs[k].amount \in 1..MaxU64
             /\ TrueTotal(r.outputs) <= MaxU64
  <2>1. OutputsValid(r.outputs)
    BY <1>5 DEF Valid
  <2>2. /\ Len(r.outputs) \in 1..OutputLimit
        /\ \A k \in 1..Len(r.outputs) : /\ r.outputs[k].to \notin {Empty, Blank}
                                         /\ r.outputs[k].amount \in 1..MaxU64
    BY <1>1, <2>1 DEF OutputsValid, OutputsWritten, Missing
  <2>3. Summable(r.outputs)
    BY <1>1, <2>2 DEF Summable
  <2>4. \A k \in 1..Len(r.outputs) : Total(r.outputs)[k] >= Total(r.outputs)[k - 1]
    BY <1>1, <2>1 DEF OutputsValid
  <2> QED
    BY <1>1, <2>2, <2>3, <2>4, UnwrappedTotal
<1>6. ~WithOutputs(r) => r.to \notin {Empty, Blank}
  BY DEF Valid, Missing
<1>7. /\ {r.excluded[k] : k \in DOMAIN r.excluded} \subseteq Canonical
      /\ \A k, m \in DOMAIN r.excluded : r.excluded[k] = r.excluded[m] => k = m
  BY ExcludedOnce DEF Valid
<1> QED
  BY <1>2, <1>3, <1>4, <1>5, <1>6, <1>7 DEF Proper

(* What a planner is then given meets the assumptions of its model. *)
LEMMA ValidForPlanner ==
  ASSUME NEW r \in Requests, Valid(r), r.caller = "cli" => FlagsFit(r)
  PROVE  /\ MinConfirmations(r) \in Nat \ {0}
         /\ FeeMultiplier(r) \in Nat \ {0}
         /\ ExpiryOffset(r) \in 4..MaxU32
         /\ r.command = "consolidate" => MaxSpends(r) \in 2..SpendLimit
<1>1. /\ MaxU32 \in Nat /\ r.expiryOffset \in Nat /\ r.minConf \in Int /\ r.feeMultiplier \in Nat
      /\ r.expiryOffset <= MaxU32
  BY RequestTyped DEF FlagsFit
<1>2. MinConfirmations(r) \in Nat \ {0} /\ FeeMultiplier(r) \in Nat \ {0}
  BY <1>1, RequestTypes DEF MinConfirmations, FeeMultiplier
<1>3. ExpiryOffset(r) \in 4..MaxU32
  <2>1. ExpiryOffset(r) >= 4
    BY DEF Valid, OffsetInRange
  <2> QED
    BY <1>1, <2>1, RequestTypes DEF ExpiryOffset
<1> QED
  BY <1>2, <1>3 DEF Valid

-----------------------------------------------------------------------------
(* One step of a run. *)

(* A run begins with nothing told. *)
LEMMA InitIInv == Init => IInv
<1> SUFFICES ASSUME Init
             PROVE  IInv
  OBVIOUS
<1>1. None \notin {0, 1, 2} /\ request.caller \in {"cli", "go"}
  BY RequestTyped DEF Init
<1>2. pc \in {"start", "validate"} /\ (pc = "start" => CLI) /\ (pc = "validate" => ~CLI)
  BY <1>1 DEF Init, Entry, CLI
<1> QED
  BY <1>1, <1>2 DEF Init, IInv, TypeOK, Checked, Told, FileTellsTruth

(* What the invariant says of a step's start, unfolded once. *)
LEMMA Unfolded ==
  ASSUME IInv
  PROVE  /\ request \in Requests /\ None \notin {0, 1, 2}
         /\ request.json \in BOOLEAN /\ request.out \in BOOLEAN
         /\ contacted \in BOOLEAN /\ built \in BOOLEAN /\ broken \in BOOLEAN
         /\ file \in {"absent", "earlier", "nothing", "part", "plan"}
         /\ stdout \in {"nothing", "usage", "plan", "ok", "err"} /\ exit \in {None, 0, 1, 2}
BY RequestTyped DEF IInv, TypeOK

(* An error reported before there is a file: the answer is none or an error.    *)
LEMMA ReportTells ==
  ASSUME IInv, Report, exit = None, stdout = "nothing", broken \in BOOLEAN
  PROVE  /\ pc' = "ended" /\ exit' \in {None, 1} /\ stdout' \in {"nothing", "err"}
         /\ broken' \in BOOLEAN
BY DEF Report, Goto, Answer

(* The name of the command decides whether the flags are read. *)
LEMMA RunKeeps == IInv /\ RunWithIO => IInv'
<1> SUFFICES ASSUME IInv, RunWithIO
             PROVE  IInv'
  OBVIOUS
<1>1. UNCHANGED request
  BY DEF RunWithIO
<1> QED
  BY <1>1, Unfolded, ReportTells, ValidForPlanner
     DEF IInv, TypeOK, Checked, Told, FileTellsTruth, Goto, Answer, CLI, RunWithIO

(* Flags that cannot be parsed end the run. *)
LEMMA ParseKeeps == IInv /\ Parse => IInv'
<1> SUFFICES ASSUME IInv, Parse
             PROVE  IInv'
  OBVIOUS
<1>1. UNCHANGED request
  BY DEF Parse
<1> QED
  BY <1>1, Unfolded, ReportTells, ValidForPlanner
     DEF IInv, TypeOK, Checked, Told, FileTellsTruth, Goto, Answer, CLI, Parse

(* Past the checks of the flags, the account and the coin type are in range. *)
LEMMA FlagsKeep == IInv /\ CheckFlags => IInv'
<1> SUFFICES ASSUME IInv, CheckFlags
             PROVE  IInv'
  OBVIOUS
<1>1. UNCHANGED request
  BY DEF CheckFlags
<1> QED
  BY <1>1, Unfolded, ReportTells, ValidForPlanner
     DEF IInv, TypeOK, Checked, Told, FileTellsTruth, Goto, Answer, CLI, CheckFlags

(* Past validation the request is valid. *)
LEMMA ValidateKeeps == IInv /\ Validate => IInv'
<1> SUFFICES ASSUME IInv, Validate
             PROVE  IInv'
  OBVIOUS
<1>1. UNCHANGED request
  BY DEF Validate
<1> QED
  BY <1>1, Unfolded, ReportTells, ValidForPlanner
     DEF IInv, TypeOK, Checked, Told, FileTellsTruth, Goto, Answer, CLI, Validate

(* Planning is entered with a valid request, and a plan leads on to its file or answer. *)
LEMMA PlanKeeps == IInv /\ PlanReturns => IInv'
<1> SUFFICES ASSUME IInv, PlanReturns
             PROVE  IInv'
  OBVIOUS
<1>1. UNCHANGED request
  BY DEF PlanReturns
<1> QED
  BY <1>1, Unfolded, ReportTells, ValidForPlanner
     DEF IInv, TypeOK, Checked, Told, FileTellsTruth, Goto, Answer, CLI, PlanReturns

(* A file that cannot be opened is as it was. *)
LEMMA OpenKeeps == IInv /\ OpenFile => IInv'
<1> SUFFICES ASSUME IInv, OpenFile
             PROVE  IInv'
  OBVIOUS
<1>1. UNCHANGED request
  BY DEF OpenFile
<1> QED
  BY <1>1, Unfolded, ReportTells, ValidForPlanner
     DEF IInv, TypeOK, Checked, Told, FileTellsTruth, Goto, Answer, CLI, OpenFile

(* A write goes on to the answer only with the whole plan in the file. *)
LEMMA WriteKeeps == IInv /\ WriteFile => IInv'
<1> SUFFICES ASSUME IInv, WriteFile
             PROVE  IInv'
  OBVIOUS
<1>1. UNCHANGED request
  BY DEF WriteFile
<1> QED
  BY <1>1, Unfolded, ReportTells, ValidForPlanner
     DEF IInv, TypeOK, Checked, Told, FileTellsTruth, Goto, Answer, CLI, WriteFile, WriteFailed

(* The answer is the last of it. *)
LEMMA PrintKeeps == IInv /\ PrintPlan => IInv'
<1> SUFFICES ASSUME IInv, PrintPlan
             PROVE  IInv'
  OBVIOUS
<1>1. UNCHANGED request
  BY DEF PrintPlan
<1> QED
  BY <1>1, Unfolded, ReportTells, ValidForPlanner
     DEF IInv, TypeOK, Checked, Told, FileTellsTruth, Goto, Answer, CLI, PrintPlan

(* A run that is killed has told nothing, and left the file after its plan was made. *)
LEMMA KillKeeps == IInv /\ Kill => IInv'
<1> SUFFICES ASSUME IInv, Kill
             PROVE  IInv'
  OBVIOUS
<1>1. UNCHANGED request
  BY DEF Kill
<1> QED
  BY <1>1, Unfolded, ReportTells, ValidForPlanner
     DEF IInv, TypeOK, Checked, Told, FileTellsTruth, Goto, Answer, CLI, Kill

(* Nothing changes. *)
LEMMA StutterKeeps == IInv /\ UNCHANGED vars => IInv'
BY DEF vars, IInv, TypeOK, Checked, Told, FileTellsTruth, CLI

-----------------------------------------------------------------------------
(* The inductive invariant of a run. *)
THEOREM Invariance == Spec => []IInv
<1>1. IInv /\ [Next]_vars => IInv'
  BY RunKeeps, ParseKeeps, FlagsKeep, ValidateKeeps, PlanKeeps, OpenKeeps, WriteKeeps,
     PrintKeeps, KillKeeps, StutterKeeps
     DEF Next
<1> QED
  BY InitIInv, <1>1, PTL DEF Spec

(* For all limits and defaults, a planner is entered only with what its own model *)
(* assumes: confirmations and a multiplier of at least 1, an offset in 4..MaxU32, *)
(* a limit of spends within the one of the chain.                                *)
THEOREM TypeCorrect == Spec => []TypeOK
<1>1. IInv => TypeOK
  BY DEF IInv
<1> QED
  BY <1>1, Invariance, PTL

(* For every request and word size, no service is called for an improper request: *)
(* in particular the check of each total against the one before, on a word that   *)
(* wraps, lets no total through that the word does not hold.                      *)
THEOREM OnlyProperRequestsLeave == Spec => []NoContactBeforeValid
<1>1. IInv => NoContactBeforeValid
  <2> SUFFICES ASSUME IInv, contacted
               PROVE  Proper(request)
    BY DEF NoContactBeforeValid
  <2>1. request \in Requests /\ Valid(request) /\ (request.caller = "cli" => FlagsFit(request))
    BY DEF IInv, Checked, CLI
  <2> QED
    BY <2>1, ValidIsProper
<1> QED
  BY <1>1, Invariance, PTL

(* However a run ends, an error or a kill included: the exit code 0 means that the *)
(* whole plan is in its file, and an earlier plan's file is touched only by a run  *)
(* that has a plan to put there.                                                  *)
THEOREM FilesTellTheTruth == Spec => []FileTellsTruth
<1>1. IInv => FileTellsTruth
  BY DEF IInv
<1> QED
  BY <1>1, Invariance, PTL
=============================================================================
