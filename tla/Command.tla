------------------------------ MODULE Command ------------------------------
(***************************************************************************)
(* A run of juno-txbuild, or a call of its package by a Go program, from   *)
(* the arguments to the exit code: flags, configuration, validation, one   *)
(* planning (its outcome is the planners' business), the plan file, the    *)
(* answer.  The run may be killed at any point.                            *)
(***************************************************************************)
EXTENDS Request

CONSTANTS
  Requests   \* the requests considered

(* The types of the flags and of PlanConfig; what a Go caller passes fits its words. *)
ASSUME CommandTypes ==
  /\ None \notin {0, 1, 2}
  /\ \A r \in Requests :
       /\ r.caller \in {"cli", "go"} /\ r.json \in BOOLEAN /\ r.out \in BOOLEAN
       /\ r.coinType \in Nat /\ r.account \in Nat /\ r.expiryOffset \in Nat
       /\ r.caller = "go" => r.coinType <= MaxU32 /\ r.expiryOffset <= MaxU32
       /\ r.minConf \in Int /\ r.feeMultiplier \in Nat /\ r.maxSpends \in Int
       /\ Len(r.outputs) \in Nat /\ DOMAIN r.outputs = 1..Len(r.outputs)
       /\ Len(r.excluded) \in Nat /\ DOMAIN r.excluded = 1..Len(r.excluded)

VARIABLES
  request,    \* what is asked
  pc,         \* the step it takes next, "ended" or "killed"
  contacted,  \* has it called a service?
  built,      \* has planning returned a plan?
  file,       \* the file at --out: "absent", an "earlier" plan's, or what is written of
              \* this one's: "nothing", "part" or "plan"
  stdout,     \* what has been written there: "nothing", "usage", "plan", "ok" or "err"
  broken,     \* has a write to stdout failed?
  exit        \* the exit code, or None

vars == <<request, pc, contacted, built, file, stdout, broken, exit>>

CLI == request.caller = "cli"

(* A Go caller comes in by Plan, PlanSend, PlanSweep or PlanConsolidate. *)
Entry(r) == IF r.caller = "cli" THEN "start" ELSE "validate"

Init ==
  /\ request \in Requests
  /\ pc = Entry(request)
  /\ contacted = FALSE /\ built = FALSE
  /\ file \in {"absent", "earlier"}
  /\ stdout = "nothing" /\ broken = FALSE /\ exit = None

Goto(where) == pc' = where /\ UNCHANGED <<stdout, broken, exit>>

(* An answer on stdout; whether the write succeeds is not looked at. *)
Answer(answer, code) ==
  /\ pc' = "ended"
  /\ exit' = code
  /\ \/ stdout' = answer /\ UNCHANGED broken
     \/ broken' = TRUE /\ UNCHANGED stdout

(* An error: returned to a Go caller, in an envelope with --json (writeErr), and *)
(* on stderr otherwise.                                                          *)
Report ==
  IF ~CLI THEN Goto("ended")
  ELSE IF request.json THEN Answer("err", 1)
  ELSE pc' = "ended" /\ exit' = 1 /\ UNCHANGED <<stdout, broken>>

(* The first argument names the command. *)
RunWithIO ==
  /\ pc = "start"
  /\ CASE request.command = "none" -> Answer("usage", 2)
       [] request.command = "help" -> Answer("usage", 0)
       [] request.command = "unknown" -> pc' = "ended" /\ exit' = 2 /\ UNCHANGED <<stdout, broken>>
       [] OTHER -> Goto("parse")
  /\ UNCHANGED <<request, contacted, built, file>>

(* fs.Parse: flags that cannot be parsed are an error on stderr alone. *)
Parse ==
  /\ pc = "parse"
  /\ IF request.parses
     THEN Goto("flags")
     ELSE pc' = "ended" /\ exit' = 2 /\ UNCHANGED <<stdout, broken>>
  /\ UNCHANGED <<request, contacted, built, file>>

(* The checks of runSend, runSweep, runConsolidate and runPlanOutputs. *)
CheckFlags ==
  /\ pc = "flags"
  /\ IF FlagsFit(request) /\ SpendsInRange(request) /\ OutputsLoad(request) /\ ~Missing(RPCURL(request))
     THEN Goto("validate") ELSE Report
  /\ UNCHANGED <<request, contacted, built, file>>

Validate ==
  /\ pc = "validate"
  /\ IF Valid(request) THEN Goto("plan") ELSE Report
  /\ UNCHANGED <<request, contacted, built, file>>

(* Planning, from its first call: ScanPlanner and NodePlanner say how it ends. *)
PlanReturns ==
  /\ pc = "plan"
  /\ contacted' = TRUE
  /\ \/ built' = FALSE /\ Report
     \/ /\ built' = TRUE
        /\ Goto(IF ~CLI THEN "ended" ELSE IF request.out THEN "open" ELSE "print")
  /\ UNCHANGED <<request, file>>

(* WriteFile opens and truncates the file, or fails to, then writes the plan.    *)
OpenFile ==
  /\ pc = "open"
  /\ \/ file' = "nothing" /\ Goto("write")
     \/ UNCHANGED file /\ Report
  /\ UNCHANGED <<request, contacted, built>>

(* Faulty: the error of the write is dropped. *)
CarryOn == Goto("print")

(* A write that failed. *)
WriteFailed == Report

(* A disk that fills up leaves part of the plan; an error of the close leaves    *)
(* all of it.                                                                    *)
WriteFile ==
  /\ pc = "write"
  /\ \/ file' = "plan" /\ Goto("print")
     \/ \E left \in {"nothing", "part", "plan"} :
          file' = left /\ WriteFailed
  /\ UNCHANGED <<request, contacted, built>>

PrintPlan ==
  /\ pc = "print"
  /\ Answer(IF request.json THEN "ok" ELSE "plan", 0)
  /\ UNCHANGED <<request, contacted, built, file>>

(* The process is killed; part of the write it was in may have been done. *)
Kill ==
  /\ CLI /\ pc \notin {"ended", "killed"}
  /\ pc' = "killed"
  /\ \/ UNCHANGED file
     \/ pc = "write" /\ file' = "part"
  /\ UNCHANGED <<request, contacted, built, stdout, broken, exit>>

Next ==
  \/ RunWithIO
  \/ Parse
  \/ CheckFlags
  \/ Validate
  \/ PlanReturns
  \/ OpenFile
  \/ WriteFile
  \/ PrintPlan
  \/ Kill

Spec == Init /\ [][Next]_vars

-----------------------------------------------------------------------------
(* What a planner is given meets the assumptions of its own model (PlannerTypes  *)
(* and the limit of a consolidation), whatever defaults a caller relies on.      *)
TypeOK ==
  /\ pc \in {"start", "parse", "flags", "validate", "plan",
             "open", "write", "print", "ended", "killed"}
  /\ contacted \in BOOLEAN /\ built \in BOOLEAN /\ broken \in BOOLEAN
  /\ file \in {"absent", "earlier", "nothing", "part", "plan"}
  /\ stdout \in {"nothing", "usage", "plan", "ok", "err"} /\ exit \in {None, 0, 1, 2}
  /\ pc = "plan" =>
       /\ MinConfirmations(request) \in Nat \ {0}
       /\ FeeMultiplier(request) \in Nat \ {0}
       /\ ExpiryOffset(request) \in 4..MaxU32
       /\ request.command = "consolidate" => MaxSpends(request) \in 2..SpendLimit

(* The total of the amounts, on no word. *)
TrueTotal(outputs) ==
  LET Upto[k \in 0..Len(outputs)] ==
        IF k = 0 THEN 0 ELSE Upto[k - 1] + outputs[k].amount
  IN  Upto[Len(outputs)]

(* No service is called for a request that cannot be served: no node, wallet,     *)
(* change or destination left out, that of any output included, no account of    *)
(* 2^31 or more, no exclusion misspelt or named twice, no total that a word does *)
(* not hold, whoever calls and by which command.                                 *)
Proper(r) ==
  /\ {RPCURL(r), r.walletID, ChangeAddress(r)} \cap {Empty, Blank} = {}
  /\ r.account \in 0..MaxAccount /\ r.coinType \in 0..MaxU32
  /\ {r.excluded[k] : k \in DOMAIN r.excluded} \subseteq Canonical
  /\ \A k, m \in DOMAIN r.excluded : r.excluded[k] = r.excluded[m] => k = m
  /\ IF WithOutputs(r)
     THEN /\ Len(r.outputs) \in 1..OutputLimit
          /\ \A k \in DOMAIN r.outputs : /\ r.outputs[k].to \notin {Empty, Blank}
                                         /\ r.outputs[k].amount \in 1..MaxU64
          /\ TrueTotal(r.outputs) <= MaxU64
     ELSE r.to \notin {Empty, Blank}

NoContactBeforeValid == contacted => Proper(request)

(* The exit code, the answer and the plan file agree: after 0 the file holds the *)
(* whole plan; an earlier file is only touched once there is a plan to write, so *)
(* a run that fails before leaves it; and stdout has a plan only after 0.        *)
FileTellsTruth ==
  /\ exit = 0 /\ built /\ request.out => file = "plan"
  /\ file \notin {"absent", "earlier"} => built /\ request.out
  /\ stdout \in {"plan", "ok"} => exit = 0 /\ built

(* README.md:132: "When `--json` is set, output is wrapped".  An error of the    *)
(* flags themselves is not: it is a line on stderr.                              *)
JSONWrapped ==
  /\ pc = "ended" /\ CLI /\ ~broken
  /\ request.json /\ request.command \in {"send", "send-many", "rebalance", "sweep", "consolidate"}
  => stdout \in {"ok", "err"}
-----------------------------------------------------------------------------
(* The inductive invariant behind them.  Checked: what has been passed on the way *)
(* to each step.  Told: an exit code and an answer come last, and the file is     *)
(* touched only between a plan and its answer.                                   *)
Checked ==
  /\ pc \in {"start", "parse", "flags"} => CLI
  /\ pc = "validate" /\ CLI => FlagsFit(request)
  /\ pc \in {"plan", "open", "write", "print"} \/ contacted =>
       Valid(request) /\ (CLI => FlagsFit(request))

Told ==
  /\ pc \in {"start", "parse", "flags", "validate", "plan"} =>
       ~contacted /\ ~built /\ file \in {"absent", "earlier"}
  /\ pc \in {"open", "write", "print"} => contacted /\ built
  /\ pc \in {"open", "write"} => request.out
  /\ pc = "print" /\ request.out => file = "plan"
  /\ pc # "ended" => exit = None /\ stdout = "nothing"

IInv == request \in Requests /\ TypeOK /\ Checked /\ Told /\ FileTellsTruth
=============================================================================
