----------------------------- MODULE MCCommand -----------------------------
EXTENDS Command

Output(amount) == [to |-> "addr", amount |-> amount]

Good == [caller |-> "cli", command |-> "send-many", parses |-> TRUE, json |-> TRUE, out |-> TRUE,
         coinType |-> 0, account |-> 0, expiryOffset |-> 5, maxSpends |-> 2,
         minConf |-> 1, feeMultiplier |-> 1,
         rpcURL |-> "url", envURL |-> Empty, walletID |-> "w", to |-> "addr", change |-> "addr",
         outputsFile |-> "path", readable |-> TRUE, outputs |-> <<Output(1)>>, excluded |-> <<"n">>]

(* What a field may be otherwise. *)
Variants(r) ==
  {[r EXCEPT !.json = FALSE], [r EXCEPT !.out = FALSE], [r EXCEPT !.parses = FALSE],
   [r EXCEPT !.rpcURL = Blank], [r EXCEPT !.rpcURL = Blank, !.envURL = "url"],
   [r EXCEPT !.readable = FALSE], [r EXCEPT !.outputsFile = Blank]}
  \cup {[r EXCEPT !.coinType = n] : n \in {1, MaxU32 + 1}}
  \cup {[r EXCEPT !.account = n] : n \in {MaxAccount, MaxAccount + 1, MaxU32 + 1}}
  \cup {[r EXCEPT !.expiryOffset = n] : n \in {0, 3, 4, MaxU32, MaxU32 + 1}}
  \cup {[r EXCEPT !.maxSpends = n] : n \in {0, 1, SpendLimit, SpendLimit + 1}}
  \cup {[r EXCEPT !.minConf = n] : n \in {-1, 0}}
  \cup {[r EXCEPT !.feeMultiplier = 0]}
  \cup {[r EXCEPT !.walletID = t] : t \in {Empty, Blank}}
  \cup {[r EXCEPT !.to = t, !.outputs = <<[Output(1) EXCEPT !.to = t]>>] : t \in {Empty, Blank}}
  \cup {[r EXCEPT !.change = t] : t \in {Empty, Blank}}
  \cup {[r EXCEPT !.excluded = e] : e \in {<<>>, <<"N">>, <<"n", "m">>, <<"n", "m", "n">>}}
  \cup {[r EXCEPT !.outputs = o] :
          o \in {<<>>, <<Output(None)>>, <<Output(0)>>, <<Output(MaxU64 + 1)>>,
                 <<Output(MaxU64), Output(1)>>, <<Output(MaxU64 - 1), Output(1)>>,
                 <<Output(1), Output(1), Output(1)>>}}

Commands == {"send", "send-many", "rebalance", "sweep", "consolidate"}

(* Each command, with at most two fields out of the ordinary. *)
OfCLI ==
  LET plain == {[Good EXCEPT !.command = c] : c \in Commands}
      varied == UNION {Variants(r) : r \in plain}
  IN  plain \cup varied \cup UNION {Variants(r) : r \in varied}
      \cup {[Good EXCEPT !.command = c] : c \in {"none", "help", "unknown"}}

(* A send has one output; a Go caller passes words that fit, and any kind. *)
MCRequests ==
  LET go == {[r EXCEPT !.caller = "go"] : r \in {q \in OfCLI : FlagsFit(q)}}
            \cup {[Good EXCEPT !.caller = "go", !.command = "other"]}
  IN  {r \in OfCLI \cup go :
         /\ r.command = "send" => Len(r.outputs) = 1
         /\ r.caller = "go" => r.command \notin {"none", "help", "unknown"}}
=============================================================================
