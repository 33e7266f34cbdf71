# A TLA+ model of juno-txbuild

`juno-txbuild` builds an unsigned Orchard transaction plan (`TxPlan`): it asks a node
(`junocashd`) and, optionally, a wallet scanner (`juno-scan`) what a wallet can spend, chooses
notes and a fee, collects the witnesses of the notes in the note-commitment tree, and writes a
plan for an offline signer.  It keeps no state between calls.  What is hard about it is that one
plan is read from a moving chain by many separate calls, and that the choice of notes and fee is
circular: the fee depends on the change, which depends on the fee.

This directory models both, and what stands around them: the request and the run of a command, the
listing of candidate notes from services that may answer anything, the incremental Merkle witnesses,
and the reservations with which coordinators keep concurrent plans apart.  TLC checks small instances;
TLAPS proves the main results for every instance.

## Inventory

| Part | Code | State | Operations | What makes it correct |
|---|---|---|---|---|
| Planning with the scanner | `pkg/txbuild/txbuild.go` `planWithScan`, `planConsolidateWithScan`, `planSweepWithScan` | captured chain info and anchor, listed notes, block cache, chosen notes, plan | one call after another to node and scanner | the plan is that of one block; notes spendable and confirmed at it; sweep complete; recheck fails closed; planning ends |
| Planning with the node | `Plan`, `PlanSweep`, `PlanConsolidate`; `internal/chain/scan.go` | chain info, anchor, tree index, plan | chain scan by height, `z_listunspent`, local witness | the same |
| Anchor and context checks | `pkg/txbuild/scan_readiness.go`, `network.go`, `verifyChainContext` | the snapshot (height, hash) | capture, verify | what they let through is a plan of one instant |
| Node, scanner, chain | external | best chain, indexed tip, mempool | extend, reorganise, switch endpoint, lag, roll back | (environment) |
| Withdrawal selection and fee | `internal/logic/logic.go` | loop indices, best pair, greedy prefix | five strategies, dust suppression, limits | value conserved, change priced, fewest notes, true refusals |
| Consolidation selection | `selectNotesForConsolidation` | loop indices | k notes, t smallest and k-t largest | most notes, smallest first |
| Listing of candidates | `listSpendableNotesFromScan`, `verifySelectedNotesStillSpendable`, `listUnspentOrchardNotes`, `validatePlanNoteIDs` | cursors seen, notes listed | page, filter, recheck | a note once in a plan; each rechecked with its value; the listing ends |
| Amount parsing | `logic.ParseZECToZat` | none | parse | exact, or refused |
| Witness builder | `rust/txbuild/src/lib.rs`, `internal/witness`, `Plan` | tree, active witnesses | check, append, answer, attach | paths lead to the root; refusals are true |
| Validation, defaults | `txbuild.go`, `limits.go`, `internal/cli/cli.go` | none | normalise, validate | no service is called for an improper request |
| Command line | `internal/cli/cli.go` | the plan file, stdout, exit code | flags, outputs file, plan, write, answer | exit code, answer and file agree |
| Coordinators | callers (`README.md:85-98`) | the store of reservations | read, exclude, plan, reserve, sign, release | no note in two live plans; no reservation for ever |

**Interaction.**  A planner is one goroutine; its peers are remote.  Between any two of its calls
the node may extend or reorganise its chain, the RPC endpoint may be switched to another node or
network, the scanner may index a block or roll back, and unconfirmed spends may come and go.  The
scanner follows the node.  Two planners share nothing; only the exclusions their callers pass, and
the reservation made before signing, keep them apart.  A node-backed plan passes the commitments it
has read to the Rust builder through the FFI, and gets a root and paths back.

**Hard behaviours.**  Interleaving of the calls with reorganisations; data read under one chain
and used under another (`chainInfo`, the block cache, listed pages); a witness asked for by height;
paging over a set that changes; checks that are themselves several calls; expiry running out during
planning; fall-through of selection strategies; word overflow; answers that repeat a note or a
cursor.  The program retries nothing and persists nothing but the file of `--out`, whose write may
fail or be cut short; crashes and retries are those of the coordinators.  `PROJECT.json` lists the
hazards at their lines.

## Modules

```
BlockTree ── ChainEnv ─┬─ AtomicPlan          what a planner promises
                       └─ Planner ─┬─ ScanPlanner ──┐
                                   ├─ NodePlanner ──┤
                                   └─ PlannerProofs ┴─ ScanPlannerProofs, NodePlannerProofs
Fees ── Wallet ─┬─ NoteSelection ─┬─ SelectionProofs
                └─ Consolidation ─┘
Amounts ── NoteListing ── ListingProofs
WitnessTree ── WitnessProofs
Reservations ── ReservationsProofs
Request ── Command ── CommandProofs
MCChain, MCScanPlanner, MCScanSmall, MCNodePlanner, MCNoteSelection, MCConsolidation,
MCNoteListing, MCWitnessTree, MCReservations, MCCommand                                  instances
```

**BlockTree** is the set of all blocks the services could ever serve, as constants: the blocks
below a block (`Chain`), its actions (`Acts`), the commitment tree after it (`Tree`), the wallet
notes it nullifies (`Spends`), its network and the consensus branch of the next block.  A block *is*
its hash; that a hash commits to all of this is why they are functions of the block.  The
assumptions `ChainShape` and `TreeGrows` say just that; `NetworkRules` adds that a network has one
genesis block and that its consensus branches change at fixed heights.

**ChainEnv** moves the services: `NodeMove` (any other block becomes the tip: extension,
reorganisation, shorter chain, other network), `ScanAdvance`, `ScanRollback`, `MempoolAdd`,
`MempoolDrop`.  `left` is a history variable: the blocks the node has abandoned.  `Readopt` says
whether the node may come back to one of them.

**Planner** holds what both modes share.  Correspondence with the code:

| Model | Code |
|---|---|
| `info` | `chainInfo` |
| `snap` | `scannerAnchorSnapshot`, a block being its hash |
| `plan` | the `TxPlan`: network, coin type, branch, heights, the tree whose root is the anchor, each note with its position |
| `pc` | which call comes next; `"failed"` is a returned error |
| `GetChainInfo`, `CaptureNodeAnchor`, `VerifyNodeAnchor`, `VerifyChainContext` | the functions of these names |
| `Fail` | an RPC error, a bad status or encoding, a missing witness path, insufficient funds |
| `Selections` | any choice the selection code may make; detailed in NoteSelection and Consolidation |

**ScanPlanner** adds the scanner's calls: `CaptureScannerAnchor`, `ListPage` (once to list, once for
the recheck), `SelectNotes`, `FetchAction` (one note's block and action, through the block cache),
`OrchardWitness`, `VerifySelectedNotes`, `VerifyScannerHealth`.  The three functions it models differ
in how they choose, and share the sequence; `kind` tells them apart.  A page is what the scanner
holds *at that moment*, so a listing may straddle a reorganisation.  The witness is answered from
whatever fork the scanner is on, at the height requested or, should it ignore the request, at its
own tip (which the code then refuses).

**NodePlanner** reads the tree one height per call (`IndexBlock`), then `z_listunspent`; the rest of
the computation is local and belongs to that action (`ListUnspent`).  `cmx` and `byOutpoint` are the
fields of `OrchardIndex`, filled together.

**AtomicPlan** is the abstract planner: at *one* instant it picks a block of the node's best chain
and notes spendable at it; later it returns exactly that offer, unless the expiry has come too
close, or gives up.  Both planners implement it (`AtomicSpec`): the deciding instant is the
successful `verifyNodeAnchor`.

**Fees** and **Wallet** (what the two selections share: the wallet, the policy and the plan's sums),
**NoteSelection** and **Consolidation** model the arithmetic and the loops, one step per turn, on
unsigned words of at most `MaxU64`.

**NoteListing** is where a planner gets its candidates, with nothing assumed of the services: a page
(`ScanPage`) is any sequence of notes and any next cursor, an answer of `z_listunspent`
(`ListUnspent`) any sequence of entries.  ScanPlanner has the well-behaved scanner on a moving chain;
here is the rest of the loop: the set of cursors seen, the notes refused or passed over, ids that
differ in their spelling, the choice (`Choose`, with the checks of `signerCompatiblePlan`), the second
listing and the comparison of values (`Compare`).  `reported` is a history variable.  **Amounts** is
`ParseZECToZat`, on a base, a number of decimals and a word that are constants.

**WitnessTree** is `orchard_witness_inner`, one turn of its loop over the leaves per step, between the
checks of the request and what the Go side does with the answer:

| Model | Code |
|---|---|
| `Check`, `Valid` | the checks with which `orchard_witness_inner` begins |
| `AppendLeaf` | one turn: the tree, every active witness, and a new witness if the leaf is asked for |
| `Paths` | `paths[out_idx]`, the root, and the error of a missing path |
| `Attach` | `Plan`: as many paths as positions, each of its position |
| `Panic` | `catch_unwind` of the FFI entry |

The tree and witness types are a library's.  A tree is the sequence of its leaves; a witness is a leaf
and the leaves it has been given; `AuthPath` and `Root` are read off the rows of `Nodes`, which hash the
leaves level by level, where the hash of two nodes is their pair.

**Request** has the checks a request must pass before a service is called, those of the command line
and those at the beginning of `Plan`, `PlanSweep` and `PlanConsolidate`, and the defaults.
**Command** composes them into a run: arguments (`RunWithIO`), flags (`Parse`, `CheckFlags`),
`Validate`, one planning (`PlanReturns`; how it ends is the planners' business), the plan file
(`OpenFile`, `WriteFile`) and the answer (`PrintPlan`).  A Go program enters at `Validate`.  Any step
that may fail does, and the process may be killed anywhere (`Kill`).

**Reservations** composes what this program promises (a plan of one instant, with its exclusions
honoured, an expiry height and a last check of it) with what `README.md:85-98` asks of its callers:
read the reservations, plan with their notes excluded, reserve all or nothing under a unique
constraint, sign, and release on a conclusive outcome.  Attempts crash, stall and start again; a
coordinator may sign after its reservation was released; blocks are found and undone, none under
`Final` others.

Definitions marked *faulty* (`AnchorStandsByHeight`, `SpendableOneShort`, ...) stand beside the
definition they corrupt and are used by no specification: each property is shown to fail when one of
them takes the place of the original (`PROJECT.json`, `mutants`).

### Abstractions

- `getblockhash` and `getblock` are one step: a block's content is a function of its hash, so only
  the moment of the first matters.
- A note's value is a function of its id, so the recheck compares ids.  Notes filtered for their
  value, direction or account are simply not in `Wallet`.
- The action's nullifier, commitment and ciphertext are functions of its id and are not carried.
- The cryptographic content of a witness is the pair of tree and position.
- Retrieval errors and malformed answers are `Fail`, which may happen at any point before the end.
- The services stand still once the planner has ended: nothing reads them any more.
- In the selection, notes of equal value are not told apart; `MaxU64`, the action fee and the limits
  are small.  In the planners, `MaxU32` is small.
- In ScanPlanner a cursor is the leaf position the next page begins at, which the code does not see: it hands
  back the text it was given.  `SweepComplete` needs it (a scanner with other cursors may skip a note when its
  set changes between two pages); NoteListing takes any cursor.
- The planners are given a request that has passed `Valid`; `TypeOK` of Command checks that what they
  then get meets their assumptions (`PlannerTypes`).
- A text of a request is empty, blank or written; a note id is canonical or not.  A decimal amount is its
  sign, its whole part and its digits.
- In NoteListing the chain stands still: the filters compare with a fixed captured height.
- In Reservations planning is one instant, as AtomicPlan allows, and the store answers at once.

## Runs

| Run | Module | Question | Result |
|---|---|---|---|
| `scan_stable` | MCScanPlanner | Is a returned plan that of one block, under every interleaving, if the node does not return to abandoned blocks?  Is a sweep complete?  Does the planner implement AtomicPlan? | holds |
| `scan_live` | MCScanSmall | Do confirmations hold at the anchor?  Does a spend pending since before the recheck fail the planning?  Does planning end? | holds |
| `node_stable` | MCNodePlanner | The same for node mode | holds |
| `selection` | MCNoteSelection | Is the selection right for every small wallet and request? | holds |
| `consolidation` | MCConsolidation | Is the consolidation right for every small wallet? | holds |
| `note_listing` | MCNoteListing | Is a note named once, rechecked, and its amount exact, whatever the services answer?  Does the listing end? | holds |
| `witness` | MCWitnessTree | Does every path lead from its commitment to the root, for every sequence of leaves and order of positions? | holds |
| `reservations` | MCReservations | Can two signed plans that share a note both be mined?  Is anything mined without its reservation?  Does every reservation end? | holds |
| `command` | MCCommand | Is a service called for an improper request?  Do exit code, answer and plan file agree? | holds |
| `command_json` | MCCommand | Is output wrapped when `--json` is set? | **violated** |
| `scan_readopt` | MCScanPlanner | And if the node may come back to the anchor? | **violated** |
| `scan_return` | MCScanPlanner | Is the anchor canonical when the plan is returned? | **violated** |

The three violations are disagreements between `README.md` and the code.  Two are of `README.md:81`:

- `scan_readopt`: "A reorg ... during planning therefore fails closed."  The checks compare the hash
  at the anchor's height at the start and at the end.  If the chain leaves the anchor and returns to
  it in between, both agree; the witness, requested by height and answered without a hash, can be
  that of the other fork.  The plan then has a root that never was that of its anchor height on the
  canonical chain.  (The network rejects the transaction; no funds are at stake, but planning did not
  fail closed.)
- `scan_return`: "The node may advance beyond the anchor only while that anchor remains canonical".
  `verifyChainContext` comes last and compares heights, not the hash.  A reorganisation between the
  last `getblockhash` and it goes unnoticed.

The third is of `README.md:132`, "When `--json` is set, output is wrapped":

- `command_json`: flags that do not parse end the run with exit code 2, a plain line on stderr and
  nothing on stdout, also when `--json` has been read before (`internal/cli/cli.go:134`).

**Bounds.**  `MCChain` has a main chain of height 4, a fork of height 3 from height 1, and a second
network.  A note is mined at different leaves of the two forks, each fork spends one of the
notes, and the consensus branch changes after height 2: the least that lets a reorganisation change
positions, spendability, confirmations and branch separately.  Pages of one or two notes make
listings of two to three pages.  `MaxU32 = 7` puts the expiry overflow at height 3.  `ExpiryOffset = 4`
is the code's minimum, so that a plan anchored at height 2 has too little time left at height 4, where
network and branch are still its own: there the last check of the expiry decides alone.  `scan_live`
cuts the chain to four blocks and asks for two confirmations.  Wallets of four notes with values to 7
reach every strategy of the selection and, with `MaxU64 = 15`, every overflow; five notes make all
mixes of a consolidation possible.

`note_listing` has ten notes of the scanner, one for each filter and check, pages of two, two cursors
and one empty one: a page can repeat within itself, across pages and across cursors.  Base 2 with two
decimals and a largest word of 13 make the whole part 3 the largest that passes the guard, and 3.1 in
base 2 (14) the first sum to wrap.  `witness` has a tree of depth 3 with one more leaf than it holds
and two positions, which may come in either order, on either side of any node; two leaf values tell
siblings apart.  `reservations` has two attempts over two notes, a final depth of 2, expiry heights to
5 and two reorganisations: enough for a plan to expire, be released, be revived by a reorganisation and
compete with a plan made since.  `command` takes each command with up to two fields out of the
ordinary, at and beside every bound, so that each fault is also tried with every other.

`MaxExpiry` and `MaxReorgs` bound `Reservations`; the counters of the model (`cursor`, `height`, loop indices) are
bounded by the data and need no bound of their own.

**Fairness.**  `FairSpec` of ScanPlanner asks that the planner's next call is eventually answered: each
call answers, fails or is ended by its context (`internal/cli/cli.go` gives the whole command five
minutes).  It does not ask that a call ever fails, so `Terminates` rests on the loops themselves.
Nothing is assumed of the services: the chain may move for ever or not at all.  `FairSpec` of NoteListing
asks only that every call returns; the answers may be anything.  `FairSpec` of Reservations asks that
blocks are found and that some coordinator looks at each reservation again, which is what
`README.md:98` tells them to do; reorganisations are finitely many, as of a chain that has final
blocks.  No coordinator has to go on: a crashed one's reservation ends by its expiry height.

Deadlock is checked everywhere but in `reservations`, where the heights are bounded, and in `command`
and `command_json`, where a run ends.

## Proofs

Every property of the passing runs that is not about liveness is also a theorem, for every value of the
constants that meets the assumptions named in the modules; what stays with TLC is listed at the end.

### The planners

`PlannerProofs` first proves what the planners need of the block tree (a chain has one block at each
height, two blocks of a chain are ordered, the tree of a predecessor is a prefix, an action was mined once
on a chain and below the leaf it occupies) and of the environment (`NodeClean` is kept, and a captured
block that leaves the node's chain or the scanner's is in `left` for good); then what the modes share: a
plan is well typed, speaks of one network, and is an offer of AtomicPlan when it agrees with its anchor.
`ScanPlannerProofs` and `NodePlannerProofs` prove, for every block tree that satisfies the assumptions,
every request and any number of notes, blocks and pages:

| Theorem | States | Scanner | Node |
|---|---|---|---|
| `TypeCorrect` | `Spec => []TypeOK` | yes | yes |
| `Invariance` | `Spec => []IInv` | yes * | yes * |
| `PlansAreSnapshots` | `Spec => []SnapshotConsistent` | yes * | yes * |
| `PlansAreSpendable` | `Spec => []NotesSpendableAtAnchor` | yes * | yes * |
| `PlansAreConfirmed` | `Spec => []ConfirmedAtAnchor` | yes * | the node's own count |
| `PlansAreOfOneNetwork` | `Spec => []OneNetwork` | yes * | yes * |
| `ScanPlannerIsAtomic`, `NodePlannerIsAtomic` | `Spec => AtomicSpec` | yes * | yes * |
| `SweepsAreComplete` | `Spec => []SweepComplete` | yes * | |
| `RecheckNeverPasses` | the safety half of `RecheckFailsClosed` | yes | |
| `RecheckClosesIfPlanningEnds` | `Spec /\ Terminates => RecheckFailsClosed` | yes | |
| `CallsAreBounded` | a planning makes at most `CallsLeft` calls | yes ** | yes |

\* assuming `Readopt = FALSE`: the node does not return to a block it has abandoned.  `scan_readopt`
shows that the assumption is needed.
\*\* on chains whose note-commitment tree has at most `B` leaves, for any `B`.

*The argument.*  The properties speak of the end only and are not inductive: midway, what was read may
well belong to another fork.  `IInv` (in each planner's module) has five parts:

- `TypeOK` and `Control`: which data exist at which point, that the anchor has the height of the chain
  info and that the node's index agrees with the commitments read.
- `Grounded`: either the captured anchor has been abandoned (`Lost`, for good, when the node does not
  return), and then `verifyNodeAnchor` cannot succeed any more; or the anchor is still canonical, and what
  has been read agrees with it.  In scanner mode that is so because the anchor is on the scanner's chain
  too, which has one block per height and whose earlier trees are prefixes.  In node mode the
  commitments read are the anchor's up to the height reached, since the block served at a height is
  the anchor's own ancestor; and a note listed at a later tip that is in that tree was unspent at the
  anchor, since a chain only adds to what it has spent.  After `verifyNodeAnchor` has succeeded, only the
  plan matters, and it does not change.
- `Sized`: a choice stays within the signer's limit until it is a plan (finitely many notes have no more
  ids than notes), and the plan expires when it should.
- `OfOneNetwork`: chain info and anchor are read by two calls.  If the anchor is of another network, the
  node has left the network of the chain info, its genesis block included, for good; so the comparison of
  networks in `verifyChainContext`, made on yet another answer, cannot pass.

For the refinement, `IInv` gives that the plan is an offer of the anchor, canonical at the very step in
which `verifyNodeAnchor` succeeds: that step is AtomicPlan's `Decide`; the steps before are stuttering or
`Abort`, the ones after stuttering, `Return` or `Abort`.

For `SweepsAreComplete` the invariant is `Complete`: unless the anchor is lost, every note that a sweep
must spend (`Sweepable`) and whose position is below the cursor is among those listed; then all of them are
listed, chosen, planned.  It holds over a page because a note spendable at the anchor, and spent by no
block above it, is on the scanner's chain at the same position and in the same block as long as the anchor
is, so it is among the notes that remain; and a note that remains but is not in the page is after all of
the page, since it has at least a page of notes before it.  The next cursor therefore does not pass it.

For the recheck, `Unlisted(n)` is kept by every step as long as the spend of `n` is pending: the planning
has not got past the comparison, and no page lists `n`.  It needs nothing of the chain, which may move
under the pages.  Once planning has ended it has therefore failed.

`CallsLeft` weighs the stages to come by more than a stage can take, and adds, within a stage, the leaves
past the cursor and the chosen notes not found yet.  A page that is not the last moves the cursor on, to
just behind a leaf of *some* chain, so a scanner that rolls back or goes on under the pages adds none; a
fetched action adds a note to those found, of which there are as many as were chosen.  In node mode no
bound on the chain is needed: the heights to be read are those up to the chain info's, which the code
refuses beyond `MaxU32`, and the chain may grow meanwhile.

### Selection and consolidation

`SelectionProofs` proves, for every wallet, request, policy and word size:

| Theorem | States |
|---|---|
| `TypeCorrect`, `MergesAreTyped` | `TypeOK`, `MergeTypeOK` |
| `FeesAreBounded` | `FeeBounds`: the fee is what the transaction's actions need, and little more |
| `ValueIsConserved`, `MergesConserveValue` | spent notes = amount + fee + change |
| `RefusalsAreTrue`, `ErrorsAreOverflows` | insufficient funds, and overflow, are said only when true |
| `FewestNotesAreSpent`, `ChangeIsLeast` | no fewer notes would do; a plan of one or two is the closest |
| `MostNotesAreMerged`, `SmallestNotesGoFirst` | no larger set pays its fee; of those sets, the dust goes first |
| `Invariance`, `SearchInvariance`, `MergeInvariance` | the inductive invariants |

*The argument.*  `IInv` says what each stage knows of its own numbers: the pair kept by the search for two
notes covers a plan with change (`Loops`); a choice pays exactly for a plan without change, or enough for
one with it, by the fee of as many spends as it has notes (`Chosen`).  `SearchInv` adds what the stages
behind have ruled out, which no state of the program holds: a pair that pays exactly has its ends within
the two indices (`i <= p`, `q <= j`); a pair that covers and whose first note is behind was compared with
the pair kept; when the greedy stage has taken `i` notes, no set of up to `i` notes covers, since the
largest `i` do not.  That last step is `LargestWorthMost`: among the sets of `c` notes of an ascending
wallet the last `c` are worth most.  The word is bounded, so each stage also shows that what overflows is
either too much to matter or refused truly (`NeedOverflows`, `SumOverflows`).

A consolidation tries, for each size from the largest, the mixes of the `t` smallest and `k - t` largest
notes.  `MergeInv` says that the mixes behind did not pay.  That this rules out *every* set, although only
a few are tried, is `PassedOver`: a set of `k` notes that contains the `t` smallest is worth no more than
the mix of `t` and `k - t` (`BlendWorthMost`), and any set contains the 0 smallest.

Sums over sets are a recursive function along the wallet (`SumOf`), so `SumUnfolds`, `SumAdds`,
`SumDisjoint` and `SumGrows` come first.

### Listing and amounts

`ListingProofs` proves of NoteListing, with *any* page, cursor and entry as the services' answer:
`TypeCorrect`, `NotesAreNamedOnce`, `NotesAreRechecked` and `AmountsAreExact`.  The invariant joins what
is kept with what was reported: each candidate of the recheck that is of the plan's notes has been reported
by the scanner with that value, incoming and not pending (`Rechecking`); each candidate of the node was
written with exactly that amount (`Amounted`), unless no word holds it.  The latter is the lemma
`ParsedIsExact`, for every base and number of decimals: the whole part in the smallest unit and the padded
digits read as one number, which is what `ParseZECToZat` computes, make the sum of the digits at their
places.  It compares the two recursions digit by digit (`FractionUnfolds`, `ExactUnfolds`) and uses that
the powers before and after a place make a whole unit (`PowersSplit`).

`ListingsAreBounded`: as long as the cursors a scanner can return are finitely many
(`IsFiniteSet(Cursors)`; one that invents a new cursor for ever is stopped by the context of the call
alone), every step reduces `Distance`, since a page is only asked for with a cursor that is not in `seen`.

### Witnesses

`WitnessProofs` proves of WitnessTree, for every depth: `TypeCorrect`, `RefusalsAreTrue`
(`Spec => []RefusesTruly`), `PathsAreComplete` and `PathsAreRight` (`Spec => []PathsLeadToRoot`).  The
invariant of the loop is `Kept`: there is exactly one witness for each position passed, and it has been
given what the tree has.  What it answers in the end is therefore the path of its leaf in the tree of all
the leaves, and `PathLeadsToRoot` says of any tree that such a path, followed upwards, gives at each
level the node that the leaf is under (`AboveInLevel`, `Halves`), since a node and its sibling are the two
children of the node above (`SiblingsPair`).

### Commands

`CommandProofs` proves of Command, for any set of requests, word and limits: `TypeCorrect`,
`OnlyProperRequestsLeave` (`Spec => []NoContactBeforeValid`) and `FilesTellTheTruth`
(`Spec => []FileTellsTruth`).  The invariant says what has been passed on the way to each step (`Checked`)
and what the steps may have told (`Told`).  That `Valid` implies `Proper` needs arithmetic: the code adds
the outputs on a word and compares each total with the one before.  `UnwrappedTotal` shows that this is
enough: as long as no total is below the one before, the totals on the word are the true ones, because an
output is less than the word's range, and so the first total to wrap would be below its predecessor.

### Reservations

`ReservationsProofs` proves of Reservations, for any number of attempts, notes and reorganisations,
`TypeCorrect`, `NoConflict` (`Spec => []NoTwoLivePlans`) and `MinedOnlyReserved`.  The invariant is
`Covered`: an attempt that has reserved still holds all the notes of its plan, or the plan is `Dead`:
its expiry, or a transaction that spends one of its notes, is at most `top - Final`, and `top` never falls.
A reservation is released only of a dead plan, so a coordinator that signs after the release signs something
that no chain can hold any more.

### Assumptions

Apart from `Readopt = FALSE`, `B` and `IsFiniteSet(Cursors)` above, the theorems rest on the assumptions of the
modules alone, and TLC evaluates each of them in a run:

- `ChainShape`, `TreeGrows`, `NetworkRules` (BlockTree): what a block's hash commits to, and the rules of a
  network;
- `PlannerTypes`: a request that has passed validation, which `TypeCorrect` of Command shows it has;
- `WalletTypes`, `SelectionTypes`: values are positive, fit the word, and are in ascending order, as
  the code sorts them;
- the other `...Types`: the types of inputs and limits; a value in the listing fits the signed word in
  which the scanner's answer is decoded (`ListingTypes`).

### Recursive functions

Sums, powers, totals, tree levels and fractions are recursive functions of a number (`f[k \in 0..n]`).
Nothing is known of such a function before one with its equation is shown to exist, which is an
induction, and the library's induction theorems take an operator that the provers cannot instantiate.
The proofs go around this: induction is stated of a *set* (`Induction`: a set with 0 and the successors of
its members has every number), from the naturals being well ordered (`NatLessThanWellFounded`, `WFMin`).
Existence is then the set of the numbers up to which there is such a function, and the lemmas named
`...Unfold(s)` give the equations that everything else uses.

### Model-checked only

- *Liveness under fairness.*  `Terminates` of the planner and of the listing: `CallsAreBounded` and
  `ListingsAreBounded` prove that there are finitely many steps, so what TLC adds is that under
  `FairSpec` a step is enabled until the end.  `RecheckFailsClosed`: proved from `Terminates`.
  `ReservationsEnd`: not proved at all, as it rests on fairness throughout.

## Not modelled

- *Wire formats.*  JSON of the RPCs, of the FFI and of the plan; schemas, packaging and test harness.
  They have no behaviour that the properties would see: an answer that does not decode is `Fail`.
- *The libraries*: RPC clients, the incremental Merkle tree, the hash, the signer.  They are the external
  definitions, modelled from how the code uses them.
- *Texts of errors and of the usage*, and which of several errors comes first, beyond its exit code and
  whether there is an answer on stdout.
- *An ignored error of stdout* (`cli.go:597`): the model has it (`broken`), but the code promises nothing
  about it, so there is no property to state.
- *Two commands that write one `--out` file*, and the mode 0600, which `os.WriteFile` gives to new files
  only: nothing in the repository says what users may expect.
- *Two Go callers that share a slice of outputs*, which `Plan` trims in place (`txbuild.go:163`): a data
  race whose writes store equal strings.
- *Amounts beyond the supply.*  `ParseZECToZat` may wrap at the largest whole part that passes its guard
  (`logic.go:293`): the model has it, `AmountsExact` allows it, and no chain has such an amount.

## State of the plan

Done: the planners and their refinement of AtomicPlan, the selection and the consolidation, the listing,
the witness builder, the reservations, the request and the command; each invariant of a passing run as a
theorem; the bounds on the calls of a planning and the steps of a listing.

What could be added:

1. Reservations with planners that make their calls one by one in place of AtomicPlan; the refinement
   theorems say that this would show nothing new about the notes of a plan, but a planner that fails late
   could be interleaved with releases.
2. The safety part of `ReservationsEnd`: a reservation that the chain has outlived can be released by any
   coordinator that looks at it.
