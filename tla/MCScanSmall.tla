---------------------------- MODULE MCScanSmall ----------------------------
(***************************************************************************)
(* The chain of MCChain cut to its genesis block, a1 and the fork above    *)
(* it, for the liveness properties of the scanner planner.                 *)
(***************************************************************************)
EXTENDS ScanPlanner, MCChain

SmallBlocks == {"m0", "a1", "a2", "b2"}
Cut(f) == [b \in SmallBlocks |-> f[b]]

SmallHeight == Cut(MCHeight)
SmallChain == Cut(MCChainOf)
SmallActs == Cut(MCActs)
SmallTree == Cut(MCTree)
SmallSpends == Cut(MCSpends)
SmallNetwork == Cut(MCNetwork)
SmallNextBranch == Cut(MCNextBranch)
=============================================================================
