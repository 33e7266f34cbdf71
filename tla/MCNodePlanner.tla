--------------------------- MODULE MCNodePlanner ---------------------------
EXTENDS NodePlanner, MCChain
=============================================================================
