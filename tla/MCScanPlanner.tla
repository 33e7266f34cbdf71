--------------------------- MODULE MCScanPlanner ---------------------------
EXTENDS ScanPlanner, MCChain
=============================================================================
