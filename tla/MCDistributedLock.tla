------------------------- MODULE MCDistributedLock -------------------------
(* Small instances of DistributedLock for TLC.                             *)
EXTENDS DistributedLock, TLC

Symmetry == Permutations(Nodes) \cup Permutations(Requests)
=============================================================================
