-------------------------- MODULE MCReplication2PC --------------------------
(* Replication2PC for TLC: coordinators are interchangeable, and so are    *)
(* the nodes that never coordinate.                                        *)
EXTENDS Replication2PC, TLC

Symmetry == Permutations(Coordinators) \cup Permutations(Nodes \ Coordinators)
=============================================================================
