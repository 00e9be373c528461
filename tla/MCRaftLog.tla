------------------------------ MODULE MCRaftLog ------------------------------
(* RaftLog for TLC: servers are interchangeable.                           *)
EXTENDS RaftLog, TLC

Symmetry == Permutations(Server)
=============================================================================
