-------------------------- MODULE MCClusterManager ---------------------------
(* ClusterManager for TLC.                                                 *)
EXTENDS ClusterManager

CONSTANTS p1, p2, p3
Pair == {p1, p2}
Cases ==
  {<<Peer, {"refuse", "hang"}>>, <<{p1}, {"slow", "calls"}>>, <<{p1}, {"hang", "calls"}>>,
   <<Pair, {"sync"}>>, <<Pair, {"sync", "tls"}>>, <<Pair, {"tls", "refuse"}>>, <<{}, {"calls", "hang"}>>}
=============================================================================
