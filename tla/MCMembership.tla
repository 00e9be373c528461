----------------------------- MODULE MCMembership ----------------------------
(* Membership for TLC: small clusters and what happens to each of them.    *)
EXTENDS Membership

Trio == {1, 2, 3}
Pair == {1, 2}
Cases ==
  {<<Trio, Trio, f>> : f \in {{"leave"}, {"leave", "slow"}, {"leave", "crash"}, {"leave", "start"}}}
    \cup {<<Pair, Trio, f>> : f \in {{"leave", "wait"}, {"slow"}, {"admin"}}}
    \cup {<<{1}, Trio, {}>>, <<{}, Pair, {}>>, <<{}, Pair, {"slow"}>>}
=============================================================================
