----------------------- MODULE ClusterManagerProofs ------------------------
(***************************************************************************)
(* Proofs about ClusterManager: has_quorum says what the health of the     *)
(* peers says, and so does the last event, for every set of peers.         *)
(***************************************************************************)
EXTENDS ClusterManager, FiniteSetTheorems, TLAPS

AnyAddress == Address \cup {""}
PeerState ==
  [health : {"unknown", "healthy", "degraded", "unreachable"}, failures : 0 .. FailureThreshold,
   address : AnyAddress]
Answer == {"error", "fast", "late", "false", "timeout"}
Result == Answer \cup {""}
BeatState ==
  [step : {"off", "tick", "next", "asked", "reconnect", "sent"}, todo : SUBSET (Peer \X AnyAddress),
   node : SUBSET Peer, address : AnyAddress, result : Result, send : SUBSET BOOLEAN]
CallState ==
  [op : {"none", "discover", "adding", "added", "removing", "removed"}, rest : SUBSET Peer,
   node : SUBSET Peer, address : AnyAddress, old : BOOLEAN]

(* Types, as far as the quorum depends on them.                            *)
TypeInv ==
  /\ peer \in [Peer -> {"up", "slow", "refuse", "hang"}]
  /\ DOMAIN nodes \subseteq Peer /\ nodes \in [DOMAIN nodes -> PeerState]
  /\ has_quorum \in BOOLEAN /\ seen \in BOOLEAN /\ crossed \in BOOLEAN
  /\ heartbeat \in BeatState
  /\ call \in CallState

(* A peer with failures is unreachable.                                    *)
FailedUnreachable == \A p \in DOMAIN nodes : nodes[p].failures > 0 => nodes[p].health = "unreachable"

(* While peers are discovered there is no heartbeat, and none is removed.  *)
Discovering == call.op = "discover" \/ call.rest # {}
DiscoversFirst ==
  /\ Discovering => heartbeat.step = "off"
  /\ call.op \in {"none", "removing", "removed"} => call.rest = {}

(* Outside discovery the quorum is that of the peers.                      *)
QuorumOfPeers ==
  FailureThreshold > 1 /\ DOMAIN nodes # {} /\ ~Discovering => has_quorum = check_quorum(nodes)

(* What a subscriber does not know of the quorum is in an event to come.   *)
SendsWhenSent == heartbeat.send # {} => heartbeat.step = "sent"
Returning == call.op \in {"added", "removed"}
SeenOrSent ==
  ~crossed =>
    /\ heartbeat.send \in {{}, {has_quorum}}
    /\ \/ seen = has_quorum
       \/ heartbeat.send = {has_quorum}
       \/ Returning /\ call.old # has_quorum

QuorumInv ==
  TypeInv /\ FailedUnreachable /\ DiscoversFirst /\ QuorumOfPeers /\ SendsWhenSent /\ SeenOrSent
-----------------------------------------------------------------------------
(* The states of nodes.                                                    *)

(* Min of two numbers.                                                     *)
LEMMA MinOfTwo ==
  ASSUME NEW a \in Nat, NEW b \in Nat
  PROVE  /\ Min({a, b}) \in {a, b} /\ Min({a, b}) <= a /\ Min({a, b}) <= b
<1>1. \E x \in {a, b} : \A y \in {a, b} : x <= y
  OBVIOUS
<1>2. Min({a, b}) \in {a, b} /\ \A y \in {a, b} : Min({a, b}) <= y
  BY <1>1 DEF Min
<1> QED BY <1>2

(* A check that fails counts up to the threshold.                          *)
LEMMA UnreachableState ==
  ASSUME NEW s \in PeerState
  PROVE  /\ mark_unreachable(s) \in PeerState
         /\ mark_unreachable(s).health = "unreachable"
         /\ mark_unreachable(s).failures >= FailureThreshold => s.failures >= FailureThreshold - 1
<1>1. s.failures + 1 \in Nat /\ FailureThreshold \in Nat /\ FailureThreshold > 0 /\ s.failures \in Nat
  BY ThresholdAssumption DEF PeerState
<1> DEFINE m == Min({s.failures + 1, FailureThreshold})
<1>2. m \in {s.failures + 1, FailureThreshold} /\ m <= s.failures + 1 /\ m <= FailureThreshold
  BY <1>1, MinOfTwo
<1> HIDE DEF m
<1>3. m \in 0 .. FailureThreshold /\ (m >= FailureThreshold => s.failures >= FailureThreshold - 1)
  BY <1>1, <1>2
<1>4. mark_unreachable(s) = [s EXCEPT !.health = "unreachable", !.failures = m]
  BY DEF mark_unreachable, m
<1> QED BY <1>3, <1>4 DEF PeerState

(* The states that health checks make are states, and failures are kept    *)
(* for unreachable peers only.                                             *)
LEMMA StatesMade ==
  /\ \A a \in AnyAddress : NodeState(a) \in PeerState /\ NodeState(a).failures = 0
  /\ \A a \in AnyAddress, r \in Answer :
       /\ FirstState(a, r) \in PeerState
       /\ FirstState(a, r).failures > 0 => FirstState(a, r).health = "unreachable"
  /\ \A s \in PeerState, r \in Result :
       /\ NextState(s, r) \in PeerState
       /\ NextState(s, r).failures > 0 => NextState(s, r).health = "unreachable"
<1>1. ASSUME NEW a \in AnyAddress PROVE NodeState(a) \in PeerState /\ NodeState(a).failures = 0
  BY ThresholdAssumption DEF NodeState, PeerState
<1>2. ASSUME NEW s \in PeerState
      PROVE  /\ mark_healthy(s) \in PeerState /\ mark_healthy(s).failures = 0
             /\ mark_degraded(s) \in PeerState /\ mark_degraded(s).failures = 0
  <2>1. 0 \in 0 .. FailureThreshold
    BY ThresholdAssumption
  <2> QED BY <2>1 DEF mark_healthy, mark_degraded, PeerState
<1>3. ASSUME NEW a \in AnyAddress, NEW r \in Answer
      PROVE  /\ FirstState(a, r) \in PeerState
             /\ FirstState(a, r).failures > 0 => FirstState(a, r).health = "unreachable"
  <2>1. FirstState(a, r) \in
          {mark_healthy(NodeState(a)), mark_degraded(NodeState(a)), mark_unreachable(NodeState(a))}
    BY DEF FirstState
  <2> QED BY <1>1, <1>2, <2>1, UnreachableState
<1>4. ASSUME NEW s \in PeerState, NEW r \in Result
      PROVE  /\ NextState(s, r) \in PeerState
             /\ NextState(s, r).failures > 0 => NextState(s, r).health = "unreachable"
  <2>1. NextState(s, r) \in {mark_healthy(s), mark_degraded(s), mark_unreachable(s)}
    BY DEF NextState
  <2> QED BY <1>2, <2>1, UnreachableState
<1> QED BY <1>1, <1>3, <1>4

(* A health check has an answer.                                           *)
LEMMA Answers ==
  ASSUME TypeInv, NEW p \in Peer
  PROVE  health_check(p) \subseteq Answer
BY DEF health_check, Answer

(* Maps of states with one state more, less or another.                    *)
States(ns) ==
  /\ DOMAIN ns \subseteq Peer /\ ns \in [DOMAIN ns -> PeerState]
  /\ \A p \in DOMAIN ns : ns[p].failures > 0 => ns[p].health = "unreachable"

(* Adding and removing a node keeps the states of the others.              *)
LEMMA StatesKept ==
  ASSUME NEW ns, States(ns), NEW p \in Peer
  PROVE  /\ States(Without(ns, p))
         /\ \A s \in PeerState : (s.failures > 0 => s.health = "unreachable")
              => States(With(ns, p, s)) /\ States([ns EXCEPT ![p] = s])
<1>1. States(Without(ns, p))
  BY DEF States, Without
<1>2. ASSUME NEW s \in PeerState, s.failures > 0 => s.health = "unreachable"
      PROVE  States(With(ns, p, s)) /\ States([ns EXCEPT ![p] = s])
  <2>1. States(With(ns, p, s))
    BY <1>2 DEF States, With
  <2>2. States([ns EXCEPT ![p] = s])
    BY <1>2 DEF States
  <2> QED BY <2>1, <2>2
<1> QED BY <1>1, <1>2
-----------------------------------------------------------------------------
(* The quorum.                                                             *)

Available(ns) == {p \in DOMAIN ns : is_available(ns[p])}

(* A quorum depends on who is known and who is available.                  *)
LEMMA SameQuorum ==
  ASSUME NEW a, NEW b, DOMAIN a = DOMAIN b, Available(a) = Available(b)
  PROVE  check_quorum(a) = check_quorum(b)
BY DEF check_quorum, available_node_count, total_node_count, Available

(* can_remove_node lets no node go that takes the quorum with it.          *)
LEMMA RemovalKeepsQuorum ==
  ASSUME TypeInv, NEW p \in Peer, check_quorum(nodes), can_remove_node(p)
  PROVE  check_quorum(Without(nodes, p))
<1> DEFINE w == Without(nodes, p)
           D == DOMAIN nodes
           A == Available(nodes)
<1>1. IsFiniteSet(D) /\ IsFiniteSet(A) /\ A \subseteq D
  <2>1. IsFiniteSet(D)
    BY PeerAssumption, FS_Subset DEF TypeInv
  <2>2. A \subseteq D
    BY DEF Available
  <2> QED BY <2>1, <2>2, FS_Subset
<1>2. DOMAIN w = D \ {p} /\ Available(w) = A \ {p}
  BY DEF Without, Available
<1>3. /\ Cardinality(D) \in Nat /\ Cardinality(A) \in Nat
      /\ p \in D => Cardinality(D \ {p}) = Cardinality(D) - 1
      /\ p \in A => Cardinality(A \ {p}) = Cardinality(A) - 1
      /\ p \notin A => A \ {p} = A
      /\ p \notin D => D \ {p} = D
  <2> HIDE DEF D, A
  <2>1. Cardinality(D) \in Nat /\ Cardinality(A) \in Nat
    BY <1>1, FS_CardinalityType
  <2>2. p \in D => Cardinality(D \ {p}) = Cardinality(D) - 1
    BY <1>1, FS_RemoveElement
  <2>3. p \in A => Cardinality(A \ {p}) = Cardinality(A) - 1
    BY <1>1, FS_RemoveElement
  <2> QED BY <2>1, <2>2, <2>3
<1>4. Cardinality(A) + 1 > (Cardinality(D) + 1) \div 2
  BY DEF check_quorum, available_node_count, total_node_count, Available
<1>5. /\ check_quorum(w) <=> Cardinality(A \ {p}) + 1 > (Cardinality(D \ {p}) + 1) \div 2
  BY <1>2 DEF check_quorum, available_node_count, total_node_count, Available
<1>6. p \in A => Cardinality(A) - 1 + 1 > (Cardinality(D) + 1 - 1) \div 2
  <2>1. p \in A => p \in DOMAIN nodes /\ is_available(nodes[p])
    BY DEF Available
  <2>2. available_node_count(nodes) = Cardinality(A) /\ total_node_count(nodes) = Cardinality(D) + 1
    BY DEF available_node_count, total_node_count, Available
  <2>3. p \in A => available_node_count(nodes) - 1 + 1 > (total_node_count(nodes) - 1) \div 2
    <3> HIDE DEF A
    <3> QED BY <2>1, Zenon DEF can_remove_node
  <2> HIDE DEF A, D
  <2> QED BY <1>3, <2>2, <2>3
<1> SUFFICES check_quorum(w)
  OBVIOUS
<1> HIDE DEF w, D, A
<1>7. CASE p \notin D
  BY <1>1, <1>3, <1>4, <1>5, <1>7
<1>8. CASE p \in D /\ p \notin A
  <2> DEFINE n == Cardinality(D)
             a == Cardinality(A)
  <2>1. n \in Nat /\ a \in Nat /\ a + 1 > (n + 1) \div 2
    BY <1>3, <1>4
  <2>a. Cardinality(D \ {p}) + 1 = n /\ Cardinality(A \ {p}) = a
    BY <1>3, <1>8
  <2>2. check_quorum(w) <=> a + 1 > n \div 2
    BY <1>5, <2>a
  <2> HIDE DEF n, a
  <2>3. n \div 2 <= (n + 1) \div 2 /\ n \div 2 \in Int /\ (n + 1) \div 2 \in Int
    BY <2>1, Z3
  <2> QED BY <2>1, <2>2, <2>3
<1>9. CASE p \in D /\ p \in A
  BY <1>3, <1>4, <1>5, <1>6, <1>9
<1> QED BY <1>7, <1>8, <1>9
-----------------------------------------------------------------------------
(* What the actions do, in terms of the invariant.                         *)

Beats(step, send) == heartbeat' \in BeatState /\ heartbeat'.step = step /\ heartbeat'.send = send
Calling(op, rest) == call' \in CallState /\ call'.op = op /\ call'.rest = rest

(* Nothing that the quorum depends on.                                     *)
Aside == UNCHANGED <<nodes, has_quorum, seen, crossed, call, heartbeat>>

(* The heartbeat goes on without a change.                                 *)
Beating ==
  /\ heartbeat.send = {} /\ \E step \in {"off", "tick", "next", "asked"} : Beats(step, {})
  /\ heartbeat.step = "off" => call.op = "none" \/ heartbeat'.step = "off"
  /\ UNCHANGED <<nodes, has_quorum, seen, crossed, call>>

(* It is stopped with an event that is not sent.                           *)
Stopped ==
  /\ crossed' /\ Beats("off", {})
  /\ UNCHANGED <<nodes, has_quorum, seen, call>>

Sending ==
  /\ heartbeat.step = "sent" /\ Beats("next", {})
  /\ seen' = IF heartbeat.send = {} THEN seen ELSE TRUE \in heartbeat.send
  /\ UNCHANGED <<nodes, has_quorum, crossed, call>>

(* It has applied an answer, with the quorum or before it reconnects.      *)
Applied ==
  \E p \in DOMAIN nodes, r \in Result :
    LET s == NextState(nodes[p], r)
        ns == [nodes EXCEPT ![p] = s]
    IN /\ heartbeat.step = "asked"
       /\ \/ /\ ~(r = "error" /\ s.failures >= FailureThreshold)
             /\ UpdateQuorum(ns)
             /\ Beats("sent", IF has_quorum' # has_quorum THEN {has_quorum'} ELSE {})
          \/ /\ r = "error" /\ s.failures >= FailureThreshold /\ nodes' = ns
             /\ Beats("reconnect", {}) /\ UNCHANGED <<has_quorum, crossed>>
       /\ UNCHANGED <<seen, call>>

(* A call begins, changes the nodes, or returns.                           *)
Begins ==
  /\ call.op \in {"none", "discover"}
  /\ \E op \in {"adding", "removing"}, rest \in SUBSET Peer :
       /\ Calling(op, rest)
       /\ rest # {} <=> call.op = "discover"
       /\ op = "removing" => rest = {}
  /\ UNCHANGED <<nodes, has_quorum, seen, crossed, heartbeat>>
ChangesNodes ==
  /\ call.op \in {"adding", "removing"}
  /\ \E ns : \E op \in {"added", "removed"} :
       /\ States(ns) /\ UpdateQuorum(ns) /\ Calling(op, call.rest) /\ call'.old = has_quorum
       /\ op = "removed" => call.op = "removing"
  /\ UNCHANGED <<seen, heartbeat>>
Returns ==
  /\ Returning
  /\ seen' = IF call.old # has_quorum THEN has_quorum ELSE seen
  /\ \/ call.rest = {} /\ Calling("none", {})
     \/ call.rest # {} /\ \E rest \in SUBSET Peer : Calling("discover", rest)
  /\ UNCHANGED <<nodes, has_quorum, crossed, heartbeat>>

(* Discovery adds a node it cannot connect to, or ends.                    *)
AddsUnknown ==
  /\ call.op = "discover" /\ (\E rest \in SUBSET Peer : Calling("discover", rest))
  /\ States(nodes') /\ UNCHANGED <<has_quorum, seen, crossed, heartbeat>>
Discovered ==
  /\ call.op = "discover" /\ UpdateQuorum(nodes) /\ Calling("none", {})
  /\ seen' = IF has_quorum' # has_quorum THEN has_quorum' ELSE seen
  /\ UNCHANGED heartbeat

Kinds ==
  \/ Aside \/ Beating \/ Stopped \/ Sending \/ Applied \/ Begins \/ ChangesNodes \/ Returns
  \/ AddsUnknown \/ Discovered

(* A fresh heartbeat, and one that goes on to the next node.               *)
LEMMA BeatTypes ==
  ASSUME TypeInv
  PROVE  /\ \A step \in {"off", "tick", "next"} :
              Beat(step) \in BeatState /\ Beat(step).step = step /\ Beat(step).send = {}
         /\ NextNode \in BeatState /\ NextNode.step = "next" /\ NextNode.send = {}
<1>1. \A step \in {"off", "tick", "next"} :
        Beat(step) \in BeatState /\ Beat(step).step = step /\ Beat(step).send = {}
  BY DEF Beat, BeatState, Result, AnyAddress
<1>2. heartbeat \in BeatState
  BY DEF TypeInv
<1>3. NextNode \in BeatState /\ NextNode.step = "next" /\ NextNode.send = {}
  BY <1>2 DEF NextNode, BeatState, Result, AnyAddress
<1> QED BY <1>1, <1>3

(* No call.                                                                *)
LEMMA NoCallType == NoCall \in CallState /\ NoCall.op = "none" /\ NoCall.rest = {}
BY DEF NoCall, CallState, AnyAddress

(* The steps of the heartbeat.                                             *)
LEMMA HeartbeatKinds ==
  ASSUME QuorumInv, Heartbeat \/ stop_heartbeat
  PROVE  Kinds
<1>0. TypeInv /\ heartbeat \in BeatState
  BY DEF QuorumInv, TypeInv
<1>a. heartbeat.step # "sent" => heartbeat.send = {}
  BY DEF QuorumInv, SendsWhenSent
<1>1. CASE start_heartbeat
  <2>1. Beats("tick", {})
    BY <1>0, <1>1, BeatTypes DEF start_heartbeat, Beats
  <2>2. Beating
    BY <1>1, <1>a, <2>1 DEF start_heartbeat, Beating, BeatFrame, stateVars
  <2> QED BY <2>2 DEF Kinds
<1>2. CASE stop_heartbeat
  <2>1. Beats("off", {})
    BY <1>0, <1>2, BeatTypes DEF stop_heartbeat, Beats
  <2>2. UNCHANGED <<nodes, has_quorum, seen, call>> /\ crossed' = (crossed \/ heartbeat.send # {})
    BY <1>2 DEF stop_heartbeat, stateVars
  <2>3. CASE heartbeat.send # {}
    BY <2>1, <2>2, <2>3 DEF Stopped, Kinds
  <2>4. CASE heartbeat.send = {}
    <3>1. crossed' = crossed
      BY <1>0, <2>2, <2>4 DEF TypeInv
    <3>2. heartbeat'.step = "off"
      BY <2>1 DEF Beats
    <3> QED BY <2>1, <2>2, <2>4, <3>1, <3>2 DEF Beating, Kinds
  <2> QED BY <2>3, <2>4
<1>3. CASE Tick
  <2>1. Beats("next", {})
    <3>0. {<<p, nodes[p].address>> : p \in DOMAIN nodes} \subseteq Peer \X AnyAddress
      BY <1>0 DEF TypeInv, PeerState
    <3>1. [Beat("next") EXCEPT !.todo = {<<p, nodes[p].address>> : p \in DOMAIN nodes}] \in BeatState
      BY <1>0, <3>0, BeatTypes DEF BeatState
    <3> QED BY <1>0, <1>3, <3>1, BeatTypes DEF Tick, Beats, BeatState
  <2>2. Beating
    BY <1>3, <1>a, <2>1 DEF Tick, Beating, BeatFrame, stateVars
  <2> QED BY <2>2 DEF Kinds
<1>4. CASE RoundOver
  <2>1. Beats("tick", {})
    BY <1>0, <1>4, BeatTypes DEF RoundOver, Beats
  <2>2. Beating
    BY <1>4, <1>a, <2>1 DEF RoundOver, Beating, BeatFrame, stateVars
  <2> QED BY <2>2 DEF Kinds
<1>5. CASE SendEvents
  <2>1. Beats("next", {})
    BY <1>0, <1>5, BeatTypes DEF SendEvents, Beats
  <2>2. Sending
    BY <1>5, <2>1 DEF SendEvents, Sending, BeatFrame, stateVars
  <2> QED BY <2>2 DEF Kinds
<1>6. ASSUME NEW p \in Peer, NEW a \in Address, Ask(p, a) PROVE Kinds
  <2>1. PICK r \in health_check(p) :
          heartbeat' = [heartbeat EXCEPT !.step = "asked", !.todo = @ \ {<<p, a>>}, !.node = {p},
                                         !.address = a, !.result = r]
    BY <1>6 DEF Ask
  <2>2. r \in Answer
    BY <1>0, Answers
  <2>3. heartbeat.send = {} /\ heartbeat.step = "next"
    BY <1>6, <1>a DEF Ask
  <2>4. Beats("asked", {})
    BY <1>0, <2>1, <2>2, <2>3 DEF Beats, BeatState, Result, AnyAddress
  <2>5. Beating
    BY <1>6, <2>3, <2>4 DEF Ask, Beating, BeatFrame, stateVars
  <2> QED BY <2>5 DEF Kinds
<1>7. ASSUME NEW p \in Peer, Reconnect(p) PROVE Kinds
  <2>1. Beats("next", {})
    BY <1>0, <1>7, BeatTypes DEF Reconnect, Beats
  <2>2. Beating
    BY <1>7, <1>a, <2>1 DEF Reconnect, Beating, BeatFrame, stateVars
  <2> QED BY <2>2 DEF Kinds
<1>8. ASSUME NEW p \in Peer, Apply(p) PROVE Kinds
  <2>0. heartbeat.step = "asked" /\ heartbeat.send = {} /\ UNCHANGED <<seen, call>>
    BY <1>8, <1>a DEF Apply, BeatFrame
  <2>1. CASE p \notin DOMAIN nodes
    <3>1. Beats("next", {})
      BY <1>0, <1>8, <2>1, BeatTypes DEF Apply, Beats
    <3>2. Beating
      BY <1>8, <2>0, <2>1, <3>1 DEF Apply, Beating, stateVars
    <3> QED BY <3>2 DEF Kinds
  <2>2. CASE p \in DOMAIN nodes
    <3> DEFINE r == heartbeat.result
               s == NextState(nodes[p], r)
               ns == [nodes EXCEPT ![p] = s]
               restarts == r = "error" /\ s.failures >= FailureThreshold
    <3>0. r \in Result
      BY <1>0 DEF BeatState
    <3>1. restarts <=> Reconnects(p, s)
      BY DEF Reconnects
    <3>2. CASE restarts
      <4>1. /\ nodes' = ns /\ heartbeat' = [heartbeat EXCEPT !.step = "reconnect"]
            /\ UNCHANGED <<has_quorum, crossed>>
        BY <1>8, <2>2, <3>1, <3>2 DEF Apply
      <4>2. Beats("reconnect", {})
        BY <1>0, <2>0, <4>1 DEF Beats, BeatState
      <4>3. Applied
        BY <2>0, <2>2, <3>0, <3>2, <4>1, <4>2 DEF Applied
      <4> QED BY <4>3 DEF Kinds
    <3>3. CASE ~restarts
      <4>1. HealthChanged(ns)
        BY <1>8, <2>2, <3>1, <3>3 DEF Apply
      <4> DEFINE send == IF has_quorum' # has_quorum THEN {has_quorum'} ELSE {}
      <4>2. UpdateQuorum(ns) /\ heartbeat' = [heartbeat EXCEPT !.step = "sent", !.send = send]
        BY <4>1 DEF HealthChanged
      <4>3. has_quorum' \in BOOLEAN
        BY <4>2 DEF UpdateQuorum, check_quorum
      <4>4. send \in SUBSET BOOLEAN
        BY <4>3
      <4> HIDE DEF send
      <4>5. Beats("sent", send)
        BY <1>0, <4>2, <4>4 DEF Beats, BeatState
      <4>6. Applied
        BY <2>0, <2>2, <3>0, <3>3, <4>2, <4>5 DEF Applied, send
      <4> QED BY <4>6 DEF Kinds
    <3> QED BY <3>2, <3>3
  <2> QED BY <2>1, <2>2
<1> QED BY <1>1, <1>2, <1>3, <1>4, <1>5, <1>6, <1>7, <1>8 DEF Heartbeat

(* The steps at which calls end.                                           *)
LEMMA ReturnKinds ==
  ASSUME QuorumInv, CallReturns \/ discover_peers
  PROVE  Kinds
<1>0. TypeInv /\ call \in CallState /\ has_quorum \in BOOLEAN
  BY DEF QuorumInv, TypeInv
<1>b. call.op \in {"none", "removing", "removed"} => call.rest = {}
  BY DEF QuorumInv, DiscoversFirst
<1>1. CASE CallReturns
  <2>1. CASE call.rest = {}
    <3>1. Calling("none", {})
      BY <1>1, <2>1, NoCallType DEF CallReturns, Calling
    <3>2. Returns
      BY <1>1, <2>1, <3>1 DEF CallReturns, Returns, Returning, stateVars
    <3> QED BY <3>2 DEF Kinds
  <2>2. CASE call.rest # {}
    <3>1. call.op = "added" /\ call' = [NoCall EXCEPT !.op = "discover", !.rest = call.rest \ call.node]
      BY <1>1, <1>b, <2>2 DEF CallReturns
    <3>2. call.rest \ call.node \in SUBSET Peer
      BY <1>0 DEF CallState
    <3>3. Calling("discover", call.rest \ call.node)
      BY <3>1, <3>2 DEF Calling, NoCall, CallState, AnyAddress
    <3>4. Returns
      BY <1>1, <2>2, <3>2, <3>3 DEF CallReturns, Returns, Returning, stateVars
    <3> QED BY <3>4 DEF Kinds
  <2> QED BY <2>1, <2>2
<1>2. CASE discover_peers
  <2>1. Calling("none", {})
    BY <1>2, NoCallType DEF discover_peers, Calling
  <2>2. Discovered
    BY <1>2, <2>1 DEF discover_peers, Discovered
  <2> QED BY <2>2 DEF Kinds
<1> QED BY <1>1, <1>2

(* The steps of calls about a peer.                                        *)
LEMMA CallKinds ==
  ASSUME QuorumInv, NEW p \in Peer,
         \/ NodeAdded(p) \/ NodeRemoved(p) \/ DiscoverNext(p) \/ remove_node(p) \/ DiscoverFails(p)
         \/ \E a \in Address : AddCalled(p, a)
  PROVE  Kinds
<1>0. TypeInv /\ call \in CallState /\ has_quorum \in BOOLEAN
  BY DEF QuorumInv, TypeInv
<1>a. States(nodes)
  BY DEF QuorumInv, TypeInv, FailedUnreachable, States
<1>3. CASE NodeAdded(p)
  <2>1. PICK r \in health_check(p) : UpdateQuorum(With(nodes, p, FirstState(call.address, r)))
    BY <1>3 DEF NodeAdded
  <2>2. r \in Answer /\ call.address \in AnyAddress
    BY <1>0, Answers DEF CallState
  <2>3. States(With(nodes, p, FirstState(call.address, r)))
    BY <1>a, <2>2, StatesMade, StatesKept
  <2>4. call.op = "adding" /\ call' = [call EXCEPT !.op = "added", !.old = has_quorum]
    BY <1>3 DEF NodeAdded
  <2>5. Calling("added", call.rest) /\ call'.old = has_quorum
    BY <1>0, <2>4 DEF Calling, CallState
  <2>6. UNCHANGED <<seen, heartbeat>>
    BY <1>3 DEF NodeAdded
  <2>7. ChangesNodes
    <3> DEFINE ns == With(nodes, p, FirstState(call.address, r))
    <3>1. States(ns) /\ UpdateQuorum(ns)
      BY <2>1, <2>3
    <3> HIDE DEF ns
    <3>2. call.op \in {"adding", "removing"} /\ "added" \in {"added", "removed"} /\ "added" # "removed"
      BY <2>4
    <3>3. \E op \in {"added", "removed"} :
            /\ States(ns) /\ UpdateQuorum(ns) /\ Calling(op, call.rest) /\ call'.old = has_quorum
            /\ op = "removed" => call.op = "removing"
      BY <2>5, <3>1, <3>2
    <3> QED BY <2>6, <3>2, <3>3 DEF ChangesNodes
  <2> QED BY <2>7 DEF Kinds
<1>4. CASE NodeRemoved(p)
  <2>1. UpdateQuorum(Without(nodes, p)) /\ UNCHANGED <<seen, heartbeat>>
    BY <1>4 DEF NodeRemoved
  <2>3. States(Without(nodes, p))
    BY <1>a, StatesKept
  <2>4. call.op = "removing" /\ call' = [call EXCEPT !.op = "removed", !.old = has_quorum]
    BY <1>4 DEF NodeRemoved
  <2>5. Calling("removed", call.rest) /\ call'.old = has_quorum
    BY <1>0, <2>4 DEF Calling, CallState
  <2>7. ChangesNodes
    <3> DEFINE ns == Without(nodes, p)
    <3>1. States(ns) /\ UpdateQuorum(ns)
      BY <2>1, <2>3
    <3> HIDE DEF ns
    <3>2. call.op \in {"adding", "removing"} /\ "removed" \in {"added", "removed"} /\ call.op = "removing"
      BY <2>4
    <3>3. \E op \in {"added", "removed"} :
            /\ States(ns) /\ UpdateQuorum(ns) /\ Calling(op, call.rest) /\ call'.old = has_quorum
            /\ op = "removed" => call.op = "removing"
      BY <2>5, <3>1, <3>2
    <3> QED BY <2>1, <3>2, <3>3 DEF ChangesNodes
  <2> QED BY <2>7 DEF Kinds
<1>5. CASE DiscoverNext(p)
  <2>1. call.op = "discover" /\ p \in call.rest
        /\ call' = [call EXCEPT !.op = "adding", !.node = {p}, !.address = "http"]
    BY <1>5 DEF DiscoverNext, add_node
  <2>2. UNCHANGED <<nodes, has_quorum, seen, crossed, heartbeat>>
    BY <1>5 DEF DiscoverNext, add_node, stateVars
  <2>3. Calling("adding", call.rest) /\ call.rest \in SUBSET Peer /\ call.rest # {}
    BY <1>0, <2>1 DEF Calling, CallState, AnyAddress, Address
  <2>4. Begins
    BY <2>1, <2>2, <2>3 DEF Begins
  <2> QED BY <2>4 DEF Kinds
<1>8. ASSUME NEW a \in Address, AddCalled(p, a)
      PROVE  Kinds
  <2>1. call.op = "none" /\ call' = [NoCall EXCEPT !.op = "adding", !.node = {p}, !.address = a]
    BY <1>8 DEF AddCalled, add_node
  <2>2. UNCHANGED <<nodes, has_quorum, seen, crossed, heartbeat>>
    BY <1>8 DEF AddCalled, add_node, stateVars
  <2>3. Calling("adding", {})
    BY <2>1 DEF Calling, CallState, NoCall, AnyAddress
  <2>4. Begins
    BY <2>1, <2>2, <2>3 DEF Begins
  <2> QED BY <2>4 DEF Kinds
<1>6. CASE remove_node(p)
  <2>1. call.op = "none" /\ call' = [NoCall EXCEPT !.op = "removing", !.node = {p}]
    BY <1>6 DEF remove_node
  <2>2. Calling("removing", {})
    BY <2>1 DEF Calling, CallState, NoCall, AnyAddress
  <2>3. Begins
    BY <1>6, <2>1, <2>2 DEF Begins, remove_node, stateVars
  <2> QED BY <2>3 DEF Kinds
<1>7. CASE DiscoverFails(p)
  <2>1. States(With(nodes, p, NodeState("http")))
    <3>1. NodeState("http") \in PeerState /\ NodeState("http").failures = 0
      BY StatesMade DEF AnyAddress, Address
    <3>2. ~(NodeState("http").failures > 0)
      BY <3>1
    <3> QED BY <1>a, <3>1, <3>2, StatesKept
  <2>2. /\ call.op = "discover" /\ nodes' = With(nodes, p, NodeState("http"))
        /\ call' = [call EXCEPT !.rest = @ \ {p}]
    BY <1>7 DEF DiscoverFails
  <2>3. Calling("discover", call.rest \ {p}) /\ call.rest \ {p} \in SUBSET Peer
    BY <1>0, <2>2 DEF Calling, CallState
  <2>4. States(nodes')
    BY <2>1, <2>2
  <2>5. AddsUnknown
    BY <1>7, <2>2, <2>3, <2>4 DEF AddsUnknown, DiscoverFails
  <2> QED BY <2>5 DEF Kinds
<1> QED BY <1>3, <1>4, <1>5, <1>6, <1>7, <1>8

(* Every step is of a kind, and peers keep their type.                     *)
LEMMA NextKinds ==
  ASSUME QuorumInv, Next
  PROVE  Kinds /\ peer' \in [Peer -> {"up", "slow", "refuse", "hang"}]
<1>0. peer \in [Peer -> {"up", "slow", "refuse", "hang"}]
  BY DEF QuorumInv, TypeInv
<1>1. CASE Heartbeat
  <2>1. UNCHANGED peer
    BY <1>1 DEF Heartbeat, start_heartbeat, Tick, RoundOver, SendEvents, Ask, Apply, Reconnect,
               BeatFrame, environment, world
  <2> QED BY <1>0, <1>1, <2>1, HeartbeatKinds
<1>2. CASE stop_heartbeat
  BY <1>0, <1>2, HeartbeatKinds DEF stop_heartbeat, world
<1>3. CASE CallReturns \/ discover_peers
  <2>1. UNCHANGED peer
    BY <1>3 DEF CallReturns, discover_peers, environment, world
  <2> QED BY <1>0, <1>3, <2>1, ReturnKinds
<1>4. ASSUME NEW p \in Peer,
             \/ NodeAdded(p) \/ NodeRemoved(p) \/ DiscoverNext(p) \/ remove_node(p) \/ DiscoverFails(p)
             \/ \E a \in Address : AddCalled(p, a)
      PROVE  Kinds /\ peer' \in [Peer -> {"up", "slow", "refuse", "hang"}]
  <2>1. UNCHANGED peer
    BY <1>4 DEF NodeAdded, NodeRemoved, DiscoverNext, AddCalled, add_node, remove_node, DiscoverFails,
               environment, world
  <2> QED BY <1>0, <1>4, <2>1, CallKinds
<1>5. CASE Sync
  BY <1>0, <1>5 DEF Sync, SyncStarts, sync_nodes, SyncFrame, environment, world, stateVars, Aside, Kinds
<1>6. CASE CertsAppear
  BY <1>0, <1>6 DEF CertsAppear, stateVars, Aside, Kinds
<1>7. ASSUME NEW p \in Peer, PeerChanges(p) \/ MembershipChanges(p)
      PROVE  Kinds /\ peer' \in [Peer -> {"up", "slow", "refuse", "hang"}]
  <2>1. Aside
    BY <1>7 DEF PeerChanges, MembershipChanges, stateVars, Aside
  <2>2. peer' \in [Peer -> {"up", "slow", "refuse", "hang"}]
    BY <1>0, <1>7 DEF PeerChanges, MembershipChanges
  <2> QED BY <2>1, <2>2 DEF Kinds
<1> QED BY <1>1, <1>2, <1>3, <1>4, <1>5, <1>6, <1>7 DEF Next, Calls
-----------------------------------------------------------------------------
(* Every kind of step keeps the invariant.                                 *)

(* A failed check of a peer that is given up finds it unreachable.         *)
LEMMA GivenUp ==
  ASSUME QuorumInv, FailureThreshold > 1, NEW p \in DOMAIN nodes,
         NextState(nodes[p], "error").failures >= FailureThreshold
  PROVE  check_quorum([nodes EXCEPT ![p] = NextState(nodes[p], "error")]) = check_quorum(nodes)
<1> DEFINE s == NextState(nodes[p], "error")
           ns == [nodes EXCEPT ![p] = s]
<1>1. nodes[p] \in PeerState /\ nodes \in [DOMAIN nodes -> PeerState]
  BY DEF QuorumInv, TypeInv
<1>2. s = mark_unreachable(nodes[p])
  BY DEF NextState
<1>3. s.health = "unreachable" /\ nodes[p].failures >= FailureThreshold - 1
  BY <1>1, <1>2, UnreachableState
<1>4. nodes[p].failures > 0
  BY <1>1, <1>3, ThresholdAssumption DEF PeerState
<1>5. nodes[p].health = "unreachable"
  BY <1>4 DEF QuorumInv, FailedUnreachable
<1>6. ~is_available(s) /\ ~is_available(nodes[p])
  BY <1>3, <1>5 DEF is_available
<1> HIDE DEF s
<1>7. DOMAIN ns = DOMAIN nodes /\ Available(ns) = Available(nodes)
  BY <1>1, <1>6 DEF Available
<1> QED BY <1>7, SameQuorum DEF s

(* The states of the nodes after an answer.                                *)
LEMMA AnswerStates ==
  ASSUME QuorumInv, NEW p \in DOMAIN nodes, NEW r \in Result
  PROVE  States([nodes EXCEPT ![p] = NextState(nodes[p], r)])
<1>1. States(nodes) /\ p \in Peer /\ nodes[p] \in PeerState
  BY DEF QuorumInv, TypeInv, FailedUnreachable, States
<1> QED BY <1>1, StatesMade, StatesKept

(* Types, and what is said of failures.                                    *)
LEMMA TypesKept ==
  ASSUME QuorumInv, Kinds, peer' \in [Peer -> {"up", "slow", "refuse", "hang"}]
  PROVE  TypeInv' /\ FailedUnreachable'
<1>0. /\ has_quorum \in BOOLEAN /\ seen \in BOOLEAN /\ crossed \in BOOLEAN
      /\ heartbeat \in BeatState /\ call \in CallState /\ States(nodes)
  BY DEF QuorumInv, TypeInv, FailedUnreachable, States
<1>1. States(nodes') /\ has_quorum' \in BOOLEAN /\ crossed' \in BOOLEAN
  <2>1. ASSUME NEW ns, States(ns), UpdateQuorum(ns)
        PROVE  States(nodes') /\ has_quorum' \in BOOLEAN /\ crossed' \in BOOLEAN
    BY <1>0, <2>1 DEF UpdateQuorum, check_quorum
  <2>2. CASE Aside \/ Beating \/ Sending \/ Begins \/ Returns
    BY <1>0, <2>2 DEF Aside, Beating, Sending, Begins, Returns
  <2>3. CASE Stopped
    BY <1>0, <2>3 DEF Stopped
  <2>4. CASE Applied
    <3>1. PICK p \in DOMAIN nodes, r \in Result :
            \/ UpdateQuorum([nodes EXCEPT ![p] = NextState(nodes[p], r)])
            \/ nodes' = [nodes EXCEPT ![p] = NextState(nodes[p], r)] /\ UNCHANGED <<has_quorum, crossed>>
      BY <2>4 DEF Applied
    <3>2. States([nodes EXCEPT ![p] = NextState(nodes[p], r)])
      BY AnswerStates
    <3> QED BY <1>0, <2>1, <3>1, <3>2
  <2>5. CASE ChangesNodes
    BY <2>1, <2>5 DEF ChangesNodes
  <2>6. CASE AddsUnknown
    BY <1>0, <2>6 DEF AddsUnknown
  <2>7. CASE Discovered
    BY <1>0, <2>1, <2>7 DEF Discovered
  <2> QED BY <2>2, <2>3, <2>4, <2>5, <2>6, <2>7 DEF Kinds
<1>2. seen' \in BOOLEAN
  <2>1. CASE UNCHANGED seen
    BY <1>0, <2>1
  <2>2. CASE Sending
    <3>1. seen' = seen \/ seen' = (TRUE \in heartbeat.send)
      BY <2>2 DEF Sending
    <3>2. (TRUE \in heartbeat.send) \in BOOLEAN
      OBVIOUS
    <3> QED BY <1>0, <3>1, <3>2
  <2>3. CASE Returns
    BY <1>0, <2>3 DEF Returns
  <2>4. CASE Discovered
    BY <1>0, <1>1, <2>4 DEF Discovered
  <2>5. Sending \/ Returns \/ Discovered \/ UNCHANGED seen
    BY DEF Kinds, Aside, Beating, Stopped, Applied, Begins, ChangesNodes, AddsUnknown
  <2> QED BY <2>1, <2>2, <2>3, <2>4, <2>5
<1>3. heartbeat' \in BeatState
  BY <1>0 DEF Kinds, Aside, Beating, Stopped, Sending, Applied, Begins, ChangesNodes, Returns,
              AddsUnknown, Discovered, Beats
<1>4. call' \in CallState
  BY <1>0 DEF Kinds, Aside, Beating, Stopped, Sending, Applied, Begins, ChangesNodes, Returns,
              AddsUnknown, Discovered, Calling
<1> QED BY <1>1, <1>2, <1>3, <1>4 DEF TypeInv, FailedUnreachable, States

(* Discovery comes before the heartbeat.                                   *)
LEMMA DiscoveryKept ==
  ASSUME QuorumInv, Kinds
  PROVE  DiscoversFirst' /\ SendsWhenSent'
<1>0. DiscoversFirst /\ SendsWhenSent
  BY DEF QuorumInv
<1>1. CASE Aside
  BY <1>0, <1>1 DEF Aside, DiscoversFirst, SendsWhenSent, Discovering
<1>2. CASE Beating
  BY <1>0, <1>2 DEF Beating, DiscoversFirst, SendsWhenSent, Discovering, Beats
<1>3. CASE Stopped
  BY <1>0, <1>3 DEF Stopped, DiscoversFirst, SendsWhenSent, Discovering, Beats
<1>4. CASE Sending
  BY <1>0, <1>4 DEF Sending, DiscoversFirst, SendsWhenSent, Discovering, Beats
<1>5. CASE Applied
  <2>1. /\ heartbeat.step = "asked" /\ UNCHANGED call
        /\ heartbeat'.step = "sent" \/ heartbeat'.send = {}
    BY <1>5 DEF Applied, Beats
  <2> QED BY <1>0, <2>1 DEF DiscoversFirst, SendsWhenSent, Discovering
<1>6. CASE Begins
  BY <1>0, <1>6 DEF Begins, DiscoversFirst, SendsWhenSent, Discovering, Calling
<1>7. CASE ChangesNodes
  <2>1. /\ call.op \in {"adding", "removing"} /\ UNCHANGED heartbeat
        /\ call'.rest = call.rest /\ call'.op \in {"added", "removed"}
        /\ call'.op = "removed" => call.op = "removing"
    BY <1>7 DEF ChangesNodes, Calling
  <2> QED BY <1>0, <2>1 DEF DiscoversFirst, SendsWhenSent, Discovering
<1>8. CASE Returns
  BY <1>0, <1>8 DEF Returns, DiscoversFirst, SendsWhenSent, Discovering, Calling
<1>9. CASE AddsUnknown
  BY <1>0, <1>9 DEF AddsUnknown, DiscoversFirst, SendsWhenSent, Discovering, Calling
<1>10. CASE Discovered
  BY <1>0, <1>10 DEF Discovered, DiscoversFirst, SendsWhenSent, Discovering, Calling
<1> QED BY <1>1, <1>2, <1>3, <1>4, <1>5, <1>6, <1>7, <1>8, <1>9, <1>10 DEF Kinds

(* The quorum follows the peers.                                           *)
LEMMA QuorumKept ==
  ASSUME QuorumInv, Kinds
  PROVE  QuorumOfPeers'
<1> SUFFICES ASSUME FailureThreshold > 1, (DOMAIN nodes # {})', (~Discovering)'
             PROVE  has_quorum' = check_quorum(nodes')
  BY DEF QuorumOfPeers, check_quorum, available_node_count, total_node_count, is_available
<1>0. /\ DOMAIN nodes # {} /\ ~Discovering => has_quorum = check_quorum(nodes)
      /\ DiscoversFirst
  BY DEF QuorumInv, QuorumOfPeers
<1>1. CASE UNCHANGED <<nodes, has_quorum>> /\ ~Discovering
  BY <1>0, <1>1
<1>2. ASSUME NEW ns, UpdateQuorum(ns) PROVE has_quorum' = check_quorum(nodes')
  BY <1>2 DEF UpdateQuorum
<1>3. CASE Aside \/ Beating \/ Stopped \/ Sending
  BY <1>1, <1>3 DEF Aside, Beating, Stopped, Sending, Discovering
<1>4. CASE Applied
  <2>1. heartbeat.step = "asked" /\ UNCHANGED call
    BY <1>4 DEF Applied
  <2>2. ~Discovering
    BY <1>0, <2>1 DEF DiscoversFirst
  <2>3. PICK p \in DOMAIN nodes, r \in Result :
          \/ UpdateQuorum([nodes EXCEPT ![p] = NextState(nodes[p], r)])
          \/ /\ r = "error" /\ NextState(nodes[p], r).failures >= FailureThreshold
             /\ nodes' = [nodes EXCEPT ![p] = NextState(nodes[p], r)] /\ has_quorum' = has_quorum
    BY <1>4 DEF Applied
  <2>4. CASE UpdateQuorum([nodes EXCEPT ![p] = NextState(nodes[p], r)])
    BY <1>2, <2>4
  <2>5. CASE /\ r = "error" /\ NextState(nodes[p], r).failures >= FailureThreshold
             /\ nodes' = [nodes EXCEPT ![p] = NextState(nodes[p], r)] /\ has_quorum' = has_quorum
    <3>1. check_quorum(nodes') = check_quorum(nodes)
      BY <2>5, GivenUp
    <3> QED BY <1>0, <2>2, <2>5, <3>1
  <2> QED BY <2>3, <2>4, <2>5
<1>5. CASE Begins
  <2>1. call.op = "none"
    BY <1>5 DEF Begins, Discovering, Calling
  <2>2. ~Discovering
    BY <1>0, <2>1 DEF DiscoversFirst, Discovering
  <2> QED BY <1>1, <1>5, <2>2 DEF Begins
<1>6. CASE ChangesNodes
  BY <1>2, <1>6 DEF ChangesNodes
<1>7. CASE Returns
  <2>1. call.rest = {} /\ call.op # "discover"
    BY <1>7 DEF Returns, Returning, Discovering, Calling
  <2> QED BY <1>1, <1>7, <2>1 DEF Returns, Discovering
<1>8. CASE AddsUnknown
  BY <1>8 DEF AddsUnknown, Discovering, Calling
<1>9. CASE Discovered
  BY <1>2, <1>9 DEF Discovered
<1> QED BY <1>3, <1>4, <1>5, <1>6, <1>7, <1>8, <1>9 DEF Kinds

(* A subscriber knows the quorum, or will be told.                         *)
LEMMA EventsKept ==
  ASSUME QuorumInv, Kinds
  PROVE  SeenOrSent'
<1> SUFFICES ASSUME ~crossed'
             PROVE  /\ heartbeat'.send \in {{}, {has_quorum'}}
                    /\ \/ seen' = has_quorum'
                       \/ heartbeat'.send = {has_quorum'}
                       \/ call'.op \in {"added", "removed"} /\ call'.old # has_quorum'
  BY DEF SeenOrSent, Returning
<1> DEFINE Told == /\ heartbeat.send \in {{}, {has_quorum}}
                   /\ \/ seen = has_quorum
                      \/ heartbeat.send = {has_quorum}
                      \/ Returning /\ call.old # has_quorum
<1>0. /\ ~crossed => Told
      /\ heartbeat.step # "sent" => heartbeat.send = {}
      /\ has_quorum \in BOOLEAN /\ seen \in BOOLEAN /\ crossed \in BOOLEAN
  BY DEF QuorumInv, TypeInv, SeenOrSent, SendsWhenSent
<1>u. ASSUME NEW ns, UpdateQuorum(ns)
      PROVE  /\ Told /\ has_quorum' \in BOOLEAN
             /\ has_quorum' = has_quorum \/ (heartbeat.send = {} /\ ~Returning)
  <2>1. ~crossed /\ ~(Unsent /\ has_quorum' # has_quorum) /\ has_quorum' \in BOOLEAN
    <3>1. ~crossed /\ ~(Unsent /\ has_quorum' # has_quorum)
      BY <1>u, Zenon DEF UpdateQuorum
    <3>2. has_quorum' \in BOOLEAN
      BY <1>u DEF UpdateQuorum, check_quorum
    <3> QED BY <3>1, <3>2
  <2> QED BY <1>0, <2>1 DEF Unsent, Returning
<1>1. CASE Aside
  BY <1>0, <1>1 DEF Aside, Returning
<1>2. CASE Beating
  BY <1>0, <1>2 DEF Beating, Beats, Returning
<1>3. CASE Stopped
  BY <1>3 DEF Stopped
<1>4. CASE Sending
  <2>1. Told /\ UNCHANGED <<has_quorum, call>> /\ heartbeat'.send = {}
    BY <1>0, <1>4 DEF Sending, Beats
  <2>2. CASE heartbeat.send = {}
    BY <1>4, <2>1, <2>2 DEF Sending, Returning
  <2>3. CASE heartbeat.send = {has_quorum}
    <3>1. seen' = (TRUE \in {has_quorum})
      BY <1>4, <2>3 DEF Sending
    <3>2. seen' = has_quorum
      <4>1. CASE has_quorum = TRUE
        BY <3>1, <4>1, Zenon
      <4>2. CASE has_quorum = FALSE
        <5>1. has_quorum # TRUE
          BY <4>2
        <5>2. ~(TRUE \in {has_quorum})
          BY <5>1, Zenon
        <5>3. ~seen' /\ ~has_quorum
          BY <3>1, <4>2, <5>2, Zenon
        <5>4. seen' \in BOOLEAN
          <6>1. (TRUE \in {has_quorum}) \in BOOLEAN
            OBVIOUS
          <6> QED BY <3>1, <6>1
        <5> QED BY <1>0, <5>3, <5>4
      <4> QED BY <1>0, <4>1, <4>2
    <3> QED BY <2>1, <3>2
  <2> QED BY <2>1, <2>2, <2>3
<1>5. CASE Applied
  <2>0. heartbeat.send = {} /\ UNCHANGED <<seen, call>>
    BY <1>0, <1>5 DEF Applied
  <2>1. \/ \E ns : /\ UpdateQuorum(ns)
                  /\ heartbeat'.send = IF has_quorum' # has_quorum THEN {has_quorum'} ELSE {}
        \/ heartbeat'.send = {} /\ UNCHANGED <<has_quorum, crossed>>
    BY <1>5 DEF Applied, Beats
  <2>2. CASE \E ns : /\ UpdateQuorum(ns)
                     /\ heartbeat'.send = IF has_quorum' # has_quorum THEN {has_quorum'} ELSE {}
    <3>1. Told
      BY <1>u, <2>2
    <3> QED BY <2>0, <2>2, <3>1 DEF Returning
  <2>3. CASE heartbeat'.send = {} /\ UNCHANGED <<has_quorum, crossed>>
    BY <1>0, <2>0, <2>3 DEF Returning
  <2> QED BY <2>1, <2>2, <2>3
<1>6. CASE Begins
  <2>1. ~Returning /\ UNCHANGED <<has_quorum, seen, crossed, heartbeat>>
    BY <1>6 DEF Begins, Returning
  <2> QED BY <1>0, <2>1
<1>7. CASE ChangesNodes
  <2>1. /\ ~Returning /\ UNCHANGED <<seen, heartbeat>>
        /\ call'.op \in {"added", "removed"} /\ call'.old = has_quorum
    BY <1>7 DEF ChangesNodes, Returning, Calling
  <2>2. \E ns : UpdateQuorum(ns)
    BY <1>7 DEF ChangesNodes
  <2>3. Told /\ (has_quorum' = has_quorum \/ heartbeat.send = {})
    BY <1>u, <2>2
  <2> QED BY <2>1, <2>3
<1>8. CASE Returns
  BY <1>0, <1>8 DEF Returns, Returning
<1>9. CASE AddsUnknown
  <2>1. ~Returning /\ UNCHANGED <<has_quorum, seen, crossed, heartbeat>>
    BY <1>9 DEF AddsUnknown, Returning
  <2> QED BY <1>0, <2>1
<1>10. CASE Discovered
  <2>1. Told /\ (has_quorum' = has_quorum \/ heartbeat.send = {})
    BY <1>u, <1>10 DEF Discovered
  <2>2. ~Returning /\ UNCHANGED heartbeat /\ seen' = IF has_quorum' # has_quorum THEN has_quorum' ELSE seen
    BY <1>10 DEF Discovered, Returning
  <2> QED BY <2>1, <2>2
<1> QED BY <1>1, <1>2, <1>3, <1>4, <1>5, <1>6, <1>7, <1>8, <1>9, <1>10 DEF Kinds

(* The invariant at the start.                                             *)
LEMMA QuorumInit ==
  ASSUME Init
  PROVE  QuorumInv
<1>1. PICK s \in Scenarios :
        call = IF s[1] = {} THEN NoCall ELSE [NoCall EXCEPT !.op = "discover", !.rest = s[1]]
  BY DEF Init
<1>2. s[1] \in SUBSET Peer
  BY ScenariosAssumption
<1>3. call \in CallState /\ call.op \in {"none", "discover"} /\ (call.op = "none" => call.rest = {})
  BY <1>1, <1>2 DEF NoCall, CallState, AnyAddress
<1>4. DOMAIN nodes = {} /\ nodes \in [DOMAIN nodes -> PeerState]
  BY DEF Init
<1>5. heartbeat \in BeatState /\ heartbeat.step = "off" /\ heartbeat.send = {}
  BY DEF Init, Beat, BeatState, Result, AnyAddress
<1>6. TypeInv /\ FailedUnreachable
  BY <1>3, <1>4, <1>5 DEF Init, TypeInv, FailedUnreachable
<1>7. DiscoversFirst /\ QuorumOfPeers /\ SendsWhenSent /\ SeenOrSent
  BY <1>3, <1>4, <1>5 DEF Init, DiscoversFirst, QuorumOfPeers, SendsWhenSent, SeenOrSent, Discovering
<1> QED BY <1>6, <1>7 DEF QuorumInv

(* The state of the cluster manager that its quorum rests on is kept by    *)
(* every step of the heartbeat, of the calls and of the sync worker.       *)
THEOREM QuorumInductive == Spec => []QuorumInv
<1>1. Init => QuorumInv
  BY QuorumInit
<1>2. QuorumInv /\ [Next]_vars => QuorumInv'
  <2> SUFFICES ASSUME QuorumInv, [Next]_vars PROVE QuorumInv'
    OBVIOUS
  <2>1. CASE Next
    <3>1. Kinds /\ peer' \in [Peer -> {"up", "slow", "refuse", "hang"}]
      BY <2>1, NextKinds
    <3> QED BY <3>1, TypesKept, DiscoveryKept, QuorumKept, EventsKept DEF QuorumInv
  <2>2. CASE UNCHANGED vars
    BY <2>2 DEF vars, QuorumInv, TypeInv, FailedUnreachable, DiscoversFirst, QuorumOfPeers, SendsWhenSent,
                SeenOrSent, Discovering, Returning, check_quorum, available_node_count, total_node_count,
                is_available
  <2> QED BY <2>1, <2>2
<1> QED BY <1>1, <1>2, PTL DEF Spec

(* Once the peers are discovered has_quorum says what their health says,   *)
(* also when the heartbeat skips the update before it reconnects; what     *)
(* subscribers were told is the quorum, unless changes overtook each       *)
(* other; and can_remove_node keeps the quorum: for every set of peers and *)
(* every failure threshold above 1.                                        *)
THEOREM QuorumIsCurrent == Spec => []QuorumCurrent
<1>1. QuorumInv => QuorumCurrent
  <2> SUFFICES ASSUME QuorumInv, heartbeat.step # "off", DOMAIN nodes # {}, FailureThreshold > 1
               PROVE  /\ has_quorum = check_quorum(nodes)
                      /\ ~crossed /\ ~Unsent => seen = has_quorum
                      /\ \A p \in Peer : has_quorum /\ can_remove_node(p) => check_quorum(Without(nodes, p))
    BY DEF QuorumCurrent
  <2>1. ~Discovering
    BY DEF QuorumInv, DiscoversFirst
  <2>2. has_quorum = check_quorum(nodes)
    BY <2>1 DEF QuorumInv, QuorumOfPeers
  <2>3. ~crossed /\ ~Unsent => seen = has_quorum
    BY DEF QuorumInv, SeenOrSent, Unsent, Returning
  <2>4. ASSUME NEW p \in Peer, has_quorum, can_remove_node(p)
        PROVE  check_quorum(Without(nodes, p))
    BY <2>2, <2>4, RemovalKeepsQuorum DEF QuorumInv
  <2> QED BY <2>2, <2>3, <2>4
<1> QED BY <1>1, QuorumInductive, PTL
=============================================================================
