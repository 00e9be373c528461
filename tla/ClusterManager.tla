---------------------------- MODULE ClusterManager ----------------------------
(***************************************************************************)
(* ClusterManager of one node: the health it keeps of its peers, the       *)
(* quorum and the partition status it derives, the heartbeat that updates  *)
(* them, the calls that add and remove peers, the events it sends, and the *)
(* clients of the ReplicationCoordinator underneath, which another task    *)
(* syncs with the Raft membership.                                         *)
(*                                                                         *)
(* The tasks meet at the state lock and at the clients lock; events are    *)
(* sent after the state lock was given back.                               *)
(*                                                                         *)
(* A peer listens on several ports.  Only the replication port answers the *)
(* gRPC health check, but discover_peers makes clients for the HTTP port   *)
(* (http_addr); the sync worker makes them for the replication port        *)
(* (replication_addr).  So a client has an address, and so has a peer.     *)
(***************************************************************************)
EXTENDS Integers, FiniteSets, FiniteSetsExt

CONSTANTS
  Peer,              \* the other nodes
  Scenarios,         \* the peers configured, and what may happen
  FailureThreshold,  \* config.failure_threshold
  MaxChanges,        \* bound: how often a peer changes its behaviour
  MaxCalls           \* bound: calls of add_node and remove_node

(* refuse: peers refuse calls    hang: peers do not answer                 *)
(* slow:   peers answer late     tls:  certificates are not there at first *)
(* calls:  peers are added and removed   sync: the Raft membership changes *)
FaultKinds == {"refuse", "hang", "slow", "tls", "calls", "sync"}

ASSUME PeerAssumption == IsFiniteSet(Peer)
ASSUME ThresholdAssumption == FailureThreshold \in Nat \ {0}
ASSUME BoundsAssumption == {MaxChanges, MaxCalls} \subseteq Nat
ASSUME ScenariosAssumption == Scenarios \subseteq (SUBSET Peer) \X (SUBSET FaultKinds)

VARIABLES
  faults,
  peer,       \* how each peer behaves: up, slow, refuse or hang
  members,    \* the peers in the Raft membership
  certs,      \* whether the certificates of the clients can be read
  clients,    \* the clients of the coordinator: their addresses by peer
  nodes,      \* state.nodes: health, consecutive_failures and address by peer
  has_quorum, partition_status,
  heartbeat,  \* the heartbeat task
  call,       \* add_node, remove_node or discover_peers
  sync,       \* the coordinator sync worker
  seen,       \* what a subscriber knows of the quorum from QuorumChanged
  crossed,    \* history: another change came between one and its event
  changes, made

vars == <<faults, peer, members, certs, clients, nodes, has_quorum, partition_status, heartbeat, call,
          sync, seen, crossed, changes, made>>
stateVars == <<nodes, has_quorum, partition_status>>
world == <<faults, peer, members, certs, changes>>
environment == <<world, made>>
-----------------------------------------------------------------------------
(* NodeState and ClusterState.                                             *)
Address == {"http", "replication"}
NodeState(a) == [health |-> "unknown", failures |-> 0, address |-> a]
mark_healthy(s)     == [s EXCEPT !.health = "healthy", !.failures = 0]
mark_degraded(s)    == [s EXCEPT !.health = "degraded", !.failures = 0]
mark_unreachable(s) ==
  [s EXCEPT !.health = "unreachable", !.failures = Min({s.failures + 1, FailureThreshold})]

is_available(s) == s.health \in {"healthy", "degraded"}
available_node_count(ns) == Cardinality({p \in DOMAIN ns : is_available(ns[p])})
total_node_count(ns) == Cardinality(DOMAIN ns) + 1
check_quorum(ns) == available_node_count(ns) + 1 > total_node_count(ns) \div 2
detect_partition(ns) ==
  CASE \A p \in DOMAIN ns : is_available(ns[p]) -> "connected"
    [] check_quorum(ns)                         -> "connected"
    [] OTHER                                    -> "minority"
should_accept_writes == has_quorum /\ partition_status # "minority"

can_remove_node(p) ==
  p \notin DOMAIN nodes \/ ~is_available(nodes[p])
    \/ available_node_count(nodes) - 1 + 1 > (total_node_count(nodes) - 1) \div 2

Without(f, p) == [x \in DOMAIN f \ {p} |-> f[x]]
With(f, p, v) == [x \in DOMAIN f \cup {p} |-> IF x = p THEN v ELSE f[x]]
-----------------------------------------------------------------------------
(* ReplicationCoordinator::health_check: an error only for a peer without  *)
(* a client.  HealthChecker::is_healthy turns failed calls, as those to    *)
(* the HTTP port, and its own timeout into false; the timeout of the       *)
(* caller may come first.                                                  *)
Reached(p) == p \in DOMAIN clients /\ clients[p] = "replication"
health_check(p) ==
  CASE p \notin DOMAIN clients           -> {"error"}
    [] peer[p] = "hang"                  -> {"false", "timeout"}
    [] peer[p] = "refuse" \/ ~Reached(p) -> {"false"}
    [] peer[p] = "slow"                  -> {"late"}
    [] OTHER                             -> {"fast"}

(* check_node_health of the manager, and the state add_node makes of it.   *)
FirstState(a, r) ==
  CASE r = "fast" -> mark_healthy(NodeState(a))
    [] r = "late" -> mark_degraded(NodeState(a))
    [] OTHER      -> mark_unreachable(NodeState(a))

(* The state the heartbeat makes of an answer.                             *)
NextState(s, r) ==
  CASE r = "fast"              -> mark_healthy(s)
    [] r \in {"late", "false"} -> mark_degraded(s)
    [] OTHER                   -> mark_unreachable(s)

Beat(step) == [step |-> step, todo |-> {}, node |-> {}, address |-> "", result |-> "", send |-> {}]
NoCall == [op |-> "none", rest |-> {}, node |-> {}, address |-> "", old |-> FALSE]
NoSync == [step |-> "idle", goal |-> {}, had |-> {}]

Init ==
  /\ \E s \in Scenarios :
       /\ faults = s[2] /\ members = s[1] /\ certs = ("tls" \notin s[2])
       /\ call = IF s[1] = {} THEN NoCall ELSE [NoCall EXCEPT !.op = "discover", !.rest = s[1]]
  /\ peer = [p \in Peer |-> "up"]
  /\ clients = [p \in {} |-> "http"]
  /\ nodes = [p \in {} |-> NodeState("http")]
  /\ has_quorum = FALSE /\ partition_status = "unknown"
  /\ heartbeat = Beat("off") /\ sync = NoSync
  /\ seen = FALSE /\ crossed = FALSE
  /\ changes = 0 /\ made = 0
-----------------------------------------------------------------------------
(* A change of the quorum while an event of an earlier one is not sent yet *)
(* may overtake it.                                                        *)
Unsent == heartbeat.send # {} \/ call.op \in {"added", "removed"}
UpdateQuorum(ns) ==
  /\ nodes' = ns
  /\ has_quorum' = check_quorum(ns)
  /\ crossed' = (crossed \/ (Unsent /\ has_quorum' # has_quorum))

(* add_node of the coordinator makes a client and connects later; it fails *)
(* when the certificates cannot be read.  An older client is replaced.     *)
Connect(p, a) == certs /\ clients' = With(clients, p, a)

(* add_node of the manager: the client first.                              *)
add_node(p, a, c) ==
  /\ Connect(p, a)
  /\ call' = [c EXCEPT !.op = "adding", !.node = {p}, !.address = a]
  /\ UNCHANGED <<world, stateVars, heartbeat, sync, seen, crossed>>

(* The next peer of discover_peers, with its http_addr.                    *)
DiscoverNext(p) ==
  /\ call.op = "discover" /\ p \in call.rest
  /\ add_node(p, "http", call) /\ UNCHANGED made

(* A call of add_node, with either address.                                *)
AddCalled(p, a) ==
  /\ call.op = "none" /\ "calls" \in faults /\ made < MaxCalls /\ heartbeat.step # "off"
  /\ add_node(p, a, NoCall) /\ made' = made + 1

(* The state lock is held over the first health check.                     *)
NodeAdded(p) ==
  /\ call.op = "adding" /\ call.node = {p}
  /\ \E r \in health_check(p) : UpdateQuorum(With(nodes, p, FirstState(call.address, r)))
  /\ call' = [call EXCEPT !.op = "added", !.old = has_quorum]
  /\ UNCHANGED <<environment, clients, partition_status, heartbeat, sync, seen>>

(* The event is sent if the quorum is another one by now.                  *)
CallReturns ==
  /\ call.op \in {"added", "removed"}
  /\ seen' = IF call.old # has_quorum THEN has_quorum ELSE seen
  /\ call' = IF call.op = "added" /\ call.rest # {}
             THEN [NoCall EXCEPT !.op = "discover", !.rest = call.rest \ call.node]
             ELSE NoCall
  /\ UNCHANGED <<environment, clients, stateVars, heartbeat, sync, crossed>>

(* A peer whose client cannot be made is added with its health unknown.    *)
DiscoverFails(p) ==
  /\ call.op = "discover" /\ p \in call.rest /\ ~certs
  /\ nodes' = With(nodes, p, NodeState("http"))
  /\ call' = [call EXCEPT !.rest = @ \ {p}]
  /\ UNCHANGED <<environment, clients, has_quorum, partition_status, heartbeat, sync, seen, crossed>>

(* The end of discover_peers; then start_heartbeat.                        *)
discover_peers ==
  /\ call.op = "discover" /\ call.rest = {}
  /\ UpdateQuorum(nodes)
  /\ seen' = IF has_quorum' # has_quorum THEN has_quorum' ELSE seen
  /\ call' = NoCall
  /\ UNCHANGED <<environment, clients, partition_status, heartbeat, sync>>

remove_node(p) ==
  /\ call.op = "none" /\ "calls" \in faults /\ made < MaxCalls /\ p \in DOMAIN nodes
  /\ made' = made + 1
  /\ clients' = Without(clients, p)
  /\ call' = [NoCall EXCEPT !.op = "removing", !.node = {p}]
  /\ UNCHANGED <<world, stateVars, heartbeat, sync, seen, crossed>>

NodeRemoved(p) ==
  /\ call.op = "removing" /\ call.node = {p}
  /\ UpdateQuorum(Without(nodes, p))
  /\ partition_status' = detect_partition(nodes')
  /\ call' = [call EXCEPT !.op = "removed", !.old = has_quorum]
  /\ UNCHANGED <<environment, clients, heartbeat, sync, seen>>
-----------------------------------------------------------------------------
(* heartbeat_loop.                                                         *)
BeatFrame == <<environment, call, sync>>

start_heartbeat ==
  /\ heartbeat.step = "off" /\ call.op = "none"
  /\ heartbeat' = Beat("tick")
  /\ UNCHANGED <<BeatFrame, clients, stateVars, seen, crossed>>

(* The task is aborted at an await, maybe before it sent its events.       *)
stop_heartbeat ==
  /\ heartbeat.step # "off" /\ "calls" \in faults /\ made < MaxCalls
  /\ made' = made + 1
  /\ heartbeat' = Beat("off")
  /\ crossed' = (crossed \/ heartbeat.send # {})
  /\ UNCHANGED <<world, call, sync, clients, stateVars, seen>>

(* nodes_to_check: the peers and their addresses as they are now.          *)
Tick ==
  /\ heartbeat.step = "tick"
  /\ heartbeat' = [Beat("next") EXCEPT !.todo = {<<p, nodes[p].address>> : p \in DOMAIN nodes}]
  /\ UNCHANGED <<BeatFrame, clients, stateVars, seen, crossed>>

Ask(p, a) ==
  /\ heartbeat.step = "next" /\ <<p, a>> \in heartbeat.todo
  /\ \E r \in health_check(p) :
       heartbeat' = [heartbeat EXCEPT !.step = "asked", !.todo = @ \ {<<p, a>>}, !.node = {p},
                                      !.address = a, !.result = r]
  /\ UNCHANGED <<BeatFrame, clients, stateVars, seen, crossed>>

RoundOver ==
  /\ heartbeat.step = "next" /\ heartbeat.todo = {}
  /\ heartbeat' = Beat("tick")
  /\ UNCHANGED <<BeatFrame, clients, stateVars, seen, crossed>>

NextNode == [heartbeat EXCEPT !.step = "next", !.node = {}, !.address = "", !.result = "", !.send = {}]

(* Faulty variant: the failed node is asked again and again.               *)
NeverReconnects(p, s) == FALSE

(* Whether a failed check ends in a new client.                            *)
Reconnects(p, s) == heartbeat.result = "error" /\ s.failures >= FailureThreshold

(* Faulty variant: the quorum is left as it was.                           *)
QuorumNotUpdated(ns) ==
  /\ nodes' = ns
  /\ UNCHANGED <<has_quorum, partition_status, crossed>>
  /\ heartbeat' = NextNode

(* Quorum and partition status follow the new health of the node.          *)
HealthChanged(ns) ==
  /\ UpdateQuorum(ns)
  /\ partition_status' = detect_partition(ns)
  /\ heartbeat' = [heartbeat EXCEPT !.step = "sent",
                   !.send = IF has_quorum' # has_quorum THEN {has_quorum'} ELSE {}]

(* The answer is applied under the state lock.  Before it reconnects, the  *)
(* loop gives the lock back and leaves quorum and events as they are.      *)
Apply(p) ==
  /\ heartbeat.step = "asked" /\ heartbeat.node = {p}
  /\ IF p \notin DOMAIN nodes THEN heartbeat' = NextNode /\ UNCHANGED <<stateVars, crossed>>
     ELSE LET s == NextState(nodes[p], heartbeat.result)
              ns == [nodes EXCEPT ![p] = s]
          IN IF Reconnects(p, s)
             THEN /\ nodes' = ns
                  /\ heartbeat' = [heartbeat EXCEPT !.step = "reconnect"]
                  /\ UNCHANGED <<has_quorum, partition_status, crossed>>
             ELSE HealthChanged(ns)
  /\ UNCHANGED <<BeatFrame, clients, seen>>

(* A new client, for the address the peer had at the tick.                 *)
Reconnect(p) ==
  /\ heartbeat.step = "reconnect" /\ heartbeat.node = {p}
  /\ \/ Connect(p, heartbeat.address)
     \/ ~certs /\ UNCHANGED clients
  /\ heartbeat' = NextNode
  /\ UNCHANGED <<BeatFrame, stateVars, seen, crossed>>

SendEvents ==
  /\ heartbeat.step = "sent"
  /\ seen' = IF heartbeat.send = {} THEN seen ELSE TRUE \in heartbeat.send
  /\ heartbeat' = NextNode
  /\ UNCHANGED <<BeatFrame, clients, stateVars, crossed>>
-----------------------------------------------------------------------------
(* The coordinator sync worker: sync_nodes reads the clients once, then    *)
(* removes and adds one by one.  It goes by the peers that have a client,  *)
(* whatever its address.                                                   *)
SyncFrame == <<environment, stateVars, heartbeat, call, seen, crossed>>

SyncStarts ==
  /\ sync.step = "idle" /\ "sync" \in faults /\ DOMAIN clients # members
  /\ sync' = [step |-> "syncing", goal |-> members, had |-> DOMAIN clients]
  /\ UNCHANGED <<SyncFrame, clients>>

(* Faulty variant: nodes that left the membership keep their client.       *)
OnlyAdds ==
  /\ sync.step = "syncing"
  /\ clients' = [p \in DOMAIN clients \cup (sync.goal \ sync.had) |->
                   IF p \in DOMAIN clients THEN clients[p] ELSE "replication"]
  /\ sync' = NoSync
  /\ UNCHANGED SyncFrame

sync_nodes ==
  /\ sync.step = "syncing"
  /\ \/ \E p \in sync.had \ sync.goal :
          clients' = Without(clients, p) /\ sync' = [sync EXCEPT !.had = @ \ {p}]
     \/ \E p \in sync.goal \ sync.had :
          /\ sync.had \subseteq sync.goal /\ Connect(p, "replication")
          /\ sync' = [sync EXCEPT !.had = @ \cup {p}]
     \/ /\ sync.had = sync.goal \/ (sync.had \subseteq sync.goal /\ ~certs)
        /\ sync' = NoSync /\ UNCHANGED clients
  /\ UNCHANGED SyncFrame
-----------------------------------------------------------------------------
(* Peers come and go, and so does their membership.                        *)
PeerChanges(p) ==
  /\ changes < MaxChanges
  /\ changes' = changes + 1
  /\ \E b \in ({"refuse", "hang", "slow"} \cap faults) \cup {"up"} :
       b # peer[p] /\ peer' = [peer EXCEPT ![p] = b]
  /\ UNCHANGED <<faults, members, certs, made, clients, stateVars, heartbeat, call, sync, seen, crossed>>

CertsAppear ==
  /\ ~certs /\ certs' = TRUE
  /\ UNCHANGED <<faults, peer, members, changes, made, clients, stateVars, heartbeat, call, sync, seen,
                 crossed>>

MembershipChanges(p) ==
  /\ "sync" \in faults /\ changes < MaxChanges
  /\ changes' = changes + 1
  /\ members' = IF p \in members THEN members \ {p} ELSE members \cup {p}
  /\ UNCHANGED <<faults, peer, certs, made, clients, stateVars, heartbeat, call, sync, seen, crossed>>
-----------------------------------------------------------------------------
Heartbeat ==
  \/ start_heartbeat \/ Tick \/ RoundOver \/ SendEvents
  \/ \E p \in Peer : Apply(p) \/ Reconnect(p) \/ \E a \in Address : Ask(p, a)
Calls ==
  \/ CallReturns \/ discover_peers
  \/ \E p \in Peer : NodeAdded(p) \/ NodeRemoved(p) \/ DiscoverNext(p) \/ DiscoverFails(p)
Sync == SyncStarts \/ sync_nodes

Next ==
  \/ Heartbeat \/ Calls \/ Sync \/ stop_heartbeat \/ CertsAppear
  \/ \E p \in Peer : \/ remove_node(p) \/ PeerChanges(p) \/ MembershipChanges(p)
                     \/ \E a \in Address : AddCalled(p, a)

Spec == Init /\ [][Next]_vars

(* The tasks are scheduled.                                                *)
FairSpec == Spec /\ WF_vars(Heartbeat) /\ WF_vars(Calls) /\ WF_vars(Sync)
-----------------------------------------------------------------------------
(* Every variable has its type.                                            *)
TypeOK ==
  /\ DOMAIN clients \subseteq Peer /\ members \subseteq Peer /\ DOMAIN nodes \subseteq Peer
  /\ \A p \in DOMAIN clients : clients[p] \in Address
  /\ \A p \in DOMAIN nodes : nodes[p].failures \in 0 .. FailureThreshold
  /\ partition_status \in {"unknown", "connected", "minority"}
  /\ seen \in BOOLEAN /\ has_quorum \in BOOLEAN

(* Once the peers are discovered, has_quorum says what the health of the   *)
(* peers says, though the heartbeat skips the update when it reconnects:   *)
(* by then the node has been unreachable for a round (failure_threshold    *)
(* above 1).  A subscriber knows it when no event is left to send, unless  *)
(* another change overtook the event of an earlier one, and a node that    *)
(* can_remove_node lets go does not take the quorum with it.               *)
QuorumCurrent ==
  heartbeat.step # "off" /\ DOMAIN nodes # {} /\ FailureThreshold > 1
    => /\ has_quorum = check_quorum(nodes)
       /\ ~crossed /\ ~Unsent => seen = has_quorum
       /\ \A p \in Peer : has_quorum /\ can_remove_node(p) => check_quorum(Without(nodes, p))

(* A peer that answers and that the heartbeat asks.                        *)
Watched(p) ==
  /\ peer[p] = "up" /\ certs /\ heartbeat.step # "off" /\ p \in DOMAIN nodes
  /\ "sync" \in faults => p \in members
HealthIs(p, h) == p \in DOMAIN nodes /\ nodes[p].health = h

(* A peer that answers, and that the sync worker does not take away, is    *)
(* available in the end, also when its client could not be made at first:  *)
(* healthy if its client has the replication address in the end, degraded  *)
(* for good if it has the HTTP address that discover_peers and with it the *)
(* reconnections give it.  Once all of them answer, the node accepts       *)
(* writes.                                                                 *)
PeersRecover ==
  /\ \A p \in Peer :
       /\ (<>[](Watched(p) /\ Reached(p)) => <>[]HealthIs(p, "healthy"))
       /\ (<>[](Watched(p) /\ ~Reached(p)) => <>[]HealthIs(p, "degraded"))
  /\ (<>[](DOMAIN nodes # {} /\ \A p \in DOMAIN nodes : Watched(p)) => <>[]should_accept_writes)

(* A member of the cluster gets a client and keeps it once the             *)
(* certificates are there, and one that left loses it again and again,     *)
(* however often the manager reconnects it.                                *)
ClientsFollowMembership ==
  "sync" \in faults =>
    \A p \in Peer :
      /\ (<>[](p \in members /\ certs) => <>[](p \in DOMAIN clients))
      /\ (<>[](p \notin members) => []<>(p \notin DOMAIN clients))
=============================================================================
