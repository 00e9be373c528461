----------------------------- MODULE Membership -----------------------------
(***************************************************************************)
(* Who is in the cluster: the auto-join worker and the graceful leave of   *)
(* scaling.rs, the handlers under /cluster, the calls of RaftNode they     *)
(* end in, and the start and the shutdown of a node in main.rs.            *)
(*                                                                         *)
(* Raft itself is external (openraft): a configuration is an entry of the  *)
(* log of the leader, it counts from the moment it is appended, it is      *)
(* committed by a majority of each of its voter sets, and a change of the  *)
(* voters takes a joint configuration and a final one.  A client of        *)
(* change_membership waits for the entry it proposed.  Every node answers  *)
(* questions about the cluster from the newest configuration in its own    *)
(* log, which may be old and need not be committed.                        *)
(***************************************************************************)
EXTENDS Integers, FiniteSets, Sequences

CONSTANTS
  Node,            \* node ids; the seed_nodes of a node are all the others
  Scenarios,       \* the voters a cluster starts with ({} is no cluster yet), the nodes
                   \* that run and what may happen to them
  MemberLists,     \* bound: the lists sent to /cluster/initialize
  JoinMaxRetries,  \* cluster.join_max_retries
  MaxTerm,         \* bound: elections
  MaxIndex,        \* bound: configurations in the log
  MaxLeaves,       \* bound: nodes that get SIGTERM
  MaxCrashes,      \* bound: nodes that die
  MaxStarts        \* bound: nodes started again

(* leave: nodes get SIGTERM        wait:  shutdown waits too short a time  *)
(* slow:  requests time out early  crash: nodes die                        *)
(* start: a node that ended starts again                                   *)
(* admin: an operator removes nodes and triggers elections                 *)
FaultKinds == {"leave", "wait", "slow", "crash", "start", "admin"}

NoNode == 0

ASSUME NodeAssumption   == Node \subseteq Nat \ {NoNode} /\ IsFiniteSet(Node)
ASSUME BoundsAssumption ==
  MemberLists \subseteq SUBSET Node /\
  {JoinMaxRetries, MaxTerm, MaxIndex, MaxLeaves, MaxCrashes, MaxStarts} \subseteq Nat
ASSUME ScenariosAssumption == Scenarios \subseteq (SUBSET Node) \X (SUBSET Node) \X (SUBSET FaultKinds)

VARIABLES
  faults,    \* what may happen, fixed from the start
  up,        \* the processes that run
  serving,   \* the nodes whose Raft gRPC server takes calls
  mem,       \* the newest configuration in the log of each node
  term, leader,
  known,     \* current_leader of each node
  joined,    \* CLUSTER_JOINED of each process
  worker,    \* the auto-join worker: what it does, its attempt, the leader it asks
  leave,     \* the shutdown: what it does, the leader it asks
  init,      \* POST /cluster/initialize: what it does, where, whom it still adds
  at,        \* the log entry each client of change_membership waits for
  abandoned, \* history: nodes that leave while their worker still runs
  refused,   \* history: nodes whose join met another configuration change
  leaves, crashes, starts

vars == <<faults, up, serving, mem, term, leader, known, joined, worker, leave, init, at,
          abandoned, refused, leaves, crashes, starts>>

raftVars == <<mem, term, leader, known>>
histVars == <<leaves, crashes, starts>>

NoEntry == <<0, 0>>
Empty   == [term |-> 0, index |-> 0, sets |-> <<>>, nodes |-> {}]
Started == [step |-> "check", try |-> 0, via |-> NoNode]
Running == [step |-> "run", via |-> NoNode]

Peers(n) == Node \ {n}
-----------------------------------------------------------------------------
(* openraft: configurations.                                               *)
Voters(m)      == UNION {m.sets[i] : i \in DOMAIN m.sets}
Agree(Q, m)    == \A i \in DOMAIN m.sets :
                    2 * Cardinality(Q \cap m.sets[i]) > Cardinality(m.sets[i])
Committed(l)   == Agree({q \in Node : mem[q] = mem[l]}, mem[l])
NotNewer(a, b) == a.term < b.term \/ (a.term = b.term /\ a.index <= b.index)
LastSet(m)     == m.sets[Len(m.sets)]

(* The way to a set of voters: one joint configuration, then that set.     *)
Toward(m, goal) ==
  IF \E i \in DOMAIN m.sets : m.sets[i] = goal THEN <<goal>> ELSE <<LastSet(m), goal>>

AddNode(m, n)       == [m EXCEPT !.nodes = @ \cup {n}]
AddVoters(m, ns)    == [m EXCEPT !.sets = Toward(m, LastSet(m) \cup ns)]
DropNode(m, n)      == [m EXCEPT !.nodes = @ \ {n}]
(* RemoveVoters: whether the node stays as a learner is left open.         *)
DropVoter(m, n, keep) ==
  LET s == Toward(m, LastSet(m) \ {n})
  IN [m EXCEPT !.sets = s, !.nodes = IF Len(s) = 1 /\ ~keep THEN @ \ {n} ELSE @]
Valid(m) == {} \notin {m.sets[i] : i \in DOMAIN m.sets} /\ Voters(m) \subseteq m.nodes

(* What change_membership answers when it appends nothing.                 *)
RaftError(l, m) ==
  CASE leader # l \/ (Committed(l) /\ l \notin Voters(mem[l])) -> "forward_to_leader"
    [] ~Committed(l) -> "in_progress"
    [] ~Valid(m)     -> "invalid"
    [] OTHER         -> "none"

Append1(l, m) ==
  mem' = [mem EXCEPT ![l] = [m EXCEPT !.term = term, !.index = mem[l].index + 1]]
NextEntry(l) == <<term, mem[l].index + 1>>
Room(l)      == mem[l].index < MaxIndex

Propose(c, n, l, m) ==
  /\ Room(l)
  /\ Append1(l, m)
  /\ at' = [at EXCEPT ![c][n] = NextEntry(l)]
  /\ UNCHANGED <<term, leader, known>>
Forget(c, n) == at' = [at EXCEPT ![c][n] = NoEntry] /\ UNCHANGED raftVars

(* The entry the client waits for is committed; or another leader took     *)
(* over and it will never hear of it.                                      *)
Leads(l)      == l # NoNode /\ l \in up /\ leader = l
Done(c, n)    == /\ Leads(leader) /\ at[c][n][1] = term
                 /\ \/ mem[leader].index > at[c][n][2]
                    \/ mem[leader].index = at[c][n][2] /\ Committed(leader)
Lost(c, n)    == ~Leads(leader) \/ at[c][n][1] # term
OwnEntry(c, n) == mem[leader].index = at[c][n][2]
(* It waits for a majority that does not answer.                           *)
Stuck(c, n)   == ~Lost(c, n) /\ ~Done(c, n) /\ ~Agree(serving \cup {leader}, mem[leader])

Replicate(n) ==
  /\ Leads(leader) /\ n \in serving \ {leader} /\ n \in mem[leader].nodes
  /\ mem[n] # mem[leader] \/ known[n] # leader
  /\ mem' = [mem EXCEPT ![n] = mem[leader]]
  /\ known' = [known EXCEPT ![n] = leader]
  /\ UNCHANGED <<faults, up, serving, term, leader, joined, worker, leave, init, at, abandoned,
                 refused, histVars>>

CanWin(n) ==
  /\ n \in up /\ n \in Voters(mem[n]) /\ term < MaxTerm
  /\ Agree({n} \cup {q \in serving : NotNewer(mem[q], mem[n])}, mem[n])
Wins(n) ==
  /\ term' = term + 1 /\ leader' = n
  /\ known' = [q \in Node |-> IF q = n THEN n ELSE IF q = leader THEN NoNode ELSE known[q]]
  /\ UNCHANGED <<faults, up, serving, mem, joined, worker, leave, init, at, abandoned, refused,
                 histVars>>
Elect(n) == ~Leads(leader) /\ CanWin(n) /\ Wins(n)

(* A leader that is no voter any more stops once that is committed and     *)
(* those who waited for it have their answer.                              *)
StepDown ==
  /\ Leads(leader) /\ Committed(leader) /\ leader \notin Voters(mem[leader])
  /\ \A c \in DOMAIN at, n \in Node : at[c][n] # <<term, mem[leader].index>>
  /\ known' = [known EXCEPT ![leader] = NoNode] /\ leader' = NoNode
  /\ UNCHANGED <<faults, up, serving, mem, term, joined, worker, leave, init, at, abandoned, refused,
                 histVars>>
-----------------------------------------------------------------------------
(* RaftNode: what a node reads from its own Raft state.                    *)
get_status(n)     == [voters |-> Voters(mem[n]), nodes |-> mem[n].nodes, current_leader |-> known[n]]
is_initialized(n) == Voters(mem[n]) # {}
is_leader(n)      == leader = n
is_member(n)      == n \in get_status(n).voters \cup get_status(n).nodes

(* forward_to_leader, before the handlers under /cluster.                  *)
Handler(l) == IF is_leader(l) \/ known[l] = NoNode THEN l ELSE known[l]

(* Faulty variant: only the answer of the last seed is kept.               *)
LastSeedOnly(n) ==
  {get_status(p).current_leader : p \in {q \in Peers(n) \cap up : \A r \in Peers(n) : r <= q}}
    \cap Peers(n)

(* get_cluster_status of the seeds: the leaders they name that are seeds   *)
(* themselves.                                                             *)
NamedLeaders(n) == {get_status(p).current_leader : p \in Peers(n) \cap up} \cap Peers(n)

(* The health of the membership, and what /health/ready makes of it.       *)
check_cluster_membership(n) ==
  IF is_member(n) THEN "healthy" ELSE IF joined[n] THEN "degraded" ELSE "unhealthy"
readiness_check(n) == IF check_cluster_membership(n) = "unhealthy" THEN 503 ELSE 200

(* The answer of add_learner when Raft refuses, as join_via_leader reads   *)
(* it: a message that says "already" is taken for "already a member", and  *)
(* the one for a configuration change in progress says so too.             *)
SaysAlready(err) == err = "in_progress"
-----------------------------------------------------------------------------
Init ==
  /\ \E s \in Scenarios :
       LET V == s[1]
           l == IF V = {} THEN NoNode ELSE CHOOSE v \in V : \A w \in V : v <= w
           m == [term |-> 1, index |-> 1, sets |-> <<V>>, nodes |-> V]
       IN /\ up = s[2] /\ serving = s[2] /\ faults = s[3]
          /\ mem = [n \in Node |-> IF n \in V THEN m ELSE Empty]
          /\ leader = l
          /\ term = IF V = {} THEN 0 ELSE 1
          /\ known = [n \in Node |-> IF n \in V THEN l ELSE NoNode]
          /\ init = [step |-> IF V = {} THEN "idle" ELSE "ok", node |-> NoNode, all |-> {},
                     rest |-> {}]
  /\ joined = [n \in Node |-> FALSE]
  /\ worker = [n \in Node |-> Started]
  /\ leave = [n \in Node |-> Running]
  /\ at = [c \in {"join", "leave", "init"} |-> [n \in Node |-> NoEntry]]
  /\ abandoned = {} /\ refused = {}
  /\ leaves = 0 /\ crashes = 0 /\ starts = 0
-----------------------------------------------------------------------------
(* The auto-join worker.                                                   *)
Signalled(n) == leave[n].step # "run"
WorkerAt(n, step) == n \in up /\ worker[n].step = step
WorkerGo(n, step) == worker' = [worker EXCEPT ![n].step = step]
WorkerEnds(n) ==
  /\ joined' = [joined EXCEPT ![n] = TRUE]
  /\ WorkerGo(n, "done")
workerFrame == <<faults, up, serving, leave, init, abandoned, histVars>>

(* run_auto_join_worker, the top of its loop.                              *)
WorkerCheck(n) ==
  /\ WorkerAt(n, "check")
  /\ IF Signalled(n) THEN WorkerGo(n, "done") /\ UNCHANGED joined
     ELSE IF is_member(n) THEN WorkerEnds(n)
     ELSE IF joined[n] THEN WorkerGo(n, "done") /\ UNCHANGED joined
     ELSE worker' = [worker EXCEPT ![n] = [Started EXCEPT !.step = "try"]] /\ UNCHANGED joined
  /\ UNCHANGED <<workerFrame, raftVars, at, refused>>

(* auto_join: another attempt, or the error goes back to the worker.       *)
AttemptFails(n) ==
  worker' = [worker EXCEPT ![n] =
    IF @.try < JoinMaxRetries THEN [Started EXCEPT !.step = "try", !.try = worker[n].try + 1]
    ELSE [Started EXCEPT !.step = "sleep"]]

WorkerSleep(n) ==
  /\ WorkerAt(n, "sleep")
  /\ WorkerGo(n, IF Signalled(n) THEN "done" ELSE "check")
  /\ UNCHANGED <<workerFrame, raftVars, at, joined, refused>>

try_join_cluster(n) ==
  /\ WorkerAt(n, "try")
  /\ \/ NamedLeaders(n) = {} /\ AttemptFails(n)
     \/ \E l \in NamedLeaders(n) : worker' = [worker EXCEPT ![n].step = "add", ![n].via = l]
  /\ UNCHANGED <<workerFrame, raftVars, at, joined, refused>>

(* Faulty variant: whatever the leader refuses counts as joined.           *)
RefusalIsSuccess(n, l, err) == WorkerEnds(n)

(* join_via_leader when the leader refuses the learner.                    *)
JoinRefused(n, l, err) ==
  IF l = leader /\ SaysAlready(err) THEN WorkerEnds(n) ELSE AttemptFails(n) /\ UNCHANGED joined

(* join_via_leader and add_learner: POST /cluster/members.                 *)
add_learner(n) ==
  LET l == Handler(worker[n].via)
      m == AddNode(mem[l], n)
      e == RaftError(l, m)
  IN /\ WorkerAt(n, "add")
     /\ IF l \in up /\ e = "none"
        THEN /\ Propose("join", n, l, m)
             /\ WorkerGo(n, "adding")
             /\ UNCHANGED <<joined, refused>>
        ELSE /\ IF l \in up THEN JoinRefused(n, l, e) ELSE AttemptFails(n) /\ UNCHANGED joined
             /\ refused' = IF e = "in_progress" THEN refused \cup {n} ELSE refused
             /\ UNCHANGED <<raftVars, at>>
     /\ UNCHANGED workerFrame

(* The learner is added when its entry is committed and it caught up; then *)
(* the worker sleeps and asks for its promotion.                           *)
LearnerAdded(n) ==
  /\ WorkerAt(n, "adding") /\ Done("join", n)
  /\ mem[n].term = term /\ mem[n].index >= at["join"][n][2]
  /\ Forget("join", n)
  /\ WorkerGo(n, "promote")
  /\ UNCHANGED <<workerFrame, joined, refused>>

(* promote_voters: POST /cluster/members/promote.  Whatever the leader     *)
(* answers, the worker ends; only a lost connection is an error.  The node *)
(* that handles the request is remembered as the one to hear from.         *)
promote_voters(n) ==
  LET l == Handler(worker[n].via)
      m == AddVoters(mem[l], {n})
  IN /\ WorkerAt(n, "promote")
     /\ \/ /\ l \in up /\ RaftError(l, m) = "none"
           /\ Propose("join", n, l, m)
           /\ worker' = [worker EXCEPT ![n].step = "promoting", ![n].via = l]
           /\ UNCHANGED joined
        \/ /\ l \in up /\ RaftError(l, m) # "none"
           /\ WorkerEnds(n)
           /\ UNCHANGED <<raftVars, at>>
        \/ /\ l \notin up
           /\ AttemptFails(n)
           /\ UNCHANGED <<raftVars, at, joined>>
     /\ UNCHANGED <<workerFrame, refused>>

(* The answer to the promotion: a leader that was deposed and still runs   *)
(* answers too, with an error, and the worker ends all the same.           *)
Promoted(n) ==
  /\ WorkerAt(n, "promoting")
  /\ IF Done("join", n) /\ OwnEntry("join", n) /\ Len(mem[leader].sets) = 2
     THEN Propose("join", n, leader, AddVoters(mem[leader], {n})) /\ UNCHANGED <<joined, worker>>
     ELSE /\ Done("join", n) \/ (Lost("join", n) /\ worker[n].via \in up)
          /\ Forget("join", n) /\ WorkerEnds(n)
  /\ UNCHANGED <<workerFrame, refused>>

(* The request of the worker runs out of time, or its leader is lost and   *)
(* the connection with it: nothing was answered, and the attempt failed.   *)
JoinRequestFails(n) ==
  /\ worker[n].step \in {"adding", "promoting"} /\ n \in up
  /\ \/ worker[n].step = "adding" /\ n \notin serving
     \/ Lost("join", n) \/ Stuck("join", n) \/ "slow" \in faults
  /\ Forget("join", n)
  /\ AttemptFails(n)
  /\ UNCHANGED <<workerFrame, joined, refused>>
-----------------------------------------------------------------------------
(* Shutdown.                                                               *)
LeaveAt(n, step) == n \in up /\ leave[n].step = step
LeaveGo(n, step) == leave' = [leave EXCEPT ![n].step = step]
leaveFrame == <<faults, up, worker, init, refused, crashes, starts>>

(* handle_graceful_shutdown: SIGTERM.  Every task that subscribed to the   *)
(* broadcast hears of it, the Raft server among them.                      *)
Signal(n) ==
  /\ "leave" \in faults /\ LeaveAt(n, "run") /\ leaves < MaxLeaves
  /\ leaves' = leaves + 1
  /\ LeaveGo(n, "wait")
  /\ UNCHANGED <<leaveFrame, raftVars, at, serving, joined, abandoned>>

StopServing(n) ==
  /\ Signalled(n) /\ n \in serving
  /\ serving' = serving \ {n}
  /\ UNCHANGED <<leaveFrame, raftVars, at, joined, leave, abandoned, leaves>>

(* It waits for the worker, for join_timeout at most.                      *)
WaitForWorker(n) ==
  /\ LeaveAt(n, "wait")
  /\ \/ worker[n].step = "done" /\ UNCHANGED abandoned
     \/ /\ worker[n].step # "done" /\ ("wait" \in faults \/ Stuck("join", n))
        /\ abandoned' = abandoned \cup {n}
  /\ LeaveGo(n, "leave")
  /\ UNCHANGED <<leaveFrame, raftVars, at, serving, joined, leaves>>

(* Faulty variant: the leader leaves like any other node.                  *)
LeaderAsksOthers(n) == IF ~is_member(n) THEN "gone" ELSE "ask"

(* graceful_leave: which way out.                                          *)
WayOut(n) ==
  IF ~is_member(n) THEN "gone"
  ELSE IF ~is_leader(n) THEN "ask"
  ELSE IF Cardinality(get_status(n).voters) <= 1 THEN "alone"
  ELSE "resign"

graceful_leave(n) ==
  /\ LeaveAt(n, "leave")
  /\ joined' = [joined EXCEPT ![n] = TRUE]
  /\ LeaveGo(n, WayOut(n))
  /\ UNCHANGED <<leaveFrame, raftVars, at, serving, abandoned, leaves>>

(* The leader takes itself out of the voters and waits until it does not   *)
(* lead; that wait for Raft has no timeout.                                *)
Resign(n) ==
  /\ LeaveAt(n, "resign")
  /\ \E keep \in BOOLEAN :
       LET m == DropVoter(mem[n], n, keep)
       IN IF RaftError(n, m) = "none"
          THEN Propose("leave", n, n, m) /\ LeaveGo(n, "resigning")
          ELSE LeaveGo(n, "failed") /\ UNCHANGED <<raftVars, at>>
  /\ UNCHANGED <<leaveFrame, serving, joined, abandoned, leaves>>

Resigned(n) ==
  /\ LeaveAt(n, "resigning")
  /\ \/ /\ Done("leave", n) /\ OwnEntry("leave", n) /\ Len(mem[leader].sets) = 2
        /\ \E keep \in BOOLEAN : Propose("leave", n, n, DropVoter(mem[n], n, keep))
        /\ UNCHANGED leave
     \/ /\ Done("leave", n) /\ ~(OwnEntry("leave", n) /\ Len(mem[leader].sets) = 2)
        /\ Forget("leave", n) /\ LeaveGo(n, "transfer")
     \/ Lost("leave", n) /\ Forget("leave", n) /\ LeaveGo(n, "failed")
  /\ UNCHANGED <<leaveFrame, serving, joined, abandoned, leaves>>

Transferred(n) ==
  /\ LeaveAt(n, "transfer")
  /\ \/ ~is_leader(n) /\ LeaveGo(n, "ask")
     \/ is_leader(n) /\ "slow" \in faults /\ LeaveGo(n, "failed")
  /\ UNCHANGED <<leaveFrame, raftVars, at, serving, joined, abandoned, leaves>>

(* request_removal_from_leader: the leader it knows of, or one the seeds   *)
(* name; it tries again until its time is up.                              *)
LeadersToAsk(n) == NamedLeaders(n) \cup ({known[n]} \cap Peers(n))
CanRemove(n) ==
  Leads(leader) /\ leader # n /\ (Committed(leader) \/ Agree(serving \cup {leader}, mem[leader]))

request_removal_from_leader(n) ==
  /\ LeaveAt(n, "ask")
  /\ \E l \in LeadersToAsk(n) : leave' = [leave EXCEPT ![n].step = "request", ![n].via = l]
  /\ UNCHANGED <<leaveFrame, raftVars, at, serving, joined, abandoned, leaves>>

(* The loop gives up at its deadline.                                      *)
LeaveTimesOut(n) ==
  /\ LeaveAt(n, "ask") /\ ("slow" \in faults \/ ~CanRemove(n))
  /\ LeaveGo(n, "failed")
  /\ UNCHANGED <<leaveFrame, raftVars, at, serving, joined, abandoned, leaves>>

(* remove_node, the handler of DELETE /cluster/members/{id}: a voter is    *)
(* made a learner first.                                                   *)
RemovalChange(l, n, keep) ==
  IF n \in get_status(l).voters THEN DropVoter(mem[l], n, keep) ELSE DropNode(mem[l], n)

remove_node(n) ==
  LET l == Handler(leave[n].via)
  IN /\ LeaveAt(n, "request")
     /\ \E keep \in BOOLEAN :
          LET m == RemovalChange(l, n, keep)
          IN IF l \in up /\ n # l /\ RaftError(l, m) = "none"
             THEN /\ Propose("leave", n, l, m)
                  /\ LeaveGo(n, IF n \in get_status(l).voters THEN "demoting" ELSE "removing")
             ELSE LeaveGo(n, "ask") /\ UNCHANGED <<raftVars, at>>
     /\ UNCHANGED <<leaveFrame, serving, joined, abandoned, leaves>>

(* Faulty variant: a node that is no voter any more counts as removed.     *)
DemotedIsRemoved(n) ==
  /\ LeaveAt(n, "demoting")
  /\ \/ /\ Done("leave", n) /\ OwnEntry("leave", n) /\ Len(mem[leader].sets) = 2
        /\ \E keep \in BOOLEAN : Propose("leave", n, leader, DropVoter(mem[leader], n, keep))
        /\ UNCHANGED leave
     \/ /\ Done("leave", n) /\ Len(mem[leader].sets) = 1
        /\ Forget("leave", n) /\ LeaveGo(n, "left")
     \/ Lost("leave", n) /\ Forget("leave", n) /\ LeaveGo(n, "ask")
  /\ UNCHANGED <<leaveFrame, serving, joined, abandoned, leaves>>

Demoted(n) ==
  /\ LeaveAt(n, "demoting")
  /\ \/ /\ Done("leave", n) /\ OwnEntry("leave", n) /\ Len(mem[leader].sets) = 2
        /\ \E keep \in BOOLEAN : Propose("leave", n, leader, DropVoter(mem[leader], n, keep))
        /\ UNCHANGED leave
     \/ /\ Done("leave", n) /\ OwnEntry("leave", n) /\ Len(mem[leader].sets) = 1
        /\ Propose("leave", n, leader, DropNode(mem[leader], n))
        /\ LeaveGo(n, "removing")
     \/ /\ Lost("leave", n) \/ (Done("leave", n) /\ ~OwnEntry("leave", n))
        /\ Forget("leave", n) /\ LeaveGo(n, "ask")
  /\ UNCHANGED <<leaveFrame, serving, joined, abandoned, leaves>>

Removed(n) ==
  /\ LeaveAt(n, "removing")
  /\ \/ Done("leave", n) /\ LeaveGo(n, "left")
     \/ Lost("leave", n) /\ LeaveGo(n, "ask")
  /\ Forget("leave", n)
  /\ UNCHANGED <<leaveFrame, serving, joined, abandoned, leaves>>

(* The client of the removal gives up with the rest of leave_timeout.      *)
RemovalTimesOut(n) ==
  /\ n \in up /\ leave[n].step \in {"demoting", "removing"}
  /\ Stuck("leave", n) \/ "slow" \in faults
  /\ Forget("leave", n)
  /\ LeaveGo(n, "failed")
  /\ UNCHANGED <<leaveFrame, serving, joined, abandoned, leaves>>

Over == {"gone", "alone", "left", "failed"}

(* The process ends, and with it the requests it waits for.  The drain of  *)
(* the requests others sent to it and the awaits of its other workers come *)
(* before that in main.rs: they change nothing here and are bounded by     *)
(* their own timeouts, and are left out (Gateway has the drain).           *)
Gone(n) ==
  /\ up' = up \ {n} /\ serving' = serving \ {n}
  /\ worker' = [worker EXCEPT ![n] = [Started EXCEPT !.step = "done"]]
  /\ at' = [c \in DOMAIN at |-> [at[c] EXCEPT ![n] = NoEntry]]
  /\ init' = IF init.node = n /\ init.step # "ok" THEN [init EXCEPT !.step = "failed"] ELSE init
Exit(n) ==
  /\ n \in up /\ leave[n].step \in Over
  /\ Gone(n)
  /\ UNCHANGED <<faults, raftVars, joined, leave, abandoned, refused, histVars>>

Crash(n) ==
  /\ "crash" \in faults /\ n \in up /\ crashes < MaxCrashes
  /\ crashes' = crashes + 1
  /\ Gone(n)
  /\ leave' = [leave EXCEPT ![n] = Running]
  /\ UNCHANGED <<faults, raftVars, joined, abandoned, refused, leaves, starts>>

(* async_main: the flag is off, the log is as the last process left it.    *)
Start(n) ==
  /\ "start" \in faults /\ n \notin up /\ starts < MaxStarts
  /\ starts' = starts + 1
  /\ up' = up \cup {n} /\ serving' = serving \cup {n}
  /\ joined' = [joined EXCEPT ![n] = FALSE]
  /\ worker' = [worker EXCEPT ![n] = Started]
  /\ leave' = [leave EXCEPT ![n] = Running]
  /\ leader' = IF leader = n THEN NoNode ELSE leader
  /\ known' = [known EXCEPT ![n] = NoNode]
  /\ abandoned' = abandoned \ {n}
  /\ UNCHANGED <<faults, mem, term, init, at, refused, leaves, crashes>>
-----------------------------------------------------------------------------
(* cluster_initialize on one node, for the members ms.                     *)
InitAt(step) == init.step = step /\ init.node \in up
InitGo(step) == init' = [init EXCEPT !.step = step]
initFrame == <<faults, up, serving, joined, worker, leave, abandoned, refused, histVars>>

cluster_initialize(n, ms) ==
  /\ init.step = "idle" /\ n \in up /\ n \in ms /\ ~is_initialized(n)
  /\ mem' = [mem EXCEPT ![n] = [term |-> 0, index |-> 1, sets |-> <<{n}>>, nodes |-> {n}]]
  /\ init' = [step |-> "wait", node |-> n, all |-> ms \ {n}, rest |-> ms \ {n}]
  /\ UNCHANGED <<initFrame, term, leader, known, at>>

InitialLeader ==
  /\ InitAt("wait") /\ known[init.node] # NoNode
  /\ InitGo(IF init.rest = {} THEN "ok" ELSE "add")
  /\ UNCHANGED <<initFrame, raftVars, at>>

(* The members are added one by one, then promoted together; the first     *)
(* error ends the request and leaves the members there are.                *)
InitialMember(n) ==
  LET m == AddNode(mem[init.node], n)
  IN /\ InitAt("add") /\ n \in init.rest /\ \A q \in init.rest : n <= q
     /\ IF RaftError(init.node, m) = "none"
        THEN Propose("init", init.node, init.node, m) /\ InitGo("adding")
        ELSE InitGo("failed") /\ UNCHANGED <<raftVars, at>>
     /\ UNCHANGED initFrame

InitialMemberAdded(n) ==
  /\ InitAt("adding") /\ n \in init.rest /\ \A q \in init.rest : n <= q
  /\ Done("init", init.node) /\ mem[n] = mem[leader]
  /\ init' = [init EXCEPT !.step = IF init.rest = {n} THEN "promote" ELSE "add", !.rest = @ \ {n}]
  /\ Forget("init", init.node)
  /\ UNCHANGED initFrame

InitialVoters ==
  LET m == AddVoters(mem[init.node], init.all)
  IN /\ InitAt("promote")
     /\ IF RaftError(init.node, m) = "none"
        THEN Propose("init", init.node, init.node, m) /\ InitGo("promoting")
        ELSE InitGo("failed") /\ UNCHANGED <<raftVars, at>>
     /\ UNCHANGED initFrame

InitialVotersAdded ==
  /\ InitAt("promoting") /\ Done("init", init.node)
  /\ IF OwnEntry("init", init.node) /\ Len(mem[leader].sets) = 2
     THEN Propose("init", init.node, leader, AddVoters(mem[leader], init.all)) /\ UNCHANGED init
     ELSE Forget("init", init.node) /\ InitGo("ok")
  /\ UNCHANGED initFrame

(* wait_for_leader gives up, or a change of the configuration fails.       *)
InitFails ==
  /\ \/ InitAt("wait") /\ known[init.node] = NoNode /\ "slow" \in faults
     \/ /\ InitAt("adding") \/ InitAt("promoting")
        /\ Lost("init", init.node) \/ "slow" \in faults
  /\ Forget("init", init.node)
  /\ InitGo("failed")
  /\ UNCHANGED initFrame
-----------------------------------------------------------------------------
(* The internal API of the leader.                                         *)
AdminRemove(n) ==
  LET m == DropNode(mem[leader], n)
  IN /\ "admin" \in faults /\ Leads(leader) /\ n # leader /\ n \in mem[leader].nodes
     /\ RaftError(leader, m) = "none" /\ Room(leader)
     /\ Append1(leader, m)
     /\ UNCHANGED <<initFrame, init, term, leader, known, at>>

trigger_elect(n) == "admin" \in faults /\ n # leader /\ CanWin(n) /\ Wins(n)
-----------------------------------------------------------------------------
Raft == StepDown \/ \E n \in Node : Replicate(n) \/ Elect(n)
Work(n) ==
  \/ WorkerCheck(n) \/ WorkerSleep(n) \/ try_join_cluster(n) \/ add_learner(n) \/ LearnerAdded(n)
  \/ promote_voters(n) \/ Promoted(n) \/ JoinRequestFails(n)
Shutdown(n) ==
  \/ StopServing(n) \/ WaitForWorker(n) \/ graceful_leave(n) \/ Resign(n) \/ Resigned(n)
  \/ Transferred(n) \/ request_removal_from_leader(n) \/ remove_node(n) \/ Demoted(n) \/ Removed(n)
  \/ RemovalTimesOut(n) \/ LeaveTimesOut(n) \/ Exit(n)
Initialize ==
  \/ InitialLeader \/ InitialVoters \/ InitialVotersAdded \/ InitFails
  \/ \E n \in Node : InitialMember(n) \/ InitialMemberAdded(n)
Environment ==
  \/ \E n \in Node : Signal(n) \/ Crash(n) \/ Start(n) \/ AdminRemove(n) \/ trigger_elect(n)
  \/ \E n \in Node, ms \in MemberLists : cluster_initialize(n, ms)

Next ==
  \/ Raft \/ Initialize \/ Environment
  \/ \E n \in Node : Work(n) \/ Shutdown(n)

Spec == Init /\ [][Next]_vars

(* Raft makes progress, the tasks of a process that runs are scheduled,    *)
(* and the deadline of a leave comes.                                      *)
FairSpec ==
  /\ Spec /\ WF_vars(Raft) /\ WF_vars(Initialize)
  /\ \A n \in Node : WF_vars(Work(n))
  /\ WF_vars(\E n \in Node : Shutdown(n)) /\ SF_vars(\E n \in Node : LeaveTimesOut(n))
-----------------------------------------------------------------------------
Entries == (0 .. MaxTerm) \X (0 .. MaxIndex)

(* Every variable has its type.                                            *)
TypeOK ==
  /\ faults \subseteq FaultKinds /\ serving \subseteq up /\ up \subseteq Node
  /\ term \in 0 .. MaxTerm /\ leader \in Node \cup {NoNode}
  /\ known \in [Node -> Node \cup {NoNode}] /\ joined \in [Node -> BOOLEAN]
  /\ \A c \in DOMAIN at : at[c] \in [Node -> Entries]
  /\ \A n \in Node : mem[n].nodes \subseteq Node /\ Len(mem[n].sets) \in 0 .. 2

(* A node whose graceful_leave reported success is out of the cluster for  *)
(* as long as it stays down, provided its auto-join worker was over and    *)
(* nobody is initializing a cluster with it.                               *)
LeftMeansRemoved ==
  \A n \in Node : leave[n].step = "left" /\ n \notin abandoned \cup init.all /\ Leads(leader)
                  => n \notin mem[leader].nodes

(* A node that answers ready on /health/ready is in the configuration of   *)
(* the leader, unless its join met another configuration change: whoever   *)
(* routes requests to ready nodes reaches members.  A leader that dies or  *)
(* an operator that removes the node can make the answer stale.            *)
ReadyMeansMember ==
  \A n \in up : readiness_check(n) = 200 /\ ~Signalled(n) /\ n \notin refused /\ Leads(leader)
                /\ faults \subseteq {"leave", "wait", "slow"}
                => n \in mem[leader].nodes

(* A node that starts beside a cluster that works becomes a member, unless *)
(* its join met another configuration change.                              *)
JoinEnds ==
  faults = {} /\ leader # NoNode
    => \A n \in Node : <>[](n \notin refused => Leads(leader) /\ n \in mem[leader].nodes)

(* A shutdown comes to an end while no other node dies.  And if one node   *)
(* leaves a cluster of at least three voters on SIGTERM, a leader that     *)
(* does not count it as a voter carries on, whether the node led, followed *)
(* or had just been deposed.                                               *)
LeaveSucceeds ==
  \A n \in Node :
    /\ "crash" \notin faults => (leave[n].step = "wait" ~> n \notin up)
    /\ faults = {"leave"} /\ leader # NoNode /\ Cardinality(Voters(mem[leader])) >= 3
         => (leave[n].step = "wait"
               ~> n \notin up /\ Leads(leader) /\ n \notin Voters(mem[leader]) /\ Committed(leader))

=============================================================================
