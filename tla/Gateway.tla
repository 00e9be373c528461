------------------------------- MODULE Gateway -------------------------------
(***************************************************************************)
(* The way of an HTTP request through a node: the layers of app()          *)
(* (track_requests, forward_to_leader, require_initialized_cluster,        *)
(* validate_sigv4), the routes, RaftNode::write_with_retry behind the      *)
(* handlers that change metadata, and the drain of a node.                 *)
(*                                                                         *)
(* A request is a call at the node the client chose and, when that node    *)
(* forwards it, a second call at the node it takes for the leader.  A node *)
(* knows of elections later than they happen, and a leader that was        *)
(* deposed goes on as leader until it hears of it.  A call whose           *)
(* connection is closed is dropped where it stands.  Raft is external.     *)
(***************************************************************************)
EXTENDS Integers, FiniteSets

CONSTANTS
  Node, Request,
  Kinds,        \* the requests that are sent (see Kind)
  Scenarios,    \* the nodes in the cluster at first, the requests, and what may happen
  MaxRetries,   \* max_retries of write_with_retry
  MaxTerm,      \* bound: elections
  MaxHops       \* bound: calls per request

(* slow: forwarded requests time out     refuse: connections are refused   *)
(* drop: clients close their connection  raft:   client_write fails        *)
(* elect: other nodes become leader      drain:  nodes are drained         *)
FaultKinds == {"slow", "refuse", "drop", "raft", "elect", "drain"}

NoNode == 0
MAX_TIME_SKEW_SECS == 15 * 60

ASSUME NodeAssumption == Node \subseteq Nat \ {NoNode} /\ 1 \in Node   \* 1 initializes the cluster
ASSUME BoundsAssumption == {MaxRetries, MaxTerm} \subseteq Nat /\ MaxHops \in Nat \ {0}
ASSUME ScenariosAssumption == Scenarios \subseteq (SUBSET Node) \X (SUBSET Request) \X (SUBSET FaultKinds)

Methods == {"GET", "HEAD", "PUT", "POST", "DELETE", "PATCH"}
Probes  == {"/health", "/health/ready", "/metrics"}
Posts   == {"/cluster/initialize", "/cluster/members", "/cluster/members/promote",
            "/cluster/trigger-elect"}
Paths   == Probes \cup Posts \cup {"/cluster/status", "/cluster/members/{id}", "/", "bucket", "object"}
Headers == {"authorization", "x-amz-date", "x-amz-content-sha256", "host", "content-md5",
            "x-forwarded-by"}
(* A request: params are the query parameters it has, auth the shape of    *)
(* the authorization header and of the date, age the seconds between that  *)
(* date and the clock of the server, signed the headers its signature      *)
(* covers.                                                                 *)
Kind == [method : Methods, path : Paths,
         params : SUBSET {"uploads", "uploadId", "partNumber"},
         headers : SUBSET Headers, signed : SUBSET Headers,
         auth : {"sigv4", "malformed", "other_scheme", "other_key", "bad_date"},
         age : Int]
ASSUME KindsAssumption == Kinds \subseteq Kind

Call == Request \X (1 .. MaxHops)

VARIABLES
  faults,
  members,   \* the nodes that have a configuration
  leader, term,
  known,     \* current_leader of each node
  led,       \* the term in which each node was elected last
  calls,     \* where each call stands
  entries,   \* what the leader of this term appended and has not committed
  commits,   \* how often the command of a request was committed
  in_flight, \* RequestTracker of each node
  drain,     \* drain_node of each node, and the calls it began with
  lost       \* history: requests whose leader lost its place while they waited

vars == <<faults, members, leader, term, known, led, calls, entries, commits, in_flight, drain,
          lost>>
raftVars == <<members, leader, term, known, led>>

Idle   == [step |-> "idle"]
Unsent == [step |-> "unsent"]
Over == {"idle", "unsent", "done", "dropped"}
Active(c) == calls[c].step \notin Over
-----------------------------------------------------------------------------
(* What the layers decide from a request alone.                            *)

(* track_requests: should_track.                                           *)
should_track(q) == q.path \notin Probes

is_write_method(method) == method \in {"PUT", "POST", "DELETE", "PATCH"}
is_already_forwarded(q) == "x-forwarded-by" \in q.headers
NeverForwarded(q) == q.path \in Probes \cup {"/cluster/status"}

is_exempt_from_initialization_check(q) ==
  q.path \in Probes \cup Posts \cup {"/cluster/status", "/cluster/members/{id}"}

should_forward_header(h) == h \in {"authorization", "x-amz-date", "x-amz-content-sha256", "host"}

(* Faulty variant: the marker is left out.                                 *)
Unmarked(q) == [q EXCEPT !.headers = {h \in @ : should_forward_header(h)}]

(* ForwardingClient::forward: the request as the leader gets it.           *)
Forwarded(q) ==
  [q EXCEPT !.headers = {h \in @ : should_forward_header(h)} \cup {"x-forwarded-by"}]

(* The canonical request names every signed header and has the values of   *)
(* those that came.                                                        *)
build_canonical_request(q) == [names |-> q.signed, values |-> q.signed \cap q.headers]
Signature(q) == [names |-> q.signed, values |-> q.signed]

parse_authorization_header(q) == q.auth # "malformed"

validate_timestamp(q) ==
  CASE q.auth = "bad_date" -> "InvalidSignatureException"
    [] q.auth # "bad_date" /\ (IF q.age < 0 THEN -q.age ELSE q.age) > MAX_TIME_SKEW_SECS
         -> "RequestTimeTooSkewed"
    [] OTHER -> "ok"

validate_sigv4(q) ==
  CASE "authorization" \notin q.headers         -> "Unauthorized"
    [] q.auth = "other_scheme"                  -> "InvalidSignatureException"
    [] ~parse_authorization_header(q)           -> "InvalidSignatureException"
    [] q.auth = "other_key"                     -> "Unauthorized"
    [] "x-amz-date" \notin q.headers            -> "InvalidSignatureException"
    [] validate_timestamp(q) # "ok"             -> validate_timestamp(q)
    [] build_canonical_request(q) # Signature(q) -> "SignatureDoesNotMatch"
    [] OTHER                                    -> "ok"

status_code(err) ==
  CASE err \in {"Unauthorized", "RequestTimeTooSkewed", "SignatureDoesNotMatch",
                "InvalidSignatureException"} -> 403
    [] err = "InvalidRequest"                -> 400
    [] err = "Internal"                      -> 500
    [] OTHER                                 -> 200

(* Faulty variant: the status says what the body of the answer says.       *)
ForwardErrorIsUnavailable == 503

(* ForwardError::into_response; its body says ServiceUnavailable.          *)
ForwardError == 502
-----------------------------------------------------------------------------
(* The routes.                                                             *)
bucket_routes(q) ==
  CASE q.method = "PUT"    -> "create_bucket"
    [] q.method = "DELETE" -> "delete_bucket"
    [] q.method = "GET"    -> IF "uploads" \in q.params THEN "list_multipart_uploads"
                              ELSE "list_objects"
    [] q.method = "HEAD"   -> "head_bucket"
    [] OTHER               -> "method_not_allowed"

initiate_or_complete(q) ==
  CASE "uploadId" \in q.params -> "complete_multipart"
    [] "uploads" \in q.params  -> "initiate_multipart"
    [] OTHER                   -> "bad_request"

put_or_upload_part(q) ==
  IF {"partNumber", "uploadId"} \subseteq q.params THEN "upload_part" ELSE "put_object"

delete_or_abort(q) == IF "uploadId" \in q.params THEN "abort_multipart" ELSE "delete_object"

object_routes(q) ==
  CASE q.method = "PUT"    -> put_or_upload_part(q)
    [] q.method = "DELETE" -> delete_or_abort(q)
    [] q.method = "POST"   -> initiate_or_complete(q)
    [] q.method = "GET"    -> "get_object"
    [] q.method = "HEAD"   -> "head_object"
    [] OTHER               -> "method_not_allowed"

cluster_routes(q) ==
  IF \/ q.path \in Posts /\ q.method = "POST"
     \/ q.path = "/cluster/status" /\ q.method \in {"GET", "HEAD"}
     \/ q.path = "/cluster/members/{id}" /\ q.method = "DELETE"
  THEN "cluster" ELSE "method_not_allowed"

health_routes(q) == IF q.method \in {"GET", "HEAD"} THEN "health" ELSE "method_not_allowed"

Route(q) ==
  CASE q.path = "bucket" -> bucket_routes(q)
    [] q.path = "object" -> object_routes(q)
    [] q.path = "/"      -> IF q.method \in {"GET", "HEAD"} THEN "list_buckets"
                            ELSE "method_not_allowed"
    [] q.path \in Probes -> health_routes(q)
    [] OTHER             -> cluster_routes(q)

IsApi(q) == q.path \in {"/", "bucket", "object"}
(* The operations that submit a command to Raft.                           *)
Logged(q) ==
  Route(q) \in {"create_bucket", "delete_bucket", "put_object", "delete_object", "complete_multipart"}

(* app(): what a call meets once it is not forwarded.                      *)
Refusal(n, q) ==
  IF ~is_exempt_from_initialization_check(q) /\ n \notin members THEN 503
  ELSE IF IsApi(q) /\ validate_sigv4(q) # "ok" THEN status_code(validate_sigv4(q))
  ELSE IF Route(q) = "method_not_allowed" THEN 405
  ELSE IF Route(q) = "bad_request" THEN 400
  ELSE 200
-----------------------------------------------------------------------------
Init ==
  /\ \E s \in Scenarios :
       /\ members = s[1] /\ faults = s[3]
       /\ calls = [c \in Call |-> IF c[1] \in s[2] THEN Idle ELSE Unsent]
  /\ leader = 1 /\ term = 1
  /\ known = [n \in Node |-> IF n \in members THEN 1 ELSE NoNode]
  /\ led = [n \in Node |-> IF n = 1 THEN 1 ELSE 0]
  /\ entries = {}
  /\ commits = [r \in Request |-> 0]
  /\ in_flight = [n \in Node |-> 0]
  /\ drain = [n \in Node |-> [step |-> "idle", began |-> {}]]
  /\ lost = {}

is_leader(n) == known[n] = n
leader_http_addr(n) == IF n \in members THEN known[n] ELSE NoNode
-----------------------------------------------------------------------------
(* A call comes in, and leaves with an answer.                             *)
Arrives(f, c, n, q) ==
  /\ calls' = [f EXCEPT ![c] = [step |-> "layers", node |-> n, q |-> q, via |-> NoNode, try |-> 0,
                                term |-> 0, status |-> 0]]
  /\ in_flight' = IF should_track(q) THEN [in_flight EXCEPT ![n] = @ + 1] ELSE in_flight

(* Faulty variant: the answer counts for every path.                       *)
DecrementsAlways(c, status) ==
  /\ calls' = [calls EXCEPT ![c].step = "done", ![c].status = status]
  /\ in_flight' = [in_flight EXCEPT ![calls[c].node] = @ - 1]

(* track_requests, after next.run.                                         *)
Reply(c, status) ==
  /\ calls' = [calls EXCEPT ![c].step = "done", ![c].status = status]
  /\ in_flight' = IF should_track(calls[c].q) THEN [in_flight EXCEPT ![calls[c].node] = @ - 1]
                  ELSE in_flight

CallAt(c, step) == calls[c].step = step
Goes(c, step) == calls' = [calls EXCEPT ![c].step = step] /\ UNCHANGED in_flight
frame == <<faults, raftVars, drain>>

Send(r, n, q) ==
  /\ CallAt(<<r, 1>>, "idle")
  /\ Arrives(calls, <<r, 1>>, n, q)
  /\ UNCHANGED <<frame, entries, commits, lost>>

(* forward_to_leader up to is_leader().await.                              *)
forward_to_leader(c) ==
  LET q == calls[c].q
  IN /\ CallAt(c, "layers")
     /\ Goes(c, IF NeverForwarded(q) \/ ~is_write_method(q.method) \/ is_already_forwarded(q)
                   \/ is_leader(calls[c].node)
                THEN "local" ELSE "lookup")
     /\ UNCHANGED <<frame, entries, commits, lost>>

(* leader_http_addr().await, and the call of the leader.                   *)
ForwardTo(c) ==
  LET l == leader_http_addr(calls[c].node)
      d == <<c[1], c[2] + 1>>
  IN /\ CallAt(c, "lookup")
     /\ \/ l = NoNode /\ Goes(c, "local")
        \/ /\ l # NoNode /\ d \in Call
           /\ Arrives([calls EXCEPT ![c].step = "forwarding"], d, l, Forwarded(calls[c].q))
        \/ l # NoNode /\ "refuse" \in faults /\ Reply(c, ForwardError)
     /\ UNCHANGED <<frame, entries, commits, lost>>

ForwardReturns(c) ==
  LET d == <<c[1], c[2] + 1>>
  IN /\ CallAt(c, "forwarding") /\ CallAt(d, "done")
     /\ Reply(c, calls[d].status)
     /\ UNCHANGED <<frame, entries, commits, lost>>

ForwardTimesOut(c) ==
  /\ CallAt(c, "forwarding") /\ "slow" \in faults
  /\ Reply(c, ForwardError)
  /\ UNCHANGED <<frame, entries, commits, lost>>

(* The client closes its connection, or the forwarding node gave up: the   *)
(* future of the call is dropped, and nothing after its await runs.        *)
Drop(c) ==
  /\ Active(c)
  /\ IF c[2] = 1 THEN "drop" \in faults ELSE ~CallAt(<<c[1], c[2] - 1>>, "forwarding")
  /\ Goes(c, "dropped")
  /\ UNCHANGED <<frame, entries, commits, lost>>

(* require_initialized_cluster, validate_sigv4 and the route.              *)
Local(c) ==
  LET q == calls[c].q
      s == Refusal(calls[c].node, q)
  IN /\ CallAt(c, "local")
     /\ IF s = 200 /\ Logged(q) THEN Goes(c, "write") ELSE Reply(c, s)
     /\ UNCHANGED <<frame, entries, commits, lost>>
-----------------------------------------------------------------------------
(* RaftNode::write_with_retry.                                             *)

(* ForwardToLeader: retry after an election when no other leader is named. *)
NotLeader(c, id) ==
  IF id \in {NoNode, calls[c].node} THEN Goes(c, "wait") ELSE Reply(c, status_code("Internal"))

client_write(c) ==
  LET n == calls[c].node
  IN /\ CallAt(c, "write")
     /\ IF is_leader(n)
        THEN /\ calls' = [calls EXCEPT ![c].step = "pending", ![c].term = led[n]]
             /\ entries' = IF led[n] = term THEN entries \cup {<<c, calls[c].try>>} ELSE entries
             /\ UNCHANGED in_flight
        ELSE NotLeader(c, known[n]) /\ UNCHANGED entries
     /\ UNCHANGED <<frame, commits, lost>>

(* The entry is committed, and the call hears of it if it still waits.     *)
Commit(e) ==
  LET c == e[1]
  IN /\ e \in entries
     /\ entries' = entries \ {e}
     /\ commits' = [commits EXCEPT ![c[1]] = @ + 1]
     /\ IF CallAt(c, "pending") /\ calls[c].try = e[2] /\ calls[c].term = term
        THEN Reply(c, 200) ELSE UNCHANGED <<calls, in_flight>>
     /\ UNCHANGED <<frame, lost>>

(* The node hears of another term: its clients are told there is no leader *)
(* or who it is, whatever became of what they wrote.                       *)
LeadershipLost(c) ==
  LET n == calls[c].node
  IN /\ CallAt(c, "pending") /\ (~is_leader(n) \/ led[n] # calls[c].term)
     /\ \E id \in {NoNode, known[n]} : NotLeader(c, id)
     /\ lost' = lost \cup {c[1]}
     /\ UNCHANGED <<frame, entries, commits>>

(* Faulty variant: every error is retried.                                 *)
RetriesEveryError(c) ==
  /\ CallAt(c, "pending") /\ "raft" \in faults
  /\ Goes(c, "wait")
  /\ UNCHANGED <<frame, entries, commits, lost>>

(* Any other error ends the write, though its entry may be in the log.     *)
WriteFails(c) ==
  /\ CallAt(c, "pending") /\ "raft" \in faults
  /\ Reply(c, status_code("Internal"))
  /\ UNCHANGED <<frame, entries, commits, lost>>

(* wait_for_leader and the delay; it ends with a leader or without.        *)
Retry(c) ==
  /\ CallAt(c, "wait")
  /\ IF calls[c].try < MaxRetries
     THEN /\ calls' = [calls EXCEPT ![c].step = "write", ![c].try = @ + 1]
          /\ UNCHANGED in_flight
     ELSE Reply(c, status_code("Internal"))
  /\ UNCHANGED <<frame, entries, commits, lost>>
-----------------------------------------------------------------------------
(* openraft: an election, what nodes hear of it, and a node that gets the  *)
(* configuration.  Entries of the old term survive or not.                 *)
Elect(n) ==
  /\ "elect" \in faults /\ n \in members /\ n # leader /\ term < MaxTerm
  /\ leader' = n /\ term' = term + 1
  /\ known' = [known EXCEPT ![n] = n]
  /\ led' = [led EXCEPT ![n] = term + 1]
  /\ \E S \in SUBSET entries :
       commits' = [r \in Request |-> commits[r] + Cardinality({e \in S : e[1][1] = r})]
  /\ entries' = {}
  /\ UNCHANGED <<faults, members, calls, in_flight, drain, lost>>

Learn(n) ==
  /\ n \in members /\ known[n] # leader
  /\ known' = [known EXCEPT ![n] = leader]
  /\ UNCHANGED <<faults, members, leader, term, led, calls, entries, commits, in_flight, drain, lost>>

LoseLeader(n) ==
  /\ n # leader /\ known[n] \notin {NoNode, leader}
  /\ known' = [known EXCEPT ![n] = NoNode]
  /\ UNCHANGED <<faults, members, leader, term, led, calls, entries, commits, in_flight, drain, lost>>

Join(n) ==
  /\ n \notin members
  /\ members' = members \cup {n}
  /\ known' = [known EXCEPT ![n] = leader]
  /\ UNCHANGED <<faults, leader, term, led, calls, entries, commits, in_flight, drain, lost>>
-----------------------------------------------------------------------------
(* The internal API: drain_node, and the loop of the shutdown.             *)
CallsAt(n) == {c \in Call : Active(c) /\ calls[c].node = n /\ should_track(calls[c].q)}
drainFrame == <<faults, raftVars, calls, entries, commits, in_flight, lost>>

drain_node(n) ==
  /\ "drain" \in faults /\ drain[n].step = "idle"
  /\ drain' = [drain EXCEPT ![n] = [step |-> "draining", began |-> CallsAt(n)]]
  /\ UNCHANGED drainFrame

Drained(n) ==
  /\ drain[n].step = "draining" /\ in_flight[n] = 0
  /\ drain' = [drain EXCEPT ![n].step = "drained"]
  /\ UNCHANGED drainFrame

DrainTimesOut(n) ==
  /\ drain[n].step = "draining" /\ in_flight[n] # 0
  /\ drain' = [drain EXCEPT ![n].step = "timeout"]
  /\ UNCHANGED drainFrame
-----------------------------------------------------------------------------
Handle(c) ==
  \/ forward_to_leader(c) \/ ForwardTo(c) \/ ForwardReturns(c) \/ Local(c) \/ client_write(c)
  \/ LeadershipLost(c) \/ Retry(c)
Hear == \E n \in Node : Learn(n)
Next ==
  \/ \E c \in Call : Handle(c) \/ ForwardTimesOut(c) \/ Drop(c) \/ WriteFails(c)
  \/ \E e \in entries : Commit(e)
  \/ \E n \in Node : \/ Elect(n) \/ LoseLeader(n) \/ Join(n)
                     \/ drain_node(n) \/ Drained(n) \/ DrainTimesOut(n)
  \/ Hear
  \/ \E r \in Request, n \in Node, q \in Kinds : Send(r, n, q)

Spec == Init /\ [][Next]_vars

(* Tasks are scheduled, nodes hear of their leader and the leader commits. *)
FairSpec ==
  /\ Spec /\ WF_vars(Hear) /\ WF_vars(\E e \in entries : Commit(e))
  /\ WF_vars(\E c \in Call : Handle(c))
-----------------------------------------------------------------------------
Client(r) == <<r, 1>>
Answered(r, s) == CallAt(Client(r), "done") /\ calls[Client(r)].status \in s

(* A request that was refused (not initialized, not authenticated, bad)    *)
(* changed nothing and never will, at the node it was sent to and at the   *)
(* leader; 500 and 502 promise no such thing.                              *)
RefusedChangesNothing ==
  \A r \in Request : Answered(r, {400, 403, 405, 503})
    => commits[r] = 0 /\ \A e \in entries : e[1][1] # r

(* A write the client hears 200 for was committed, however often it was    *)
(* forwarded, retried or met an election on its way.  And a write is       *)
(* committed once at most, unless its leader lost its place while it       *)
(* waited: write_with_retry submits the command again only when it was not *)
(* submitted before.                                                       *)
CommittedOnce ==
  \A r \in Request :
    /\ Answered(r, {200}) /\ Logged(calls[Client(r)].q) => commits[r] > 0
    /\ r \notin lost => commits[r] <= 1

(* A drain that reports success left no tracked call behind that was there *)
(* when it began; a dropped call holds it up for good.                     *)
DrainedMeansDone ==
  \A n \in Node : drain[n].step = "drained" => \A c \in drain[n].began : CallAt(c, "done")

(* Every request is answered or its connection closed, however wrong the   *)
(* nodes are about the leader: a forwarded request is not forwarded again. *)
RequestsAnswered ==
  \A r \in Request : Active(Client(r)) ~> ~Active(Client(r))

=============================================================================
