---------------------------- MODULE GatewayProofs ----------------------------
(***************************************************************************)
(* Proofs about Gateway for any nodes, any requests (infinitely many too), *)
(* any faults and any bounds on retries, elections and hops.               *)
(***************************************************************************)
EXTENDS Gateway, FiniteSetTheorems, TLAPS

Stage == {"layers", "lookup", "forwarding", "local", "write", "pending", "wait", "done", "dropped"}
CallRec == [step : Stage, node : Node, q : Kind, via : {NoNode}, try : Nat, term : Nat, status : Nat]

TypeOK ==
  /\ members \subseteq Node /\ leader \in Node /\ term \in Nat
  /\ known \in [Node -> Node \cup {NoNode}]
  /\ led \in [Node -> Nat]
  /\ calls \in [Call -> {Idle, Unsent} \cup CallRec]
  /\ entries \subseteq Call \X Nat /\ IsFiniteSet(entries)
  /\ commits \in [Request -> Nat]
  /\ in_flight \in [Node -> Nat]
  /\ drain \in [Node -> [step : {"idle", "draining", "drained", "timeout"}, began : SUBSET Call]]
  /\ lost \subseteq Request

Started(c) == calls[c].step \notin {"idle", "unsent"}

(* A call at a leader comes from one that forwards or forwarded it, and    *)
(* carries the marker: the leader does not forward it again.               *)
Hops ==
  \A r \in Request, i \in 1 .. MaxHops :
    /\ i > 2 => ~Started(<<r, i>>)
    /\ i = 2 /\ Started(<<r, i>>) =>
         /\ calls[<<r, 2>>].step \notin {"lookup", "forwarding"}
         /\ calls[<<r, 1>>].step \in {"forwarding", "done", "dropped"}
         /\ calls[<<r, 2>>].q = Forwarded(calls[<<r, 1>>].q)
    /\ calls[<<r, i>>].step = "forwarding" => 2 \in 1 .. MaxHops

(* The tracked calls at a node that have not left with an answer.          *)
Tracked(n) ==
  {c \in Call : /\ Started(c) /\ calls[c].step # "done"
                /\ calls[c].node = n /\ should_track(calls[c].q)}

(* RequestTracker counts them.                                             *)
Counted ==
  \A n \in Node : IsFiniteSet(Tracked(n)) /\ in_flight[n] = Cardinality(Tracked(n))

(* The calls a drain began with are answered or still counted.             *)
BeganTracked ==
  \A n \in Node : \A c \in drain[n].began : CallAt(c, "done") \/ c \in Tracked(n)

Submitted(r) == commits[r] # 0 \/ \E e \in entries : e[1][1] = r

Refused(c) == CallAt(c, "done") /\ calls[c].status \notin {200, 500, 502}

(* What is refused at the leader is refused at the first node.             *)
RefusedAlike ==
  \A r \in Request : 2 \in 1 .. MaxHops /\ Refused(<<r, 1>>) =>
    ~Started(<<r, 2>>) \/ Refused(<<r, 2>>)

(* A command reaches Raft behind the layers only.                          *)
SubmittedLate ==
  \A r \in Request : Submitted(r) =>
    \A i \in 1 .. MaxHops :
      /\ calls[<<r, i>>].step \notin {"layers", "lookup", "local"}
      /\ i = 1 => Started(<<r, i>>)
      /\ ~Refused(<<r, i>>)

(* A command that is not lost is in the log once, uncommitted or not,      *)
(* and its call does not submit it again.                                  *)
LoggedOnce(r) ==
  /\ commits[r] <= 1
  /\ \A e \in entries : e[1][1] = r =>
       commits[r] = 0 /\ \A f \in entries : f[1][1] = r => f = e

SubmittedOnce ==
  \A r \in Request : r \notin lost =>
    /\ LoggedOnce(r)
    /\ Submitted(r) => \A i \in 1 .. MaxHops : calls[<<r, i>>].step \notin {"write", "wait"}

(* 200 for a logged operation follows its commit.                          *)
SuccessCommitted ==
  \A c \in Call : CallAt(c, "done") /\ calls[c].status = 200 /\ Logged(calls[c].q)
    => commits[c[1]] > 0

GatewayInv ==
  /\ TypeOK /\ Hops /\ Counted /\ BeganTracked /\ DrainedMeansDone
  /\ RefusedAlike /\ SubmittedLate /\ SubmittedOnce /\ SuccessCommitted
-----------------------------------------------------------------------------
(* One call goes on, at the node and with the request it has.              *)
Moves(c, new) ==
  /\ c \in Call /\ calls[c] \in CallRec /\ calls[c].step # "done"
  /\ new \in CallRec /\ new.node = calls[c].node /\ new.q = calls[c].q
  /\ calls' = [calls EXCEPT ![c] = new]

(* A call that has a stage is a full record.                               *)
LEMMA StartedRecord ==
  ASSUME TypeOK, NEW c \in Call
  PROVE  /\ Started(c) <=> calls[c] \in CallRec
         /\ Started(c) => calls[c].step \in Stage
         /\ calls[c].step \in Stage => Started(c)
BY DEF TypeOK, Started, Idle, Unsent, CallRec, Stage

(* The next hop of a request is another call of it.                        *)
LEMMA CallShape ==
  ASSUME NEW c \in Call
  PROVE  c[1] \in Request /\ c[2] \in 1 .. MaxHops /\ c = <<c[1], c[2]>>
BY DEF Call

(* A call that goes on moves, and the counter stays.                       *)
LEMMA GoesMoves ==
  ASSUME TypeOK, NEW c \in Call, NEW s \in Stage, Started(c), calls[c].step # "done", Goes(c, s)
  PROVE  Moves(c, [calls[c] EXCEPT !.step = s]) /\ in_flight' = in_flight
BY StartedRecord DEF Goes, Moves, CallRec, TypeOK

(* A call that is answered moves.                                          *)
LEMMA ReplyMoves ==
  ASSUME TypeOK, NEW c \in Call, NEW s \in Nat, Started(c), calls[c].step # "done", Reply(c, s)
  PROVE  Moves(c, [calls[c] EXCEPT !.step = "done", !.status = s])
BY StartedRecord DEF Reply, Moves, CallRec, Stage, TypeOK

(* The counter follows the calls.                                          *)
LEMMA GoesCounted ==
  ASSUME TypeOK, Counted, NEW c \in Call, NEW new, Moves(c, new), new.step # "done",
         in_flight' = in_flight
  PROVE  Counted' /\ (BeganTracked /\ drain' = drain => BeganTracked')
<1>1. \A n \in Node : Tracked(n)' = Tracked(n)
  BY StartedRecord DEF Moves, Tracked, Started, TypeOK, CallRec, Stage
<1> QED BY <1>1 DEF Counted, BeganTracked, Moves, CallAt, TypeOK

(* The layer around the handlers counts an answered call down.             *)
LEMMA ReplyCounted ==
  ASSUME TypeOK, Counted, NEW c \in Call, NEW s \in Nat, Started(c), calls[c].step # "done",
         Reply(c, s)
  PROVE  /\ Counted' /\ in_flight' \in [Node -> Nat]
         /\ BeganTracked /\ drain' = drain => BeganTracked'
<1> DEFINE n == calls[c].node
           q == calls[c].q
<1>1. Moves(c, [calls[c] EXCEPT !.step = "done", !.status = s])
  BY ReplyMoves
<1>2. n \in Node
  BY <1>1 DEF Moves, CallRec
<1>3. \A m \in Node : Tracked(m)' = Tracked(m) \ {c}
  BY <1>1, StartedRecord DEF Moves, Tracked, Started, TypeOK, CallRec, Stage
<1>4. \A m \in Node : c \in Tracked(m) <=> m = n /\ should_track(q)
  BY <1>2 DEF Tracked
<1>5. \A m \in Node : /\ IsFiniteSet(Tracked(m)) /\ in_flight[m] = Cardinality(Tracked(m))
                      /\ in_flight[m] \in Nat
  BY FS_CardinalityType DEF Counted
<1>6. \A m \in Node : /\ IsFiniteSet(Tracked(m) \ {c})
                      /\ Cardinality(Tracked(m) \ {c}) =
                           IF m = n /\ should_track(q) THEN in_flight[m] - 1 ELSE in_flight[m]
  BY <1>4, <1>5, FS_RemoveElement
<1>7. \A m \in Node : Cardinality(Tracked(m) \ {c}) \in Nat
  BY <1>6, FS_CardinalityType
<1>8. /\ DOMAIN in_flight' = Node
      /\ in_flight' = [m \in Node |-> IF m = n /\ should_track(q) THEN in_flight[m] - 1
                                      ELSE in_flight[m]]
  BY <1>2 DEF Reply, TypeOK
<1>9. \A m \in Node : in_flight'[m] = Cardinality(Tracked(m) \ {c})
  BY <1>6, <1>8
<1>10. Counted' /\ in_flight' \in [Node -> Nat]
  BY <1>3, <1>6, <1>7, <1>8, <1>9 DEF Counted
<1>11. ASSUME BeganTracked, drain' = drain PROVE BeganTracked'
  BY <1>1, <1>3, <1>11 DEF BeganTracked, Moves, CallAt, TypeOK, CallRec
<1> QED BY <1>10, <1>11

(* f differs from calls in calls that went on where they were.             *)
Continues(f) ==
  /\ f \in [Call -> {Idle, Unsent} \cup CallRec]
  /\ \A b \in Call :
       \/ f[b] = calls[b]
       \/ /\ calls[b] \in CallRec /\ calls[b].step # "done"
          /\ f[b] \in CallRec /\ f[b].step # "done"
          /\ f[b].node = calls[b].node /\ f[b].q = calls[b].q

(* A call that comes in is counted once, if its path is tracked.           *)
LEMMA ArrivesCounted ==
  ASSUME TypeOK, Counted, NEW f, Continues(f), NEW c \in Call, NEW n \in Node, NEW q \in Kind,
         ~Started(c), Arrives(f, c, n, q)
  PROVE  /\ Counted' /\ in_flight' \in [Node -> Nat]
         /\ BeganTracked /\ drain' = drain => BeganTracked'
         /\ calls' \in [Call -> {Idle, Unsent} \cup CallRec]
<1> DEFINE new == [step |-> "layers", node |-> n, q |-> q, via |-> NoNode, try |-> 0,
                   term |-> 0, status |-> 0]
<1>1. new \in CallRec /\ calls' = [f EXCEPT ![c] = new]
  BY DEF CallRec, Stage, Arrives
<1>2. calls' \in [Call -> {Idle, Unsent} \cup CallRec]
  BY <1>1 DEF Continues
<1>3. \A b \in Call : b # c =>
        \/ calls'[b] = calls[b]
        \/ /\ calls[b] \in CallRec /\ calls[b].step # "done"
           /\ calls'[b] \in CallRec /\ calls'[b].step # "done"
           /\ calls'[b].node = calls[b].node /\ calls'[b].q = calls[b].q
  BY <1>1 DEF Continues
<1>4. \A m \in Node : c \notin Tracked(m) /\ (c \in Tracked(m)' <=> m = n /\ should_track(q))
  BY <1>1 DEF Tracked, Started, Continues
<1>5. \A m \in Node : \A b \in Call : b # c => (b \in Tracked(m)' <=> b \in Tracked(m))
  BY <1>3, StartedRecord DEF Tracked, Started, CallRec, Stage
<1>6. \A m \in Node : Tracked(m)' = IF m = n /\ should_track(q) THEN Tracked(m) \cup {c}
                                    ELSE Tracked(m)
  BY <1>4, <1>5 DEF Tracked
<1>7. \A m \in Node : /\ IsFiniteSet(Tracked(m)) /\ in_flight[m] = Cardinality(Tracked(m))
                      /\ in_flight[m] \in Nat
  BY FS_CardinalityType DEF Counted
<1>8. \A m \in Node : /\ IsFiniteSet(Tracked(m) \cup {c})
                      /\ Cardinality(Tracked(m) \cup {c}) = in_flight[m] + 1
  BY <1>4, <1>7, FS_AddElement
<1>9. in_flight' = [m \in Node |-> IF m = n /\ should_track(q) THEN in_flight[m] + 1
                                   ELSE in_flight[m]]
  BY DEF Arrives, TypeOK
<1>10. Counted' /\ in_flight' \in [Node -> Nat]
  BY <1>6, <1>7, <1>8, <1>9 DEF Counted
<1>11. ASSUME BeganTracked, drain' = drain PROVE BeganTracked'
  <2> SUFFICES ASSUME NEW m \in Node, NEW b \in drain[m].began
               PROVE  (CallAt(b, "done"))' \/ b \in Tracked(m)'
    BY <1>11 DEF BeganTracked
  <2>1. b \in Call /\ (CallAt(b, "done") \/ b \in Tracked(m))
    BY <1>11 DEF BeganTracked, TypeOK
  <2>2. b # c
    BY <2>1 DEF CallAt, Tracked, Started
  <2> QED BY <1>3, <1>5, <2>1, <2>2 DEF CallAt
<1> QED BY <1>2, <1>10, <1>11
-----------------------------------------------------------------------------
(* What the leader gets is the same operation, marked.                     *)
LEMMA ForwardedAlike ==
  ASSUME NEW q \in Kind
  PROVE  /\ Forwarded(q) \in Kind /\ is_already_forwarded(Forwarded(q))
         /\ Logged(Forwarded(q)) <=> Logged(q)
<1>1. Forwarded(q) \in Kind
  BY DEF Forwarded, Kind, Headers
<1>2. is_already_forwarded(Forwarded(q))
  BY DEF Forwarded, is_already_forwarded, Kind
<1>3. /\ Forwarded(q).method = q.method /\ Forwarded(q).path = q.path
      /\ Forwarded(q).params = q.params
  BY DEF Forwarded, Kind
<1>4. Route(Forwarded(q)) = Route(q)
  BY <1>3 DEF Route, bucket_routes, object_routes, cluster_routes, health_routes,
     put_or_upload_part, delete_or_abort, initiate_or_complete
<1> QED BY <1>1, <1>2, <1>4 DEF Logged

(* Every refusal has a status.                                             *)
LEMMA RefusalType ==
  ASSUME NEW n, NEW q
  PROVE  Refusal(n, q) \in Nat
<1>1. \A err : status_code(err) \in {403, 400, 500, 200}
  BY DEF status_code
<1> QED BY <1>1 DEF Refusal

History == Hops /\ RefusedAlike /\ SubmittedLate /\ SubmittedOnce /\ SuccessCommitted

(* The ways of a call through its stages that keep the history true, when  *)
(* nothing is submitted and nothing committed.                             *)
LawfulMove(c, new) ==
  /\ c[2] = 2 => new.step # "lookup"
  /\ calls[c].step \in {"forwarding", "dropped"} => new.step \in {"done", "dropped"}
  /\ new.step # "forwarding"
  /\ new.step \in {"layers", "lookup", "local"} => calls[c].step \in {"layers", "lookup"}
  /\ new.step \in {"write", "wait"} =>
       calls[c].step \in {"local", "write", "wait"} \/ c[1] \in lost'
  /\ new.step = "done" /\ new.status \notin {200, 500, 502} =>
       \/ calls[c].step = "local"
       \/ c[2] = 1 /\ 2 \in 1 .. MaxHops /\ Refused(<<c[1], 2>>)
  /\ new.step = "done" /\ new.status = 200 /\ Logged(calls[c].q) => commits'[c[1]] > 0

(* A lawful move keeps what is said of hops and refusals.                  *)
LEMMA MovesShape ==
  ASSUME TypeOK, Hops, RefusedAlike, NEW c \in Call, NEW new, Moves(c, new), LawfulMove(c, new)
  PROVE  /\ Hops' /\ RefusedAlike'
         /\ \A r \in Request, i \in 1 .. MaxHops :
              /\ calls'[<<r, i>>] = IF <<r, i>> = c THEN new ELSE calls[<<r, i>>]
              /\ <<r, i>> = c <=> r = c[1] /\ i = c[2]
              /\ Started(<<r, i>>)' <=> Started(<<r, i>>)
         /\ \A r \in Request, i \in 1 .. MaxHops : Refused(<<r, i>>)' =>
              \/ Refused(<<r, i>>)
              \/ <<r, i>> = c /\ calls[c].step = "local"
              \/ 2 \in 1 .. MaxHops /\ Refused(<<r, 2>>)
<1> USE StartedRecord, CallShape DEF Moves, TypeOK, CallRec
<1>1. /\ c[1] \in Request /\ c[2] \in 1 .. MaxHops /\ c = <<c[1], c[2]>> /\ Started(c)
      /\ MaxHops \in Nat
  BY BoundsAssumption
<1>2. c[2] \in {1, 2}
  <2>1. c[2] > 2 => ~Started(<<c[1], c[2]>>)
    BY <1>1 DEF Hops
  <2>2. ~(c[2] > 2)
    BY <1>1, <2>1, Zenon
  <2>3. c[2] \in Nat /\ c[2] >= 1
    BY <1>1
  <2> HIDE StartedRecord, CallShape DEF Moves, TypeOK, CallRec
  <2> QED BY <2>2, <2>3
<1>3. \A r \in Request, i \in 1 .. MaxHops :
        /\ <<r, i>> \in Call
        /\ calls'[<<r, i>>] = IF <<r, i>> = c THEN new ELSE calls[<<r, i>>]
        /\ <<r, i>> = c <=> r = c[1] /\ i = c[2]
  BY <1>1 DEF Call
<1>4. new.step \in Stage
  OBVIOUS
<1>5. \A r \in Request, i \in 1 .. MaxHops : Started(<<r, i>>)' <=> Started(<<r, i>>)
  BY <1>1, <1>3, <1>4 DEF Started, Stage
<1>6. Hops'
  <2> SUFFICES ASSUME NEW r \in Request, NEW i \in 1 .. MaxHops
               PROVE  /\ i > 2 => ~Started(<<r, i>>)'
                      /\ i = 2 /\ Started(<<r, i>>)' =>
                           /\ calls'[<<r, 2>>].step \notin {"lookup", "forwarding"}
                           /\ calls'[<<r, 1>>].step \in {"forwarding", "done", "dropped"}
                           /\ calls'[<<r, 2>>].q = Forwarded(calls'[<<r, 1>>].q)
                      /\ calls'[<<r, i>>].step = "forwarding" => 2 \in 1 .. MaxHops
    BY DEF Hops
  <2>1. i > 2 => ~Started(<<r, i>>)'
    BY <1>5 DEF Hops
  <2>2. ASSUME i = 2, Started(<<r, i>>)'
        PROVE  /\ calls'[<<r, 2>>].step \notin {"lookup", "forwarding"}
               /\ calls'[<<r, 1>>].step \in {"forwarding", "done", "dropped"}
               /\ calls'[<<r, 2>>].q = Forwarded(calls'[<<r, 1>>].q)
    <3>1. /\ calls[<<r, 2>>].step \notin {"lookup", "forwarding"}
          /\ calls[<<r, 1>>].step \in {"forwarding", "done", "dropped"}
          /\ calls[<<r, 2>>].q = Forwarded(calls[<<r, 1>>].q)
      BY <1>5, <2>2 DEF Hops
    <3>2. 1 \in 1 .. MaxHops
      BY <1>1, <2>2
    <3> QED BY <1>3, <2>2, <3>1, <3>2 DEF LawfulMove
  <2>3. calls'[<<r, i>>].step = "forwarding" => 2 \in 1 .. MaxHops
    BY <1>3 DEF Hops, LawfulMove
  <2> QED BY <2>1, <2>2, <2>3
<1>8. ASSUME NEW r \in Request, NEW i \in 1 .. MaxHops, Refused(<<r, i>>)', <<r, i>> = c
      PROVE  \/ calls[c].step = "local"
             \/ i = 1 /\ 2 \in 1 .. MaxHops /\ Refused(<<r, 2>>)
  <2>1. c[1] = r /\ c[2] = i /\ calls'[c] = new
    BY <1>3, <1>8
  <2>2. new.step = "done" /\ new.status \notin {200, 500, 502}
    BY <1>8, <2>1 DEF Refused, CallAt
  <2> QED BY <2>1, <2>2 DEF LawfulMove
<1>9. ASSUME NEW r \in Request, NEW i \in 1 .. MaxHops, <<r, i>> # c
      PROVE  Refused(<<r, i>>)' <=> Refused(<<r, i>>)
  BY <1>3, <1>9 DEF Refused, CallAt
<1>10. ~Refused(c)
  BY DEF Refused, CallAt
<1>11. RefusedAlike'
  <2> SUFFICES ASSUME NEW r \in Request, 2 \in 1 .. MaxHops, Refused(<<r, 1>>)'
               PROVE  ~Started(<<r, 2>>)' \/ Refused(<<r, 2>>)'
    BY DEF RefusedAlike
  <2>1. 1 \in 1 .. MaxHops
    BY <1>1
  <2>2. CASE <<r, 1>> = c
    <3>1. <<r, 2>> # c
      BY <2>2
    <3>2. calls[c].step = "local" => ~Started(<<r, 2>>)
      BY <2>2 DEF Hops
    <3> QED BY <1>5, <1>8, <1>9, <2>1, <2>2, <3>1, <3>2
  <2>3. CASE <<r, 1>> # c
    <3>1. Refused(<<r, 1>>)
      BY <1>9, <2>1, <2>3
    <3>2. ~Started(<<r, 2>>) \/ Refused(<<r, 2>>)
      BY <3>1 DEF RefusedAlike
    <3>3. <<r, 2>> # c
      BY <1>1, <1>10, <3>2
    <3> QED BY <1>5, <1>9, <3>2, <3>3
  <2> QED BY <2>2, <2>3
<1> QED BY <1>3, <1>5, <1>6, <1>8, <1>9, <1>11

(* A lawful move keeps what is said of commands and answers.               *)
LEMMA MovesHistory ==
  ASSUME TypeOK, History, NEW c \in Call, NEW new, Moves(c, new), LawfulMove(c, new),
         \A r \in Request : (Submitted(r)' => Submitted(r)) /\ commits'[r] >= commits[r],
         \A r \in Request : r \notin lost' => LoggedOnce(r)',
         commits' \in [Request -> Nat], lost \subseteq lost'
  PROVE  History'
<1> USE StartedRecord, CallShape DEF History, Moves, TypeOK, CallRec
<1>1. /\ c[1] \in Request /\ c[2] \in 1 .. MaxHops /\ c = <<c[1], c[2]>> /\ Started(c)
  OBVIOUS
<1>3. \A r \in Request, i \in 1 .. MaxHops :
        /\ calls'[<<r, i>>] = IF <<r, i>> = c THEN new ELSE calls[<<r, i>>]
        /\ <<r, i>> = c <=> r = c[1] /\ i = c[2]
        /\ Started(<<r, i>>)' <=> Started(<<r, i>>)
  BY MovesShape, Zenon
<1>4. Hops' /\ RefusedAlike'
  BY MovesShape, Zenon
<1>5. \A r \in Request, i \in 1 .. MaxHops : Refused(<<r, i>>)' =>
        \/ Refused(<<r, i>>)
        \/ <<r, i>> = c /\ calls[c].step = "local"
        \/ 2 \in 1 .. MaxHops /\ Refused(<<r, 2>>)
  BY MovesShape, Zenon
<1>12. SubmittedLate'
  <2> SUFFICES ASSUME NEW r \in Request, Submitted(r)', NEW i \in 1 .. MaxHops
               PROVE  /\ calls'[<<r, i>>].step \notin {"layers", "lookup", "local"}
                      /\ i = 1 => Started(<<r, i>>)'
                      /\ ~Refused(<<r, i>>)'
    BY DEF SubmittedLate
  <2>1. /\ calls[<<r, i>>].step \notin {"layers", "lookup", "local"}
        /\ i = 1 => Started(<<r, i>>)
        /\ \A j \in 1 .. MaxHops : ~Refused(<<r, j>>)
    BY DEF SubmittedLate
  <2>2. calls'[<<r, i>>].step \notin {"layers", "lookup", "local"}
    <3>1. CASE <<r, i>> = c
      BY <2>1, <3>1 DEF LawfulMove
    <3>2. CASE <<r, i>> # c
      BY <1>3, <2>1, <3>2
    <3> QED BY <3>1, <3>2
  <2>3. ~Refused(<<r, i>>)'
    <3>1. ~(<<r, i>> = c /\ calls[c].step = "local")
      BY <2>1
    <3> QED BY <1>5, <2>1, <3>1
  <2> QED BY <1>3, <2>1, <2>2, <2>3
<1>13. SubmittedOnce'
  <2> SUFFICES ASSUME NEW r \in Request, r \notin lost', Submitted(r)', NEW i \in 1 .. MaxHops
               PROVE  calls'[<<r, i>>].step \notin {"write", "wait"}
    BY DEF SubmittedOnce
  <2>1. calls[<<r, i>>].step \notin {"write", "wait", "local"}
    BY DEF SubmittedLate, SubmittedOnce
  <2>2. CASE <<r, i>> = c
    <3>1. c[1] = r /\ calls'[c] = new
      BY <1>3, <2>2
    <3> QED BY <2>1, <2>2, <3>1 DEF LawfulMove
  <2>3. CASE <<r, i>> # c
    BY <1>3, <2>1, <2>3
  <2> QED BY <2>2, <2>3
<1>14. SuccessCommitted'
  <2> SUFFICES ASSUME NEW b \in Call, calls'[b].step = "done", calls'[b].status = 200,
                      Logged(calls'[b].q)
               PROVE  commits'[b[1]] > 0
    BY DEF SuccessCommitted, CallAt
  <2>1. CASE b = c
    BY <2>1 DEF LawfulMove
  <2>2. CASE b # c
    <3>1. commits[b[1]] > 0 /\ b[1] \in Request
      BY <2>2 DEF SuccessCommitted, CallAt
    <3> QED BY <3>1
  <2> QED BY <2>1, <2>2
<1> QED BY <1>4, <1>12, <1>13, <1>14

(* A call that comes in at stage layers, from the client or from call b.   *)
LEMMA ArrivesHistory ==
  ASSUME TypeOK, History, NEW r \in Request, NEW i \in 1 .. MaxHops, NEW new \in CallRec,
         ~Started(<<r, i>>), new.step = "layers",
         \/ i = 1 /\ calls' = [calls EXCEPT ![<<r, 1>>] = new]
         \/ /\ i = 2 /\ calls[<<r, 1>>].step = "lookup" /\ new.q = Forwarded(calls[<<r, 1>>].q)
            /\ calls' = [calls EXCEPT ![<<r, 1>>].step = "forwarding", ![<<r, 2>>] = new],
         entries' = entries, commits' = commits, lost' = lost
  PROVE  History'
<1> USE BoundsAssumption DEF History, TypeOK
<1>1. /\ 1 \in 1 .. MaxHops
      /\ \A s \in Request, j \in 1 .. MaxHops : <<s, j>> \in Call
  BY DEF Call
<1>2. calls'[<<r, i>>] = new
  BY <1>1
<1>3. i = 2 => /\ calls'[<<r, 1>>].step = "forwarding" /\ calls'[<<r, 1>>].q = calls[<<r, 1>>].q
               /\ Started(<<r, 1>>) /\ Started(<<r, 1>>)' /\ ~Refused(<<r, 1>>)'
  <2> SUFFICES ASSUME i = 2
               PROVE  /\ calls'[<<r, 1>>].step = "forwarding"
                      /\ calls'[<<r, 1>>].q = calls[<<r, 1>>].q
                      /\ Started(<<r, 1>>) /\ Started(<<r, 1>>)' /\ ~Refused(<<r, 1>>)'
    OBVIOUS
  <2>1. calls[<<r, 1>>] \in CallRec
    BY <1>1, StartedRecord DEF Stage
  <2>2. calls'[<<r, 1>>] = [calls[<<r, 1>>] EXCEPT !.step = "forwarding"]
    BY <1>1
  <2> QED BY <2>1, <2>2 DEF CallRec, Started, Refused, CallAt
<1>4. \A s \in Request, j \in 1 .. MaxHops :
        s # r \/ (j # i /\ j # 1) => calls'[<<s, j>>] = calls[<<s, j>>]
  BY <1>1
<1>5. Started(<<r, i>>)' /\ ~Refused(<<r, i>>)'
  BY <1>2 DEF Started, Refused, CallAt
<1>6. \A s \in Request, j \in 1 .. MaxHops :
        s # r \/ j \notin {1, i} => /\ Started(<<s, j>>)' <=> Started(<<s, j>>)
                                    /\ Refused(<<s, j>>)' <=> Refused(<<s, j>>)
  BY <1>4 DEF Started, Refused, CallAt
<1>7. i = 1 /\ 2 \in 1 .. MaxHops => ~Started(<<r, 2>>)
  BY DEF Hops, Started
<1>8. Hops'
  <2> SUFFICES ASSUME NEW s \in Request, NEW j \in 1 .. MaxHops
               PROVE  /\ j > 2 => ~Started(<<s, j>>)'
                      /\ j = 2 /\ Started(<<s, j>>)' =>
                           /\ calls'[<<s, 2>>].step \notin {"lookup", "forwarding"}
                           /\ calls'[<<s, 1>>].step \in {"forwarding", "done", "dropped"}
                           /\ calls'[<<s, 2>>].q = Forwarded(calls'[<<s, 1>>].q)
                      /\ calls'[<<s, j>>].step = "forwarding" => 2 \in 1 .. MaxHops
    BY DEF Hops
  <2>1. i \in {1, 2}
    OBVIOUS
  <2>2. ASSUME j > 2 PROVE ~Started(<<s, j>>)'
    <3>1. ~Started(<<s, j>>)
      BY <2>2 DEF Hops
    <3>2. calls'[<<s, j>>] = calls[<<s, j>>]
      BY <1>4, <2>1, <2>2
    <3> QED BY <3>1, <3>2 DEF Started
  <2>6. calls'[<<s, j>>].step = "forwarding" => 2 \in 1 .. MaxHops
    <3>1. CASE s = r /\ j \in {1, i}
      BY <1>2, <1>3, <2>1, <3>1
    <3>2. CASE ~(s = r /\ j \in {1, i})
      BY <1>4, <3>2 DEF Hops
    <3> QED BY <3>1, <3>2
  <2>3. CASE s # r
    BY <1>1, <1>4, <1>6, <2>2, <2>3, <2>6 DEF Hops
  <2>4. CASE s = r /\ i = 1
    <3>1. j = 2 => ~Started(<<s, j>>)'
      BY <1>4, <1>7, <2>4 DEF Started
    <3> QED BY <2>2, <2>6, <3>1
  <2>5. CASE s = r /\ i = 2
    BY <1>2, <1>3, <2>2, <2>5, <2>6
  <2> QED BY <2>1, <2>3, <2>4, <2>5
<1>9. RefusedAlike'
  <2> SUFFICES ASSUME NEW s \in Request, 2 \in 1 .. MaxHops, Refused(<<s, 1>>)'
               PROVE  ~Started(<<s, 2>>)' \/ Refused(<<s, 2>>)'
    BY DEF RefusedAlike
  <2>1. s # r
    BY <1>3, <1>5
  <2> QED BY <1>1, <1>6, <2>1 DEF RefusedAlike
<1>10. ~Submitted(r)
  BY <1>1 DEF SubmittedLate
<1>11. \A s \in Request : Submitted(s)' <=> Submitted(s)
  BY DEF Submitted
<1>12. SubmittedLate'
  BY <1>1, <1>4, <1>6, <1>10, <1>11 DEF SubmittedLate
<1>13. SubmittedOnce'
  BY <1>4, <1>10, <1>11 DEF SubmittedOnce, LoggedOnce
<1>14. SuccessCommitted'
  <2> SUFFICES ASSUME NEW b \in Call, calls'[b].step = "done", calls'[b].status = 200,
                      Logged(calls'[b].q)
               PROVE  commits[b[1]] > 0
    BY DEF SuccessCommitted, CallAt
  <2>1. b # <<r, i>> /\ b # <<r, 1>>
    BY <1>2, <1>3
  <2>2. calls'[b] = calls[b]
    BY <2>1
  <2> QED BY <2>2 DEF SuccessCommitted, CallAt
<1> QED BY <1>8, <1>9, <1>12, <1>13, <1>14
-----------------------------------------------------------------------------
(* The whole invariant, for a step of a call that leaves the log alone.    *)
LEMMA GoesStep ==
  ASSUME GatewayInv, NEW c \in Call, NEW new, Moves(c, new), LawfulMove(c, new),
         new.step # "done", in_flight' = in_flight, lost \subseteq lost', lost' \subseteq Request,
         UNCHANGED <<members, leader, term, known, led, entries, commits, drain>>
  PROVE  GatewayInv'
<1>1. TypeOK /\ History /\ Counted /\ BeganTracked /\ DrainedMeansDone
  BY DEF GatewayInv, History
<1>2. TypeOK'
  BY <1>1 DEF TypeOK, Moves
<1>3. Counted' /\ BeganTracked'
  BY <1>1, GoesCounted, Zenon
<1>4. History'
  <2>1. \A r \in Request : (Submitted(r)' => Submitted(r)) /\ commits'[r] >= commits[r]
    BY <1>1 DEF Submitted, TypeOK
  <2>2. \A r \in Request : r \notin lost' => LoggedOnce(r)'
    BY <1>1 DEF History, SubmittedOnce, LoggedOnce
  <2> QED BY <1>1, <2>1, <2>2, MovesHistory DEF TypeOK
<1>5. DrainedMeansDone'
  BY <1>1 DEF DrainedMeansDone, Moves, CallAt, TypeOK
<1> QED BY <1>2, <1>3, <1>4, <1>5 DEF GatewayInv, History

(* The answers that keep the history true.                                 *)
LawfulReply(c, s) ==
  /\ s \notin {200, 500, 502} =>
       \/ calls[c].step = "local"
       \/ c[2] = 1 /\ 2 \in 1 .. MaxHops /\ Refused(<<c[1], 2>>)
  /\ s = 200 /\ Logged(calls[c].q) => commits'[c[1]] > 0

(* An answer keeps the invariant.                                          *)
LEMMA ReplyStep ==
  ASSUME GatewayInv, NEW c \in Call, NEW s \in Nat, Started(c), calls[c].step # "done", Reply(c, s),
         LawfulReply(c, s),
         lost \subseteq lost', lost' \subseteq Request,
         UNCHANGED <<members, leader, term, known, led, entries, commits, drain>>
  PROVE  GatewayInv'
<1> DEFINE new == [calls[c] EXCEPT !.step = "done", !.status = s]
<1>1. TypeOK /\ History /\ Counted /\ BeganTracked /\ DrainedMeansDone
  BY DEF GatewayInv, History
<1>2. Moves(c, new) /\ LawfulMove(c, new)
  <2>1. Moves(c, new)
    BY <1>1, ReplyMoves
  <2>2. new.step = "done" /\ new.status = s
    BY <2>1 DEF Moves, CallRec
  <2> QED BY <2>1, <2>2 DEF LawfulMove, LawfulReply
<1>3. Counted' /\ in_flight' \in [Node -> Nat] /\ BeganTracked'
  BY <1>1, ReplyCounted, Zenon
<1>4. TypeOK'
  BY <1>1, <1>2, <1>3 DEF TypeOK, Moves
<1>5. History'
  <2>1. \A r \in Request : (Submitted(r)' => Submitted(r)) /\ commits'[r] >= commits[r]
    BY <1>1 DEF Submitted, TypeOK
  <2>2. \A r \in Request : r \notin lost' => LoggedOnce(r)'
    BY <1>1 DEF History, SubmittedOnce, LoggedOnce
  <2> QED BY <1>1, <1>2, <2>1, <2>2, MovesHistory DEF TypeOK
<1>6. DrainedMeansDone'
  BY <1>1, <1>2 DEF DrainedMeansDone, Moves, CallAt, TypeOK
<1> QED BY <1>3, <1>4, <1>5, <1>6 DEF GatewayInv, History

(* The steps of a call before it reaches Raft.                             *)
LEMMA LayersStep ==
  ASSUME GatewayInv, NEW c \in Call, forward_to_leader(c)
  PROVE  GatewayInv'
<1> DEFINE s == IF NeverForwarded(calls[c].q) \/ ~is_write_method(calls[c].q.method)
                   \/ is_already_forwarded(calls[c].q) \/ is_leader(calls[c].node)
                THEN "local" ELSE "lookup"
           new == [calls[c] EXCEPT !.step = s]
<1>1. TypeOK /\ History
  BY DEF GatewayInv, History
<1>2. calls[c].step = "layers" /\ Started(c) /\ Goes(c, s) /\ s \in Stage \ {"done"}
  BY DEF forward_to_leader, CallAt, Started, Stage
<1>3. Moves(c, new) /\ in_flight' = in_flight /\ new.step = s
  BY <1>1, <1>2, GoesMoves, StartedRecord DEF CallRec
<1>4. LawfulMove(c, new)
  <2>1. c[2] = 2 => is_already_forwarded(calls[c].q)
    <3> SUFFICES ASSUME c[2] = 2 PROVE is_already_forwarded(calls[c].q)
      OBVIOUS
    <3>1. c = <<c[1], 2>> /\ c[1] \in Request /\ 2 \in 1 .. MaxHops
      BY CallShape
    <3>2. /\ calls[<<c[1], 2>>].q = Forwarded(calls[<<c[1], 1>>].q)
          /\ calls[<<c[1], 1>>].step \in {"forwarding", "done", "dropped"}
      BY <1>1, <1>2, <3>1 DEF History, Hops
    <3>3. <<c[1], 1>> \in Call
      BY <3>1, BoundsAssumption DEF Call
    <3>4. calls[<<c[1], 1>>].q \in Kind
      BY <1>1, <3>2, <3>3, StartedRecord DEF Stage, CallRec
    <3> QED BY <3>1, <3>2, <3>4, ForwardedAlike
  <2> QED BY <1>2, <1>3, <2>1 DEF LawfulMove
<1>5. UNCHANGED <<members, leader, term, known, led, entries, commits, drain, lost>>
  BY DEF forward_to_leader, frame, raftVars
<1> QED BY <1>1, <1>2, <1>3, <1>4, <1>5, GoesStep DEF TypeOK

(* Forwarding makes a second call, which the leader counts.                *)
LEMMA ForwardToStep ==
  ASSUME GatewayInv, NEW c \in Call, ForwardTo(c)
  PROVE  GatewayInv'
<1> DEFINE l == leader_http_addr(calls[c].node)
           d == <<c[1], c[2] + 1>>
<1>1. TypeOK /\ History /\ Counted /\ BeganTracked /\ DrainedMeansDone
  BY DEF GatewayInv, History
<1>2. calls[c].step = "lookup" /\ Started(c) /\ calls[c] \in CallRec
  BY <1>1, StartedRecord DEF ForwardTo, CallAt, Started
<1>3. UNCHANGED <<members, leader, term, known, led, entries, commits, drain, lost>>
  BY DEF ForwardTo, frame, raftVars
<1>4. CASE Goes(c, "local")
  <2> DEFINE new == [calls[c] EXCEPT !.step = "local"]
  <2>1. Moves(c, new) /\ in_flight' = in_flight /\ new.step = "local"
    BY <1>1, <1>2, <1>4, GoesMoves DEF CallRec, Stage
  <2>2. LawfulMove(c, new)
    BY <1>2, <2>1 DEF LawfulMove
  <2> QED BY <1>1, <1>3, <2>1, <2>2, GoesStep DEF TypeOK
<1>5. CASE Reply(c, ForwardError)
  <2>1. ForwardError = 502 /\ 502 \in Nat
    BY DEF ForwardError
  <2>2. LawfulReply(c, 502)
    BY DEF LawfulReply
  <2> QED BY <1>1, <1>2, <1>3, <1>5, <2>1, <2>2, ReplyStep DEF TypeOK
<1>6. CASE /\ l # NoNode /\ d \in Call
           /\ Arrives([calls EXCEPT ![c].step = "forwarding"], d, l, Forwarded(calls[c].q))
  <2> DEFINE f == [calls EXCEPT ![c].step = "forwarding"]
             q == Forwarded(calls[c].q)
             new == [step |-> "layers", node |-> l, q |-> q, via |-> NoNode, try |-> 0,
                     term |-> 0, status |-> 0]
             r == c[1]
  <2>1. c = <<r, 1>> /\ r \in Request /\ d = <<r, 2>> /\ 2 \in 1 .. MaxHops
    <3>1. c = <<r, c[2]>> /\ r \in Request /\ c[2] \in 1 .. MaxHops /\ MaxHops \in Nat
      BY CallShape, BoundsAssumption
    <3>2. c[2] > 2 => ~Started(<<r, c[2]>>)
      BY <1>1, <3>1 DEF History, Hops
    <3>3. c[2] = 2 => calls[<<r, c[2]>>].step # "lookup" \/ ~Started(<<r, c[2]>>)
      BY <1>1, <3>1 DEF History, Hops
    <3>4. ~(c[2] > 2) /\ c[2] # 2
      BY <1>2, <3>1, <3>2, <3>3, Zenon
    <3>5. c[2] = 1
      BY <3>1, <3>4
    <3>6. 2 \in 1 .. MaxHops
      BY <1>6, <3>5 DEF Call
    <3> QED BY <3>1, <3>5, <3>6
  <2>2. l \in Node
    BY <1>1, <1>2, <1>6 DEF leader_http_addr, TypeOK, CallRec
  <2>3. q \in Kind /\ new \in CallRec
    BY <1>2, <2>2, ForwardedAlike DEF CallRec, Stage
  <2>4. ~Started(d)
    BY <1>1, <1>2, <2>1 DEF History, Hops
  <2>5. Continues(f)
    BY <1>1, <1>2 DEF Continues, TypeOK, CallRec, Stage
  <2>6. /\ Counted' /\ in_flight' \in [Node -> Nat] /\ BeganTracked'
        /\ calls' \in [Call -> {Idle, Unsent} \cup CallRec]
    BY <1>1, <1>3, <1>6, <2>2, <2>3, <2>4, <2>5, ArrivesCounted, Zenon
  <2>7. TypeOK'
    BY <1>1, <1>3, <2>6 DEF TypeOK
  <2>8. calls' = [calls EXCEPT ![<<r, 1>>].step = "forwarding", ![<<r, 2>>] = new]
    BY <1>6, <2>1 DEF Arrives
  <2>9. History'
    BY <1>1, <1>2, <1>3, <2>1, <2>3, <2>4, <2>8, ArrivesHistory
  <2>10. DrainedMeansDone'
    <3>1. \A b \in Call : calls[b].step = "done" => calls'[b].step = "done"
      BY <1>1, <1>2, <2>1, <2>4, <2>8 DEF TypeOK, Started
    <3> QED BY <1>1, <1>3, <3>1 DEF DrainedMeansDone, CallAt, TypeOK
  <2> QED BY <2>6, <2>7, <2>9, <2>10 DEF GatewayInv, History
<1> QED BY <1>4, <1>5, <1>6 DEF ForwardTo

(* The answer of the leader is passed on as it is.                         *)
LEMMA ForwardReturnsStep ==
  ASSUME GatewayInv, NEW c \in Call, ForwardReturns(c)
  PROVE  GatewayInv'
<1> DEFINE r == c[1]
           s == calls[<<r, 2>>].status
<1>1. TypeOK /\ History
  BY DEF GatewayInv, History
<1>2. calls[c].step = "forwarding" /\ Started(c) /\ calls[c] \in CallRec
  BY <1>1, StartedRecord DEF ForwardReturns, CallAt, Started
<1>3. UNCHANGED <<members, leader, term, known, led, entries, commits, drain, lost>>
  BY DEF ForwardReturns, frame, raftVars
<1>4. c = <<r, 1>> /\ r \in Request /\ c[2] = 1
  <2>1. c = <<r, c[2]>> /\ r \in Request /\ c[2] \in 1 .. MaxHops /\ MaxHops \in Nat
    BY CallShape, BoundsAssumption
  <2>2. c[2] > 2 => ~Started(<<r, c[2]>>)
    BY <1>1, <2>1 DEF History, Hops
  <2>3. c[2] = 2 => calls[<<r, c[2]>>].step # "forwarding" \/ ~Started(<<r, c[2]>>)
    BY <1>1, <2>1 DEF History, Hops
  <2>4. ~(c[2] > 2) /\ c[2] # 2
    BY <1>2, <2>1, <2>2, <2>3, Zenon
  <2> QED BY <2>1, <2>4
<1>5. CallAt(<<r, 2>>, "done") /\ Reply(c, s)
  BY <1>4 DEF ForwardReturns
<1>6. <<r, 2>> \in Call /\ 2 \in 1 .. MaxHops
  <2>1. 1 \in 1 .. MaxHops
    BY BoundsAssumption
  <2>2. 2 \in 1 .. MaxHops
    BY <1>1, <1>2, <1>4, <2>1 DEF History, Hops
  <2> QED BY <1>4, <2>2 DEF Call
<1>7. GatewayInv'
  <2>2. Started(<<r, 2>>) /\ calls[<<r, 2>>] \in CallRec /\ s \in Nat
    BY <1>1, <1>5, <1>6, StartedRecord DEF CallAt, Started, CallRec
  <2>3. s \notin {200, 500, 502} => Refused(<<r, 2>>)
    BY <1>5 DEF Refused
  <2>4. ASSUME s = 200, Logged(calls[c].q) PROVE commits[r] > 0
    <3>1. calls[<<r, 2>>].q = Forwarded(calls[c].q)
      BY <1>1, <1>4, <1>6, <2>2 DEF History, Hops
    <3>2. Logged(calls[<<r, 2>>].q)
      BY <1>2, <2>4, <3>1, ForwardedAlike DEF CallRec
    <3> QED BY <1>1, <1>5, <1>6, <2>4, <3>2 DEF History, SuccessCommitted
  <2>5. LawfulReply(c, s)
    BY <1>3, <1>4, <1>6, <2>3, <2>4 DEF LawfulReply
  <2> QED BY <1>1, <1>2, <1>3, <1>5, <2>2, <2>5, ReplyStep DEF TypeOK
<1> QED BY <1>7

(* Timeouts, dropped connections and failed writes keep the invariant.     *)
LEMMA EndStep ==
  ASSUME GatewayInv, NEW c \in Call, ForwardTimesOut(c) \/ Drop(c) \/ WriteFails(c)
  PROVE  GatewayInv'
<1>1. TypeOK
  BY DEF GatewayInv
<1>2. calls[c].step \notin {"idle", "unsent", "done"} /\ Started(c) /\ calls[c] \in CallRec
  BY <1>1, StartedRecord DEF ForwardTimesOut, Drop, WriteFails, CallAt, Active, Over, Started
<1>3. UNCHANGED <<members, leader, term, known, led, entries, commits, drain, lost>>
  BY DEF ForwardTimesOut, Drop, WriteFails, frame, raftVars
<1>4. ASSUME NEW s \in {500, 502}, Reply(c, s) PROVE GatewayInv'
  <2>1. LawfulReply(c, s)
    BY DEF LawfulReply
  <2>2. s \in Nat /\ lost \subseteq lost' /\ lost' \subseteq Request
    BY <1>1, <1>3 DEF TypeOK
  <2>3. calls[c].step # "done"
    BY <1>2
  <2> QED BY <1>2, <1>3, <1>4, <2>1, <2>2, <2>3, ReplyStep
<1>5. CASE Drop(c)
  <2> DEFINE new == [calls[c] EXCEPT !.step = "dropped"]
  <2>1. Moves(c, new) /\ in_flight' = in_flight /\ new.step = "dropped"
    BY <1>1, <1>2, <1>5, GoesMoves DEF Drop, CallRec, Stage
  <2>2. LawfulMove(c, new)
    BY <2>1 DEF LawfulMove
  <2> QED BY <1>1, <1>3, <2>1, <2>2, GoesStep DEF TypeOK
<1>6. status_code("Internal") = 500 /\ ForwardError = 502
  BY DEF status_code, ForwardError
<1> QED BY <1>4, <1>5, <1>6 DEF ForwardTimesOut, WriteFails

(* The checks before a handler, and the handler, keep the invariant.       *)
LEMMA LocalStep ==
  ASSUME GatewayInv, NEW c \in Call, Local(c)
  PROVE  GatewayInv'
<1> DEFINE s == Refusal(calls[c].node, calls[c].q)
<1>1. TypeOK
  BY DEF GatewayInv
<1>2. calls[c].step = "local" /\ Started(c) /\ calls[c] \in CallRec
  BY <1>1, StartedRecord DEF Local, CallAt, Started
<1>3. UNCHANGED <<members, leader, term, known, led, entries, commits, drain, lost>>
  BY DEF Local, frame, raftVars
<1>4. CASE s = 200 /\ Logged(calls[c].q)
  <2> DEFINE new == [calls[c] EXCEPT !.step = "write"]
  <2>1. Moves(c, new) /\ in_flight' = in_flight /\ new.step = "write"
    BY <1>1, <1>2, <1>4, GoesMoves DEF Local, CallRec, Stage
  <2>2. LawfulMove(c, new)
    BY <1>2, <2>1 DEF LawfulMove
  <2> QED BY <1>1, <1>3, <2>1, <2>2, GoesStep DEF TypeOK
<1>5. CASE ~(s = 200 /\ Logged(calls[c].q))
  <2>1. Reply(c, s) /\ s \in Nat
    BY <1>5, RefusalType DEF Local
  <2>2. LawfulReply(c, s)
    BY <1>2, <1>5 DEF LawfulReply
  <2> QED BY <1>1, <1>2, <1>3, <2>1, <2>2, ReplyStep DEF TypeOK
<1> QED BY <1>4, <1>5

(* The steps of write_with_retry that submit nothing.                      *)
LEMMA NotLeaderStep ==
  ASSUME GatewayInv, NEW c \in Call, NEW id, NotLeader(c, id),
         \/ calls[c].step = "write"
         \/ calls[c].step = "pending" /\ c[1] \in lost',
         lost \subseteq lost', lost' \subseteq Request,
         UNCHANGED <<members, leader, term, known, led, entries, commits, drain>>
  PROVE  GatewayInv'
<1>1. TypeOK
  BY DEF GatewayInv
<1>2. Started(c) /\ calls[c] \in CallRec
  BY <1>1, StartedRecord DEF Started
<1>3. CASE Goes(c, "wait")
  <2> DEFINE new == [calls[c] EXCEPT !.step = "wait"]
  <2>1. Moves(c, new) /\ in_flight' = in_flight /\ new.step = "wait"
    BY <1>1, <1>2, <1>3, GoesMoves DEF CallRec, Stage
  <2>2. LawfulMove(c, new)
    BY <1>2, <2>1 DEF LawfulMove
  <2> QED BY <2>1, <2>2, GoesStep
<1>4. CASE Reply(c, status_code("Internal"))
  <2>1. status_code("Internal") = 500 /\ 500 \in Nat
    BY DEF status_code
  <2>2. LawfulReply(c, 500)
    BY DEF LawfulReply
  <2>3. Reply(c, 500) /\ calls[c].step # "done"
    BY <1>4, <2>1
  <2> QED BY <1>2, <2>1, <2>2, <2>3, ReplyStep
<1> QED BY <1>3, <1>4 DEF NotLeader

(* write_with_retry tries again or gives up.                               *)
LEMMA RetryStep ==
  ASSUME GatewayInv, NEW c \in Call, Retry(c)
  PROVE  GatewayInv'
<1>1. TypeOK
  BY DEF GatewayInv
<1>2. calls[c].step = "wait" /\ Started(c) /\ calls[c] \in CallRec
  BY <1>1, StartedRecord DEF Retry, CallAt, Started
<1>3. UNCHANGED <<members, leader, term, known, led, entries, commits, drain, lost>>
  BY DEF Retry, frame, raftVars
<1>4. CASE calls[c].try < MaxRetries
  <2> DEFINE new == [calls[c] EXCEPT !.step = "write", !.try = @ + 1]
  <2>1. Moves(c, new) /\ in_flight' = in_flight /\ new.step = "write"
    BY <1>1, <1>2, <1>4 DEF Retry, Moves, CallRec, Stage, TypeOK
  <2>2. LawfulMove(c, new)
    BY <1>2, <2>1 DEF LawfulMove
  <2> QED BY <1>1, <1>3, <2>1, <2>2, GoesStep DEF TypeOK
<1>5. CASE ~(calls[c].try < MaxRetries)
  <2>1. status_code("Internal") = 500 /\ 500 \in Nat
    BY DEF status_code
  <2>2. Reply(c, 500)
    BY <1>5, <2>1 DEF Retry
  <2>3. LawfulReply(c, 500)
    BY DEF LawfulReply
  <2> QED BY <1>1, <1>2, <1>3, <2>1, <2>2, <2>3, ReplyStep DEF TypeOK
<1> QED BY <1>4, <1>5

(* A leader that lost its place makes its request one of the lost.         *)
LEMMA LeadershipLostStep ==
  ASSUME GatewayInv, NEW c \in Call, LeadershipLost(c)
  PROVE  GatewayInv'
<1>1. lost' = lost \cup {c[1]} /\ c[1] \in Request /\ lost \subseteq Request
  BY CallShape DEF LeadershipLost, GatewayInv, TypeOK
<1>2. UNCHANGED <<members, leader, term, known, led, entries, commits, drain>>
  BY DEF LeadershipLost, frame, raftVars
<1>3. PICK id : NotLeader(c, id)
  BY DEF LeadershipLost
<1> QED BY <1>1, <1>2, <1>3, NotLeaderStep DEF LeadershipLost, CallAt

(* Submitting the command: only a call behind the layers does so, and the  *)
(* other calls of the request are forwarding, over or not begun.           *)
LEMMA SubmitStep ==
  ASSUME GatewayInv, NEW c \in Call, client_write(c)
  PROVE  GatewayInv'
<1> DEFINE n == calls[c].node
           r == c[1]
           new == [calls[c] EXCEPT !.step = "pending", !.term = led[n]]
           e == <<c, calls[c].try>>
<1>1. TypeOK /\ History /\ Counted /\ BeganTracked /\ DrainedMeansDone
  BY DEF GatewayInv, History
<1>2. calls[c].step = "write" /\ Started(c) /\ calls[c] \in CallRec /\ r \in Request
  BY <1>1, StartedRecord, CallShape DEF client_write, CallAt, Started
<1>3. UNCHANGED <<members, leader, term, known, led, commits, drain, lost>>
  BY DEF client_write, frame, raftVars
<1>4. CASE ~is_leader(n)
  <2>1. NotLeader(c, known[n]) /\ entries' = entries
    BY <1>4 DEF client_write
  <2> QED BY <1>1, <1>2, <1>3, <2>1, NotLeaderStep DEF TypeOK
<1>5. CASE is_leader(n)
  <2>1. Moves(c, new) /\ in_flight' = in_flight /\ new.step = "pending"
    BY <1>1, <1>2, <1>5 DEF client_write, Moves, CallRec, Stage, TypeOK
  <2>2. entries' = entries \/ entries' = entries \cup {e}
    BY <1>5 DEF client_write
  <2>3. LawfulMove(c, new)
    BY <1>2, <2>1 DEF LawfulMove
  <2>4. CASE entries' = entries
    BY <1>1, <1>3, <2>1, <2>3, <2>4, GoesStep DEF TypeOK
  <2>5. CASE entries' = entries \cup {e}
    <3>1. TypeOK'
      <4>1. e \in Call \X Nat
        BY <1>2 DEF CallRec
      <4>2. IsFiniteSet(entries')
        BY <1>1, <2>5, FS_AddElement DEF TypeOK
      <4> QED BY <1>1, <1>3, <2>1, <2>5, <4>1, <4>2 DEF TypeOK, Moves
    <3>2. Counted' /\ BeganTracked'
      BY <1>1, <1>3, <2>1, GoesCounted, Zenon
    <3>3. DrainedMeansDone'
      BY <1>1, <1>2, <1>3, <2>1 DEF DrainedMeansDone, Moves, CallAt, TypeOK
    <3>4. \A s \in Request, i \in 1 .. MaxHops :
            /\ <<s, i>> \in Call
            /\ calls'[<<s, i>>] = IF <<s, i>> = c THEN new ELSE calls[<<s, i>>]
      BY <1>1, <2>1 DEF Call, Moves, TypeOK
    <3>5. \A i \in 1 .. MaxHops :
            /\ calls'[<<r, i>>].step \notin {"layers", "lookup", "local", "write", "wait"}
            /\ i = 1 => Started(<<r, i>>)'
            /\ ~Refused(<<r, i>>)'
      <4> TAKE i \in 1 .. MaxHops
      <4>1. c = <<r, c[2]>> /\ c[2] \in 1 .. MaxHops /\ MaxHops \in Nat \ {0} /\ 1 \in 1 .. MaxHops
        BY CallShape, BoundsAssumption
      <4>2. c[2] \in {1, 2}
        <5>1. c[2] > 2 => ~Started(<<r, c[2]>>)
          BY <1>1, <1>2, <4>1 DEF History, Hops
        <5>2. ~(c[2] > 2)
          BY <1>2, <4>1, <5>1, Zenon
        <5> QED BY <4>1, <5>2
      <4>3. CASE <<r, i>> = c
        BY <1>2, <2>1, <3>4, <4>3 DEF Started, Refused, CallAt
      <4>4. CASE <<r, i>> # c
        <5>1. calls'[<<r, i>>] = calls[<<r, i>>] /\ i # c[2]
          BY <1>2, <3>4, <4>1, <4>4
        <5>2. CASE i > 2
          <6>1. ~Started(<<r, i>>)
            BY <1>1, <1>2, <5>2 DEF History, Hops
          <6> QED BY <5>1, <5>2, <6>1 DEF Started, Refused, CallAt
        <5>3. CASE i = 2
          <6>1. c = <<r, 1>>
            BY <4>1, <4>2, <5>1, <5>3
          <6>2. ~Started(<<r, 2>>)
            BY <1>1, <1>2, <5>3, <6>1 DEF History, Hops
          <6> QED BY <5>1, <5>3, <6>2 DEF Started, Refused, CallAt
        <5>4. CASE i = 1
          <6>1. c = <<r, 2>> /\ 2 \in 1 .. MaxHops
            BY <4>1, <4>2, <5>1, <5>4
          <6>2. calls[<<r, 1>>].step \in {"forwarding", "done", "dropped"}
            BY <1>1, <1>2, <6>1 DEF History, Hops
          <6>3. ~Refused(<<r, 2>>) /\ Started(<<r, 2>>)
            BY <1>2, <6>1 DEF Refused, CallAt
          <6>4. ~Refused(<<r, 1>>)
            BY <1>1, <1>2, <6>1, <6>3 DEF History, RefusedAlike
          <6> QED BY <5>1, <5>4, <6>2, <6>4 DEF Started, Refused, CallAt
        <5> QED BY <5>2, <5>3, <5>4
      <4> QED BY <4>3, <4>4
    <3>6. \A s \in Request : s # r => (Submitted(s)' <=> Submitted(s))
      BY <1>3, <2>5 DEF Submitted
    <3>7. Hops' /\ RefusedAlike'
      BY <1>1, <2>1, <2>3, MovesShape, Zenon DEF History
    <3>8. SubmittedLate'
      <4> SUFFICES ASSUME NEW s \in Request, Submitted(s)', NEW i \in 1 .. MaxHops
                   PROVE  /\ calls'[<<s, i>>].step \notin {"layers", "lookup", "local"}
                          /\ i = 1 => Started(<<s, i>>)'
                          /\ ~Refused(<<s, i>>)'
        BY DEF SubmittedLate
      <4>1. CASE s = r
        BY <3>5, <4>1
      <4>2. CASE s # r
        <5>1. calls'[<<s, i>>] = calls[<<s, i>>]
          BY <1>2, <3>4, <4>2
        <5> QED BY <1>1, <3>6, <4>2, <5>1 DEF History, SubmittedLate, Started, Refused, CallAt
      <4> QED BY <4>1, <4>2
    <3>9. SubmittedOnce'
      <4> SUFFICES ASSUME NEW s \in Request, s \notin lost
                   PROVE  /\ commits[s] <= 1
                          /\ \A x \in entries' : x[1][1] = s =>
                               commits[s] = 0 /\ \A f \in entries' : f[1][1] = s => f = x
                          /\ Submitted(s)' => \A i \in 1 .. MaxHops :
                                                calls'[<<s, i>>].step \notin {"write", "wait"}
        BY <1>3 DEF SubmittedOnce, LoggedOnce
      <4>1. CASE s = r
        <5>1. c = <<r, c[2]>> /\ c[2] \in 1 .. MaxHops
          BY CallShape
        <5>2. calls[<<r, c[2]>>].step = "write"
          BY <1>2, <5>1
        <5>3. ~Submitted(r)
          BY <1>1, <1>2, <4>1, <5>1, <5>2 DEF History, SubmittedOnce
        <5>4. commits[s] = 0 /\ \A x \in entries : x[1][1] # r
          BY <4>1, <5>3 DEF Submitted
        <5> QED BY <2>5, <3>5, <4>1, <5>4
      <4>2. CASE s # r
        <5>1. \A x \in entries' : x[1][1] = s => x \in entries
          BY <2>5, <4>2
        <5>2. \A i \in 1 .. MaxHops : calls'[<<s, i>>] = calls[<<s, i>>]
          BY <1>2, <3>4, <4>2
        <5> QED BY <1>1, <3>6, <4>2, <5>1, <5>2 DEF History, SubmittedOnce, LoggedOnce
      <4> QED BY <4>1, <4>2
    <3>10. SuccessCommitted'
      BY <1>1, <1>3, <2>1 DEF History, SuccessCommitted, CallAt, Moves, TypeOK
    <3> QED BY <3>1, <3>2, <3>3, <3>7, <3>8, <3>9, <3>10 DEF GatewayInv
  <2> QED BY <2>2, <2>4, <2>5
<1> QED BY <1>4, <1>5
-----------------------------------------------------------------------------
(* The whole invariant, when the log changes and no call moves.            *)
LEMMA LogStep ==
  ASSUME GatewayInv, TypeOK', UNCHANGED <<calls, in_flight, drain>>, lost' = lost,
         \A r \in Request : (Submitted(r)' => Submitted(r)) /\ commits'[r] >= commits[r],
         \A r \in Request : r \notin lost => LoggedOnce(r)'
  PROVE  GatewayInv'
<1>1. Counted' /\ BeganTracked' /\ DrainedMeansDone' /\ Hops' /\ RefusedAlike'
  BY DEF GatewayInv, Counted, BeganTracked, Tracked, Started, CallAt, DrainedMeansDone, Hops,
     RefusedAlike, Refused
<1>2. SubmittedLate' /\ SubmittedOnce'
  BY DEF GatewayInv, SubmittedLate, SubmittedOnce, Started, Refused, CallAt
<1>3. SuccessCommitted'
  <2> SUFFICES ASSUME NEW b \in Call, CallAt(b, "done"), calls[b].status = 200,
                      Logged(calls[b].q)
               PROVE  commits'[b[1]] > 0
    BY DEF SuccessCommitted, CallAt
  <2>1. commits[b[1]] > 0 /\ b[1] \in Request
    BY CallShape DEF GatewayInv, SuccessCommitted
  <2> QED BY <2>1 DEF GatewayInv, TypeOK
<1> QED BY <1>1, <1>2, <1>3 DEF GatewayInv

(* A command that is committed answers its call.                           *)
LEMMA CommitStep ==
  ASSUME GatewayInv, NEW e \in entries, Commit(e)
  PROVE  GatewayInv'
<1> DEFINE c == e[1]
           r == c[1]
<1>1. TypeOK /\ History /\ Counted /\ BeganTracked /\ DrainedMeansDone
  BY DEF GatewayInv, History
<1>2. c \in Call /\ r \in Request
  BY <1>1, CallShape DEF TypeOK
<1>3. UNCHANGED <<members, leader, term, known, led, drain, lost>>
  BY DEF Commit, frame, raftVars
<1>4. /\ entries' = entries \ {e} /\ entries' \subseteq Call \X Nat /\ IsFiniteSet(entries')
      /\ commits' \in [Request -> Nat] /\ commits'[r] = commits[r] + 1
      /\ \A s \in Request : s # r => commits'[s] = commits[s]
  BY <1>1, <1>2, FS_RemoveElement DEF Commit, TypeOK
<1>5. \A s \in Request : (Submitted(s)' => Submitted(s)) /\ commits'[s] >= commits[s]
  BY <1>1, <1>4 DEF Submitted, TypeOK
<1>6. \A s \in Request : s \notin lost => LoggedOnce(s)'
  <2> SUFFICES ASSUME NEW s \in Request, s \notin lost PROVE LoggedOnce(s)'
    OBVIOUS
  <2>1. LoggedOnce(s)
    BY <1>1 DEF History, SubmittedOnce
  <2>2. CASE s = r
    <3>1. commits[r] = 0 /\ \A f \in entries : f[1][1] = r => f = e
      BY <2>1, <2>2 DEF LoggedOnce
    <3>2. commits'[r] = 1 /\ \A f \in entries' : f[1][1] # r
      BY <1>4, <3>1
    <3> QED BY <2>2, <3>2 DEF LoggedOnce
  <2>3. CASE s # r
    BY <1>4, <2>1, <2>3 DEF LoggedOnce
  <2> QED BY <2>2, <2>3
<1>7. CASE UNCHANGED <<calls, in_flight>>
  <2>1. TypeOK'
    BY <1>1, <1>3, <1>4, <1>7 DEF TypeOK
  <2> QED BY <1>3, <1>5, <1>6, <1>7, <2>1, LogStep
<1>8. CASE CallAt(c, "pending") /\ Reply(c, 200)
  <2> DEFINE new == [calls[c] EXCEPT !.step = "done", !.status = 200]
  <2>1. Started(c) /\ calls[c].step # "done" /\ 200 \in Nat
    BY <1>8 DEF CallAt, Started
  <2>2. Moves(c, new) /\ new.step = "done" /\ new.status = 200
    <3>1. Moves(c, new)
      BY <1>1, <1>2, <1>8, <2>1, ReplyMoves
    <3>2. calls[c] \in CallRec
      BY <3>1 DEF Moves
    <3>3. new.step = "done" /\ new.status = 200
      BY <3>2 DEF CallRec
    <3> QED BY <3>1, <3>3
  <2>3. LawfulMove(c, new)
    BY <1>1, <1>2, <1>4, <2>2 DEF LawfulMove, TypeOK
  <2>4. Counted' /\ in_flight' \in [Node -> Nat] /\ BeganTracked'
    BY <1>1, <1>2, <1>3, <1>8, <2>1, ReplyCounted
  <2>5. TypeOK'
    BY <1>1, <1>3, <1>4, <2>2, <2>4 DEF TypeOK, Moves
  <2>6. History'
    BY <1>1, <1>2, <1>3, <1>4, <1>5, <1>6, <2>2, <2>3, MovesHistory
  <2>7. DrainedMeansDone'
    BY <1>1, <1>3, <2>2 DEF DrainedMeansDone, Moves, CallAt, TypeOK
  <2> QED BY <2>4, <2>5, <2>6, <2>7 DEF GatewayInv, History
<1> QED BY <1>7, <1>8 DEF Commit

(* An election ends the commands under way.                                *)
LEMMA ElectStep ==
  ASSUME GatewayInv, NEW n \in Node, Elect(n)
  PROVE  GatewayInv'
<1>1. TypeOK /\ History
  BY DEF GatewayInv, History
<1>2. /\ leader' = n /\ term' = term + 1 /\ known' = [known EXCEPT ![n] = n]
      /\ led' = [led EXCEPT ![n] = term + 1] /\ entries' = {}
      /\ UNCHANGED <<members, calls, in_flight, drain, lost>>
  BY DEF Elect
<1>3. PICK S \in SUBSET entries :
        commits' = [r \in Request |-> commits[r] + Cardinality({e \in S : e[1][1] = r})]
  BY DEF Elect
<1>4. ASSUME NEW r \in Request
      PROVE  /\ commits'[r] \in Nat /\ commits'[r] >= commits[r]
             /\ Submitted(r)' => Submitted(r)
             /\ r \notin lost => LoggedOnce(r)'
  <2> DEFINE mine == {e \in S : e[1][1] = r}
  <2>1. IsFiniteSet(mine) /\ Cardinality(mine) \in Nat /\ commits'[r] = commits[r] + Cardinality(mine)
    <3>1. mine \in SUBSET entries /\ IsFiniteSet(entries)
      BY <1>1 DEF TypeOK
    <3>2. IsFiniteSet(mine)
      BY <3>1, FS_Subset
    <3> QED BY <1>3, <3>2, FS_CardinalityType
  <2>2. commits[r] \in Nat
    BY <1>1 DEF TypeOK
  <2>3. mine = {} => commits'[r] = commits[r]
    BY <2>1, <2>2, FS_EmptySet
  <2>4. Submitted(r)' => Submitted(r)
    BY <1>2, <2>3 DEF Submitted
  <2>5. ASSUME r \notin lost PROVE LoggedOnce(r)'
    <3>1. LoggedOnce(r)
      BY <1>1, <2>5 DEF History, SubmittedOnce
    <3>2. CASE mine = {}
      BY <1>2, <2>3, <3>1, <3>2 DEF LoggedOnce
    <3>3. CASE mine # {}
      <4>1. PICK e : e \in mine
        BY <3>3
      <4>2. mine = {e} /\ commits[r] = 0
        BY <3>1, <4>1 DEF LoggedOnce
      <4>3. Cardinality({e}) = 1
        BY FS_Singleton
      <4>4. Cardinality(mine) = 1
        BY <4>2, <4>3
      <4>5. commits'[r] = 1
        BY <2>1, <4>2, <4>4
      <4> QED BY <1>2, <4>5 DEF LoggedOnce
    <3> QED BY <3>2, <3>3
  <2> QED BY <2>1, <2>2, <2>4, <2>5
<1>5. TypeOK'
  <2>1. commits' \in [Request -> Nat]
    BY <1>3, <1>4
  <2>2. IsFiniteSet(entries')
    BY <1>2, FS_EmptySet
  <2> QED BY <1>1, <1>2, <2>1, <2>2 DEF TypeOK
<1> QED BY <1>2, <1>4, <1>5, LogStep

(* A drain begins with the calls the counter counts, and ends at zero.     *)
LEMMA DrainStep ==
  ASSUME GatewayInv, NEW n \in Node, drain_node(n) \/ Drained(n) \/ DrainTimesOut(n)
  PROVE  GatewayInv'
<1>1. UNCHANGED <<members, leader, term, known, led, calls, entries, commits, in_flight, lost>>
  BY DEF drain_node, Drained, DrainTimesOut, drainFrame, raftVars
<1>2. Hops' /\ Counted' /\ RefusedAlike' /\ SubmittedLate' /\ SubmittedOnce' /\ SuccessCommitted'
  <2>1. Hops' /\ Counted' /\ RefusedAlike'
    BY <1>1 DEF GatewayInv, Counted, Tracked, Started, CallAt, Hops, RefusedAlike, Refused
  <2>2. SubmittedLate' /\ SubmittedOnce'
    BY <1>1 DEF GatewayInv, SubmittedLate, SubmittedOnce, LoggedOnce, Submitted, Started,
       Refused, CallAt
  <2>3. SuccessCommitted'
    BY <1>1 DEF GatewayInv, SuccessCommitted, CallAt
  <2> QED BY <2>1, <2>2, <2>3
<1>3. CASE drain_node(n)
  <2>1. CallsAt(n) \subseteq Tracked(n) /\ CallsAt(n) \subseteq Call
    BY DEF CallsAt, Tracked, Active, Over, Started
  <2>2. drain' = [drain EXCEPT ![n] = [step |-> "draining", began |-> CallsAt(n)]]
    BY <1>3 DEF drain_node
  <2>3. TypeOK'
    BY <1>1, <2>1, <2>2 DEF GatewayInv, TypeOK
  <2>4. BeganTracked' /\ DrainedMeansDone'
    BY <1>1, <2>1, <2>2 DEF GatewayInv, TypeOK, BeganTracked, DrainedMeansDone, Tracked, Started,
       CallAt
  <2> QED BY <1>2, <2>3, <2>4 DEF GatewayInv
<1>4. CASE Drained(n)
  <2>1. drain' = [drain EXCEPT ![n].step = "drained"] /\ in_flight[n] = 0
    BY <1>4 DEF Drained
  <2>2. Tracked(n) = {}
    BY <2>1, FS_EmptySet DEF GatewayInv, Counted
  <2>3. TypeOK'
    BY <1>1, <2>1 DEF GatewayInv, TypeOK
  <2>4. BeganTracked'
    BY <1>1, <2>1 DEF GatewayInv, TypeOK, BeganTracked, Tracked, Started, CallAt
  <2>5. DrainedMeansDone'
    BY <1>1, <2>1, <2>2 DEF GatewayInv, TypeOK, BeganTracked, DrainedMeansDone, CallAt
  <2> QED BY <1>2, <2>3, <2>4, <2>5 DEF GatewayInv
<1>5. CASE DrainTimesOut(n)
  <2>1. drain' = [drain EXCEPT ![n].step = "timeout"]
    BY <1>5 DEF DrainTimesOut
  <2>2. TypeOK'
    BY <1>1, <2>1 DEF GatewayInv, TypeOK
  <2>3. BeganTracked' /\ DrainedMeansDone'
    BY <1>1, <2>1 DEF GatewayInv, TypeOK, BeganTracked, DrainedMeansDone, Tracked, Started, CallAt
  <2> QED BY <1>2, <2>2, <2>3 DEF GatewayInv
<1> QED BY <1>3, <1>4, <1>5

(* What nodes hear of the leader is no business of the requests.           *)
LEMMA HearStep ==
  ASSUME GatewayInv, NEW n \in Node, Learn(n) \/ LoseLeader(n) \/ Join(n)
  PROVE  GatewayInv'
<1>1. UNCHANGED <<leader, term, led, calls, entries, commits, in_flight, drain, lost>>
  BY DEF Learn, LoseLeader, Join
<1>2. members' \subseteq Node /\ known' \in [Node -> Node \cup {NoNode}]
  BY DEF Learn, LoseLeader, Join, GatewayInv, TypeOK
<1>3. TypeOK'
  BY <1>1, <1>2 DEF GatewayInv, TypeOK
<1>4. \A r \in Request : (Submitted(r)' => Submitted(r)) /\ commits'[r] >= commits[r]
  BY <1>1 DEF GatewayInv, TypeOK, Submitted
<1>5. \A r \in Request : r \notin lost => LoggedOnce(r)'
  BY <1>1 DEF GatewayInv, SubmittedOnce, LoggedOnce
<1> QED BY <1>1, <1>3, <1>4, <1>5, LogStep

(* A request of a client is the first call.                                *)
LEMMA SendStep ==
  ASSUME GatewayInv, NEW r \in Request, NEW n \in Node, NEW q \in Kinds, Send(r, n, q)
  PROVE  GatewayInv'
<1> DEFINE c == <<r, 1>>
           new == [step |-> "layers", node |-> n, q |-> q, via |-> NoNode, try |-> 0,
                   term |-> 0, status |-> 0]
<1>1. TypeOK /\ History /\ Counted /\ BeganTracked /\ DrainedMeansDone
  BY DEF GatewayInv, History
<1>2. c \in Call /\ ~Started(c) /\ q \in Kind /\ 1 \in 1 .. MaxHops
  BY BoundsAssumption, KindsAssumption DEF Send, CallAt, Started, Call
<1>3. UNCHANGED <<members, leader, term, known, led, entries, commits, drain, lost>>
  BY DEF Send, frame, raftVars
<1>4. Arrives(calls, c, n, q) /\ new \in CallRec /\ calls' = [calls EXCEPT ![c] = new]
  BY <1>2 DEF Send, Arrives, CallRec, Stage
<1>5. Continues(calls)
  BY <1>1 DEF Continues, TypeOK
<1>6. /\ Counted' /\ in_flight' \in [Node -> Nat] /\ BeganTracked'
      /\ calls' \in [Call -> {Idle, Unsent} \cup CallRec]
  BY <1>1, <1>2, <1>3, <1>4, <1>5, ArrivesCounted, Zenon
<1>7. TypeOK'
  BY <1>1, <1>3, <1>6 DEF TypeOK
<1>8. History'
  BY <1>1, <1>2, <1>3, <1>4, ArrivesHistory
<1>9. DrainedMeansDone'
  BY <1>1, <1>2, <1>3, <1>4 DEF DrainedMeansDone, CallAt, TypeOK, Started
<1> QED BY <1>6, <1>7, <1>8, <1>9 DEF GatewayInv, History

(* The invariant at the start.                                             *)
LEMMA GatewayInit == Init => GatewayInv
<1> SUFFICES ASSUME Init PROVE GatewayInv
  OBVIOUS
<1>1. /\ members \subseteq Node
      /\ calls \in [Call -> {Idle, Unsent}] /\ \A c \in Call : ~Started(c)
  <2>1. PICK s \in Scenarios :
          members = s[1] /\ calls = [c \in Call |-> IF c[1] \in s[2] THEN Idle ELSE Unsent]
    BY DEF Init
  <2>2. s[1] \subseteq Node
    BY ScenariosAssumption
  <2> QED BY <2>1, <2>2 DEF Started, Idle, Unsent
<1>2. IsFiniteSet(entries) /\ entries = {}
  BY FS_EmptySet DEF Init
<1>3. TypeOK
  BY <1>1, <1>2, NodeAssumption DEF Init, TypeOK
<1>4. \A r \in Request, i \in 1 .. MaxHops :
        <<r, i>> \in Call /\ calls[<<r, i>>].step \in {"idle", "unsent"} /\ ~Started(<<r, i>>)
  BY <1>1 DEF Call, Started
<1>5. \A n \in Node : Tracked(n) = {}
  BY <1>1 DEF Tracked
<1>6. Counted
  BY <1>5, FS_EmptySet DEF Counted, Init
<1>7. BeganTracked /\ DrainedMeansDone
  BY DEF Init, BeganTracked, DrainedMeansDone
<1>8. Hops
  BY <1>4 DEF Hops
<1>9. RefusedAlike
  BY <1>4 DEF RefusedAlike
<1>10. \A r \in Request : ~Submitted(r) /\ LoggedOnce(r)
  BY DEF Init, Submitted, LoggedOnce
<1>11. SubmittedLate /\ SubmittedOnce
  BY <1>10 DEF SubmittedLate, SubmittedOnce
<1>12. SuccessCommitted
  BY <1>1 DEF SuccessCommitted, CallAt, Started
<1> QED BY <1>3, <1>6, <1>7, <1>8, <1>9, <1>11, <1>12 DEF GatewayInv

(* The state of the calls, the counters and the log fit together in every  *)
(* reachable state.                                                        *)
THEOREM GatewayInductive == Spec => []GatewayInv
<1>1. GatewayInv /\ [Next]_vars => GatewayInv'
  <2> SUFFICES ASSUME GatewayInv, [Next]_vars PROVE GatewayInv'
    OBVIOUS
  <2>1. ASSUME NEW c \in Call, Handle(c) PROVE GatewayInv'
    BY <2>1, LayersStep, ForwardToStep, ForwardReturnsStep, LocalStep, SubmitStep,
       LeadershipLostStep, RetryStep DEF Handle
  <2>2. ASSUME NEW c \in Call, ForwardTimesOut(c) \/ Drop(c) \/ WriteFails(c) PROVE GatewayInv'
    BY <2>2, EndStep
  <2>3. ASSUME NEW e \in entries, Commit(e) PROVE GatewayInv'
    BY <2>3, CommitStep
  <2>4. ASSUME NEW n \in Node, Elect(n) PROVE GatewayInv'
    BY <2>4, ElectStep
  <2>5. ASSUME NEW n \in Node, Learn(n) \/ LoseLeader(n) \/ Join(n) PROVE GatewayInv'
    BY <2>5, HearStep
  <2>6. ASSUME NEW n \in Node, drain_node(n) \/ Drained(n) \/ DrainTimesOut(n) PROVE GatewayInv'
    BY <2>6, DrainStep
  <2>7. ASSUME NEW r \in Request, NEW n \in Node, NEW q \in Kinds, Send(r, n, q)
        PROVE  GatewayInv'
    BY <2>7, SendStep
  <2>8. CASE UNCHANGED vars
    <3>1. TypeOK'
      BY <2>8 DEF vars, GatewayInv, TypeOK
    <3>2. \A r \in Request : (Submitted(r)' => Submitted(r)) /\ commits'[r] >= commits[r]
      BY <2>8 DEF vars, GatewayInv, TypeOK, Submitted
    <3>3. \A r \in Request : r \notin lost => LoggedOnce(r)'
      BY <2>8 DEF vars, GatewayInv, SubmittedOnce, LoggedOnce
    <3> QED BY <2>8, <3>1, <3>2, <3>3, LogStep DEF vars
  <2> QED BY <2>1, <2>2, <2>3, <2>4, <2>5, <2>6, <2>7, <2>8 DEF Next, Hear
<1> QED BY <1>1, GatewayInit, PTL DEF Spec

(* A drain that reports success has seen every tracked call end that was   *)
(* there when it began: the counter of a node is the number of its calls   *)
(* that have not been answered, dropped ones among them.                   *)
THEOREM DrainComplete == Spec => []DrainedMeansDone
<1>1. GatewayInv => DrainedMeansDone
  BY DEF GatewayInv
<1> QED BY <1>1, GatewayInductive, PTL

(* A request answered with a refusal is in no log and never was, at either *)
(* of the two nodes it went through.                                       *)
THEOREM RefusalsChangeNothing == Spec => []RefusedChangesNothing
<1>1. GatewayInv => RefusedChangesNothing
  <2> SUFFICES ASSUME GatewayInv, NEW r \in Request, Answered(r, {400, 403, 405, 503})
               PROVE  commits[r] = 0 /\ \A e \in entries : e[1][1] # r
    BY DEF RefusedChangesNothing
  <2>1. Refused(<<r, 1>>) /\ 1 \in 1 .. MaxHops
    BY BoundsAssumption DEF Answered, Client, Refused
  <2>2. ~Submitted(r)
    BY <2>1 DEF GatewayInv, SubmittedLate
  <2> QED BY <2>2 DEF Submitted
<1> QED BY <1>1, GatewayInductive, PTL

(* A write answered with 200 is committed; and none is committed twice     *)
(* unless its leader lost its place while it waited.                       *)
THEOREM CommitsOnce == Spec => []CommittedOnce
<1>1. GatewayInv => CommittedOnce
  <2> SUFFICES ASSUME GatewayInv, NEW r \in Request
               PROVE  /\ Answered(r, {200}) /\ Logged(calls[Client(r)].q) => commits[r] > 0
                      /\ r \notin lost => commits[r] <= 1
    BY DEF CommittedOnce
  <2>1. <<r, 1>> \in Call
    BY BoundsAssumption DEF Call
  <2>2. Answered(r, {200}) /\ Logged(calls[Client(r)].q) => commits[r] > 0
    BY <2>1 DEF GatewayInv, SuccessCommitted, Answered, Client
  <2>3. r \notin lost => commits[r] <= 1
    BY DEF GatewayInv, SubmittedOnce, LoggedOnce
  <2> QED BY <2>2, <2>3
<1> QED BY <1>1, GatewayInductive, PTL
=============================================================================
