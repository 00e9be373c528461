--------------------------- MODULE Replication2PC ---------------------------
(***************************************************************************)
(* Replicated writes and deletes of one object: the coordinator            *)
(* (save-storage/src/replication/coordinator.rs) driven by the             *)
(* ReplicatedBackend, and the ReplicationService of every node.            *)
(*                                                                         *)
(* A put writes a temp file on the coordinating node, streams it to the    *)
(* selected replicas (prepare), and with a quorum of prepares renames its  *)
(* own temp file and tells the prepared replicas to rename theirs.  Every  *)
(* node has ONE temp path and one final path for the object: every         *)
(* TempObject handle, of the local backend and of the service, names that  *)
(* temp file and deletes it when it is dropped.                            *)
(*                                                                         *)
(* The operations come in the order 1, 2, ... and do not overlap: the      *)
(* object's write lock is held from Start to the reply.  Calls that have   *)
(* been spawned do outlive their operation.                                *)
(***************************************************************************)
EXTENDS Integers, FiniteSets

CONSTANTS
  Nodes,              \* the cluster's nodes
  Coordinators,       \* the nodes that were Raft leader in the meantime
  NumOps,             \* bound: operations on the object
  replication_factor, \* QuorumConfig
  FaultSets,          \* the environments: the failures each one may cause
  MaxRetries,         \* RetryConfig::max_retries of the unary calls
  MaxCrashes          \* bound: crashes of a node's process

(* unhealthy:     the health check of a node fails, so it is not selected  *)
(* prepare_error: a prepare fails on the replica                           *)
(* commit_error:  the rename fails on a prepared replica                   *)
(* local_error:   the rename fails on the coordinating node                *)
(* fsync_error:   the rename is done, the fsync of the directory fails     *)
(* timeout:       a call runs into rpc_timeout or its connection breaks    *)
(* lost_answer:   a unary call is executed and its answer is lost          *)
(* cancel:        the client goes away and the handler future is dropped   *)
(* late:          calls of an operation may still be under way when the    *)
(*                next one starts                                          *)
(* crash:         a node's process dies and starts again                   *)
FaultKinds == {"unhealthy", "prepare_error", "commit_error", "local_error",
               "fsync_error", "timeout", "lost_answer", "cancel", "late", "crash"}

ASSUME NodesAssumption ==
  IsFiniteSet(Nodes) /\ Coordinators \subseteq Nodes
ASSUME FaultsAssumption == FaultSets \subseteq SUBSET FaultKinds
ASSUME BoundsAssumption ==
  /\ NumOps \in Nat \ {0} /\ MaxRetries \in Nat /\ MaxCrashes \in Nat
  /\ replication_factor \in Nat

VARIABLES
  faults,     \* what may fail, fixed from the start
  kind,       \* what each operation is
  coord,      \* the node that coordinates each operation
  phase,      \* how far each operation has got
  rid,        \* its request_id
  prepared,   \* the nodes in PreparedWrite::temp_ids
  waiting,    \* the nodes whose answer the coordinator still awaits
  net,        \* the calls under way
  temp,       \* each node's temp file for the object
  final,      \* each node's final file
  pending,    \* each node's pending_prepares
  listed,     \* whether each node's GC worker is about to remove the temp file
  counter,    \* request_counter of each node's coordinator
  crashes     \* crashes so far

opVars   == <<faults, kind, coord>>
fileVars == <<temp, final, pending>>
procVars == <<listed, counter, crashes>>
vars     == <<faults, kind, coord, phase, rid, prepared, waiting, net, temp,
              final, pending, listed, counter, crashes>>

Ops     == 1..NumOps
NoFile  == 0
Content == Ops \cup {NoFile}   \* a file holds the bytes of the put it is named by

(* started: temp file written, or delete not yet done locally; preparing:  *)
(* awaiting prepares; committing: local file in place, awaiting the        *)
(* commits or deletes on the other nodes; acked, failed: over.             *)
Phase == {"idle", "started", "preparing", "committing", "acked", "failed"}

Call == [type : {"prepare", "commit", "abort", "delete"}, op : Ops,
         to : Nodes, rid : Nat, data : Content, tries : 0..MaxRetries]

write_quorum == (replication_factor \div 2) + 1

Over(w)   == phase[w] \in {"acked", "failed"}
Active(w) == phase[w] \notin {"idle", "acked", "failed"}

(* What a completed operation leaves on its coordinator.                   *)
Result(w) == IF kind[w] = "put" THEN w ELSE NoFile

-----------------------------------------------------------------------------
Init ==
  /\ faults \in FaultSets
  /\ kind \in [Ops -> {"put", "delete"}]
  /\ coord \in [Ops -> Coordinators]
  /\ phase = [w \in Ops |-> "idle"]
  /\ rid = [w \in Ops |-> 0]
  /\ prepared = [w \in Ops |-> {}]
  /\ waiting = [w \in Ops |-> {}]
  /\ net = {}
  /\ temp = [n \in Nodes |-> NoFile]
  /\ final = [n \in Nodes |-> NoFile]
  /\ pending = [n \in Nodes |-> {}]
  /\ listed = [n \in Nodes |-> FALSE]
  /\ counter = [n \in Nodes |-> 1]
  /\ crashes = 0

(* Faulty variant: the operation does not take the object's lock.          *)
CanStart_unlocked(w) == phase[w] = "idle" /\ ("late" \in faults \/ net = {})

CanStart(w) ==
  /\ phase[w] = "idle"
  /\ \A v \in 1..(w - 1) : Over(v)
  /\ "late" \in faults \/ net = {}

(* ReplicatedBackend::write_temp_object.                                   *)
StartPut(w) ==
  /\ kind[w] = "put" /\ CanStart(w)
  /\ phase' = [phase EXCEPT ![w] = "started"]
  /\ temp' = [temp EXCEPT ![coord[w]] = w]
  /\ UNCHANGED <<opVars, rid, prepared, waiting, net, final, pending, procVars>>

(* replicate_delete takes its request_id.                                  *)
StartDelete(w) ==
  /\ kind[w] = "delete" /\ CanStart(w)
  /\ phase' = [phase EXCEPT ![w] = "started"]
  /\ rid' = [rid EXCEPT ![w] = counter[coord[w]]]
  /\ counter' = [counter EXCEPT ![coord[w]] = @ + 1]
  /\ UNCHANGED <<opVars, prepared, waiting, net, fileVars, listed, crashes>>

Calls(type, w, to, r, data, tries) ==
  {[type |-> type, op |-> w, to |-> n, rid |-> r, data |-> data,
    tries |-> tries] : n \in to}

Fail(w) ==
  /\ phase' = [phase EXCEPT ![w] = "failed"]
  /\ waiting' = [waiting EXCEPT ![w] = {}]

(* Up to replication_factor - 1 of the nodes that pass the health check.   *)
select_replica_nodes(c) ==
  LET others == Nodes \ {c}
      Fits(S) == Cardinality(S) <= replication_factor - 1
  IN  {S \in SUBSET others :
         /\ Fits(S)
         /\ "unhealthy" \notin faults => S = others \/ Cardinality(S) = replication_factor - 1}

(* ReplicatedBackend::commit_object and replicate_write_streaming up to    *)
(* the prepares: the temp file is read back for its checksum and streamed. *)
SendPrepares(w) ==
  LET c == coord[w]
  IN  /\ kind[w] = "put" /\ phase[w] = "started"
      /\ temp[c] # NoFile
      /\ \E S \in select_replica_nodes(c) :
           /\ waiting' = [waiting EXCEPT ![w] = S]
           /\ net' = net \cup Calls("prepare", w, S, counter[c], temp[c], 0)
      /\ rid' = [rid EXCEPT ![w] = counter[c]]
      /\ counter' = [counter EXCEPT ![c] = @ + 1]
      /\ phase' = [phase EXCEPT ![w] = "preparing"]
      /\ UNCHANGED <<opVars, prepared, fileVars, listed, crashes>>

(* The temp file is gone, for example to the GC worker, before its         *)
(* checksum is computed.                                                   *)
TempLost(w) ==
  /\ kind[w] = "put" /\ phase[w] = "started"
  /\ temp[coord[w]] = NoFile
  /\ Fail(w)
  /\ UNCHANGED <<opVars, rid, prepared, net, fileVars, procVars>>

-----------------------------------------------------------------------------
(* The ReplicationService of a node executes calls.                        *)

(* The entry of a temp_id, which is the request_id with the key.           *)
PendingOf(m) == {p \in pending[m.to] : p.rid = m.rid}

(* The call is over for the coordinator as well.                           *)
Answered(m) ==
  /\ net' = net \ {m}
  /\ waiting' = [waiting EXCEPT ![m.op] = @ \ {m.to}]

(* retry_with_backoff: the next attempt, or none when max_retries is used  *)
(* up.  The delay before it is not modelled.                               *)
retry_with_backoff(m) == IF m.tries > 0 THEN {[m EXCEPT !.tries = @ - 1]} ELSE {}

(* Its answer is lost and call_unary tries again.                          *)
AnswerLost(m) ==
  /\ "lost_answer" \in faults
  /\ retry_with_backoff(m) # {}
  /\ net' = (net \ {m}) \cup retry_with_backoff(m)
  /\ UNCHANGED waiting

(* stream_prepare_object.  Inserting under a temp_id that is in use drops  *)
(* the handle stored there, which deletes the file just written.           *)
ExecPrepare(m) ==
  LET n == m.to
  IN  /\ m \in net /\ m.type = "prepare"
      /\ temp' = [temp EXCEPT ![n] = IF PendingOf(m) = {} THEN m.data ELSE NoFile]
      /\ pending' = [pending EXCEPT ![n] =
                       (@ \ PendingOf(m)) \cup {[rid |-> m.rid, op |-> m.op]}]
      /\ prepared' = IF n \in waiting[m.op]
                     THEN [prepared EXCEPT ![m.op] = @ \cup {n}] ELSE prepared
      /\ Answered(m)
      /\ UNCHANGED <<opVars, phase, rid, final, procVars>>

(* An early return of stream_prepare_object, before or after the temp file *)
(* was created.                                                            *)
PrepareFails(m) ==
  /\ "prepare_error" \in faults
  /\ m \in net /\ m.type = "prepare"
  /\ temp' \in {temp, [temp EXCEPT ![m.to] = NoFile]}
  /\ Answered(m)
  /\ UNCHANGED <<opVars, phase, rid, prepared, final, pending, procVars>>

(* commit_object: the entry is taken out, then the temp file is renamed.   *)
ExecCommit(m) ==
  LET n == m.to
      renamed == PendingOf(m) # {} /\ temp[n] # NoFile
  IN  /\ m \in net /\ m.type = "commit"
      /\ pending' = [pending EXCEPT ![n] = @ \ PendingOf(m)]
      /\ final' = IF renamed THEN [final EXCEPT ![n] = temp[n]] ELSE final
      /\ temp' = IF renamed THEN [temp EXCEPT ![n] = NoFile] ELSE temp
      /\ Answered(m) \/ AnswerLost(m)
      /\ UNCHANGED <<opVars, phase, rid, prepared, procVars>>

Dropped(m) ==
  /\ pending' = [pending EXCEPT ![m.to] = @ \ PendingOf(m)]
  /\ temp' = IF PendingOf(m) # {} THEN [temp EXCEPT ![m.to] = NoFile] ELSE temp

(* The rename fails: the entry is gone and its handle is dropped.          *)
CommitFails(m) ==
  /\ "commit_error" \in faults
  /\ m \in net /\ m.type = "commit"
  /\ Dropped(m)
  /\ Answered(m)
  /\ UNCHANGED <<opVars, phase, rid, prepared, final, procVars>>

ExecAbort(m) ==
  /\ m \in net /\ m.type = "abort"
  /\ Dropped(m)
  /\ Answered(m) \/ AnswerLost(m)
  /\ UNCHANGED <<opVars, phase, rid, prepared, final, procVars>>

(* delete_object: the final file goes, whichever put it is from.           *)
ExecDelete(m) ==
  /\ m \in net /\ m.type = "delete"
  /\ final' = [final EXCEPT ![m.to] = NoFile]
  /\ Answered(m) \/ AnswerLost(m)
  /\ UNCHANGED <<opVars, phase, rid, prepared, temp, pending, procVars>>

(* Faulty variant: a call without a timeout, whose request is lost.        *)
GiveUp_without_timeout(m) ==
  /\ "timeout" \in faults
  /\ m \in net /\ m.to \in waiting[m.op]
  /\ net' = net \ {m}
  /\ UNCHANGED <<opVars, phase, rid, prepared, waiting, fileVars, procVars>>

(* The coordinator's call returns an error; the request is lost or is      *)
(* executed later.                                                         *)
GiveUp(m) ==
  /\ "timeout" \in faults
  /\ m \in net /\ m.to \in waiting[m.op]
  /\ waiting' = [waiting EXCEPT ![m.op] = @ \ {m.to}]
  /\ net' \in {net, net \ {m}}
  /\ UNCHANGED <<opVars, phase, rid, prepared, fileVars, procVars>>

(* What an operation left is an hour old, the default max_age of both      *)
(* cleanups: it is over and so are its calls.                              *)
Old(w) == Over(w) /\ \A m \in net : m.op # w

(* cleanup_stale_prepares drops the entries older than max_age.            *)
CleanupStale(n) ==
  LET stale == {p \in pending[n] : Old(p.op)}
  IN  /\ stale # {}
      /\ pending' = [pending EXCEPT ![n] = @ \ stale]
      /\ temp' = [temp EXCEPT ![n] = NoFile]
      /\ UNCHANGED <<opVars, phase, rid, prepared, waiting, net, final, procVars>>

(* Faulty variant: only files of multipart uploads are ever removed.       *)
GcList_parts_only(n) == FALSE /\ UNCHANGED vars

(* run_gc_cycle (save-api/src/gc.rs) reads the temp directory and picks    *)
(* the files that are too old ...                                          *)
GcList(n) ==
  /\ ~listed[n]
  /\ temp[n] # NoFile /\ Old(temp[n])
  /\ listed' = [listed EXCEPT ![n] = TRUE]
  /\ UNCHANGED <<opVars, phase, rid, prepared, waiting, net, fileVars, counter, crashes>>

(* ... and removes them by their paths, whatever is there by then.         *)
GcRemove(n) ==
  /\ listed[n]
  /\ listed' = [listed EXCEPT ![n] = FALSE]
  /\ temp' = [temp EXCEPT ![n] = NoFile]
  /\ UNCHANGED <<opVars, phase, rid, prepared, waiting, net, final, pending, counter, crashes>>

-----------------------------------------------------------------------------
(* complete_2pc_write.                                                     *)

PreparesDone(w) ==
  kind[w] = "put" /\ phase[w] = "preparing" /\ waiting[w] = {}

(* Faulty variant: the local copy is counted twice.                        *)
QuorumAchieved_local_twice(w) == 2 + Cardinality(prepared[w]) >= write_quorum

QuorumAchieved(w) == 1 + Cardinality(prepared[w]) >= write_quorum

(* Faulty variant: prepared replicas are not told.                         *)
abort_all_of_none(w) == UNCHANGED net

abort_all(w) ==
  net' = net \cup Calls("abort", w, prepared[w], rid[w], NoFile, MaxRetries)

(* Faulty variant: the local rename comes before the quorum check.         *)
NoQuorum_after_rename(w) ==
  /\ PreparesDone(w) /\ ~QuorumAchieved(w)
  /\ abort_all(w)
  /\ final' = [final EXCEPT ![coord[w]] = temp[coord[w]]]
  /\ temp' = [temp EXCEPT ![coord[w]] = NoFile]
  /\ Fail(w)
  /\ UNCHANGED <<opVars, rid, prepared, pending, procVars>>

(* The handle of the local temp file is dropped with the future.           *)
NoQuorum(w) ==
  /\ PreparesDone(w) /\ ~QuorumAchieved(w)
  /\ abort_all(w)
  /\ temp' = [temp EXCEPT ![coord[w]] = NoFile]
  /\ Fail(w)
  /\ UNCHANGED <<opVars, rid, prepared, final, pending, procVars>>

(* The local rename, then commit_all.                                      *)
LocalCommit(w) ==
  LET c == coord[w]
  IN  /\ PreparesDone(w) /\ QuorumAchieved(w)
      /\ temp[c] # NoFile
      /\ final' = [final EXCEPT ![c] = temp[c]]
      /\ temp' = [temp EXCEPT ![c] = NoFile]
      /\ phase' = [phase EXCEPT ![w] = "committing"]
      /\ waiting' = [waiting EXCEPT ![w] = prepared[w]]
      /\ net' = net \cup Calls("commit", w, prepared[w], rid[w], NoFile, MaxRetries)
      /\ UNCHANGED <<opVars, rid, prepared, pending, procVars>>

LocalCommitFails(w) ==
  LET c == coord[w]
  IN  /\ PreparesDone(w) /\ QuorumAchieved(w)
      /\ \/ temp[c] = NoFile /\ UNCHANGED final
         \/ "local_error" \in faults /\ UNCHANGED final
         \/ /\ "fsync_error" \in faults /\ temp[c] # NoFile
            /\ final' = [final EXCEPT ![c] = temp[c]]
      /\ abort_all(w)
      /\ temp' = [temp EXCEPT ![c] = NoFile]
      /\ Fail(w)
      /\ UNCHANGED <<opVars, rid, prepared, pending, procVars>>

(* replicate_delete: the local file first, then every other node.          *)
LocalDelete(w) ==
  LET c == coord[w]
  IN  /\ kind[w] = "delete" /\ phase[w] = "started"
      /\ final[c] # NoFile
      /\ final' = [final EXCEPT ![c] = NoFile]
      /\ phase' = [phase EXCEPT ![w] = "committing"]
      /\ waiting' = [waiting EXCEPT ![w] = Nodes \ {c}]
      /\ net' = net \cup Calls("delete", w, Nodes \ {c}, rid[w], NoFile, MaxRetries)
      /\ UNCHANGED <<opVars, rid, prepared, temp, pending, procVars>>

DeleteNotFound(w) ==
  /\ kind[w] = "delete" /\ phase[w] = "started"
  /\ final[coord[w]] = NoFile
  /\ Fail(w)
  /\ UNCHANGED <<opVars, rid, prepared, net, fileVars, procVars>>

(* Every commit or delete call has ended, well or not.                     *)
Ack(w) ==
  /\ phase[w] = "committing" /\ waiting[w] = {}
  /\ phase' = [phase EXCEPT ![w] = "acked"]
  /\ UNCHANGED <<opVars, rid, prepared, waiting, net, fileVars, procVars>>

-----------------------------------------------------------------------------
(* The handler future is dropped: the handle goes, spawned calls go on and *)
(* no abort is sent.  A rename or an unlink that was handed to a blocking  *)
(* thread is not undone: it may have happened when the future goes.  (A    *)
(* rename later than that finds no temp file; an unlink that is still in   *)
(* the queue of the thread pool then is taken to be done by then.)         *)
Cancel(w) ==
  LET c == coord[w]
  IN  /\ "cancel" \in faults
      /\ Active(w)
      /\ Fail(w)
      /\ temp' = IF kind[w] = "put" /\ phase[w] # "committing"
                 THEN [temp EXCEPT ![c] = NoFile] ELSE temp
      /\ \/ UNCHANGED final
         \/ /\ PreparesDone(w) /\ QuorumAchieved(w) /\ temp[c] # NoFile
            /\ final' = [final EXCEPT ![c] = temp[c]]
         \/ /\ kind[w] = "delete" /\ phase[w] = "started"
            /\ final' = [final EXCEPT ![c] = NoFile]
      /\ UNCHANGED <<opVars, rid, prepared, net, pending, procVars>>

(* The process dies and starts again: pending_prepares and request_counter *)
(* are in memory, the files are not.  Its requests may have got out.       *)
Crash(n) ==
  LET lost == {w \in Ops : coord[w] = n /\ Active(w)}
  IN  /\ "crash" \in faults
      /\ crashes < MaxCrashes
      /\ crashes' = crashes + 1
      /\ phase' = [w \in Ops |-> IF w \in lost THEN "failed" ELSE phase[w]]
      /\ waiting' = [w \in Ops |-> IF w \in lost THEN {} ELSE waiting[w]]
      /\ pending' = [pending EXCEPT ![n] = {}]
      /\ counter' = [counter EXCEPT ![n] = 1]
      /\ listed' = [listed EXCEPT ![n] = FALSE]
      /\ net' \in {net, {m \in net : coord[m.op] # n}}
      /\ UNCHANGED <<opVars, rid, prepared, temp, final>>

Coordinate(w) ==
  \/ StartPut(w) \/ StartDelete(w)
  \/ SendPrepares(w) \/ TempLost(w)
  \/ NoQuorum(w) \/ LocalCommit(w) \/ LocalCommitFails(w)
  \/ LocalDelete(w) \/ DeleteNotFound(w)
  \/ Ack(w)

Execute(m) == ExecPrepare(m) \/ ExecCommit(m) \/ ExecAbort(m) \/ ExecDelete(m)

Next ==
  \/ \E w \in Ops : Coordinate(w) \/ Cancel(w)
  \/ \E m \in net : Execute(m) \/ PrepareFails(m) \/ CommitFails(m) \/ GiveUp(m)
  \/ \E n \in Nodes : CleanupStale(n) \/ GcList(n) \/ GcRemove(n) \/ Crash(n)

Spec == Init /\ [][Next]_vars

(* The runtime polls the coordinator, every call under way is executed or  *)
(* given up, and the cleanup and GC workers run at their intervals.        *)
Fairness ==
  /\ \A w \in Ops : WF_vars(Coordinate(w))
  /\ WF_vars(\E m \in net : Execute(m))
  /\ \A n \in Nodes :
       WF_vars(CleanupStale(n)) /\ WF_vars(GcList(n)) /\ WF_vars(GcRemove(n))

FairSpec == Spec /\ Fairness

-----------------------------------------------------------------------------
TypeOK ==
  /\ faults \subseteq FaultKinds
  /\ kind \in [Ops -> {"put", "delete"}]
  /\ coord \in [Ops -> Coordinators]
  /\ phase \in [Ops -> Phase]
  /\ rid \in [Ops -> Nat]
  /\ prepared \in [Ops -> SUBSET Nodes]
  /\ waiting \in [Ops -> SUBSET Nodes]
  /\ net \subseteq Call
  /\ temp \in [Nodes -> Content]
  /\ final \in [Nodes -> Content]
  /\ pending \in [Nodes -> SUBSET [rid : Nat, op : Ops]]
  /\ listed \in [Nodes -> BOOLEAN]
  /\ counter \in [Nodes -> Nat]
  /\ crashes \in Nat

(* The operation that started last.                                        *)
Last(w) == phase[w] # "idle" /\ \A v \in (w + 1)..NumOps : phase[v] = "idle"

(* Every failure is one that the coordinator learns of before it commits,  *)
(* or that a retry repairs.                                                *)
Reliable ==
  faults \subseteq {"unhealthy", "prepare_error", "local_error", "fsync_error",
                    "lost_answer"}

(* ReplicationService::read_object: the chunks of the replica's final      *)
(* file; none is an error.                                                 *)
read_object(m) == {final[m]} \ {NoFile}

(* read_from_replica: with read_quorum = 1 the first stream that opens, of *)
(* whichever node is asked first.                                          *)
read_from_replica(n) == UNION {read_object(m) : m \in Nodes \ {n}}

(* ReplicatedBackend::get_object on a node: its own file or else that of   *)
(* any other node.                                                         *)
get_object(n) ==
  IF final[n] # NoFile THEN {final[n]}
  ELSE IF read_from_replica(n) = {} THEN {NoFile} ELSE read_from_replica(n)

(* Until the next operation starts, a put that was acknowledged is in the  *)
(* final file of a quorum of nodes and is what every node reads that the   *)
(* coordinator counted, and after a delete that was acknowledged no node   *)
(* reads anything, if nothing fails after the prepares that a retry does   *)
(* not repair.                                                             *)
AckedTakesEffect ==
  Reliable =>
    \A w \in Ops :
      Last(w) /\ phase[w] = "acked" =>
        IF kind[w] = "put"
        THEN /\ Cardinality({n \in Nodes : final[n] = w}) >= write_quorum
             /\ \A n \in prepared[w] : get_object(n) = {w}
        ELSE \A n \in Nodes : get_object(n) = {NoFile}

(* No node ever serves the bytes of a put that failed, unless it failed    *)
(* after its rename.                                                       *)
FailedInvisible ==
  Reliable /\ "fsync_error" \notin faults =>
    \A n \in Nodes : final[n] # NoFile => phase[final[n]] # "failed"

(* Once nothing is under way, no node has a temp file or a prepare left,   *)
(* if no call was lost and no handler cancelled.                           *)
NothingLeft ==
  Reliable /\ net = {} /\ (\A w \in Ops : ~Active(w)) =>
    \A n \in Nodes : temp[n] = NoFile /\ pending[n] = {}

(* While no process has crashed, every temp file has a handle that will    *)
(* delete or rename it: a prepare's or that of a put under way.            *)
TempOwned ==
  crashes = 0 =>
    \A n \in Nodes : temp[n] # NoFile =>
      \/ pending[n] # {}
      \/ \E w \in Ops :
           kind[w] = "put" /\ coord[w] = n /\ phase[w] \in {"started", "preparing"}

(* Every operation ends, and every prepared entry is committed, aborted or *)
(* cleaned up.                                                             *)
OperationsEnd ==
  \A w \in Ops :
    /\ Active(w) ~> Over(w)
    /\ \A n \in Nodes : (\E p \in pending[n] : p.op = w) ~> (\A p \in pending[n] : p.op # w)

(* A temp file does not stay for ever, not even after a crash has taken    *)
(* the handle that would have deleted it.                                  *)
OrphansCleaned == \A n \in Nodes : temp[n] # NoFile ~> temp[n] = NoFile

-----------------------------------------------------------------------------
(* With one coordinator, its own copy of the object is a register.  The    *)
(* register of the other behaviours is never used.                         *)

OneCoordinator == \A v, w \in Ops : coord[v] = coord[w]

Status(w) ==
  IF phase[w] \in {"started", "preparing"} THEN "active"
  ELSE IF phase[w] = "committing" THEN "effective"
  ELSE phase[w]

Register == INSTANCE ObjectRegister WITH
  Outcomes <- Content,
  value    <- IF OneCoordinator THEN final[coord[1]] ELSE NoFile,
  status   <- IF OneCoordinator THEN [w \in Ops |-> Status(w)]
                                ELSE [w \in Ops |-> "idle"],
  outcome  <- [w \in Ops |-> Result(w)]

(* If one node coordinates all operations, its own copy is a register,     *)
(* whatever fails: it changes at most once per operation, to what that     *)
(* operation wrote, while the operation is active, and never after it has  *)
(* ended.                                                                  *)
ImplementsRegister == Register!Spec

(* Operations do not overlap.                                              *)
InOrder ==
  \A v, w \in Ops : v < w /\ phase[w] # "idle" => Over(v)

(* A coordinator calls the other nodes only.                               *)
CallsElsewhere ==
  /\ \A m \in net : m.to # coord[m.op]
  /\ \A w \in Ops : coord[w] \notin prepared[w] \cup waiting[w]

(* The only coordinator is never prepared, and the temp file of the put it *)
(* works on stays its own until the GC worker removes it.                  *)
TempUndisturbed ==
  \A w \in Ops :
    /\ pending[coord[w]] = {}
    /\ kind[w] = "put" /\ phase[w] \in {"started", "preparing"}
         => temp[coord[w]] \in {w, NoFile}

(* The inductive invariant behind ImplementsRegister.                      *)
RegisterInv ==
  /\ TypeOK
  /\ InOrder
  /\ CallsElsewhere
  /\ OneCoordinator => TempUndisturbed
=============================================================================
