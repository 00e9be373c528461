--------------------------- MODULE MetadataReplica ---------------------------
(***************************************************************************)
(* The replicated state machine of save-metadata: how a replica applies    *)
(* the committed commands to RocksDB, takes and installs snapshots, purges *)
(* its log, and comes back after a crash (raft/storage.rs,                 *)
(* raft/snapshot.rs, raft/state_machine.rs).                               *)
(*                                                                         *)
(* The committed log is one sequence (RaftLog has how servers agree on     *)
(* it); a replica has a window of it.  Every write to RocksDB is a step of *)
(* its own: a process may die between two of them, and the snapshot        *)
(* builder runs beside the task that applies commands.  What openraft does *)
(* with the storage (batches, when to purge, when to send a snapshot, what *)
(* it reads when it starts) is external.                                   *)
(***************************************************************************)
EXTENDS Integers, Sequences

CONSTANTS
  Node,
  Leader,       \* the replica that accepts commands and sends snapshots
  Holder,       \* the LockHolders of requests
  Readers,      \* those of them that ask for a read lock
  MaxLog,       \* bound: committed commands
  MaxCrashes,   \* bound: crashes of all replicas together
  MaxSnapshots, \* bound: snapshots a replica builds
  Builders,     \* the replicas whose log reaches the snapshot threshold
  Scenarios     \* the environments: what may fail, and what is written

(* crash:   a process dies                                                 *)
(* corrupt: the Raft state of a process that starts cannot be read         *)
(* large:   a snapshot is larger than one chunk of openraft                *)
(* busy:    commands are applied while a snapshot is built                 *)
FaultKinds == {"crash", "corrupt", "large", "busy"}

NoHolder == "none"
LockCommand == [op : {"acquire_lock", "release_lock"}, holder : Holder]
DataCommand ==
  [op : {"create_bucket", "delete_bucket", "put_object", "delete_object", "membership"},
   holder : {NoHolder}]
Command == LockCommand \cup DataCommand

ASSUME LeaderAssumption    == Leader \in Node /\ Builders \subseteq Node
ASSUME ReadersAssumption   == Readers \subseteq Holder
ASSUME BoundsAssumption    == {MaxLog, MaxCrashes, MaxSnapshots} \subseteq Nat
ASSUME ScenariosAssumption == Scenarios \subseteq (SUBSET FaultKinds) \X (SUBSET Command)

VARIABLES
  faults,    \* what may fail, fixed from the start
  offered,   \* the commands that may be written, likewise
  log,       \* the committed commands
  data,      \* the default column family: bkt:, obj: and lock: keys
  applied,   \* last_applied_log_id; 0 is None
  member,    \* membership: the index of the command it is from
  first,     \* the first index still in raft_log
  end,       \* the last index in raft_log
  purged,    \* last_purged_log_id; 0 is None
  meta,      \* snapshot_meta: a set with one element at most
  image,     \* snapshot_data: likewise
  status,    \* running, down, or stopped by a storage error
  job,       \* what the state machine task of openraft is doing
  build,     \* what the snapshot builder is doing
  states,    \* history: what the first k commands make, for each k
  top,       \* history: the last command that data has seen
  torn,      \* history: replicas with a partial or inconsistent snapshot
  regranted, \* history: replicas that granted a lock that was refused
  crashes, snapshots

diskVars == <<data, applied, member, first, end, purged, meta, image>>
taskVars == <<status, job, build>>
vars     == <<faults, offered, log, data, applied, member, first, end, purged, meta, image, status,
              job, build, states, top, torn, regranted, crashes, snapshots>>

NoJob   == [op |-> "none"]
NoBuild == [step |-> "none"]
Empty   == [bucket |-> FALSE, object |-> 0, lock |-> {}]

(* restore_default_cf handles the keys with these prefixes.                *)
AllPrefixes   == {"bucket", "object", "lock"}
BucketsOnly   == {"bucket"}
DATA_PREFIXES == {"bucket", "object"}

MaxOf(a, b) == IF a > b THEN a ELSE b
-----------------------------------------------------------------------------
(* state_machine::apply_command.  A bucket that exists already is an       *)
(* error; a lock that is held by somebody else is not.                     *)
PutNeedsBucket(d, i) ==
  (log[i].op = "create_bucket" => ~d.bucket) /\ (log[i].op = "put_object" => d.bucket)

apply_succeeds(d, i) == log[i].op = "create_bucket" => ~d.bucket

create_bucket(d) == [d EXCEPT !.bucket = TRUE]
delete_bucket(d) == [d EXCEPT !.bucket = FALSE]
put_object_metadata(d, i) == [d EXCEPT !.object = i]
delete_object_metadata(d) == [d EXCEPT !.object = 0]

(* lock.rs: the holder gets the lock, or keeps it, unless somebody else    *)
(* has it and one of them is a writer; only the named holder leaves.       *)
can_acquire(d, h) == d.lock \subseteq {h} \/ h \in d.lock \/ (h \in Readers /\ d.lock \subseteq Readers)
acquire_lock(d, h) == IF can_acquire(d, h) THEN [d EXCEPT !.lock = @ \cup {h}] ELSE d
release_lock(d, h) == [d EXCEPT !.lock = @ \ {h}]

apply_command(d, c, i) ==
  CASE c.op = "create_bucket" -> create_bucket(d)
    [] c.op = "delete_bucket" -> delete_bucket(d)
    [] c.op = "put_object"    -> put_object_metadata(d, i)
    [] c.op = "delete_object" -> delete_object_metadata(d)
    [] c.op = "acquire_lock"  -> acquire_lock(d, c.holder)
    [] c.op = "release_lock"  -> release_lock(d, c.holder)
    [] c.op = "membership"    -> d

(* What the first k commands make of an empty state machine.               *)
StateAt(k) == states[k + 1]

MembershipAt(k) ==
  LET is == {i \in 1 .. k : log[i].op = "membership"}
  IN IF is = {} THEN 0 ELSE CHOOSE i \in is : \A j \in is : i >= j

(* The acquire at index i did not get the lock.                            *)
Refused(i) == log[i].op = "acquire_lock" /\ log[i].holder \notin StateAt(i).lock
-----------------------------------------------------------------------------
Init ==
  /\ \E s \in Scenarios : faults = s[1] /\ offered = s[2]
  /\ log = <<>>
  /\ data = [n \in Node |-> Empty]
  /\ applied = [n \in Node |-> 0] /\ member = [n \in Node |-> 0]
  /\ first = [n \in Node |-> 1] /\ end = [n \in Node |-> 0] /\ purged = [n \in Node |-> 0]
  /\ meta = [n \in Node |-> {}] /\ image = [n \in Node |-> {}]
  /\ status = [n \in Node |-> "running"]
  /\ job = [n \in Node |-> NoJob] /\ build = [n \in Node |-> NoBuild]
  /\ states = <<Empty>> /\ top = [n \in Node |-> 0] /\ torn = {} /\ regranted = {}
  /\ crashes = 0 /\ snapshots = [n \in Node |-> 0]

Running(n) == status[n] = "running"

(* What a request has seen before it writes: a replica it asked has, or    *)
(* had, the bucket it deletes, or its own lock, which it releases.         *)
Seen(c) ==
  \E n \in Node : \E d \in {data[n]} \cup {StateAt(k) : k \in 0 .. top[n]} :
    IF c.op = "delete_bucket" THEN d.bucket ELSE c.holder \in d.lock

(* RaftNode::write.  Handlers check a replica and then await the write, so *)
(* that several creates, or acquires, may have passed their check before   *)
(* the first is committed; write_with_retry may also submit one twice.     *)
Write(c) ==
  /\ Running(Leader) /\ Len(log) < MaxLog
  /\ c.op \in {"delete_bucket", "release_lock"} => Seen(c)
  /\ log' = Append(log, c)
  /\ states' = Append(states, apply_command(StateAt(Len(log)), c, Len(log) + 1))
  /\ end' = [end EXCEPT ![Leader] = Len(log) + 1]
  /\ UNCHANGED <<faults, offered, regranted, data, applied, member, first, purged, meta, image,
                 taskVars, top, torn, crashes, snapshots>>

LogEndsTooEarly(n) ==
  /\ n # Leader /\ Running(n) /\ Running(Leader) /\ job[n].op # "install"
  /\ end[n] < end[Leader] /\ first[Leader] <= end[n]
  /\ end' = [end EXCEPT ![n] = @ + 1]
  /\ UNCHANGED <<faults, offered, regranted, log, states, data, applied, member, first, purged, meta,
                 image, taskVars, top, torn, crashes, snapshots>>

(* append_entries brings a replica the next entry, if the leader has it.   *)
Replicate(n) ==
  /\ n # Leader /\ Running(n) /\ Running(Leader) /\ job[n].op # "install"
  /\ end[n] < end[Leader] /\ first[Leader] <= end[n] + 1
  /\ end' = [end EXCEPT ![n] = @ + 1]
  /\ UNCHANGED <<faults, offered, regranted, log, states, data, applied, member, first, purged, meta,
                 image, taskVars, top, torn, crashes, snapshots>>

(* Storage::apply_to_state_machine with a batch: each command is a write   *)
(* of its own, and last_applied_log_id follows the last one.               *)
StartBatch(n) ==
  /\ Running(n) /\ job[n] = NoJob /\ applied[n] < end[n]
  /\ "busy" \in faults \/ build[n] = NoBuild
  /\ \E k \in applied[n] + 1 .. end[n] :
       job' = [job EXCEPT ![n] = [op |-> "apply", next |-> applied[n] + 1, upto |-> k]]
  /\ UNCHANGED <<faults, offered, regranted, log, states, diskVars, status, build, top, torn, crashes,
                 snapshots>>

ApplyOne(n) ==
  LET i == job[n].next
  IN /\ Running(n) /\ job[n].op = "apply" /\ i <= job[n].upto
     /\ IF apply_succeeds(data[n], i)
        THEN /\ data' = [data EXCEPT ![n] = apply_command(@, log[i], i)]
             /\ member' = [member EXCEPT ![n] = IF log[i].op = "membership" THEN i ELSE @]
             /\ job' = [job EXCEPT ![n].next = i + 1]
             /\ top' = [top EXCEPT ![n] = MaxOf(@, i)]
             /\ regranted' = IF Refused(i) /\ log[i].holder \in data'[n].lock
                             THEN regranted \cup {n} ELSE regranted
             /\ UNCHANGED <<status, build>>
        ELSE /\ status' = [status EXCEPT ![n] = "stopped"]
             /\ job' = [job EXCEPT ![n] = NoJob]
             /\ build' = [build EXCEPT ![n] = NoBuild]
             /\ UNCHANGED <<data, member, top, regranted>>
     /\ UNCHANGED <<faults, offered, log, states, applied, first, end, purged, meta, image, torn,
                    crashes, snapshots>>

EndBatch(n) ==
  /\ Running(n) /\ job[n].op = "apply" /\ job[n].next > job[n].upto
  /\ applied' = [applied EXCEPT ![n] = job[n].upto]
  /\ job' = [job EXCEPT ![n] = NoJob]
  /\ UNCHANGED <<faults, offered, regranted, log, states, data, member, first, end, purged, meta,
                 image, status, build, top, torn, crashes, snapshots>>
-----------------------------------------------------------------------------
(* get_current_snapshot: nothing, unless both keys are there.              *)
get_current_snapshot(n) ==
  {[last |-> m.last, member |-> m.member, of |-> d.of, data |-> d.data, top |-> d.top] :
     m \in meta[n], d \in image[n]}

(* SnapshotStorage::build_snapshot, in a task of its own: read the applied *)
(* state, take the checkpoint, store the metadata, store the data.         *)
(* openraft starts it for commands applied past the last snapshot.  What   *)
(* is stored as data keeps the index its builder had read (of, history).   *)
ReadAppliedState(n) ==
  /\ n \in Builders /\ Running(n) /\ build[n] = NoBuild /\ snapshots[n] < MaxSnapshots
  /\ job[n] = NoJob \/ ("busy" \in faults /\ job[n].op = "apply")
  /\ applied[n] > 0 /\ \A s \in get_current_snapshot(n) : applied[n] > s.last
  /\ build' = [build EXCEPT ![n] = [step |-> "read", last |-> applied[n], member |-> member[n]]]
  /\ snapshots' = [snapshots EXCEPT ![n] = @ + 1]
  /\ UNCHANGED <<faults, offered, regranted, log, states, diskVars, status, job, top, torn, crashes>>

create_checkpoint_archive(n) ==
  /\ Running(n) /\ build[n].step = "read"
  /\ build' = [build EXCEPT ![n] = [step |-> "copied", last |-> @.last, member |-> @.member,
                                    data |-> data[n], top |-> top[n]]]
  /\ UNCHANGED <<faults, offered, regranted, log, states, diskVars, status, job, top, torn, crashes,
                 snapshots>>

PutMeta(n) ==
  /\ Running(n) /\ build[n].step = "copied"
  /\ meta' = [meta EXCEPT ![n] = {[last |-> build[n].last, member |-> build[n].member]}]
  /\ build' = [build EXCEPT ![n].step = "meta"]
  /\ UNCHANGED <<faults, offered, regranted, log, states, data, applied, member, first, end, purged,
                 image, status, job, top, torn, crashes, snapshots>>

DataNotStored(n) ==
  /\ Running(n) /\ build[n].step = "meta"
  /\ build' = [build EXCEPT ![n] = [step |-> "built", last |-> @.last]]
  /\ UNCHANGED <<faults, offered, regranted, log, states, diskVars, status, job, top, torn, crashes,
                 snapshots>>

PutData(n) ==
  /\ Running(n) /\ build[n].step = "meta"
  /\ image' = [image EXCEPT ![n] = {[of |-> build[n].last, data |-> build[n].data,
                                      top |-> build[n].top]}]
  /\ build' = [build EXCEPT ![n] = [step |-> "built", last |-> @.last]]
  /\ UNCHANGED <<faults, offered, regranted, log, states, data, applied, member, first, end, purged,
                 meta, status, job, top, torn, crashes, snapshots>>

(* Storage::purge_logs_upto of what the snapshot covers: the entries go    *)
(* first, last_purged_log_id follows.                                      *)
DeleteEntries(n) ==
  /\ Running(n) /\ build[n].step = "built"
  /\ first' = [first EXCEPT ![n] = MaxOf(@, build[n].last + 1)]
  /\ build' = [build EXCEPT ![n].step = "deleted"]
  /\ UNCHANGED <<faults, offered, regranted, log, states, data, applied, member, end, purged, meta,
                 image, status, job, top, torn, crashes, snapshots>>

WritePurged(n) ==
  /\ Running(n) /\ build[n].step = "deleted"
  /\ purged' = [purged EXCEPT ![n] = MaxOf(@, build[n].last)]
  /\ build' = [build EXCEPT ![n] = NoBuild]
  /\ UNCHANGED <<faults, offered, regranted, log, states, data, applied, member, first, end, meta,
                 image, status, job, top, torn, crashes, snapshots>>
-----------------------------------------------------------------------------
(* RaftRpcClient::do_install_snapshot sends each chunk without its offset, *)
(* and RaftRpcServer::do_install_snapshot hands each to Raft as a whole    *)
(* snapshot (offset 0, done).                                              *)
convert_install_snapshot_request(c) == [c EXCEPT !.offset = 0, !.done = TRUE]
do_install_snapshot(chunks) == {convert_install_snapshot_request(c) : c \in chunks}

(* The chunks openraft makes of a snapshot, and what arrives of them: the  *)
(* first one of several does not unpack, which is a storage error.         *)
Chunks ==
  IF "large" \in faults THEN {[part |-> 1, offset |-> 0, done |-> FALSE],
                              [part |-> 2, offset |-> 1, done |-> TRUE]}
  ELSE {[part |-> 0, offset |-> 0, done |-> TRUE]}
Unpacks(c) == c.done => c.part = 0

SendSnapshot(n) ==
  \E s \in get_current_snapshot(Leader) :
    /\ n # Leader /\ Running(n) /\ Running(Leader) /\ job[n] = NoJob /\ build[n] = NoBuild
    /\ end[n] < end[Leader] /\ first[Leader] > end[n] + 1 /\ s.last > applied[n]
    /\ IF \E c \in do_install_snapshot(Chunks) : ~Unpacks(c)
       THEN /\ status' = [status EXCEPT ![n] = "stopped"]
            /\ build' = [build EXCEPT ![n] = NoBuild]
            /\ UNCHANGED job
       ELSE /\ job' = [job EXCEPT ![n] = [op |-> "install", step |-> "clear", snap |-> s]]
            /\ UNCHANGED <<status, build>>
    /\ UNCHANGED <<faults, offered, regranted, log, states, diskVars, top, torn, crashes, snapshots>>

(* snapshot::install_snapshot: delete the keys of DATA_PREFIXES, copy them *)
(* from the checkpoint, then last_applied_log_id, membership, and the      *)
(* snapshot itself; openraft then purges the log up to it.                 *)
Restore(d, source) ==
  [k \in AllPrefixes |-> IF k \in DATA_PREFIXES THEN source[k] ELSE d[k]]

InstallStep(n, step, next) ==
  /\ Running(n) /\ job[n].op = "install" /\ job[n].step = step
  /\ job' = [job EXCEPT ![n] = IF next = "done" THEN NoJob ELSE [@ EXCEPT !.step = next]]
  /\ UNCHANGED <<faults, offered, regranted, log, states, status, build, crashes, snapshots>>

DeleteKeys(n) ==
  /\ InstallStep(n, "clear", "copy")
  /\ data' = [data EXCEPT ![n] = Restore(@, Empty)]
  /\ UNCHANGED <<applied, member, first, end, purged, meta, image, top, torn>>

CopyKeys(n) ==
  /\ InstallStep(n, "copy", "applied")
  /\ data' = [data EXCEPT ![n] = Restore(@, job[n].snap.data)]
  /\ top' = [top EXCEPT ![n] = job[n].snap.top]
  /\ torn' = IF job[n].snap.of < job[n].snap.last THEN torn \cup {n} ELSE torn
  /\ UNCHANGED <<applied, member, first, end, purged, meta, image>>

WriteApplied(n) ==
  /\ InstallStep(n, "applied", "member")
  /\ applied' = [applied EXCEPT ![n] = job[n].snap.last]
  /\ UNCHANGED <<data, member, first, end, purged, meta, image, top, torn>>

WriteMembership(n) ==
  /\ InstallStep(n, "member", "snapshot")
  /\ member' = [member EXCEPT ![n] = job[n].snap.member]
  /\ UNCHANGED <<data, applied, first, end, purged, meta, image, top, torn>>

WriteSnapshot(n) ==
  /\ InstallStep(n, "snapshot", "image")
  /\ meta' = [meta EXCEPT ![n] = {[last |-> job[n].snap.last, member |-> job[n].snap.member]}]
  /\ UNCHANGED <<data, applied, member, first, end, purged, image, top, torn>>

WriteImage(n) ==
  /\ InstallStep(n, "image", "purge")
  /\ image' = [image EXCEPT ![n] = {[of |-> job[n].snap.of, data |-> job[n].snap.data,
                                      top |-> job[n].snap.top]}]
  /\ UNCHANGED <<data, applied, member, first, end, purged, meta, top, torn>>

PurgeInstalled(n) ==
  /\ InstallStep(n, "purge", "done")
  /\ first' = [first EXCEPT ![n] = job[n].snap.last + 1]
  /\ end' = [end EXCEPT ![n] = MaxOf(@, job[n].snap.last)]
  /\ purged' = [purged EXCEPT ![n] = job[n].snap.last]
  /\ torn' = IF job[n].snap.of < job[n].snap.last THEN torn ELSE torn \ {n}
  /\ UNCHANGED <<data, applied, member, meta, image, top>>
-----------------------------------------------------------------------------
Crash(n) ==
  /\ "crash" \in faults /\ crashes < MaxCrashes /\ status[n] # "down"
  /\ status' = [status EXCEPT ![n] = "down"]
  /\ job' = [job EXCEPT ![n] = NoJob]
  /\ build' = [build EXCEPT ![n] = NoBuild]
  /\ crashes' = crashes + 1
  /\ torn' = IF job[n].op = "install" THEN torn \cup {n} ELSE torn
  /\ UNCHANGED <<faults, offered, regranted, log, states, diskVars, top, snapshots>>

(* RaftNode::with_config.  openraft reads the first entry when nothing has *)
(* been purged, and fails without it; a log that ends before               *)
(* last_applied_log_id is purged up to there.                              *)
FirstReadable(n) == purged[n] > 0 \/ first[n] = 1 \/ end[n] = 0

last_applied_state(n) ==
  IF applied[n] > end[n]
  THEN [first |-> applied[n] + 1, end |-> applied[n], purged |-> applied[n]]
  ELSE [first |-> first[n], end |-> end[n], purged |-> purged[n]]

Restart(n) ==
  /\ status[n] = "down" /\ FirstReadable(n) /\ "corrupt" \notin faults
  /\ status' = [status EXCEPT ![n] = "running"]
  /\ first' = [first EXCEPT ![n] = last_applied_state(n).first]
  /\ end' = [end EXCEPT ![n] = last_applied_state(n).end]
  /\ purged' = [purged EXCEPT ![n] = last_applied_state(n).purged]
  /\ UNCHANGED <<faults, offered, regranted, log, states, data, applied, member, meta, image, job,
                 build, top, torn, crashes, snapshots>>

(* init_raft_node on a recoverable error: clear_raft_state empties the     *)
(* column families of Raft and leaves the default one as it is.            *)
clear_raft_state(n) ==
  /\ status[n] = "down" /\ "corrupt" \in faults /\ n # Leader
  /\ status' = [status EXCEPT ![n] = "running"]
  /\ applied' = [applied EXCEPT ![n] = 0] /\ member' = [member EXCEPT ![n] = 0]
  /\ first' = [first EXCEPT ![n] = 1] /\ end' = [end EXCEPT ![n] = 0]
  /\ purged' = [purged EXCEPT ![n] = 0]
  /\ meta' = [meta EXCEPT ![n] = {}] /\ image' = [image EXCEPT ![n] = {}]
  /\ UNCHANGED <<faults, offered, regranted, log, states, data, job, build, top, torn, crashes,
                 snapshots>>

Apply(n)   == StartBatch(n) \/ ApplyOne(n) \/ EndBatch(n)
Build(n)   == \/ ReadAppliedState(n) \/ create_checkpoint_archive(n) \/ PutMeta(n) \/ PutData(n)
              \/ DeleteEntries(n) \/ WritePurged(n)
Install(n) == \/ DeleteKeys(n) \/ CopyKeys(n) \/ WriteApplied(n) \/ WriteMembership(n)
              \/ WriteSnapshot(n) \/ WriteImage(n) \/ PurgeInstalled(n)

Next ==
  \/ \E c \in offered : Write(c)
  \/ \E n \in Node :
       \/ Replicate(n) \/ Apply(n) \/ Build(n) \/ SendSnapshot(n) \/ Install(n)
       \/ Crash(n) \/ Restart(n) \/ clear_raft_state(n)

Spec == Init /\ [][Next]_vars

(* The tasks go on: a replica's state machine worker, its snapshot builder *)
(* and the leader's replication to each of the others.                     *)
Fairness ==
  /\ \A n \in Node : WF_vars(Apply(n) \/ Install(n))
  /\ \A n \in Builders : WF_vars(Build(n))
  /\ \A n \in Node \ {Leader} : WF_vars(Replicate(n) \/ SendSnapshot(n))

FairSpec == Spec /\ Fairness
-----------------------------------------------------------------------------
TypeOK ==
  /\ <<faults, offered>> \in Scenarios
  /\ log \in Seq(Command) /\ Len(log) <= MaxLog /\ Len(states) = Len(log) + 1
  /\ data \in [Node -> [bucket : BOOLEAN, object : 0 .. MaxLog, lock : SUBSET Holder]]
  /\ \A n \in Node :
       /\ {applied[n], member[n], purged[n], end[n], top[n]} \subseteq 0 .. Len(log)
       /\ first[n] \in 1 .. Len(log) + 1
       /\ purged[n] < first[n] /\ first[n] <= end[n] + 1
  /\ status \in [Node -> {"running", "down", "stopped"}]
  /\ torn \subseteq Node /\ regranted \subseteq Node
  /\ crashes \in 0 .. MaxCrashes /\ snapshots \in [Node -> 0 .. MaxSnapshots]

(* A replica between two jobs, whose applied state is not behind its data. *)
Settled(n) == Running(n) /\ job[n] = NoJob /\ applied[n] >= top[n]

(* Buckets and objects of a replica are what the commands up to            *)
(* last_applied_log_id make of them, over all batches cut short and        *)
(* re-applied, and snapshots taken beside the batches; unless an           *)
(* installation was cut short and not repeated, or metadata met older      *)
(* data.  The membership is the one of the last membership command         *)
(* applied.  Locks have the same holders too where no snapshot was         *)
(* installed (DATA_PREFIXES leaves them out), unless the replica has       *)
(* granted a lock that was refused: an acquire that lost against a holder  *)
(* gets the lock when it is applied again to the data of a later command,  *)
(* which had released it.                                                  *)
ReplicasConverge ==
  \A n \in Node : Settled(n) /\ n \notin torn =>
    LET state == StateAt(applied[n])
    IN /\ data[n].bucket = state.bucket /\ data[n].object = state.object
       /\ member[n] = MembershipAt(applied[n])
       /\ ((n = Leader \/ purged[n] = 0) /\ n \notin regranted => data[n].lock = state.lock)

(* The create at index i is a second one for the data of the replica.      *)
SecondCreate(n, i) == log[i].op = "create_bucket" /\ (i <= top[n] \/ StateAt(i - 1).bucket)

(* A replica stops only at the second of two creates: one that its data    *)
(* has seen and that it applies again, or one that passed the handler's    *)
(* check beside another; or because a snapshot does not fit into one       *)
(* chunk, or was cut short.                                                *)
StopsOnlyOnSecondCreate ==
  \A n \in Node : status[n] = "stopped" =>
    "large" \in faults \/ n \in torn \/ \E i \in applied[n] + 1 .. end[n] : SecondCreate(n, i)

(* The entries a replica has not applied are in its log, or the leader     *)
(* can send a snapshot that covers what the leader has purged.             *)
NothingUnreachable ==
  \A n \in Node : Running(n) /\ Running(Leader) /\ first[Leader] > end[n] + 1 =>
    \E s \in get_current_snapshot(Leader) : s.last + 1 >= first[Leader]

(* Without failures every replica applies everything that is committed, or *)
(* stops at a command that a snapshot had brought ahead of last_applied,   *)
(* as long as the leader has not stopped at a second create itself.        *)
CatchesUp ==
  faults \subseteq {"busy"} =>
    []<>(Running(Leader) => \A n \in Node : applied[n] = Len(log) \/ status[n] = "stopped")
=============================================================================
