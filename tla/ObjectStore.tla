----------------------------- MODULE ObjectStore -----------------------------
(***************************************************************************)
(* The request handlers of save-api for one object and its bucket, on the  *)
(* Raft leader: put_object, delete_object, get_object, create_bucket and   *)
(* delete_bucket.  An object is two things that change separately: its     *)
(* metadata, which changes when the leader applies a Raft command, and its *)
(* file, which the storage backend renames into place or unlinks.          *)
(*                                                                         *)
(* The components below the handlers appear by what they promise.  The     *)
(* leader's file is the register of ObjectRegister (Replication2PC shows   *)
(* that it is one).  The lock is its entry in the lock table; the leader   *)
(* sees one table, and DistributedLock has the replicas.  All commands of  *)
(* the handlers and of the release tasks go through the leader's log and   *)
(* are applied in the order in which they were submitted.                  *)
(***************************************************************************)
EXTENDS Integers, Sequences

CONSTANTS
  Requests,     \* handler invocations
  NoObject,     \* no metadata, no file
  Strong,       \* consistency_mode == ConsistencyMode::Strong
  Environments, \* the failures and the kinds of requests that may come together
  MaxCrashes    \* bound: crashes of the process

(* lock_timeout:  the lock is not acquired in time; its command may commit *)
(* storage_error: the commit of the file fails and leaves the old file     *)
(* fsync_error:   the commit of the file fails after the rename            *)
(* unlink_error:  the file is not removed                                  *)
(* write_error:   RaftNode::write fails; its command may commit yet        *)
(* cancel:        the client goes away and the handler future is dropped   *)
(* crash:         the process dies and starts again                        *)
FaultKinds == {"lock_timeout", "storage_error", "fsync_error",
               "unlink_error", "write_error", "cancel", "crash"}

Kind == {"put", "delete", "get", "head", "create_bucket", "delete_bucket"}

ASSUME NoObjectAssumption == NoObject \notin Requests
ASSUME EnvironmentsAssumption == Environments \subseteq (SUBSET FaultKinds) \X (SUBSET Kind)
ASSUME BoundsAssumption   == MaxCrashes \in Nat /\ Strong \in BOOLEAN

VARIABLES
  faults,    \* what may fail, fixed from the start
  kind,      \* what each request is
  pc,        \* how far each request has got
  result,    \* what it returned
  got,       \* the metadata and the file a get has read
  log,       \* commands submitted through Raft and not applied
  applied,   \* the requests whose metadata command has been applied
  table,     \* the object's entry in the lock table
  stale,     \* holders in it that a crashed process left behind
  meta,      \* the object's metadata: the put it is from
  file,      \* the object's file: the put it is from
  bucket,    \* whether the bucket exists
  cached,    \* whether the bucket is in bucket_cache
  stopped,   \* whether applying a command failed, which stops the Raft node
  crashes    \* crashes so far

reqVars  == <<faults, kind, got>>
lockVars == <<table, stale>>
objVars  == <<meta, file>>
bktVars  == <<bucket, cached>>
vars     == <<faults, kind, pc, result, got, log, applied, table, stale, meta,
              file, bucket, cached, stopped, crashes>>

(* acquiring: its AcquireLock is submitted; locked: it has its guard;      *)
(* found: the bucket or the metadata was read; checked: the checks are     *)
(* passed; stored: the put's file is in place; writing: its command is     *)
(* submitted; written: it is applied; dropping: the handler has returned   *)
(* and the release task is to run.                                         *)
PC     == {"idle", "acquiring", "locked", "found", "checked", "stored",
           "writing", "written", "dropping", "done"}
Result == {"none", "ok", "error", "not_found", "exists", "not_empty"}
Object == Requests \cup {NoObject}

Command == [type : {"acquire", "change", "release"}, req : Requests]
NoLock  == [type |-> "none", holders |-> {}]

Writes(r)   == kind[r] \in {"put", "delete"}

(* Faulty variant: a delete takes a read lock.                             *)
LockOf_for_puts(r) == IF kind[r] = "put" THEN "Write" ELSE "Read"

LockOf(r)   == IF Writes(r) THEN "Write" ELSE "Read"
Locks(r)    == Writes(r) \/ (kind[r] \in {"get", "head"} /\ Strong)
Running(r)  == pc[r] \notin {"idle", "dropping", "done"}
HasGuard(r) == Locks(r) /\ Running(r) /\ pc[r] # "acquiring"

-----------------------------------------------------------------------------
Init ==
  /\ \E e \in Environments : faults = e[1] /\ kind \in [Requests -> e[2]]
  /\ pc = [r \in Requests |-> "idle"]
  /\ result = [r \in Requests |-> "none"]
  /\ got = [r \in Requests |-> [meta |-> NoObject, file |-> NoObject]]
  /\ log = <<>>
  /\ applied = {}
  /\ table = NoLock
  /\ stale = {}
  /\ meta = NoObject
  /\ file = NoObject
  /\ bucket \in BOOLEAN
  /\ cached = FALSE
  /\ stopped = FALSE
  /\ crashes = 0

At(r, k, place) == kind[r] = k /\ pc[r] = place
Goto(r, place)  == pc' = [pc EXCEPT ![r] = place]

(* The handler returns; a guard it has is dropped.                         *)
Return(r, res) ==
  /\ result' = [result EXCEPT ![r] = res]
  /\ Goto(r, IF HasGuard(r) THEN "dropping" ELSE "done")

Submit(r, type) == log' = Append(log, [type |-> type, req |-> r])

-----------------------------------------------------------------------------
(* The object's lock.                                                      *)

Free(r) == table = NoLock \/ (table.type = "Read" /\ LockOf(r) = "Read")

(* The lock_counter of a restarted process gives out the lock_id of a      *)
(* holder that the crashed one left in the table, and with it its lock.    *)
Reused == stale \cap table.holders

(* acquire_read_lock, acquire_write_lock: the local check is passed.       *)
AcquireLock(r) ==
  /\ pc[r] = "idle" /\ Locks(r) /\ ~stopped
  /\ Free(r) \/ Reused # {}
  /\ Submit(r, "acquire")
  /\ Goto(r, "acquiring")
  /\ UNCHANGED <<reqVars, result, applied, lockVars, objVars, bktVars, stopped, crashes>>

(* The lock is not acquired in time.                                       *)
AcquireFails(r) ==
  /\ pc[r] \in {"idle", "acquiring"} /\ Locks(r)
  /\ "lock_timeout" \in faults \/ stopped
  /\ Return(r, "error")
  /\ UNCHANGED <<reqVars, log, applied, lockVars, objVars, bktVars, stopped, crashes>>

(* Faulty variant: a dropped guard frees the table entry at once.          *)
ReleaseGuard_at_once(r) ==
  /\ pc[r] = "dropping"
  /\ Goto(r, "done")
  /\ table' = LET rest == table.holders \ {r}
              IN  IF rest = {} THEN NoLock ELSE [table EXCEPT !.holders = rest]
  /\ UNCHANGED <<reqVars, result, log, applied, stale, objVars, bktVars, stopped, crashes>>

(* The release task submits a ReleaseLock, ...                             *)
ReleaseGuard(r) ==
  /\ pc[r] = "dropping" /\ ~stopped
  /\ Goto(r, "done")
  /\ Submit(r, "release")
  /\ UNCHANGED <<reqVars, result, applied, lockVars, objVars, bktVars, stopped, crashes>>

(* ... or fails to.                                                        *)
ReleaseFails(r) ==
  /\ pc[r] = "dropping"
  /\ "write_error" \in faults \/ stopped
  /\ Goto(r, "done")
  /\ UNCHANGED <<reqVars, result, log, applied, lockVars, objVars, bktVars, stopped, crashes>>

-----------------------------------------------------------------------------
(* put_object.  validate_bucket_exists looks into the cache first ...      *)
BucketCached(r) ==
  /\ At(r, "put", "locked") /\ cached
  /\ Goto(r, "checked")
  /\ UNCHANGED <<reqVars, result, log, applied, lockVars, objVars, bktVars, stopped, crashes>>

(* ... and then into the metadata ...                                      *)
BucketRead(r) ==
  /\ At(r, "put", "locked") /\ ~cached
  /\ IF bucket THEN Goto(r, "found") /\ UNCHANGED result
               ELSE Return(r, "not_found")
  /\ UNCHANGED <<reqVars, log, applied, lockVars, objVars, bktVars, stopped, crashes>>

(* ... and remembers what it found there.                                  *)
BucketRemember(r) ==
  /\ At(r, "put", "found")
  /\ cached' = TRUE
  /\ Goto(r, "checked")
  /\ UNCHANGED <<reqVars, result, log, applied, lockVars, objVars, bucket, stopped, crashes>>

(* The body is written to a temp file, which is then committed.            *)
StorageCommit(r) ==
  /\ At(r, "put", "checked")
  /\ file' = r
  /\ Goto(r, "stored")
  /\ UNCHANGED <<reqVars, result, log, applied, lockVars, meta, bktVars, stopped, crashes>>

(* Faulty variant: the old file is lost when the commit fails.             *)
StorageFails_without_old(r) ==
  /\ At(r, "put", "checked")
  /\ "storage_error" \in faults
  /\ file' = NoObject
  /\ Return(r, "error")
  /\ UNCHANGED <<reqVars, log, applied, lockVars, meta, bktVars, stopped, crashes>>

StorageFails(r) ==
  /\ At(r, "put", "checked")
  /\ \/ "storage_error" \in faults /\ UNCHANGED file
     \/ "fsync_error" \in faults /\ file' = r
  /\ Return(r, "error")
  /\ UNCHANGED <<reqVars, log, applied, lockVars, meta, bktVars, stopped, crashes>>

put_object_metadata(r) ==
  /\ At(r, "put", "stored") /\ ~stopped
  /\ Submit(r, "change")
  /\ Goto(r, "writing")
  /\ UNCHANGED <<reqVars, result, applied, lockVars, objVars, bktVars, stopped, crashes>>

PutReturns(r) ==
  /\ At(r, "put", "written")
  /\ Return(r, "ok")
  /\ UNCHANGED <<reqVars, log, applied, lockVars, objVars, bktVars, stopped, crashes>>

-----------------------------------------------------------------------------
(* delete_object: an object without metadata is not there.                 *)
DeleteLooksUp(r) ==
  /\ At(r, "delete", "locked")
  /\ IF meta # NoObject THEN Goto(r, "checked") /\ UNCHANGED result
                        ELSE Return(r, "not_found")
  /\ UNCHANGED <<reqVars, log, applied, lockVars, objVars, bktVars, stopped, crashes>>

(* Faulty variant: the file goes before the metadata.                      *)
delete_object_metadata_last(r) ==
  /\ At(r, "delete", "checked") /\ ~stopped
  /\ file' = NoObject
  /\ Submit(r, "change")
  /\ Goto(r, "writing")
  /\ UNCHANGED <<reqVars, result, applied, lockVars, meta, bktVars, stopped, crashes>>

delete_object_metadata(r) ==
  /\ At(r, "delete", "checked") /\ ~stopped
  /\ Submit(r, "change")
  /\ Goto(r, "writing")
  /\ UNCHANGED <<reqVars, result, applied, lockVars, objVars, bktVars, stopped, crashes>>

Unlink(r) ==
  /\ At(r, "delete", "written")
  /\ file' = NoObject
  /\ Return(r, IF file = NoObject THEN "error" ELSE "ok")
  /\ UNCHANGED <<reqVars, log, applied, lockVars, meta, bktVars, stopped, crashes>>

UnlinkFails(r) ==
  /\ "unlink_error" \in faults
  /\ At(r, "delete", "written")
  /\ Return(r, "error")
  /\ UNCHANGED <<reqVars, log, applied, lockVars, objVars, bktVars, stopped, crashes>>

-----------------------------------------------------------------------------
(* get_object.  Only strong reads have the lock and go through             *)
(* ensure_linearizable, which a stopped Raft node refuses.                 *)
GetMetadata(r) ==
  /\ kind[r] = "get"
  /\ pc[r] = IF Strong THEN "locked" ELSE "idle"
  /\ Strong => ~stopped
  /\ got' = [got EXCEPT ![r].meta = meta]
  /\ IF meta # NoObject THEN Goto(r, "found") /\ UNCHANGED result
                        ELSE Return(r, "not_found")
  /\ UNCHANGED <<faults, kind, log, applied, lockVars, objVars, bktVars, stopped, crashes>>

(* The guard is dropped with the file open: what is streamed is the file   *)
(* that was opened.                                                        *)
GetFile(r) ==
  /\ At(r, "get", "found")
  /\ got' = [got EXCEPT ![r].file = file]
  /\ Return(r, IF file = NoObject THEN "error" ELSE "ok")
  /\ UNCHANGED <<faults, kind, log, applied, lockVars, objVars, bktVars, stopped, crashes>>

(* head_object: the lock and the metadata as in get_object, no file.       *)
head_object(r) ==
  /\ kind[r] = "head"
  /\ pc[r] = IF Strong THEN "locked" ELSE "idle"
  /\ Strong => ~stopped
  /\ got' = [got EXCEPT ![r].meta = meta]
  /\ Return(r, IF meta = NoObject THEN "not_found" ELSE "ok")
  /\ UNCHANGED <<faults, kind, log, applied, lockVars, objVars, bktVars, stopped, crashes>>

-----------------------------------------------------------------------------
CreateLooksUp(r) ==
  /\ At(r, "create_bucket", "idle")
  /\ IF bucket THEN Return(r, "exists") ELSE Goto(r, "checked") /\ UNCHANGED result
  /\ UNCHANGED <<reqVars, log, applied, lockVars, objVars, bktVars, stopped, crashes>>

DeleteBucketLooksUp(r) ==
  /\ At(r, "delete_bucket", "idle")
  /\ IF bucket THEN Goto(r, "found") /\ UNCHANGED result ELSE Return(r, "not_found")
  /\ UNCHANGED <<reqVars, log, applied, lockVars, objVars, bktVars, stopped, crashes>>

DeleteBucketLists(r) ==
  /\ At(r, "delete_bucket", "found")
  /\ IF meta = NoObject THEN Goto(r, "checked") /\ UNCHANGED result
                        ELSE Return(r, "not_empty")
  /\ UNCHANGED <<reqVars, log, applied, lockVars, objVars, bktVars, stopped, crashes>>

(* RaftNode::create_bucket and delete_bucket.                              *)
SubmitBucket(r) ==
  /\ kind[r] \in {"create_bucket", "delete_bucket"} /\ pc[r] = "checked"
  /\ ~stopped
  /\ Submit(r, "change")
  /\ Goto(r, "writing")
  /\ UNCHANGED <<reqVars, result, applied, lockVars, objVars, bktVars, stopped, crashes>>

(* The handler updates the cache of its own node.                          *)
BucketReturns(r) ==
  /\ kind[r] \in {"create_bucket", "delete_bucket"} /\ pc[r] = "written"
  /\ cached' = (kind[r] = "create_bucket")
  /\ Return(r, "ok")
  /\ UNCHANGED <<reqVars, log, applied, lockVars, objVars, bucket, stopped, crashes>>

(* bucket_cache_ttl_secs have passed since the entry was made.             *)
CacheExpires ==
  /\ cached
  /\ cached' = FALSE
  /\ UNCHANGED <<reqVars, pc, result, log, applied, lockVars, objVars, bucket, stopped, crashes>>

-----------------------------------------------------------------------------
(* The leader applies the next command.                                    *)

(* lock.rs acquire_lock, and the check of the table that follows it.       *)
ApplyAcquire ==
  LET r == Head(log).req
  IN  /\ log # <<>> /\ Head(log).type = "acquire" /\ ~stopped
      /\ \/ /\ Free(r)
            /\ table' = [type    |-> IF table = NoLock THEN LockOf(r) ELSE table.type,
                         holders |-> table.holders \cup {r}]
            /\ UNCHANGED stale
         \/ \E d \in Reused :
              /\ table' = [table EXCEPT !.holders = (@ \ {d}) \cup {r}]
              /\ stale' = stale \ {d}
         \/ ~Free(r) /\ UNCHANGED lockVars
      /\ log' = Tail(log)
      /\ pc' = IF pc[r] # "acquiring" THEN pc
               ELSE [pc EXCEPT ![r] = IF r \in table'.holders THEN "locked" ELSE "idle"]
      /\ UNCHANGED <<reqVars, result, applied, objVars, bktVars, stopped, crashes>>

(* lock.rs release_lock.                                                   *)
release_lock(h) ==
  table' = LET rest == table.holders \ {h}
           IN  IF rest = {} THEN NoLock ELSE [table EXCEPT !.holders = rest]

ApplyRelease ==
  /\ log # <<>> /\ Head(log).type = "release" /\ ~stopped
  /\ release_lock(Head(log).req)
  /\ log' = Tail(log)
  /\ UNCHANGED <<reqVars, pc, result, applied, stale, objVars, bktVars, stopped, crashes>>

(* client_write returns to a handler that still waits for it.              *)
Applied(r) ==
  /\ log' = Tail(log)
  /\ applied' = applied \cup {r}
  /\ pc' = IF pc[r] = "writing" THEN [pc EXCEPT ![r] = "written"] ELSE pc

(* state_machine.rs apply_command.  Creating a bucket that exists is an    *)
(* error of the state machine, and that is fatal to the Raft node.         *)
ApplyChange ==
  LET r == Head(log).req
  IN  /\ log # <<>> /\ Head(log).type = "change" /\ ~stopped
      /\ IF kind[r] = "create_bucket" /\ bucket
         THEN stopped' = TRUE /\ UNCHANGED <<log, applied, pc>>
         ELSE Applied(r) /\ UNCHANGED stopped
      /\ meta' = CASE kind[r] = "put"    -> r
                   [] kind[r] = "delete" -> NoObject
                   [] OTHER              -> meta
      /\ bucket' = CASE kind[r] = "create_bucket" -> TRUE
                     [] kind[r] = "delete_bucket" -> FALSE
                     [] OTHER                     -> bucket
      /\ UNCHANGED <<reqVars, result, lockVars, file, cached, crashes>>

-----------------------------------------------------------------------------
(* The log without its entry i.                                            *)
Without(i) == SubSeq(log, 1, i - 1) \o SubSeq(log, i + 1, Len(log))

(* RaftNode::write returns an error; its command may never commit.         *)
WriteFails(r) ==
  /\ pc[r] = "writing"
  /\ "write_error" \in faults \/ stopped
  /\ \/ UNCHANGED log
     \/ \E i \in 1..Len(log) : log[i] = [type |-> "change", req |-> r] /\ log' = Without(i)
  /\ Return(r, "error")
  /\ UNCHANGED <<reqVars, applied, lockVars, objVars, bktVars, stopped, crashes>>

(* Faulty variant: the handler waits for a Raft node that has stopped.     *)
SubmitRefused_never(r) == FALSE /\ UNCHANGED vars

(* The Raft node has stopped and answers every call with an error.         *)
SubmitRefused(r) ==
  /\ stopped
  /\ \/ At(r, "put", "stored") \/ At(r, "get", "locked") \/ At(r, "head", "locked")
     \/ kind[r] \in {"delete", "create_bucket", "delete_bucket"} /\ pc[r] = "checked"
  /\ Return(r, "error")
  /\ UNCHANGED <<reqVars, log, applied, lockVars, objVars, bktVars, stopped, crashes>>

(* The handler future is dropped.  A rename or an unlink that is under way *)
(* is done or not.                                                         *)
Cancel(r) ==
  /\ "cancel" \in faults
  /\ Running(r)
  /\ file' \in CASE At(r, "put", "checked")    -> {file, r}
                 [] At(r, "delete", "written") -> {file, NoObject}
                 [] OTHER                      -> {file}
  /\ Return(r, "error")
  /\ UNCHANGED <<reqVars, log, applied, lockVars, meta, bktVars, stopped, crashes>>

(* The process dies and starts again, with what is on disk and with the    *)
(* commands that got into the log.                                         *)
Crash ==
  /\ "crash" \in faults
  /\ crashes < MaxCrashes
  /\ crashes' = crashes + 1
  /\ pc' = [r \in Requests |-> IF pc[r] = "idle" THEN "idle" ELSE "done"]
  /\ \E i \in 0..Len(log) : log' = SubSeq(log, 1, i)
  /\ stale' = table.holders
  /\ cached' = FALSE
  /\ UNCHANGED <<reqVars, result, applied, table, objVars, bucket, stopped>>

Put(r) ==
  \/ BucketCached(r) \/ BucketRead(r) \/ BucketRemember(r)
  \/ StorageCommit(r) \/ put_object_metadata(r) \/ PutReturns(r)

Delete(r) == DeleteLooksUp(r) \/ delete_object_metadata(r) \/ Unlink(r)

Get(r) == GetMetadata(r) \/ GetFile(r) \/ head_object(r)

Bucket(r) ==
  \/ CreateLooksUp(r) \/ DeleteBucketLooksUp(r) \/ DeleteBucketLists(r)
  \/ SubmitBucket(r) \/ BucketReturns(r)

Apply == ApplyAcquire \/ ApplyRelease \/ ApplyChange

Next ==
  \/ \E r \in Requests :
       \/ AcquireLock(r) \/ AcquireFails(r)
       \/ ReleaseGuard(r) \/ ReleaseFails(r)
       \/ Put(r) \/ StorageFails(r)
       \/ Delete(r) \/ UnlinkFails(r)
       \/ Get(r) \/ Bucket(r)
       \/ WriteFails(r) \/ SubmitRefused(r) \/ Cancel(r)
  \/ Apply \/ CacheExpires \/ Crash

Spec == Init /\ [][Next]_vars

(* The runtime polls every handler and release task, errors of a stopped   *)
(* Raft node included, and a Raft node that runs applies its log.          *)
Handle(r) ==
  \/ AcquireLock(r) \/ Put(r) \/ Delete(r) \/ Get(r) \/ Bucket(r) \/ ReleaseGuard(r)
  \/ /\ stopped
     /\ AcquireFails(r) \/ WriteFails(r) \/ SubmitRefused(r) \/ ReleaseFails(r)

Fairness == WF_vars(Apply) /\ \A r \in Requests : WF_vars(Handle(r))

FairSpec == Spec /\ Fairness

-----------------------------------------------------------------------------
TypeOK ==
  /\ faults \subseteq FaultKinds
  /\ kind \in [Requests -> Kind]
  /\ pc \in [Requests -> PC]
  /\ result \in [Requests -> Result]
  /\ got \in [Requests -> [meta : Object, file : Object]]
  /\ log \in Seq(Command)
  /\ applied \subseteq Requests
  /\ table \in [type : {"none", "Read", "Write"}, holders : SUBSET Requests]
  /\ table.type = "none" <=> table.holders = {}
  /\ stale \subseteq Requests
  /\ meta \in Object /\ file \in Object
  /\ bucket \in BOOLEAN /\ cached \in BOOLEAN /\ stopped \in BOOLEAN
  /\ crashes \in 0..MaxCrashes

(* There is never metadata without a file: not between the steps of a put  *)
(* or a delete, and not after any of them fails, is cancelled or crashes.  *)
(* After a crash this needs that no get has left a read lock: several      *)
(* requests could take over several read holders and run together.         *)
NoPhantom ==
  crashes = 0 \/ (\A r \in Requests : Locks(r) => Writes(r)) =>
    (meta # NoObject => file # NoObject)

Quiet == \A r \in table.holders : ~Writes(r)

(* When no put or delete has the lock, the object's file is the one that   *)
(* its metadata, with its size and etag, was written for.                  *)
MetaMatchesFile == Quiet /\ meta # NoObject => file = meta

(* The failures that the handlers have no trouble with: the lock is not    *)
(* acquired, the old file stays in place, or an unlinked file does.        *)
Harmless == {"lock_timeout", "storage_error", "unlink_error"}

(* Such failures leave metadata and file together.                         *)
FailuresKeepMatch == faults \subseteq Harmless => MetaMatchesFile

(* And a strong get that finds metadata returns the file that belongs to   *)
(* it, whatever puts and deletes do between its two reads.                 *)
GetConsistent ==
  faults \subseteq Harmless /\ Strong =>
    \A r \in Requests :
      kind[r] = "get" /\ result[r] # "none" /\ got[r].meta # NoObject
        => result[r] = "ok" /\ got[r].file = got[r].meta

(* Every request gets an answer and gives its guard back, after the Raft   *)
(* node has stopped as well.                                               *)
RequestsEnd == faults = {} => \A r \in Requests : <>(pc[r] = "done")

-----------------------------------------------------------------------------
(* A put or a delete is over when its lock is out of the table; until then *)
(* a command of it that was not awaited to the end may take effect.        *)
Acquiring(r) ==
  pc[r] \in {"idle", "acquiring"} \/ \E i \in 1..Len(log) :
                                    log[i] = [type |-> "acquire", req |-> r]

(* A crash may leave a lock to a later request, so the register of the     *)
(* behaviours that have one is never used.                                 *)
NoCrash == "crash" \notin faults

Status(r) ==
  IF ~Writes(r) \/ ~NoCrash THEN "idle"
  ELSE IF r \in table.holders THEN IF r \in applied THEN "effective" ELSE "active"
  ELSE IF Acquiring(r) THEN "idle"
  ELSE IF result[r] = "ok" THEN "acked" ELSE "failed"

Register == INSTANCE ObjectRegister WITH
  Ops      <- Requests,
  Outcomes <- Object,
  value    <- IF NoCrash THEN meta ELSE NoObject,
  status   <- [r \in Requests |-> Status(r)],
  outcome  <- [r \in Requests |-> IF kind[r] = "put" THEN r ELSE NoObject]

(* The metadata is a register although handlers fail, time out and are     *)
(* cancelled while their commands stay in the log: the release of a lock   *)
(* comes after its owner's command, so no command takes effect while       *)
(* another put or delete has the lock.                                     *)
ImplementsRegister == Register!Spec
=============================================================================
