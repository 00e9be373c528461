------------------------- MODULE ObjectStoreProofs -------------------------
(***************************************************************************)
(* Proofs about ObjectStore: the lock keeps metadata and file together,    *)
(* and the metadata is a register, for every number of requests.           *)
(***************************************************************************)
EXTENDS ObjectStore, SequenceTheorems, TLAPS

-----------------------------------------------------------------------------
(* The log.                                                                *)

Logged == 1 .. Len(log)

Is(i, type, r) == log[i].type = type /\ log[i].req = r

(* No command comes or changes its place among the others.                 *)
Shrinks ==
  \E f \in [1 .. Len(log') -> Logged] :
    /\ \A i, j \in 1 .. Len(log') : i < j => f[i] < f[j]
    /\ \A i \in 1 .. Len(log') : log'[i] = log[f[i]]

(* A command of r is the last.                                             *)
Adds(r, type) ==
  /\ Len(log') = Len(log) + 1
  /\ \A i \in Logged : log'[i] = log[i]
  /\ log'[Len(log')].type = type /\ log'[Len(log')].req = r

(* The first command is gone.                                              *)
Advances ==
  /\ log # <<>>
  /\ Len(log) = Len(log') + 1
  /\ \A i \in 1 .. Len(log') : log'[i] = log[i + 1]
  /\ Head(log) = log[1] /\ 1 \in Logged

(* What Submit does to the log.                                            *)
LEMMA SubmitLog ==
  ASSUME log \in Seq(Command), NEW r \in Requests,
         NEW type \in {"acquire", "change", "release"}, Submit(r, type)
  PROVE  log' \in Seq(Command) /\ Adds(r, type)
<1>1. [type |-> type, req |-> r] \in Command
  BY DEF Command
<1> QED BY <1>1, AppendProperties DEF Submit, Adds, Logged

(* What applying a command does to the log.                                *)
LEMMA TailLog ==
  ASSUME log \in Seq(Command), log # <<>>, log' = Tail(log)
  PROVE  log' \in Seq(Command) /\ Advances /\ Head(log) \in Command
BY HeadTailProperties, LenProperties, EmptySeq DEF Advances, Logged

(* A log that stays.                                                       *)
LEMMA SameLog ==
  ASSUME log \in Seq(Command), UNCHANGED log
  PROVE  Shrinks
<1> DEFINE f == [i \in 1 .. Len(log') |-> i]
<1>1. f \in [1 .. Len(log') -> Logged]
  BY DEF Logged
<1> QED BY <1>1 DEF Shrinks, Logged

(* The first command is taken off.                                         *)
LEMMA TailShrinks ==
  ASSUME log \in Seq(Command), log' \in Seq(Command), Advances
  PROVE  Shrinks
<1> DEFINE f == [i \in 1 .. Len(log') |-> i + 1]
<1>0. Len(log) \in Nat /\ Len(log') \in Nat
  BY LenProperties
<1>1. f \in [1 .. Len(log') -> Logged]
  BY <1>0 DEF Logged, Advances
<1>2. \A i, j \in 1 .. Len(log') : i < j => f[i] < f[j]
  BY <1>0
<1>3. \A i \in 1 .. Len(log') : log'[i] = log[f[i]]
  BY DEF Advances
<1> QED BY <1>1, <1>2, <1>3 DEF Shrinks

(* A crash keeps a prefix.                                                 *)
LEMMA PrefixLog ==
  ASSUME log \in Seq(Command), NEW n \in 0 .. Len(log), log' = SubSeq(log, 1, n)
  PROVE  log' \in Seq(Command) /\ Shrinks
<1>0. Len(log) \in Nat /\ n \in Int
  BY LenProperties
<1>1. \A i \in 1 .. n : log[i] \in Command
  BY <1>0, ElementOfSeq
<1>2. /\ log' \in Seq(Command)
      /\ Len(log') = n
      /\ \A i \in 1 .. n : log'[i] = log[i]
  BY <1>0, <1>1, SubSeqProperties
<1> DEFINE f == [i \in 1 .. Len(log') |-> i]
<1>3. f \in [1 .. Len(log') -> Logged]
  BY <1>0, <1>2 DEF Logged
<1> QED BY <1>0, <1>2, <1>3 DEF Shrinks

(* A write that fails may leave out its command.                           *)
LEMMA WithoutLog ==
  ASSUME log \in Seq(Command), NEW n \in 1 .. Len(log), log' = Without(n)
  PROVE  /\ log' \in Seq(Command) /\ Shrinks
         /\ \A k \in Logged : k = n \/ \E i \in Logged' : log'[i] = log[k]
<1> DEFINE a == SubSeq(log, 1, n - 1)
           b == SubSeq(log, n + 1, Len(log))
<1>0. Len(log) \in Nat /\ n \in Nat
  BY LenProperties
<1>1. /\ a \in Seq(Command) /\ Len(a) = n - 1
      /\ \A i \in 1 .. n - 1 : a[i] = log[i]
  <2>1. \A i \in 1 .. n - 1 : log[i] \in Command
    BY <1>0, ElementOfSeq
  <2> QED BY <1>0, <2>1, SubSeqProperties
<1>2. /\ b \in Seq(Command) /\ Len(b) = Len(log) - n
      /\ \A i \in 1 .. Len(log) - n : b[i] = log[n + i]
  <2>1. \A i \in n + 1 .. Len(log) : log[i] \in Command
    BY <1>0, ElementOfSeq
  <2> QED BY <1>0, <2>1, SubSeqProperties
<1> HIDE DEF a, b
<1>3. log' = a \o b
  BY DEF Without, a, b
<1>4. /\ log' \in Seq(Command) /\ Len(log') = Len(log) - 1
      /\ \A i \in 1 .. Len(log') :
            log'[i] = IF i <= n - 1 THEN a[i] ELSE b[i - (n - 1)]
  <2>1. /\ a \o b \in Seq(Command) /\ Len(a \o b) = Len(a) + Len(b)
        /\ \A i \in 1 .. Len(a) + Len(b) :
              (a \o b)[i] = IF i <= Len(a) THEN a[i] ELSE b[i - Len(a)]
    BY <1>1, <1>2, ConcatProperties
  <2>2. Len(a) + Len(b) = Len(log) - 1
    BY <1>0, <1>1, <1>2
  <2> QED BY <1>1, <1>3, <2>1, <2>2
<1> DEFINE f == [i \in 1 .. Len(log') |-> IF i <= n - 1 THEN i ELSE i + 1]
<1>5. f \in [1 .. Len(log') -> Logged]
  BY <1>0, <1>4 DEF Logged
<1>6. \A i, j \in 1 .. Len(log') : i < j => f[i] < f[j]
  BY <1>0, <1>4
<1>7. \A i \in 1 .. Len(log') : log'[i] = log[f[i]]
  <2> SUFFICES ASSUME NEW i \in 1 .. Len(log') PROVE log'[i] = log[f[i]]
    OBVIOUS
  <2>1. CASE i <= n - 1
    <3>1. log'[i] = a[i] /\ i \in 1 .. n - 1 /\ f[i] = i
      BY <1>0, <1>4, <2>1
    <3> QED BY <1>1, <3>1
  <2>2. CASE ~(i <= n - 1)
    <3>1. log'[i] = b[i - (n - 1)] /\ f[i] = i + 1
      BY <1>0, <1>4, <2>2
    <3>2. i - (n - 1) \in 1 .. Len(log) - n /\ n + (i - (n - 1)) = i + 1
      BY <1>0, <1>4, <2>2
    <3> QED BY <1>2, <3>1, <3>2
  <2> QED BY <2>1, <2>2
<1>8. ASSUME NEW k \in Logged, k # n PROVE \E i \in Logged' : log'[i] = log[k]
  <2>1. CASE k < n
    <3>1. k \in Logged' /\ f[k] = k
      BY <1>0, <1>4, <2>1 DEF Logged
    <3> QED BY <1>7, <3>1 DEF Logged
  <2>2. CASE k > n
    <3>1. k - 1 \in Logged' /\ f[k - 1] = k
      BY <1>0, <1>4, <2>2 DEF Logged
    <3> QED BY <1>7, <3>1 DEF Logged
  <2> QED BY <1>0, <1>8, <2>1, <2>2 DEF Logged
<1> QED BY <1>4, <1>5, <1>6, <1>7, <1>8 DEF Shrinks

-----------------------------------------------------------------------------
(* Steps, by what they do to the handlers, the log and the lock.           *)

Still == UNCHANGED <<faults, kind>>

(* A handler goes on or returns.                                           *)
Goes(r, p) ==
  /\ pc[r] \notin {"dropping", "done"}
  /\ p \in PC \ {"idle", "acquiring", "writing", "written"}
  /\ HasGuard(r) => p # "done"
  /\ ~HasGuard(r) => p = "done" \/ (~Locks(r) /\ p # "dropping")
  /\ pc[r] = "writing" => p \in {"dropping", "done"}
  /\ pc' = [pc EXCEPT ![r] = p]
  /\ Shrinks
  /\ Still /\ UNCHANGED <<applied, lockVars, meta, bucket, stopped, crashes>>

(* A handler submits the command that changes the metadata.                *)
Changes(r) ==
  /\ pc[r] \notin {"idle", "acquiring", "writing", "written", "dropping", "done"}
  /\ pc' = [pc EXCEPT ![r] = "writing"]
  /\ Adds(r, "change")
  /\ Still
  /\ UNCHANGED <<result, got, applied, lockVars, objVars, bktVars, stopped, crashes>>

(* The handlers' own steps.                                                *)
Proceeds(r) ==
  \/ AcquireFails(r)
  \/ BucketCached(r) \/ BucketRead(r) \/ BucketRemember(r)
  \/ StorageCommit(r) \/ StorageFails(r) \/ PutReturns(r)
  \/ DeleteLooksUp(r) \/ Unlink(r) \/ UnlinkFails(r)
  \/ GetMetadata(r) \/ GetFile(r) \/ head_object(r)
  \/ CreateLooksUp(r) \/ DeleteBucketLooksUp(r) \/ DeleteBucketLists(r)
  \/ BucketReturns(r)
  \/ WriteFails(r) \/ SubmitRefused(r) \/ Cancel(r)

Submits(r) == put_object_metadata(r) \/ delete_object_metadata(r) \/ SubmitBucket(r)

(* The steps that Next has, by these kinds.                                *)
LEMMA NextKinds ==
  ASSUME Next
  PROVE  \/ \E r \in Requests :
              \/ Proceeds(r) \/ Submits(r)
              \/ AcquireLock(r) \/ ReleaseGuard(r) \/ ReleaseFails(r)
         \/ ApplyAcquire \/ ApplyRelease \/ ApplyChange
         \/ CacheExpires \/ Crash
BY DEF Next, Put, Delete, Get, Bucket, Apply, Proceeds, Submits

(* A submitted command is one more in the log.                             *)
LEMMA SubmitsChange ==
  ASSUME TypeOK, NEW r \in Requests, Submits(r)
  PROVE  Changes(r) /\ log' \in Seq(Command)
<1>1. Submit(r, "change")
  BY DEF Submits, put_object_metadata, delete_object_metadata, SubmitBucket
<1>2. Adds(r, "change") /\ log' \in Seq(Command)
  BY <1>1, SubmitLog DEF TypeOK
<1>3. pc' = [pc EXCEPT ![r] = "writing"] /\ pc[r] \in {"stored", "checked"}
  BY DEF Submits, put_object_metadata, delete_object_metadata, SubmitBucket, Goto, At
<1>4. /\ Still
      /\ UNCHANGED <<result, got, applied, lockVars, objVars, bktVars, stopped, crashes>>
  BY DEF Submits, put_object_metadata, delete_object_metadata, SubmitBucket,
         reqVars, Still
<1> QED BY <1>2, <1>3, <1>4 DEF Changes

(* A handler's step takes no command into the log.                         *)
LEMMA ProceedsLog ==
  ASSUME TypeOK, NEW r \in Requests, Proceeds(r)
  PROVE  log' \in Seq(Command) /\ Shrinks
<1>1. CASE WriteFails(r)
  <2>1. CASE UNCHANGED log
    BY <2>1, SameLog DEF TypeOK
  <2>2. CASE \E i \in 1 .. Len(log) : log' = Without(i)
    BY <2>2, WithoutLog DEF TypeOK
  <2> QED BY <1>1, <2>1, <2>2 DEF WriteFails
<1>2. CASE ~WriteFails(r)
  <2>1. UNCHANGED log
    BY <1>2 DEF Proceeds, AcquireFails, BucketCached, BucketRead, BucketRemember,
      StorageCommit, StorageFails, PutReturns, DeleteLooksUp, Unlink, UnlinkFails,
      GetMetadata, GetFile, head_object, CreateLooksUp, DeleteBucketLooksUp,
      DeleteBucketLists, BucketReturns, SubmitRefused, Cancel
  <2> QED BY <2>1, SameLog DEF TypeOK
<1> QED BY <1>1, <1>2

(* A handler's step moves the handler only.                                *)
LEMMA ProceedsGoes ==
  ASSUME TypeOK, NEW r \in Requests, Proceeds(r)
  PROVE  \E p \in PC : Goes(r, p)
<1> DEFINE Law(p) ==
      /\ pc[r] \notin {"dropping", "done"}
      /\ p \in PC \ {"idle", "acquiring", "writing", "written"}
      /\ HasGuard(r) => p # "done"
      /\ ~HasGuard(r) => p = "done" \/ (~Locks(r) /\ p # "dropping")
      /\ pc[r] = "writing" => p \in {"dropping", "done"}
      /\ pc' = [pc EXCEPT ![r] = p]
<1>1. Still /\ UNCHANGED <<applied, lockVars, meta, bucket, stopped, crashes>>
  BY DEF Proceeds, AcquireFails, BucketCached, BucketRead, BucketRemember,
      StorageCommit, StorageFails, PutReturns, DeleteLooksUp, Unlink, UnlinkFails,
      GetMetadata, GetFile, head_object, CreateLooksUp, DeleteBucketLooksUp,
      DeleteBucketLists, BucketReturns, WriteFails, SubmitRefused, Cancel,
      Still, reqVars, objVars, bktVars, lockVars
<1>2. ASSUME NEW res, Return(r, res), pc[r] \notin {"dropping", "done"}
      PROVE  \E p \in PC : Law(p)
  <2> DEFINE p == IF HasGuard(r) THEN "dropping" ELSE "done"
  <2>1. pc' = [pc EXCEPT ![r] = p]
    BY <1>2 DEF Return, Goto
  <2>2. p \in PC /\ Law(p)
    BY <1>2, <2>1 DEF PC
  <2> QED BY <2>2
<1>3. ASSUME NEW p \in {"found", "checked", "stored"}, Goto(r, p),
             pc[r] \notin {"acquiring", "writing", "dropping", "done"},
             pc[r] = "idle" => ~Locks(r)
      PROVE  \E q \in PC : Law(q)
  <2>1. HasGuard(r) \/ ~Locks(r)
    BY <1>3 DEF HasGuard, Running
  <2>2. p \in PC /\ Law(p)
    BY <1>3, <2>1 DEF PC, Goto
  <2> QED BY <2>2
<1>4. \E p \in PC : Law(p)
  <2> HIDE DEF Law
  <2>1. CASE AcquireFails(r)
    BY <2>1, <1>2 DEF AcquireFails
  <2>2. CASE BucketCached(r) \/ BucketRemember(r)
    BY <2>2, <1>3 DEF BucketCached, BucketRemember, At
  <2>3. CASE BucketRead(r)
    BY <2>3, <1>2, <1>3 DEF BucketRead, At
  <2>4. CASE StorageCommit(r)
    BY <2>4, <1>3 DEF StorageCommit, At
  <2>5. CASE StorageFails(r) \/ PutReturns(r) \/ UnlinkFails(r) \/ BucketReturns(r)
    BY <2>5, <1>2 DEF StorageFails, PutReturns, UnlinkFails, BucketReturns, At
  <2>6. CASE DeleteLooksUp(r)
    BY <2>6, <1>2, <1>3 DEF DeleteLooksUp, At
  <2>7. CASE Unlink(r)
    BY <2>7, <1>2 DEF Unlink, At
  <2>8. CASE GetMetadata(r)
    BY <2>8, <1>2, <1>3 DEF GetMetadata, Locks, Writes
  <2>9. CASE GetFile(r)
    BY <2>9, <1>2 DEF GetFile, At
  <2>10. CASE head_object(r)
    BY <2>10, <1>2 DEF head_object
  <2>11. CASE CreateLooksUp(r) \/ DeleteBucketLooksUp(r)
    BY <2>11, <1>2, <1>3 DEF CreateLooksUp, DeleteBucketLooksUp, At, Locks, Writes
  <2>12. CASE DeleteBucketLists(r)
    BY <2>12, <1>2, <1>3 DEF DeleteBucketLists, At
  <2>13. CASE WriteFails(r)
    BY <2>13, <1>2 DEF WriteFails
  <2>14. CASE SubmitRefused(r)
    BY <2>14, <1>2 DEF SubmitRefused, At
  <2>15. CASE Cancel(r)
    BY <2>15, <1>2 DEF Cancel, Running
  <2> QED
    BY <2>1, <2>2, <2>3, <2>4, <2>5, <2>6, <2>7, <2>8, <2>9, <2>10, <2>11, <2>12,
       <2>13, <2>14, <2>15 DEF Proceeds
<1> QED BY <1>1, <1>4, ProceedsLog DEF Goes
-----------------------------------------------------------------------------
(* Types.                                                                  *)

(* Every step keeps the types.                                             *)
LEMMA TypeStep ==
  ASSUME TypeOK, [Next]_vars
  PROVE  TypeOK'
<1>1. CASE UNCHANGED vars
  BY <1>1 DEF TypeOK, vars
<1>2. ASSUME NEW r \in Requests, Proceeds(r) PROVE TypeOK'
  <2>1. PICK p \in PC : Goes(r, p)
    BY <1>2, ProceedsGoes
  <2>2. log' \in Seq(Command)
    BY <1>2, ProceedsLog
  <2>3. file' \in Object
    BY <1>2 DEF Proceeds, AcquireFails, BucketCached, BucketRead, BucketRemember,
      StorageCommit, StorageFails, PutReturns, DeleteLooksUp, Unlink, UnlinkFails,
      GetMetadata, GetFile, head_object, CreateLooksUp, DeleteBucketLooksUp,
      DeleteBucketLists, BucketReturns, WriteFails, SubmitRefused, Cancel,
      objVars, TypeOK, Object
  <2>4. cached' \in BOOLEAN
    BY <1>2 DEF Proceeds, AcquireFails, BucketCached, BucketRead, BucketRemember,
      StorageCommit, StorageFails, PutReturns, DeleteLooksUp, Unlink, UnlinkFails,
      GetMetadata, GetFile, head_object, CreateLooksUp, DeleteBucketLooksUp,
      DeleteBucketLists, BucketReturns, WriteFails, SubmitRefused, Cancel,
      bktVars, TypeOK
  <2>5. got' \in [Requests -> [meta : Object, file : Object]]
    BY <1>2 DEF Proceeds, AcquireFails, BucketCached, BucketRead, BucketRemember,
      StorageCommit, StorageFails, PutReturns, DeleteLooksUp, Unlink, UnlinkFails,
      GetMetadata, GetFile, head_object, CreateLooksUp, DeleteBucketLooksUp,
      DeleteBucketLists, BucketReturns, WriteFails, SubmitRefused, Cancel,
      reqVars, TypeOK
  <2>6. result' \in [Requests -> Result]
    <3>1. ASSUME NEW res \in Result, Return(r, res)
          PROVE  result' \in [Requests -> Result]
      BY <3>1 DEF Return, TypeOK
    <3>2. ASSUME UNCHANGED result PROVE result' \in [Requests -> Result]
      BY <3>2 DEF TypeOK
    <3>3. {"ok", "error", "not_found", "exists", "not_empty"} \subseteq Result
      BY DEF Result
    <3> QED
      BY <1>2, <3>1, <3>2, <3>3 DEF Proceeds, AcquireFails, BucketCached, BucketRead,
        BucketRemember, StorageCommit, StorageFails, PutReturns, DeleteLooksUp, Unlink,
        UnlinkFails, GetMetadata, GetFile, head_object, CreateLooksUp,
        DeleteBucketLooksUp, DeleteBucketLists, BucketReturns, WriteFails,
        SubmitRefused, Cancel
  <2> QED BY <2>1, <2>2, <2>3, <2>4, <2>5, <2>6 DEF TypeOK, Goes, Still, lockVars
<1>3. ASSUME NEW r \in Requests, Submits(r) PROVE TypeOK'
  BY <1>3, SubmitsChange DEF TypeOK, Changes, Still, lockVars, objVars, bktVars, PC
<1>4. ASSUME NEW r \in Requests, AcquireLock(r) \/ ReleaseGuard(r) PROVE TypeOK'
  <2>1. log' \in Seq(Command)
    BY <1>4, SubmitLog DEF AcquireLock, ReleaseGuard, TypeOK
  <2> QED
    BY <1>4, <2>1 DEF TypeOK, AcquireLock, ReleaseGuard, Goto, PC, reqVars, lockVars,
      objVars, bktVars
<1>5. ASSUME NEW r \in Requests, ReleaseFails(r) PROVE TypeOK'
  BY <1>5 DEF TypeOK, ReleaseFails, Goto, PC, reqVars, lockVars, objVars, bktVars
<1>6. CASE ApplyAcquire
  <2>1. log' \in Seq(Command) /\ Head(log) \in Command
    BY <1>6, TailLog DEF ApplyAcquire, TypeOK
  <2> DEFINE r == Head(log).req
  <2>2. r \in Requests
    BY <2>1 DEF Command
  <2> HIDE DEF r
  <2>3. pc' \in [Requests -> PC]
    BY <1>6, <2>2 DEF ApplyAcquire, TypeOK, PC, r
  <2>4. /\ table' \in [type : {"none", "Read", "Write"}, holders : SUBSET Requests]
        /\ table'.type = "none" <=> table'.holders = {}
        /\ stale' \subseteq Requests
    <3>1. CASE /\ Free(r)
               /\ table' = [type    |-> IF table = NoLock THEN LockOf(r) ELSE table.type,
                            holders |-> table.holders \cup {r}]
               /\ UNCHANGED stale
      BY <2>2, <3>1 DEF TypeOK, Free, LockOf, NoLock
    <3>2. CASE \E d \in Reused :
                 /\ table' = [table EXCEPT !.holders = (@ \ {d}) \cup {r}]
                 /\ stale' = stale \ {d}
      BY <2>2, <3>2 DEF TypeOK, Reused
    <3>3. CASE UNCHANGED lockVars
      BY <3>3 DEF TypeOK, lockVars
    <3> QED BY <1>6, <3>1, <3>2, <3>3 DEF ApplyAcquire, r
  <2> QED
    BY <1>6, <2>1, <2>3, <2>4 DEF ApplyAcquire, TypeOK, reqVars, objVars, bktVars
<1>7. CASE ApplyRelease
  <2>1. log' \in Seq(Command)
    BY <1>7, TailLog DEF ApplyRelease, TypeOK
  <2>2. /\ table' \in [type : {"none", "Read", "Write"}, holders : SUBSET Requests]
        /\ table'.type = "none" <=> table'.holders = {}
    BY <1>7 DEF ApplyRelease, release_lock, TypeOK, NoLock
  <2> QED
    BY <1>7, <2>1, <2>2 DEF ApplyRelease, TypeOK, reqVars, objVars, bktVars
<1>8. CASE ApplyChange
  <2>1. Head(log).req \in Requests
    <3>1. log # <<>>
      BY <1>8 DEF ApplyChange
    <3>2. Head(log) \in Command
      BY <3>1, HeadTailProperties DEF TypeOK
    <3> QED BY <3>2 DEF Command
  <2>2. log' \in Seq(Command)
    BY <1>8, TailLog DEF ApplyChange, Applied, TypeOK
  <2>3. pc' \in [Requests -> PC] /\ applied' \subseteq Requests /\ stopped' \in BOOLEAN
    BY <1>8, <2>1 DEF ApplyChange, Applied, TypeOK, PC
  <2>4. meta' \in Object /\ bucket' \in BOOLEAN
    BY <1>8, <2>1 DEF ApplyChange, TypeOK, Object
  <2> QED
    BY <1>8, <2>2, <2>3, <2>4 DEF ApplyChange, TypeOK, reqVars, lockVars
<1>9. CASE CacheExpires
  BY <1>9 DEF CacheExpires, TypeOK, reqVars, lockVars, objVars
<1>10. CASE Crash
  <2>1. log' \in Seq(Command)
    BY <1>10, PrefixLog DEF Crash, TypeOK
  <2>2. crashes' \in 0 .. MaxCrashes
    BY <1>10, BoundsAssumption DEF Crash, TypeOK
  <2> QED BY <1>10, <2>1, <2>2 DEF Crash, TypeOK, PC, reqVars, objVars
<1> QED
  BY <1>1, <1>2, <1>3, <1>4, <1>5, <1>6, <1>7, <1>8, <1>9, <1>10, NextKinds
-----------------------------------------------------------------------------
(* The handlers, their commands and the lock.                              *)

(* A request that has not begun has no command in the log and no lock, and *)
(* the acquire of one that waits is its only command.                      *)
Waiting ==
  \A r \in Requests : pc[r] \in {"idle", "acquiring"} =>
    /\ r \notin table.holders /\ r \notin stale
    /\ \A i \in Logged : log[i].req = r => pc[r] = "acquiring" /\ log[i].type = "acquire"

AcquiresInLog ==
  \A r \in Requests, i \in Logged : Is(i, "acquire", r) =>
    /\ Locks(r) /\ pc[r] \in {"acquiring", "done"}
    /\ r \notin table.holders /\ r \notin stale
    /\ \A j \in Logged : log[j].req = r => j = i

ChangesInLog ==
  \A r \in Requests, i \in Logged : Is(i, "change", r) =>
    /\ pc[r] \in {"writing", "dropping", "done"}
    /\ \A j \in Logged : Is(j, "change", r) => j = i

ReleasesInLog == \A r \in Requests, i \in Logged : Is(i, "release", r) => pc[r] = "done"

(* A guard stands for a holder in the table until its release is applied.  *)
GuardsHold ==
  \A r \in Requests : HasGuard(r) \/ pc[r] = "dropping" =>
    /\ r \in table.holders /\ r \notin stale
    /\ \A i \in Logged : ~Is(i, "release", r)

HoldersLock == \A r \in table.holders : Locks(r)

NothingStale == crashes = 0 => stale = {}

LockInv ==
  /\ TypeOK /\ Waiting /\ AcquiresInLog /\ ChangesInLog /\ ReleasesInLog
  /\ GuardsHold /\ HoldersLock /\ NothingStale

(* Goes for these conjuncts.                                               *)
LEMMA GoesLock ==
  ASSUME LockInv, TypeOK', NEW r \in Requests, NEW p \in PC, Goes(r, p)
  PROVE  LockInv'
<1> USE DEF LockInv
<1>0. Len(log) \in Nat /\ Len(log') \in Nat
  BY LenProperties DEF TypeOK
<1>1. PICK f \in [1 .. Len(log') -> Logged] :
         /\ \A i, j \in 1 .. Len(log') : i < j => f[i] < f[j]
         /\ \A i \in 1 .. Len(log') : log'[i] = log[f[i]]
  BY DEF Goes, Shrinks
<1>2. \A i, j \in 1 .. Len(log') : f[i] = f[j] => i = j
  BY <1>0, <1>1 DEF Logged
<1>3. /\ \A q \in Requests : pc'[q] = IF q = r THEN p ELSE pc[q]
      /\ \A q \in Requests : Locks(q)' <=> Locks(q)
      /\ UNCHANGED <<table, stale, crashes>>
  BY DEF Goes, Still, TypeOK, lockVars, Locks, Writes
<1>4. Waiting'
  BY <1>1, <1>3 DEF Waiting, Goes, Logged
<1>5. AcquiresInLog'
  <2> SUFFICES ASSUME NEW q \in Requests, NEW i \in Logged', Is(i, "acquire", q)'
               PROVE  /\ Locks(q)' /\ pc'[q] \in {"acquiring", "done"}
                      /\ q \notin table'.holders /\ q \notin stale'
                      /\ \A j \in Logged' : log'[j].req = q => j = i
    BY DEF AcquiresInLog
  <2>1. f[i] \in Logged /\ Is(f[i], "acquire", q)
    BY <1>1 DEF Is, Logged
  <2>2. /\ Locks(q) /\ pc[q] \in {"acquiring", "done"}
        /\ q \notin table.holders /\ q \notin stale
        /\ \A j \in Logged : log[j].req = q => j = f[i]
    BY <2>1 DEF AcquiresInLog
  <2>3. \A j \in Logged' : log'[j].req = q => j = i
    BY <1>1, <1>2, <2>2 DEF Logged
  <2>4. q = r => p = "done"
    BY <2>2 DEF Goes, HasGuard
  <2> QED BY <1>3, <2>2, <2>3, <2>4
<1>6. ChangesInLog'
  <2> SUFFICES ASSUME NEW q \in Requests, NEW i \in Logged', Is(i, "change", q)'
               PROVE  /\ pc'[q] \in {"writing", "dropping", "done"}
                      /\ \A j \in Logged' : Is(j, "change", q)' => j = i
    BY DEF ChangesInLog
  <2>1. f[i] \in Logged /\ Is(f[i], "change", q)
    BY <1>1 DEF Is, Logged
  <2>2. /\ pc[q] \in {"writing", "dropping", "done"}
        /\ \A j \in Logged : Is(j, "change", q) => j = f[i]
    BY <2>1 DEF ChangesInLog
  <2>3. \A j \in Logged' : Is(j, "change", q)' => j = i
    BY <1>1, <1>2, <2>2 DEF Logged, Is
  <2>4. q = r => p \in {"dropping", "done"}
    BY <2>2 DEF Goes
  <2> QED BY <1>3, <2>2, <2>3, <2>4
<1>7. ReleasesInLog'
  BY <1>1, <1>3 DEF ReleasesInLog, Is, Goes, Logged
<1>8. GuardsHold'
  <2> SUFFICES ASSUME NEW q \in Requests, HasGuard(q)' \/ pc'[q] = "dropping"
               PROVE  /\ q \in table'.holders /\ q \notin stale'
                      /\ \A i \in Logged' : ~Is(i, "release", q)'
    BY DEF GuardsHold
  <2>1. HasGuard(q) \/ pc[q] = "dropping"
    BY <1>3 DEF Goes, HasGuard, Running
  <2> QED BY <1>1, <1>3, <2>1 DEF GuardsHold, Is, Logged
<1>9. HoldersLock' /\ NothingStale'
  BY <1>3 DEF HoldersLock, NothingStale, TypeOK
<1> QED BY <1>4, <1>5, <1>6, <1>7, <1>8, <1>9

(* Adding a command of a request that had none of that kind.               *)
LEMMA ChangesLock ==
  ASSUME LockInv, TypeOK', NEW r \in Requests, Changes(r)
  PROVE  LockInv'
<1> USE DEF LockInv
<1>0. Len(log) \in Nat /\ Len(log') \in Nat
  BY LenProperties DEF TypeOK
<1>1. /\ Len(log') = Len(log) + 1
      /\ \A i \in Logged : log'[i] = log[i]
      /\ log'[Len(log')].type = "change" /\ log'[Len(log')].req = r
      /\ \A i \in Logged' : i \in Logged \/ i = Len(log')
  BY <1>0 DEF Changes, Adds, Logged
<1>2. /\ \A q \in Requests : pc'[q] = IF q = r THEN "writing" ELSE pc[q]
      /\ \A q \in Requests : Locks(q)' <=> Locks(q)
      /\ UNCHANGED <<table, stale, crashes>>
  BY DEF Changes, Still, TypeOK, lockVars, Locks, Writes
<1>3. pc[r] \notin {"idle", "acquiring", "writing", "dropping", "done"}
  BY DEF Changes
<1>4. Waiting'
  BY <1>1, <1>2, <1>3 DEF Waiting
<1>5. AcquiresInLog'
  BY <1>1, <1>2, <1>3 DEF AcquiresInLog, Is
<1>6. ChangesInLog'
  BY <1>1, <1>2, <1>3 DEF ChangesInLog, Is
<1>7. ReleasesInLog'
  BY <1>1, <1>2, <1>3 DEF ReleasesInLog, Is
<1>8. GuardsHold'
  BY <1>1, <1>2, <1>3 DEF GuardsHold, Is, HasGuard, Running
<1>9. HoldersLock' /\ NothingStale'
  BY <1>2 DEF HoldersLock, NothingStale, TypeOK
<1> QED BY <1>4, <1>5, <1>6, <1>7, <1>8, <1>9

(* The acquire of a request that begins, and the release of one that ends. *)
LEMMA CallsLock ==
  ASSUME LockInv, TypeOK', NEW r \in Requests,
         AcquireLock(r) \/ ReleaseGuard(r) \/ ReleaseFails(r)
  PROVE  LockInv'
<1> USE DEF LockInv
<1>0. Len(log) \in Nat /\ Len(log') \in Nat
  BY LenProperties DEF TypeOK
<1>2. /\ \A q \in Requests : Locks(q)' <=> Locks(q)
      /\ UNCHANGED <<table, stale, crashes>>
  BY DEF AcquireLock, ReleaseGuard, ReleaseFails, reqVars, TypeOK, lockVars, Locks, Writes
<1>3. HoldersLock' /\ NothingStale'
  BY <1>2 DEF HoldersLock, NothingStale, TypeOK
<1>4. CASE AcquireLock(r)
  <2>1. Adds(r, "acquire")
    BY <1>4, SubmitLog DEF AcquireLock, TypeOK
  <2>2. /\ Len(log') = Len(log) + 1
        /\ \A i \in Logged : log'[i] = log[i]
        /\ log'[Len(log')].type = "acquire" /\ log'[Len(log')].req = r
        /\ \A i \in Logged' : i \in Logged \/ i = Len(log')
    BY <1>0, <2>1 DEF Adds, Logged
  <2>3. /\ \A q \in Requests : pc'[q] = IF q = r THEN "acquiring" ELSE pc[q]
        /\ pc[r] = "idle" /\ Locks(r)
    BY <1>4 DEF AcquireLock, Goto, TypeOK
  <2>4. Waiting' /\ AcquiresInLog'
    BY <1>2, <2>2, <2>3 DEF Waiting, AcquiresInLog, Is
  <2>5. ChangesInLog' /\ ReleasesInLog'
    BY <1>2, <2>2, <2>3 DEF ChangesInLog, ReleasesInLog, Is
  <2>6. GuardsHold'
    BY <1>2, <2>2, <2>3 DEF GuardsHold, Is, HasGuard, Running
  <2> QED BY <1>3, <2>4, <2>5, <2>6
<1>5. CASE ReleaseGuard(r)
  <2>1. Adds(r, "release")
    BY <1>5, SubmitLog DEF ReleaseGuard, TypeOK
  <2>2. /\ Len(log') = Len(log) + 1
        /\ \A i \in Logged : log'[i] = log[i]
        /\ log'[Len(log')].type = "release" /\ log'[Len(log')].req = r
        /\ \A i \in Logged' : i \in Logged \/ i = Len(log')
    BY <1>0, <2>1 DEF Adds, Logged
  <2>3. /\ \A q \in Requests : pc'[q] = IF q = r THEN "done" ELSE pc[q]
        /\ pc[r] = "dropping"
    BY <1>5 DEF ReleaseGuard, Goto, TypeOK
  <2>4. Waiting' /\ AcquiresInLog'
    BY <1>2, <2>2, <2>3 DEF Waiting, AcquiresInLog, Is
  <2>5. ChangesInLog' /\ ReleasesInLog'
    BY <1>2, <2>2, <2>3 DEF ChangesInLog, ReleasesInLog, Is
  <2>6. GuardsHold'
    BY <1>2, <2>2, <2>3 DEF GuardsHold, Is, HasGuard, Running
  <2> QED BY <1>3, <2>4, <2>5, <2>6
<1>6. CASE ReleaseFails(r)
  <2>3. /\ \A q \in Requests : pc'[q] = IF q = r THEN "done" ELSE pc[q]
        /\ pc[r] = "dropping" /\ UNCHANGED log
    BY <1>6 DEF ReleaseFails, Goto, TypeOK
  <2>4. Waiting' /\ AcquiresInLog'
    BY <1>2, <2>3 DEF Waiting, AcquiresInLog, Is, Logged
  <2>5. ChangesInLog' /\ ReleasesInLog'
    BY <1>2, <2>3 DEF ChangesInLog, ReleasesInLog, Is, Logged
  <2>6. GuardsHold'
    BY <1>2, <2>3 DEF GuardsHold, Is, HasGuard, Running, Logged
  <2> QED BY <1>3, <2>4, <2>5, <2>6
<1> QED BY <1>4, <1>5, <1>6
(* An acquire at the head of the log is applied: r may get a lock that is  *)
(* free or that a crashed process left.                                    *)
Granted(r) ==
  /\ Advances /\ Is(1, "acquire", r) /\ Still
  /\ \A q \in Requests : q # r => pc'[q] = pc[q]
  /\ \/ pc'[r] = pc[r] /\ pc[r] # "acquiring"
     \/ pc[r] = "acquiring" /\ pc'[r] = "locked" /\ r \in table'.holders
     \/ pc[r] = "acquiring" /\ pc'[r] = "idle" /\ r \notin table'.holders
  /\ stale' \subseteq stale
  /\ \A q \in table.holders : q \notin stale => q \in table'.holders
  /\ \A q \in table'.holders : q \in table.holders \/ q = r
  /\ UNCHANGED <<result, got, applied, objVars, bktVars, stopped, crashes>>

(* ApplyAcquire does that.                                                 *)
LEMMA AcquireApplied ==
  ASSUME TypeOK, ApplyAcquire
  PROVE  \E r \in Requests : r = Head(log).req /\ Granted(r)
<1> DEFINE r == Head(log).req
<1>1. log' \in Seq(Command) /\ Advances /\ Head(log) \in Command
  BY TailLog DEF ApplyAcquire, TypeOK
<1>2. r \in Requests /\ Is(1, "acquire", r)
  BY <1>1 DEF Command, ApplyAcquire, Advances, Is
<1> HIDE DEF r
<1>3. /\ stale' \subseteq stale
      /\ \A q \in table.holders : q \notin stale => q \in table'.holders
      /\ \A q \in table'.holders : q \in table.holders \/ q = r
  <2>1. CASE /\ table' = [type    |-> IF table = NoLock THEN LockOf(r) ELSE table.type,
                          holders |-> table.holders \cup {r}]
             /\ UNCHANGED stale
    BY <2>1
  <2>2. CASE \E d \in Reused :
               /\ table' = [table EXCEPT !.holders = (@ \ {d}) \cup {r}]
               /\ stale' = stale \ {d}
    <3>1. PICK d \in Reused : /\ table' = [table EXCEPT !.holders = (@ \ {d}) \cup {r}]
                              /\ stale' = stale \ {d}
      BY <2>2
    <3>2. d \in stale /\ table'.holders = (table.holders \ {d}) \cup {r}
      BY <3>1 DEF Reused, TypeOK
    <3> QED BY <3>1, <3>2
  <2>3. CASE UNCHANGED lockVars
    BY <2>3 DEF lockVars
  <2> QED BY <2>1, <2>2, <2>3 DEF ApplyAcquire, r
<1>4. pc' = IF pc[r] # "acquiring" THEN pc
            ELSE [pc EXCEPT ![r] = IF r \in table'.holders THEN "locked" ELSE "idle"]
  BY DEF ApplyAcquire, r
<1>5. /\ \A q \in Requests : q # r => pc'[q] = pc[q]
      /\ \/ pc'[r] = pc[r] /\ pc[r] # "acquiring"
         \/ pc[r] = "acquiring" /\ pc'[r] = "locked" /\ r \in table'.holders
         \/ pc[r] = "acquiring" /\ pc'[r] = "idle" /\ r \notin table'.holders
  BY <1>2, <1>4 DEF TypeOK
<1>6. Still /\ UNCHANGED <<result, got, applied, objVars, bktVars, stopped, crashes>>
  BY DEF ApplyAcquire, Still, reqVars
<1> QED BY <1>1, <1>2, <1>3, <1>5, <1>6 DEF Granted, r

(* The lock is given to a request that waits for it.                       *)
LEMMA GrantedLock ==
  ASSUME LockInv, TypeOK', NEW r \in Requests, Granted(r)
  PROVE  LockInv'
<1> USE DEF LockInv
<1>0. Len(log) \in Nat /\ Len(log') \in Nat
  BY LenProperties DEF TypeOK
<1>1. /\ 1 \in Logged
      /\ \A i \in Logged' : i + 1 \in Logged /\ i + 1 # 1 /\ log'[i] = log[i + 1]
      /\ \A i, j \in Logged' : i + 1 = j + 1 => i = j
  BY <1>0 DEF Granted, Advances, Logged
<1>2. /\ \A q \in Requests : Locks(q)' <=> Locks(q)
      /\ UNCHANGED crashes
  BY DEF Granted, Still, Locks, Writes
<1>3. /\ Locks(r) /\ pc[r] \in {"acquiring", "done"}
      /\ r \notin table.holders /\ r \notin stale
      /\ \A j \in Logged : log[j].req = r => j = 1
  BY <1>1 DEF Granted, AcquiresInLog
<1>4. \A i \in Logged' : log'[i].req # r
  BY <1>1, <1>3
<1>5. /\ \A q \in Requests : q # r => pc'[q] = pc[q]
      /\ \/ pc'[r] = pc[r] /\ pc[r] # "acquiring"
         \/ pc[r] = "acquiring" /\ pc'[r] = "locked" /\ r \in table'.holders
         \/ pc[r] = "acquiring" /\ pc'[r] = "idle" /\ r \notin table'.holders
      /\ stale' \subseteq stale
      /\ \A q \in table.holders : q \notin stale => q \in table'.holders
      /\ \A q \in table'.holders : q \in table.holders \/ q = r
  BY DEF Granted
<1>6. Waiting'
  BY <1>1, <1>3, <1>4, <1>5 DEF Waiting
<1>7. AcquiresInLog'
  <2> SUFFICES ASSUME NEW q \in Requests, NEW i \in Logged', Is(i, "acquire", q)'
               PROVE  /\ Locks(q)' /\ pc'[q] \in {"acquiring", "done"}
                      /\ q \notin table'.holders /\ q \notin stale'
                      /\ \A j \in Logged' : log'[j].req = q => j = i
    BY DEF AcquiresInLog
  <2>1. q # r /\ Is(i + 1, "acquire", q) /\ i + 1 \in Logged
    BY <1>1, <1>4 DEF Is
  <2>2. /\ Locks(q) /\ pc[q] \in {"acquiring", "done"}
        /\ q \notin table.holders /\ q \notin stale
        /\ \A j \in Logged : log[j].req = q => j = i + 1
    BY <2>1 DEF AcquiresInLog
  <2> QED BY <1>1, <1>2, <1>5, <2>1, <2>2
<1>8. ChangesInLog'
  BY <1>1, <1>4, <1>5 DEF ChangesInLog, Is
<1>9. ReleasesInLog'
  BY <1>1, <1>4, <1>5 DEF ReleasesInLog, Is
<1>10. GuardsHold'
  <2> SUFFICES ASSUME NEW q \in Requests, HasGuard(q)' \/ pc'[q] = "dropping"
               PROVE  /\ q \in table'.holders /\ q \notin stale'
                      /\ \A i \in Logged' : ~Is(i, "release", q)'
    BY DEF GuardsHold
  <2>1. CASE q = r
    BY <1>3, <1>4, <1>5, <2>1 DEF Is, HasGuard, Running
  <2>2. CASE q # r
    <3>1. HasGuard(q) \/ pc[q] = "dropping"
      BY <1>2, <1>5, <2>2 DEF HasGuard, Running
    <3> QED BY <1>1, <1>5, <3>1 DEF GuardsHold, Is
  <2> QED BY <2>1, <2>2
<1>11. HoldersLock' /\ NothingStale'
  BY <1>2, <1>3, <1>5 DEF HoldersLock, NothingStale, TypeOK
<1> QED BY <1>6, <1>7, <1>8, <1>9, <1>10, <1>11

(* A release at the head of the log is applied.                            *)
Freed(r) ==
  /\ Advances /\ Is(1, "release", r) /\ Still
  /\ table'.holders = table.holders \ {r}
  /\ table'.holders = {} \/ table'.type = table.type
  /\ UNCHANGED <<pc, result, got, applied, stale, objVars, bktVars, stopped, crashes>>

(* ApplyRelease does that.                                                 *)
LEMMA ReleaseApplied ==
  ASSUME TypeOK, ApplyRelease
  PROVE  \E r \in Requests : Freed(r)
<1> DEFINE r == Head(log).req
<1>1. log' \in Seq(Command) /\ Advances /\ Head(log) \in Command
  BY TailLog DEF ApplyRelease, TypeOK
<1>2. r \in Requests /\ Is(1, "release", r)
  BY <1>1 DEF Command, ApplyRelease, Advances, Is
<1> HIDE DEF r
<1>3. table'.holders = table.holders \ {r} /\ (table'.holders = {} \/ table'.type = table.type)
  BY DEF ApplyRelease, release_lock, NoLock, TypeOK, r
<1>4. /\ Still
      /\ UNCHANGED <<pc, result, got, applied, stale, objVars, bktVars, stopped, crashes>>
  BY DEF ApplyRelease, Still, reqVars
<1> QED BY <1>1, <1>2, <1>3, <1>4 DEF Freed

(* The lock of a request that has ended is given back.                     *)
LEMMA FreedLock ==
  ASSUME LockInv, TypeOK', NEW r \in Requests, Freed(r)
  PROVE  LockInv'
<1> USE DEF LockInv
<1>0. Len(log) \in Nat /\ Len(log') \in Nat
  BY LenProperties DEF TypeOK
<1>1. /\ 1 \in Logged
      /\ \A i \in Logged' : i + 1 \in Logged /\ i + 1 # 1 /\ log'[i] = log[i + 1]
      /\ \A i, j \in Logged' : i + 1 = j + 1 => i = j
  BY <1>0 DEF Freed, Advances, Logged
<1>2. /\ \A q \in Requests : Locks(q)' <=> Locks(q)
      /\ \A q \in Requests : HasGuard(q)' <=> HasGuard(q)
      /\ UNCHANGED <<pc, stale, crashes>>
      /\ table'.holders = table.holders \ {r}
  BY DEF Freed, Still, Locks, Writes, HasGuard, Running
<1>3. Waiting' /\ ReleasesInLog'
  BY <1>1, <1>2 DEF Waiting, ReleasesInLog, Is
<1>4. AcquiresInLog'
  BY <1>1, <1>2 DEF AcquiresInLog, Is
<1>5. ChangesInLog'
  BY <1>1, <1>2 DEF ChangesInLog, Is
<1>6. GuardsHold'
  <2>1. ~HasGuard(r) /\ pc[r] # "dropping"
    BY <1>1 DEF GuardsHold, Freed
  <2> QED BY <1>1, <1>2, <2>1 DEF GuardsHold, Is
<1>7. HoldersLock' /\ NothingStale'
  BY <1>2 DEF HoldersLock, NothingStale, TypeOK
<1> QED BY <1>3, <1>4, <1>5, <1>6, <1>7

(* A metadata command at the head of the log is applied.                   *)
Changed(r) ==
  /\ Advances /\ Is(1, "change", r) /\ Still
  /\ pc' = IF pc[r] = "writing" THEN [pc EXCEPT ![r] = "written"] ELSE pc
  /\ applied' = applied \cup {r}
  /\ meta' = CASE kind[r] = "put"    -> r
               [] kind[r] = "delete" -> NoObject
               [] OTHER              -> meta
  /\ UNCHANGED <<result, got, lockVars, file, cached, stopped, crashes>>

(* Or it stops the Raft node.                                              *)
Stops ==
  /\ stopped' = TRUE
  /\ Still
  /\ UNCHANGED <<pc, result, got, log, applied, lockVars, meta, file, cached, crashes>>

(* ApplyChange does one of these.                                          *)
LEMMA ChangeApplied ==
  ASSUME TypeOK, ApplyChange
  PROVE  ~stopped /\ (Stops \/ \E r \in Requests : Changed(r))
<1> DEFINE r == Head(log).req
<1>0. log # <<>> /\ Head(log).type = "change" /\ ~stopped
  BY DEF ApplyChange
<1>1. CASE kind[r] = "create_bucket" /\ bucket
  <2>1. UNCHANGED meta
    BY <1>1 DEF ApplyChange
  <2> QED BY <1>0, <1>1, <2>1 DEF ApplyChange, Stops, Still, reqVars
<1>2. CASE ~(kind[r] = "create_bucket" /\ bucket)
  <2>1. Applied(r) /\ UNCHANGED stopped
    BY <1>2 DEF ApplyChange
  <2>2. log' \in Seq(Command) /\ Advances /\ Head(log) \in Command
    BY <1>0, <2>1, TailLog DEF Applied, TypeOK
  <2>3. r \in Requests /\ Is(1, "change", r)
    BY <1>0, <2>2 DEF Command, Advances, Is
  <2>4. meta' = CASE kind[r] = "put"    -> r
                  [] kind[r] = "delete" -> NoObject
                  [] OTHER              -> meta
    BY DEF ApplyChange
  <2>5. Changed(r)
    BY <2>1, <2>2, <2>3, <2>4 DEF ApplyChange, Applied, Changed, Still, reqVars
  <2> QED BY <1>0, <2>3, <2>5
<1> QED BY <1>1, <1>2

(* The handler goes on after its command.                                  *)
LEMMA ChangedLock ==
  ASSUME LockInv, TypeOK', NEW r \in Requests, Changed(r)
  PROVE  LockInv'
<1> USE DEF LockInv
<1>0. Len(log) \in Nat /\ Len(log') \in Nat
  BY LenProperties DEF TypeOK
<1>1. /\ 1 \in Logged
      /\ \A i \in Logged' : i + 1 \in Logged /\ i + 1 # 1 /\ log'[i] = log[i + 1]
      /\ \A i, j \in Logged' : i + 1 = j + 1 => i = j
  BY <1>0 DEF Changed, Advances, Logged
<1>2. /\ \A q \in Requests : Locks(q)' <=> Locks(q)
      /\ UNCHANGED <<table, stale, crashes>>
      /\ \A q \in Requests : pc'[q] = pc[q] \/ (q = r /\ pc[q] = "writing" /\ pc'[q] = "written")
  BY DEF Changed, Still, Locks, Writes, lockVars, TypeOK
<1>3. \A q \in Requests : HasGuard(q)' <=> HasGuard(q)
  BY <1>2 DEF HasGuard, Running
<1>4. \A i \in Logged' : ~Is(i, "change", r)'
  BY <1>1 DEF ChangesInLog, Changed, Is
<1>5. Waiting' /\ ReleasesInLog'
  BY <1>1, <1>2 DEF Waiting, ReleasesInLog, Is
<1>6. AcquiresInLog'
  BY <1>1, <1>2 DEF AcquiresInLog, Is
<1>7. ChangesInLog'
  BY <1>1, <1>2, <1>4 DEF ChangesInLog, Is
<1>8. GuardsHold'
  BY <1>1, <1>2, <1>3 DEF GuardsHold, Is
<1>9. HoldersLock' /\ NothingStale'
  BY <1>2 DEF HoldersLock, NothingStale, TypeOK
<1> QED BY <1>5, <1>6, <1>7, <1>8, <1>9

(* A crash ends the handlers, and what they hold is stale.                 *)
LEMMA CrashLock ==
  ASSUME LockInv, TypeOK', Crash
  PROVE  LockInv'
<1> USE DEF LockInv
<1>0. Len(log) \in Nat /\ Len(log') \in Nat
  BY LenProperties DEF TypeOK
<1>1. Shrinks
  BY PrefixLog DEF Crash, TypeOK
<1>2. PICK f \in [1 .. Len(log') -> Logged] :
         /\ \A i, j \in 1 .. Len(log') : i < j => f[i] < f[j]
         /\ \A i \in 1 .. Len(log') : log'[i] = log[f[i]]
  BY <1>1 DEF Shrinks
<1>3. /\ \A i \in Logged' : f[i] \in Logged /\ log'[i] = log[f[i]]
      /\ \A i, j \in Logged' : f[i] = f[j] => i = j
  <2>1. \A i, j \in 1 .. Len(log') : f[i] = f[j] => i = j
    BY <1>0, <1>2 DEF Logged
  <2> QED BY <1>2, <2>1 DEF Logged
<1>4. /\ \A q \in Requests : Locks(q)' <=> Locks(q)
      /\ \A q \in Requests : pc'[q] = IF pc[q] = "idle" THEN "idle" ELSE "done"
      /\ UNCHANGED table /\ stale' = table.holders /\ crashes' > 0
  BY DEF Crash, Locks, Writes, reqVars, TypeOK
<1>5. Waiting'
  BY <1>3, <1>4 DEF Waiting
<1>6. AcquiresInLog'
  BY <1>3, <1>4 DEF AcquiresInLog, Is
<1>7. ChangesInLog' /\ ReleasesInLog'
  BY <1>3, <1>4 DEF ChangesInLog, ReleasesInLog, Is
<1>8. GuardsHold'
  BY <1>4 DEF GuardsHold, HasGuard, Running
<1>9. HoldersLock' /\ NothingStale'
  BY <1>4 DEF HoldersLock, NothingStale, TypeOK
<1> QED BY <1>5, <1>6, <1>7, <1>8, <1>9

(* No step that leaves handlers, log and lock alone matters here.          *)
LEMMA IdleLock ==
  ASSUME LockInv, TypeOK', UNCHANGED <<faults, kind, pc, log, table, stale, crashes>>
  PROVE  LockInv'
BY DEF LockInv, Waiting, AcquiresInLog, ChangesInLog, ReleasesInLog, GuardsHold,
       HoldersLock, NothingStale, Is, Logged, HasGuard, Running, Locks, Writes

(* Together.                                                               *)
LEMMA LockStep ==
  ASSUME LockInv, [Next]_vars
  PROVE  LockInv'
<1>0. TypeOK /\ TypeOK'
  BY TypeStep DEF LockInv
<1>1. CASE UNCHANGED vars \/ CacheExpires \/ (ApplyChange /\ Stops)
  BY <1>0, <1>1, IdleLock DEF vars, CacheExpires, Stops, Still, reqVars, lockVars
<1>2. ASSUME NEW r \in Requests,
             Proceeds(r) \/ Submits(r) \/ AcquireLock(r) \/ ReleaseGuard(r) \/ ReleaseFails(r)
      PROVE  LockInv'
  BY <1>0, <1>2, ProceedsGoes, GoesLock, SubmitsChange, ChangesLock, CallsLock
<1>3. CASE ApplyAcquire
  BY <1>0, <1>3, AcquireApplied, GrantedLock
<1>4. CASE ApplyRelease
  BY <1>0, <1>4, ReleaseApplied, FreedLock
<1>5. CASE ApplyChange
  BY <1>0, <1>1, <1>5, ChangeApplied, ChangedLock
<1>6. CASE Crash
  BY <1>0, <1>6, CrashLock
<1> QED BY <1>1, <1>2, <1>3, <1>4, <1>5, <1>6, NextKinds
-----------------------------------------------------------------------------
(* Who may change the object.                                              *)

AllWriters == \A r \in Requests : Locks(r) => Writes(r)

(* The condition of NoPhantom: write locks exclude.                        *)
Exclusive == crashes = 0 \/ AllWriters

WriterAlone ==
  \A w \in table.holders : Writes(w) => table.holders = {w} /\ table.type = "Write"

(* A command of a put or a delete that is not applied belongs to the       *)
(* holder, whose release comes later, or was left by a crash: then no      *)
(* request that lives waits before it.                                     *)
ChangesOwned ==
  \A r \in Requests, i \in Logged : Is(i, "change", r) /\ Writes(r) =>
    \/ /\ r \in table.holders /\ r \notin stale
       /\ \A j \in 1 .. i : ~Is(j, "release", r)
    \/ /\ crashes > 0
       /\ \A j \in 1 .. i : log[j].type = "acquire" => pc[log[j].req] = "done"

(* Who has the write lock has the only command.                            *)
WriterChanges ==
  \A r \in Requests : HasGuard(r) /\ Writes(r) =>
    \A q \in Requests, i \in Logged : Is(i, "change", q) /\ Writes(q) => q = r

WriterInv == WriterAlone /\ ChangesOwned /\ WriterChanges

(* The commands in the log are requests'.                                  *)
LEMMA LoggedRequests ==
  ASSUME TypeOK
  PROVE  /\ \A i \in Logged : log[i].req \in Requests
         /\ \A i \in Logged : \A j \in 1 .. i : j \in Logged
<1>1. Len(log) \in Nat
  BY LenProperties DEF TypeOK
<1>2. \A i \in Logged : log[i] \in Command
  BY ElementOfSeq DEF TypeOK, Logged
<1> QED BY <1>1, <1>2 DEF Command, Logged

(* The requests do not turn into others.                                   *)
LEMMA KindsStay ==
  ASSUME [Next]_vars
  PROVE  UNCHANGED <<faults, kind>>
BY DEF Next, Put, Delete, Get, Bucket, Apply, vars, AcquireLock, AcquireFails,
      ReleaseGuard, ReleaseFails, BucketCached, BucketRead, BucketRemember,
      StorageCommit, StorageFails, put_object_metadata, PutReturns, DeleteLooksUp,
      delete_object_metadata, Unlink, UnlinkFails, GetMetadata, GetFile, head_object,
      CreateLooksUp, DeleteBucketLooksUp, DeleteBucketLists, SubmitBucket, BucketReturns,
      WriteFails, SubmitRefused, Cancel, ApplyAcquire, ApplyRelease, ApplyChange,
      CacheExpires, Crash, reqVars

(* What a step leaves behind needs no condition it did not have.           *)
LEMMA ExclusiveStep ==
  ASSUME TypeOK, [Next]_vars, Exclusive'
  PROVE  Exclusive
<1>1. UNCHANGED kind
  BY KindsStay
<1>2. crashes' = crashes \/ Crash
  BY DEF Next, Put, Delete, Get, Bucket, Apply, vars, AcquireLock, AcquireFails,
      ReleaseGuard, ReleaseFails, BucketCached, BucketRead, BucketRemember,
      StorageCommit, StorageFails, put_object_metadata, PutReturns, DeleteLooksUp,
      delete_object_metadata, Unlink, UnlinkFails, GetMetadata, GetFile, head_object,
      CreateLooksUp, DeleteBucketLooksUp, DeleteBucketLists, SubmitBucket, BucketReturns,
      WriteFails, SubmitRefused, Cancel, ApplyAcquire, ApplyRelease, ApplyChange,
      CacheExpires
<1>3. crashes' = 0 => crashes = 0
  BY <1>2 DEF Crash, TypeOK
<1>4. AllWriters' <=> AllWriters
  BY <1>1 DEF AllWriters, Locks, Writes
<1> QED BY <1>3, <1>4 DEF Exclusive

(* A request that takes the write lock had it free or from a crash.        *)
LEMMA GrantedAlone ==
  ASSUME LockInv, Exclusive, WriterAlone, TypeOK', NEW r \in Requests,
         ApplyAcquire, Head(log).req = r, r \notin table.holders
  PROVE  /\ WriterAlone'
         /\ Writes(r) /\ r \in table'.holders => table.holders \subseteq stale
<1>0. UNCHANGED kind /\ Locks(r)
  <2>1. Granted(r)
    BY AcquireApplied DEF LockInv
  <2> QED BY <2>1 DEF Granted, Still, LockInv, AcquiresInLog, Advances, TypeOK, Logged
<1>1. CASE /\ Free(r)
           /\ table' = [type    |-> IF table = NoLock THEN LockOf(r) ELSE table.type,
                        holders |-> table.holders \cup {r}]
           /\ UNCHANGED stale
  <2>1. CASE table = NoLock
    BY <1>0, <1>1, <2>1 DEF WriterAlone, LockOf, Writes, NoLock
  <2>2. CASE table # NoLock
    <3>1. table.type = "Read" /\ ~Writes(r)
      BY <1>1, <2>2 DEF Free, LockOf
    <3>2. \A w \in table.holders : ~Writes(w)
      BY <3>1 DEF WriterAlone
    <3> QED BY <1>0, <1>1, <3>1, <3>2 DEF WriterAlone, Writes
  <2> QED BY <2>1, <2>2
<1>2. ASSUME NEW d \in Reused,
             table' = [table EXCEPT !.holders = (@ \ {d}) \cup {r}],
             stale' = stale \ {d}
      PROVE  WriterAlone' /\ table.holders \subseteq stale
  <2>1. d \in stale /\ d \in table.holders
    BY <1>2 DEF Reused
  <2>2. AllWriters
    BY <2>1 DEF Exclusive, LockInv, NothingStale
  <2>3. Writes(d)
    BY <2>1, <2>2 DEF AllWriters, LockInv, HoldersLock, TypeOK
  <2>4. table.holders = {d} /\ table.type = "Write"
    BY <2>1, <2>3 DEF WriterAlone
  <2>5. table'.holders = {r} /\ table'.type = "Write"
    BY <1>2, <2>4 DEF LockInv, TypeOK
  <2> QED BY <2>1, <2>4, <2>5 DEF WriterAlone
<1>3. CASE UNCHANGED lockVars
  BY <1>0, <1>3 DEF WriterAlone, Writes, lockVars
<1> QED BY <1>1, <1>2, <1>3 DEF ApplyAcquire

(* Write locks go on to exclude, and commands to be the holder's.          *)
LEMMA WriterStep ==
  ASSUME LockInv, LockInv', Exclusive, WriterInv, [Next]_vars
  PROVE  WriterInv'
<1> USE DEF WriterInv
<1>0. Len(log) \in Nat /\ Len(log') \in Nat /\ TypeOK /\ TypeOK'
  BY LenProperties DEF LockInv, TypeOK
<1>1. ASSUME NEW r \in Requests, NEW p \in PC, Goes(r, p) PROVE WriterInv'
  <2>1. PICK f \in [1 .. Len(log') -> Logged] :
         /\ \A i, j \in 1 .. Len(log') : i < j => f[i] < f[j]
         /\ \A i \in 1 .. Len(log') : log'[i] = log[f[i]]
    BY <1>1 DEF Goes, Shrinks
  <2>2. /\ \A i \in Logged' : f[i] \in Logged /\ log'[i] = log[f[i]]
        /\ \A i \in Logged' : \A j \in 1 .. i : j \in Logged' /\ f[j] \in 1 .. f[i]
    <3>1. \A i, j \in 1 .. Len(log') : j <= i => f[j] <= f[i]
      BY <1>0, <2>1 DEF Logged
    <3>2. \A i \in 1 .. Len(log') : \A j \in 1 .. i : j \in 1 .. Len(log') /\ j <= i
      BY <1>0
    <3>3. \A i \in 1 .. Len(log') : f[i] \in Logged
      BY <2>1
    <3>4. \A i, j \in 1 .. Len(log') : j <= i => f[j] \in 1 .. f[i]
      BY <1>0, <3>1, <3>3 DEF Logged
    <3> QED BY <2>1, <3>2, <3>3, <3>4 DEF Logged
  <2>3. /\ \A q \in Requests : pc'[q] = IF q = r THEN p ELSE pc[q]
        /\ UNCHANGED <<table, stale, crashes, kind>> /\ pc[r] # "done"
        /\ \A q \in Requests : Writes(q)' <=> Writes(q)
    BY <1>0, <1>1 DEF Goes, Still, TypeOK, lockVars, Writes
  <2>4. \A q \in Requests : HasGuard(q)' => HasGuard(q)
    BY <1>1, <2>3 DEF Goes, HasGuard, Running, Locks, Writes
  <2>5. WriterAlone'
    BY <1>0, <2>3 DEF WriterAlone, TypeOK
  <2>6. ChangesOwned'
    <3> SUFFICES ASSUME NEW q \in Requests, NEW i \in Logged', Is(i, "change", q)', Writes(q)'
                 PROVE  \/ /\ q \in table'.holders /\ q \notin stale'
                           /\ \A j \in 1 .. i : ~Is(j, "release", q)'
                        \/ /\ crashes' > 0
                           /\ \A j \in 1 .. i : log'[j].type = "acquire" => pc'[log'[j].req] = "done"
      BY DEF ChangesOwned
    <3>1. f[i] \in Logged /\ Is(f[i], "change", q) /\ Writes(q)
      BY <2>2, <2>3 DEF Is
    <3>2. CASE /\ q \in table.holders /\ q \notin stale
               /\ \A j \in 1 .. f[i] : ~Is(j, "release", q)
      BY <2>2, <2>3, <3>2 DEF Is
    <3>3. CASE /\ crashes > 0
               /\ \A j \in 1 .. f[i] : log[j].type = "acquire" => pc[log[j].req] = "done"
      <4>1. \A j \in 1 .. i : log[f[j]].req \in Requests
        BY <1>0, <2>2, LoggedRequests
      <4> QED BY <2>2, <2>3, <3>3, <4>1
    <3> QED BY <3>1, <3>2, <3>3 DEF ChangesOwned
  <2>7. WriterChanges'
    BY <2>2, <2>3, <2>4 DEF WriterChanges, Is
  <2> QED BY <2>5, <2>6, <2>7
<1>2. ASSUME NEW r \in Requests, NEW t \in {"acquire", "change", "release"},
             Adds(r, t), Still, UNCHANGED <<lockVars, crashes>>,
             pc[r] # "done",
             t = "acquire" => pc[r] \in {"idle", "acquiring"},
             \A q \in Requests : q # r => pc'[q] = pc[q],
             HasGuard(r)' => HasGuard(r),
             t = "change" => HasGuard(r) \/ ~Writes(r)
      PROVE  WriterInv'
  <2>1. /\ Len(log') = Len(log) + 1
        /\ \A i \in Logged : log'[i] = log[i] /\ i # Len(log')
        /\ log'[Len(log')].type = t /\ log'[Len(log')].req = r
        /\ \A i \in Logged' : i \in Logged \/ i = Len(log')
        /\ \A i \in Logged : \A j \in 1 .. i : j \in Logged
        /\ \A j \in 1 .. Len(log') : j \in Logged \/ j = Len(log')
    BY <1>0, <1>2 DEF Adds, Logged
  <2>2. /\ \A q \in Requests : Writes(q)' <=> Writes(q)
        /\ \A q \in Requests : HasGuard(q)' => HasGuard(q)
        /\ UNCHANGED <<table, stale, crashes>>
    BY <1>2 DEF Still, Writes, Locks, HasGuard, Running, lockVars
  <2>3. WriterAlone'
    BY <1>0, <2>2 DEF WriterAlone, TypeOK
  <2>4. ChangesOwned'
    <3> SUFFICES ASSUME NEW q \in Requests, NEW i \in Logged', Is(i, "change", q)', Writes(q)'
                 PROVE  \/ /\ q \in table'.holders /\ q \notin stale'
                           /\ \A j \in 1 .. i : ~Is(j, "release", q)'
                        \/ /\ crashes' > 0
                           /\ \A j \in 1 .. i : log'[j].type = "acquire" => pc'[log'[j].req] = "done"
      BY DEF ChangesOwned
    <3>1. CASE i \in Logged
      <4>1. Is(i, "change", q) /\ Writes(q)
        BY <2>1, <2>2, <3>1 DEF Is
      <4>2. \A j \in 1 .. i : log'[j] = log[j]
        BY <2>1, <3>1
      <4>3. CASE /\ q \in table.holders /\ q \notin stale
                 /\ \A j \in 1 .. i : ~Is(j, "release", q)
        BY <2>2, <4>2, <4>3 DEF Is
      <4>4. CASE /\ crashes > 0
                 /\ \A j \in 1 .. i : log[j].type = "acquire" => pc[log[j].req] = "done"
        <5>1. \A j \in 1 .. i : log[j].req \in Requests
          BY <1>0, <3>1, LoggedRequests
        <5> QED BY <1>2, <2>2, <4>2, <4>4, <5>1
      <4> QED BY <3>1, <4>1, <4>3, <4>4 DEF ChangesOwned
    <3>2. CASE i = Len(log')
      <4>1. q = r /\ t = "change" /\ Writes(r)
        BY <2>1, <2>2, <3>2 DEF Is
      <4>2. r \in table.holders /\ r \notin stale /\ \A j \in Logged : ~Is(j, "release", r)
        BY <1>2, <4>1 DEF LockInv, GuardsHold
      <4> QED BY <2>1, <2>2, <3>2, <4>1, <4>2 DEF Is
    <3> QED BY <2>1, <3>1, <3>2
  <2>5. WriterChanges'
    <3> SUFFICES ASSUME NEW q \in Requests, HasGuard(q)', Writes(q)',
                        NEW v \in Requests, NEW i \in Logged', Is(i, "change", v)', Writes(v)'
                 PROVE  v = q
      BY DEF WriterChanges
    <3>1. CASE i \in Logged
      BY <2>1, <2>2, <3>1 DEF WriterChanges, Is
    <3>2. CASE i = Len(log')
      <4>1. v = r /\ HasGuard(v) /\ HasGuard(q) /\ Writes(v)
        BY <1>2, <2>1, <2>2, <3>2 DEF Is
      <4>2. v \in table.holders /\ q \in table.holders
        BY <4>1 DEF LockInv, GuardsHold
      <4>3. table.holders = {v}
        BY <4>1, <4>2 DEF WriterAlone
      <4> QED BY <4>2, <4>3
    <3> QED BY <2>1, <3>1, <3>2
  <2> QED BY <2>3, <2>4, <2>5
<1>3. ASSUME NEW r \in Requests, Changes(r) PROVE WriterInv'
  <2>1. pc'[r] = "writing" /\ \A q \in Requests : q # r => pc'[q] = pc[q]
    BY <1>0, <1>3 DEF Changes, TypeOK
  <2>2. HasGuard(r) \/ ~Locks(r)
    BY <1>3 DEF Changes, HasGuard, Running
  <2>3. HasGuard(r)' => HasGuard(r)
    BY <1>3, <2>2 DEF Changes, Still, HasGuard, Locks, Writes
  <2> QED BY <1>2, <1>3, <2>1, <2>2, <2>3 DEF Changes, Locks, lockVars
<1>4. ASSUME NEW r \in Requests, AcquireLock(r) PROVE WriterInv'
  <2>1. /\ pc[r] = "idle" /\ pc'[r] = "acquiring"
        /\ \A q \in Requests : q # r => pc'[q] = pc[q]
    BY <1>0, <1>4 DEF AcquireLock, Goto, TypeOK
  <2>2. Adds(r, "acquire")
    BY <1>0, <1>4, SubmitLog DEF AcquireLock, TypeOK
  <2>3. ~HasGuard(r)'
    BY <2>1 DEF HasGuard
  <2> QED BY <1>2, <1>4, <2>1, <2>2, <2>3 DEF AcquireLock, Still, reqVars, lockVars
<1>5. ASSUME NEW r \in Requests, ReleaseGuard(r) PROVE WriterInv'
  <2>1. /\ pc[r] = "dropping" /\ pc'[r] = "done"
        /\ \A q \in Requests : q # r => pc'[q] = pc[q]
    BY <1>0, <1>5 DEF ReleaseGuard, Goto, TypeOK
  <2>2. Adds(r, "release")
    BY <1>0, <1>5, SubmitLog DEF ReleaseGuard, TypeOK
  <2>3. ~HasGuard(r)'
    BY <2>1 DEF HasGuard, Running
  <2> QED BY <1>2, <1>5, <2>1, <2>2, <2>3 DEF ReleaseGuard, Still, reqVars, lockVars
<1>6. ASSUME UNCHANGED <<kind, log, table, stale, crashes>>,
             \A q \in Requests : pc'[q] = pc[q] \/ pc'[q] = "done"
      PROVE  WriterInv'
  <2>1. /\ \A q \in Requests : Writes(q)' <=> Writes(q)
        /\ \A q \in Requests : HasGuard(q)' => HasGuard(q)
    BY <1>6 DEF Writes, Locks, HasGuard, Running
  <2>2. \A i \in Logged : \A j \in 1 .. i : log[j].req \in Requests
    BY <1>0, LoggedRequests
  <2>3. WriterAlone' /\ WriterChanges'
    BY <1>0, <1>6, <2>1 DEF WriterAlone, WriterChanges, Is, Logged, TypeOK
  <2>4. ChangesOwned'
    BY <1>6, <2>1, <2>2 DEF ChangesOwned, Is, Logged
  <2> QED BY <2>3, <2>4
<1>7. ASSUME NEW r \in Requests, ReleaseFails(r) PROVE WriterInv'
  BY <1>0, <1>6, <1>7 DEF ReleaseFails, Goto, TypeOK, reqVars, lockVars
<1>8. CASE UNCHANGED vars \/ CacheExpires \/ Stops
  BY <1>6, <1>8 DEF vars, CacheExpires, Stops, Still, reqVars, lockVars
<1>9. ASSUME NEW r \in Requests, Granted(r), ApplyAcquire, r = Head(log).req
      PROVE  WriterInv'
  <2>1. /\ 1 \in Logged
        /\ \A i \in Logged' : i + 1 \in Logged /\ i + 1 # 1 /\ log'[i] = log[i + 1]
        /\ \A i \in Logged' : 1 \in 1 .. i + 1
        /\ \A i \in Logged' : \A j \in 1 .. i : j + 1 \in 1 .. i + 1 /\ log'[j] = log[j + 1]
    BY <1>0, <1>9 DEF Granted, Advances, Logged
  <2>2. /\ r \notin table.holders /\ r \notin stale /\ pc[r] \in {"acquiring", "done"}
        /\ log[1].type = "acquire" /\ log[1].req = r
    BY <1>9, <2>1 DEF Granted, LockInv, AcquiresInLog, Is
  <2>3. /\ WriterAlone'
        /\ Writes(r) /\ r \in table'.holders => table.holders \subseteq stale
    BY <1>0, <1>9, <2>2, GrantedAlone
  <2>4. /\ \A q \in Requests : q # r => pc'[q] = pc[q]
        /\ pc'[r] = pc[r] \/ pc[r] = "acquiring"
        /\ stale' \subseteq stale
        /\ \A q \in table.holders : q \notin stale => q \in table'.holders
        /\ \A q \in Requests : Writes(q)' <=> Writes(q)
        /\ \A q \in Requests : Locks(q)' <=> Locks(q)
        /\ UNCHANGED crashes
    BY <1>9 DEF Granted, Still, Writes, Locks
  <2>5. ChangesOwned'
    <3> SUFFICES ASSUME NEW q \in Requests, NEW i \in Logged', Is(i, "change", q)', Writes(q)'
                 PROVE  \/ /\ q \in table'.holders /\ q \notin stale'
                           /\ \A j \in 1 .. i : ~Is(j, "release", q)'
                        \/ /\ crashes' > 0
                           /\ \A j \in 1 .. i : log'[j].type = "acquire" => pc'[log'[j].req] = "done"
      BY DEF ChangesOwned
    <3>1. i + 1 \in Logged /\ Is(i + 1, "change", q) /\ Writes(q)
      BY <2>1, <2>4 DEF Is
    <3>2. CASE /\ q \in table.holders /\ q \notin stale
               /\ \A j \in 1 .. i + 1 : ~Is(j, "release", q)
      BY <2>1, <2>4, <3>2 DEF Is
    <3>3. CASE /\ crashes > 0
               /\ \A j \in 1 .. i + 1 : log[j].type = "acquire" => pc[log[j].req] = "done"
      <4>1. \A j \in 1 .. i : log[j + 1].req \in Requests
        BY <1>0, <2>1, <3>1, LoggedRequests
      <4> QED BY <2>1, <2>4, <3>3, <4>1
    <3> QED BY <3>1, <3>2, <3>3 DEF ChangesOwned
  <2>6. WriterChanges'
    <3> SUFFICES ASSUME NEW q \in Requests, HasGuard(q)', Writes(q)',
                        NEW v \in Requests, NEW i \in Logged', Is(i, "change", v)', Writes(v)'
                 PROVE  v = q
      BY DEF WriterChanges
    <3>1. i + 1 \in Logged /\ Is(i + 1, "change", v) /\ Writes(v) /\ Writes(q)
      BY <2>1, <2>4 DEF Is
    <3>2. CASE HasGuard(q)
      BY <3>1, <3>2 DEF WriterChanges
    <3>3. CASE ~HasGuard(q)
      <4>1. q = r /\ pc[r] = "acquiring"
        BY <2>4, <3>3 DEF HasGuard, Running
      <4>2. r \in table'.holders
        BY <4>1 DEF LockInv, GuardsHold
      <4>3. table.holders \subseteq stale
        BY <2>3, <3>1, <4>1, <4>2
      <4>4. \A j \in 1 .. i + 1 : log[j].type = "acquire" => pc[log[j].req] = "done"
        BY <3>1, <4>3 DEF ChangesOwned
      <4> QED BY <2>1, <2>2, <4>1, <4>4
    <3> QED BY <3>2, <3>3
  <2> QED BY <2>3, <2>5, <2>6
<1>10. ASSUME NEW r \in Requests, Freed(r) \/ Changed(r) PROVE WriterInv'
  <2>1. /\ 1 \in Logged
        /\ \A i \in Logged' : i + 1 \in Logged /\ i + 1 # 1 /\ log'[i] = log[i + 1]
        /\ \A i \in Logged' : 1 \in 1 .. i + 1
        /\ \A i \in Logged' : \A j \in 1 .. i : j + 1 \in 1 .. i + 1 /\ log'[j] = log[j + 1]
    BY <1>0, <1>10 DEF Freed, Changed, Advances, Logged
  <2>2. /\ \A q \in Requests : Writes(q)' <=> Writes(q)
        /\ \A q \in Requests : Locks(q)' <=> Locks(q)
        /\ \A q \in Requests : pc[q] = "done" => pc'[q] = "done"
        /\ \A q \in Requests : pc'[q] = pc[q] \/ (pc[q] = "writing" /\ pc'[q] = "written")
        /\ UNCHANGED <<stale, crashes>>
    BY <1>0, <1>10 DEF Freed, Changed, Still, Writes, Locks, lockVars, TypeOK
  <2>3. \A q \in Requests : HasGuard(q)' => HasGuard(q)
    BY <2>2 DEF HasGuard, Running
  <2>4. /\ table'.holders \subseteq table.holders
        /\ table'.holders = {} \/ table'.type = table.type
        /\ \A q \in table.holders : q \in table'.holders \/ Is(1, "release", q)
    <3>1. CASE Freed(r)
      BY <1>0, <3>1 DEF Freed
    <3>2. CASE Changed(r)
      BY <3>2 DEF Changed, lockVars
    <3> QED BY <1>10, <3>1, <3>2
  <2>5. WriterAlone'
    BY <1>0, <2>2, <2>4 DEF WriterAlone, TypeOK
  <2>6. ChangesOwned'
    <3> SUFFICES ASSUME NEW q \in Requests, NEW i \in Logged', Is(i, "change", q)', Writes(q)'
                 PROVE  \/ /\ q \in table'.holders /\ q \notin stale'
                           /\ \A j \in 1 .. i : ~Is(j, "release", q)'
                        \/ /\ crashes' > 0
                           /\ \A j \in 1 .. i : log'[j].type = "acquire" => pc'[log'[j].req] = "done"
      BY DEF ChangesOwned
    <3>1. i + 1 \in Logged /\ Is(i + 1, "change", q) /\ Writes(q)
      BY <2>1, <2>2 DEF Is
    <3>2. CASE /\ q \in table.holders /\ q \notin stale
               /\ \A j \in 1 .. i + 1 : ~Is(j, "release", q)
      <4>1. ~Is(1, "release", q)
        BY <2>1, <3>2
      <4> QED BY <2>1, <2>2, <2>4, <3>2, <4>1 DEF Is
    <3>3. CASE /\ crashes > 0
               /\ \A j \in 1 .. i + 1 : log[j].type = "acquire" => pc[log[j].req] = "done"
      <4>1. \A j \in 1 .. i : log[j + 1].req \in Requests
        BY <1>0, <2>1, <3>1, LoggedRequests
      <4> QED BY <2>1, <2>2, <3>3, <4>1
    <3> QED BY <3>1, <3>2, <3>3 DEF ChangesOwned
  <2>7. WriterChanges'
    BY <2>1, <2>2, <2>3 DEF WriterChanges, Is
  <2> QED BY <2>5, <2>6, <2>7
<1>11. CASE Crash
  <2>1. PICK n \in 0 .. Len(log) : log' = SubSeq(log, 1, n)
    BY <1>11 DEF Crash
  <2>2. Shrinks
    BY <1>0, <2>1, PrefixLog DEF TypeOK
  <2>3. \A i \in Logged' : \E k \in Logged : log'[i] = log[k]
    BY <2>2 DEF Shrinks, Logged
  <2>4. /\ \A q \in Requests : Writes(q)' <=> Writes(q)
        /\ \A q \in Requests : pc'[q] = IF pc[q] = "idle" THEN "idle" ELSE "done"
        /\ UNCHANGED table /\ crashes' > 0
    BY <1>0, <1>11 DEF Crash, Writes, reqVars, TypeOK
  <2>5. WriterAlone'
    BY <1>0, <2>4 DEF WriterAlone, TypeOK
  <2>6. WriterChanges'
    BY <2>4 DEF WriterChanges, HasGuard, Running
  <2>7. \A j \in Logged' : log'[j].type = "acquire" => pc'[log'[j].req] = "done"
    <3> SUFFICES ASSUME NEW j \in Logged', log'[j].type = "acquire"
                 PROVE  pc'[log'[j].req] = "done"
      OBVIOUS
    <3>1. PICK k \in Logged : log'[j] = log[k]
      BY <2>3
    <3>2. log[k].req \in Requests
      BY <1>0, LoggedRequests
    <3>3. pc[log[k].req] \in {"acquiring", "done"}
      BY <3>1, <3>2 DEF LockInv, AcquiresInLog, Is
    <3> QED BY <2>4, <3>1, <3>2, <3>3
  <2>8. ChangesOwned'
    <3>1. \A i \in Logged' : \A j \in 1 .. i : j \in Logged'
      BY <1>0 DEF Logged
    <3> QED BY <2>4, <2>7, <3>1 DEF ChangesOwned
  <2> QED BY <2>5, <2>6, <2>8
<1> QED
  <2>1. CASE \E r \in Requests : Proceeds(r)
    BY <1>0, <1>1, <2>1, ProceedsGoes
  <2>2. CASE \E r \in Requests : Submits(r)
    BY <1>0, <1>3, <2>2, SubmitsChange
  <2>3. CASE ApplyAcquire
    BY <1>0, <1>9, <2>3, AcquireApplied
  <2>4. CASE ApplyRelease
    BY <1>0, <1>10, <2>4, ReleaseApplied
  <2>5. CASE ApplyChange
    BY <1>0, <1>8, <1>10, <2>5, ChangeApplied
  <2> QED
    BY <1>4, <1>5, <1>7, <1>8, <1>11, <2>1, <2>2, <2>3, <2>4, <2>5, NextKinds
-----------------------------------------------------------------------------
(* Metadata and file.                                                      *)

(* A command to change the metadata is in the log since it was submitted.  *)
LEMMA OldChanges ==
  ASSUME TypeOK, [Next]_vars, NEW q \in Requests, NEW i \in Logged', Is(i, "change", q)'
  PROVE  Submits(q) \/ \E k \in Logged : Is(k, "change", q)
<1>0. TypeOK' /\ Len(log) \in Nat /\ Len(log') \in Nat
  BY TypeStep, LenProperties DEF TypeOK
<1>1. CASE Shrinks
  BY <1>1 DEF Shrinks, Is, Logged
<1>2. ASSUME NEW r \in Requests, NEW t, Adds(r, t), t = "change" => Submits(r)
      PROVE  Submits(q) \/ \E k \in Logged : Is(k, "change", q)
  <2>1. i \in Logged \/ i = Len(log')
    BY <1>0, <1>2 DEF Adds, Logged
  <2>2. CASE i \in Logged
    BY <1>2, <2>2 DEF Adds, Is
  <2>3. CASE i = Len(log')
    BY <1>2, <2>3 DEF Adds, Is
  <2> QED BY <2>1, <2>2, <2>3
<1>3. CASE UNCHANGED log
  BY <1>1, <1>3, SameLog DEF TypeOK
<1>4. CASE Advances
  BY <1>0, <1>1, <1>4, TailShrinks DEF TypeOK
<1>5. ASSUME NEW r \in Requests, Proceeds(r) PROVE Shrinks
  BY <1>5, ProceedsLog
<1>6. ASSUME NEW r \in Requests, Submits(r) PROVE Adds(r, "change")
  BY <1>6, SubmitsChange DEF Changes
<1>7. ASSUME NEW r \in Requests, AcquireLock(r) PROVE Adds(r, "acquire")
  BY <1>7, SubmitLog DEF AcquireLock, TypeOK
<1>8. ASSUME NEW r \in Requests, ReleaseGuard(r) PROVE Adds(r, "release")
  BY <1>8, SubmitLog DEF ReleaseGuard, TypeOK
<1>9. CASE Crash
  BY <1>1, <1>9, PrefixLog DEF Crash, TypeOK
<1>10. CASE \E r \in Requests : ReleaseFails(r)
  BY <1>3, <1>10 DEF ReleaseFails
<1>11. CASE UNCHANGED vars \/ CacheExpires
  BY <1>3, <1>11 DEF vars, CacheExpires
<1>12. CASE ApplyAcquire \/ ApplyRelease \/ ApplyChange
  <2>1. UNCHANGED log \/ (log # <<>> /\ log' = Tail(log))
    BY <1>12 DEF ApplyAcquire, ApplyRelease, ApplyChange, Applied
  <2> QED BY <1>3, <1>4, <2>1, TailLog DEF TypeOK
<1> QED
  BY <1>1, <1>2, <1>5, <1>6, <1>7, <1>8, <1>9, <1>10, <1>11, <1>12, NextKinds

(* Only the holder of the write lock changes the file.                     *)
LEMMA FileMoves ==
  ASSUME TypeOK, [Next]_vars
  PROVE  \/ UNCHANGED file
         \/ \E r \in Requests : At(r, "put", "checked") /\ file' = r /\ Proceeds(r)
         \/ \E r \in Requests : At(r, "delete", "written") /\ file' = NoObject /\ Proceeds(r)
<1>1. ASSUME NEW r \in Requests, Proceeds(r)
      PROVE  \/ UNCHANGED file
             \/ At(r, "put", "checked") /\ file' = r
             \/ At(r, "delete", "written") /\ file' = NoObject
  BY <1>1 DEF Proceeds, AcquireFails, BucketCached, BucketRead, BucketRemember,
      StorageCommit, StorageFails, PutReturns, DeleteLooksUp, Unlink, UnlinkFails,
      GetMetadata, GetFile, head_object, CreateLooksUp, DeleteBucketLooksUp,
      DeleteBucketLists, BucketReturns, WriteFails, SubmitRefused, Cancel, objVars
<1>2. ASSUME NEW r \in Requests,
             Submits(r) \/ AcquireLock(r) \/ ReleaseGuard(r) \/ ReleaseFails(r)
      PROVE  UNCHANGED file
  BY <1>2 DEF Submits, put_object_metadata, delete_object_metadata, SubmitBucket,
      AcquireLock, ReleaseGuard, ReleaseFails, objVars
<1>3. CASE \/ UNCHANGED vars \/ ApplyAcquire \/ ApplyRelease \/ ApplyChange
           \/ CacheExpires \/ Crash
  BY <1>3 DEF vars, ApplyAcquire, ApplyRelease, ApplyChange, CacheExpires, Crash, objVars
<1> QED BY <1>1, <1>2, <1>3, NextKinds

(* Only applying a command changes the metadata.                           *)
LEMMA MetaMoves ==
  ASSUME TypeOK, [Next]_vars
  PROVE  UNCHANGED meta \/ \E r \in Requests : Changed(r) /\ Writes(r)
<1>1. ASSUME NEW r \in Requests, Proceeds(r) PROVE UNCHANGED meta
  BY <1>1, ProceedsGoes DEF Goes
<1>2. ASSUME NEW r \in Requests,
             Submits(r) \/ AcquireLock(r) \/ ReleaseGuard(r) \/ ReleaseFails(r)
      PROVE  UNCHANGED meta
  BY <1>2 DEF Submits, put_object_metadata, delete_object_metadata, SubmitBucket,
      AcquireLock, ReleaseGuard, ReleaseFails, objVars
<1>3. CASE UNCHANGED vars \/ ApplyAcquire \/ ApplyRelease \/ CacheExpires \/ Crash
  BY <1>3 DEF vars, ApplyAcquire, ApplyRelease, CacheExpires, Crash, objVars
<1>4. CASE ApplyChange
  <2>1. CASE Stops
    BY <2>1 DEF Stops
  <2>2. ASSUME NEW r \in Requests, Changed(r) PROVE UNCHANGED meta \/ Writes(r)
    BY <2>2 DEF Changed, Writes
  <2> QED BY <1>4, <2>1, <2>2, ChangeApplied
<1> QED BY <1>1, <1>2, <1>3, <1>4, NextKinds

(* How a handler gets to its steps.                                        *)
LEMMA PcMoves ==
  ASSUME TypeOK, [Next]_vars, NEW q \in Requests
  PROVE  /\ pc'[q] = "stored" => pc[q] = "stored" \/ StorageCommit(q)
         /\ pc'[q] = "written" => pc[q] = "written" \/ (pc[q] = "writing" /\ Changed(q))
         /\ pc'[q] = "writing" => pc[q] = "writing" \/ Submits(q)
         /\ pc'[q] = "locked" => pc[q] = "locked" \/ pc[q] = "acquiring"
         /\ pc'[q] \in {"idle", "acquiring"} => pc[q] \in {"idle", "acquiring"}
<1> DEFINE Same == pc'[q] = pc[q]
<1>1. ASSUME NEW r \in Requests, Proceeds(r)
      PROVE  \/ Same
             \/ pc'[q] \notin {"idle", "acquiring", "writing", "written", "locked", "stored"}
             \/ StorageCommit(q) /\ pc'[q] = "stored"
  <2>1. PICK p \in PC : Goes(r, p)
    BY <1>1, ProceedsGoes
  <2>2. q = r \/ Same
    BY <2>1 DEF Goes, TypeOK
  <2>3. ASSUME NEW res, Return(q, res)
        PROVE  pc'[q] \in {"dropping", "done"}
    BY <2>3 DEF Return, Goto, TypeOK
  <2>4. ASSUME NEW p1, Goto(q, p1) PROVE pc'[q] = p1
    BY <2>4 DEF Goto, TypeOK
  <2>5. CASE q = r
    BY <1>1, <2>3, <2>4, <2>5 DEF Proceeds, AcquireFails, BucketCached, BucketRead, BucketRemember,
      StorageCommit, StorageFails, PutReturns, DeleteLooksUp, Unlink, UnlinkFails,
      GetMetadata, GetFile, head_object, CreateLooksUp, DeleteBucketLooksUp,
      DeleteBucketLists, BucketReturns, WriteFails, SubmitRefused, Cancel
  <2> QED BY <2>2, <2>5
<1>2. ASSUME NEW r \in Requests, Submits(r)
      PROVE  Same \/ (Submits(q) /\ pc'[q] = "writing")
  BY <1>2, SubmitsChange DEF Changes, TypeOK
<1>3. ASSUME NEW r \in Requests, AcquireLock(r) \/ ReleaseGuard(r) \/ ReleaseFails(r)
      PROVE  Same \/ pc'[q] = "done" \/ (pc[q] = "idle" /\ pc'[q] = "acquiring")
  BY <1>3 DEF AcquireLock, ReleaseGuard, ReleaseFails, Goto, TypeOK
<1>4. CASE UNCHANGED vars \/ ApplyRelease \/ CacheExpires
  BY <1>4 DEF vars, ApplyRelease, CacheExpires
<1>5. CASE ApplyAcquire
  <2>1. PICK r \in Requests : Granted(r)
    BY <1>5, AcquireApplied
  <2> QED BY <2>1 DEF Granted
<1>6. CASE ApplyChange
  <2>1. CASE Stops
    BY <2>1 DEF Stops
  <2>2. ASSUME NEW r \in Requests, Changed(r)
        PROVE  Same \/ (q = r /\ pc[q] = "writing" /\ pc'[q] = "written")
    BY <2>2 DEF Changed, TypeOK
  <2> QED BY <1>6, <2>1, <2>2, ChangeApplied
<1>7. CASE Crash
  BY <1>7 DEF Crash, TypeOK
<1> QED BY <1>1, <1>2, <1>3, <1>4, <1>5, <1>6, <1>7, NextKinds
(* The file of a put is in place before its metadata.                      *)
FileFirst ==
  \A r \in Requests : kind[r] = "put" =>
    /\ pc[r] = "stored" => file = r
    /\ \A i \in Logged : Is(i, "change", r) => file = r

(* The metadata goes before the file of a delete.                          *)
MetaGone == \A r \in Requests : At(r, "delete", "written") => meta = NoObject

MetaHasFile == meta # NoObject => file # NoObject

PhantomInv == Exclusive => WriterInv /\ FileFirst /\ MetaGone /\ MetaHasFile

(* Two writers with guards are one.                                        *)
LEMMA OneGuard ==
  ASSUME LockInv, WriterAlone, NEW r \in Requests, NEW q \in Requests,
         HasGuard(r), Writes(r), HasGuard(q)
  PROVE  r = q
<1>1. r \in table.holders /\ q \in table.holders
  BY DEF LockInv, GuardsHold
<1>2. table.holders = {r}
  BY <1>1 DEF WriterAlone
<1> QED BY <1>1, <1>2

(* Where a put or a delete works it has its guard.                         *)
LEMMA AtGuard ==
  ASSUME NEW r \in Requests, Writes(r),
         pc[r] \in {"locked", "checked", "stored", "writing", "written"}
  PROVE  HasGuard(r)
BY DEF HasGuard, Locks, Running

(* Metadata is never without a file.                                       *)
LEMMA PhantomStep ==
  ASSUME LockInv, PhantomInv, [Next]_vars
  PROVE  PhantomInv'
<1> SUFFICES ASSUME Exclusive'
             PROVE  WriterInv' /\ FileFirst' /\ MetaGone' /\ MetaHasFile'
  BY DEF PhantomInv
<1>0. TypeOK /\ LockInv'
  BY LockStep DEF LockInv
<1>1. Exclusive /\ WriterInv /\ FileFirst /\ MetaGone /\ MetaHasFile
  BY <1>0, ExclusiveStep DEF PhantomInv
<1>2. WriterInv' /\ WriterAlone
  BY <1>0, <1>1, WriterStep DEF WriterInv
<1>3. UNCHANGED kind
  BY KindsStay
<1>4. FileFirst'
  <2> SUFFICES ASSUME NEW q \in Requests, kind[q] = "put"
               PROVE  /\ pc'[q] = "stored" => file' = q
                      /\ \A i \in Logged' : Is(i, "change", q)' => file' = q
    BY <1>3 DEF FileFirst
  <2>1. ASSUME file = q, pc[q] # "checked",
               pc[q] = "stored" \/ \E k \in Logged : Is(k, "change", q)
        PROVE  file' = q
    <3>1. ASSUME NEW r \in Requests, Writes(r), HasGuard(r) PROVE r = q
      BY <1>1, <1>2, <2>1, <3>1, OneGuard, AtGuard DEF WriterInv, WriterChanges, Writes
    <3>2. ASSUME NEW r \in Requests, At(r, "put", "checked") PROVE FALSE
      BY <2>1, <3>1, <3>2, AtGuard DEF At, Writes
    <3>3. ASSUME NEW r \in Requests, At(r, "delete", "written") PROVE FALSE
      BY <2>1, <3>1, <3>3, AtGuard DEF At, Writes
    <3> QED BY <1>0, <2>1, <3>2, <3>3, FileMoves
  <2>2. ASSUME pc[q] = "stored" PROVE file' = q
    BY <1>1, <2>1, <2>2 DEF FileFirst
  <2>3. ASSUME NEW k \in Logged, Is(k, "change", q) PROVE file' = q
    <3>1. pc[q] # "checked"
      BY <2>3 DEF LockInv, ChangesInLog
    <3> QED BY <1>1, <2>1, <2>3, <3>1 DEF FileFirst
  <2>4. pc'[q] = "stored" => file' = q
    BY <1>0, <2>2, PcMoves DEF StorageCommit
  <2>5. Submits(q) => pc[q] = "stored"
    BY DEF Submits, put_object_metadata, delete_object_metadata, SubmitBucket, At
  <2>6. ASSUME NEW i \in Logged', Is(i, "change", q)' PROVE file' = q
    BY <1>0, <2>2, <2>3, <2>5, <2>6, OldChanges
  <2> QED BY <2>4, <2>6
<1>5. MetaGone'
  <2> SUFFICES ASSUME NEW q \in Requests, kind[q] = "delete", pc'[q] = "written"
               PROVE  meta' = NoObject
    BY <1>3 DEF MetaGone, At
  <2>1. CASE pc[q] = "written"
    <3>1. meta = NoObject /\ HasGuard(q) /\ Writes(q)
      BY <1>1, <2>1, AtGuard DEF MetaGone, At, Writes
    <3>2. ASSUME NEW r \in Requests, Changed(r), Writes(r) PROVE meta' = NoObject
      <4>1. 1 \in Logged /\ Is(1, "change", r)
        BY <3>2 DEF Changed, Advances
      <4>2. r = q
        BY <1>1, <3>1, <3>2, <4>1 DEF WriterInv, WriterChanges
      <4> QED BY <3>2, <4>2 DEF Changed
    <3> QED BY <1>0, <3>1, <3>2, MetaMoves
  <2>2. CASE Changed(q)
    BY <2>2 DEF Changed
  <2> QED BY <1>0, <2>1, <2>2, PcMoves
<1>6. MetaHasFile'
  <2>1. ASSUME NEW r \in Requests, Changed(r), Writes(r) PROVE MetaHasFile'
    <3>1. CASE kind[r] = "put"
      <4>1. 1 \in Logged /\ Is(1, "change", r) /\ UNCHANGED file
        BY <2>1 DEF Changed, Advances
      <4> QED BY <1>1, <3>1, <4>1, NoObjectAssumption DEF FileFirst, MetaHasFile
    <3>2. CASE kind[r] = "delete"
      <4>1. meta' = NoObject
        BY <2>1, <3>2 DEF Changed
      <4> QED BY <4>1 DEF MetaHasFile
    <3> QED BY <2>1, <3>1, <3>2 DEF Writes
  <2>2. CASE UNCHANGED meta
    <3>1. ASSUME NEW r \in Requests, file' = r PROVE file' # NoObject
      BY <3>1, NoObjectAssumption
    <3> QED BY <1>0, <1>1, <2>2, <3>1, FileMoves DEF MetaHasFile, MetaGone
  <2> QED BY <1>0, <2>1, <2>2, MetaMoves
<1> QED BY <1>2, <1>4, <1>5, <1>6

(* The invariant from which NoPhantom follows.                             *)
StoreInv == LockInv /\ PhantomInv

(* Nothing has happened at first.                                          *)
LEMMA StoreInit ==
  ASSUME Init
  PROVE  StoreInv
<1>1. TypeOK
  <2>1. faults \subseteq FaultKinds /\ kind \in [Requests -> Kind]
    <3>1. PICK e \in Environments : faults = e[1] /\ kind \in [Requests -> e[2]]
      BY DEF Init
    <3>2. e[1] \subseteq FaultKinds /\ e[2] \subseteq Kind
      BY EnvironmentsAssumption
    <3> QED BY <3>1, <3>2
  <2>2. log \in Seq(Command)
    BY EmptySeq DEF Init
  <2>3. pc \in [Requests -> PC] /\ result \in [Requests -> Result]
    BY DEF Init, PC, Result
  <2>4. got \in [Requests -> [meta : Object, file : Object]]
    BY DEF Init, Object
  <2>5. /\ table \in [type : {"none", "Read", "Write"}, holders : SUBSET Requests]
        /\ table.type = "none" <=> table.holders = {}
    BY DEF Init, NoLock
  <2>6. /\ applied \subseteq Requests /\ stale \subseteq Requests
        /\ meta \in Object /\ file \in Object
        /\ bucket \in BOOLEAN /\ cached \in BOOLEAN /\ stopped \in BOOLEAN
    BY DEF Init, Object
  <2>7. crashes \in 0 .. MaxCrashes
    BY BoundsAssumption DEF Init
  <2> QED BY <2>1, <2>2, <2>3, <2>4, <2>5, <2>6, <2>7 DEF TypeOK
<1>2. Logged = {}
  BY EmptySeq DEF Init, Logged
<1>3. \A r \in Requests : pc[r] = "idle"
  BY DEF Init
<1>4. table.holders = {} /\ stale = {} /\ meta = NoObject
  BY DEF Init, NoLock
<1>5. LockInv
  BY <1>1, <1>2, <1>3, <1>4 DEF LockInv, Waiting, AcquiresInLog, ChangesInLog, ReleasesInLog,
     GuardsHold, HoldersLock, NothingStale, HasGuard, Running
<1>6. PhantomInv
  BY <1>1, <1>2, <1>3, <1>4 DEF PhantomInv, WriterInv, WriterAlone, ChangesOwned,
     WriterChanges, FileFirst, MetaGone, MetaHasFile, At, HasGuard, Running
<1> QED BY <1>5, <1>6 DEF StoreInv

(* The lock, the log and the handlers fit together at all times, through   *)
(* failures, cancelled requests and crashes.                               *)
THEOREM StoreInductive == Spec => []StoreInv
<1>1. Init => StoreInv
  BY StoreInit
<1>2. StoreInv /\ [Next]_vars => StoreInv'
  BY LockStep, PhantomStep DEF StoreInv
<1> QED BY <1>1, <1>2, PTL DEF Spec

(* There is never metadata without a file.                                 *)
THEOREM NeverPhantom == Spec => []NoPhantom
<1>1. StoreInv => NoPhantom
  BY DEF StoreInv, PhantomInv, Exclusive, AllWriters, MetaHasFile, NoPhantom
<1> QED BY <1>1, StoreInductive, PTL
-----------------------------------------------------------------------------
(* Metadata and file together, where the failures are harmless.            *)

(* What is not together is with a put that holds the lock, and that goes   *)
(* on to change the metadata unless the Raft node has stopped.             *)
Together ==
  meta # NoObject =>
    \/ file = meta
    \/ \E r \in table.holders :
         kind[r] = "put" /\ (pc[r] \in {"stored", "writing"} \/ stopped)

(* What a get has read.                                                    *)
GetsRead ==
  \A r \in Requests : kind[r] = "get" =>
    /\ pc[r] \in {"idle", "acquiring", "locked", "found", "dropping", "done"}
    /\ result[r] # "none" => pc[r] \in {"dropping", "done"}
    /\ pc[r] \in {"idle", "acquiring", "locked"} => got[r].meta = NoObject
    /\ pc[r] = "found" /\ Strong => got[r].meta = meta

MatchInv == faults \subseteq Harmless => crashes = 0 /\ Together /\ GetsRead /\ GetConsistent

(* A stopped Raft node stays so and applies nothing.                       *)
LEMMA StoppedStays ==
  ASSUME TypeOK, [Next]_vars, stopped
  PROVE  stopped' /\ UNCHANGED table
<1>1. ASSUME NEW r \in Requests, Proceeds(r) PROVE stopped' /\ UNCHANGED table
  BY <1>1, ProceedsGoes DEF Goes, lockVars
<1>2. ASSUME NEW r \in Requests, Submits(r) PROVE stopped' /\ UNCHANGED table
  BY <1>2, SubmitsChange DEF Changes, lockVars
<1>3. ASSUME NEW r \in Requests, AcquireLock(r) \/ ReleaseGuard(r) \/ ReleaseFails(r)
      PROVE  stopped' /\ UNCHANGED table
  BY <1>3 DEF AcquireLock, ReleaseGuard, ReleaseFails, lockVars
<1>4. CASE \/ UNCHANGED vars \/ ApplyAcquire \/ ApplyRelease \/ ApplyChange
           \/ CacheExpires \/ Crash
  BY <1>4 DEF vars, ApplyAcquire, ApplyRelease, ApplyChange, CacheExpires, Crash, lockVars
<1> QED BY <1>1, <1>2, <1>3, <1>4, NextKinds

(* A put that has its file in place goes on to its metadata.               *)
LEMMA PutGoesOn ==
  ASSUME TypeOK, [Next]_vars, faults \subseteq Harmless, ~stopped,
         NEW q \in Requests, kind[q] = "put", pc[q] \in {"stored", "writing"}
  PROVE  pc'[q] \in {"stored", "writing"} \/ Changed(q)
<1>1. ASSUME NEW r \in Requests, Proceeds(r) PROVE pc'[q] = pc[q]
  <2>1. CASE r = q
    BY <1>1, <2>1 DEF Proceeds, AcquireFails, BucketCached, BucketRead, BucketRemember,
      StorageCommit, StorageFails, PutReturns, DeleteLooksUp, Unlink, UnlinkFails,
      GetMetadata, GetFile, head_object, CreateLooksUp, DeleteBucketLooksUp,
      DeleteBucketLists, BucketReturns, WriteFails, SubmitRefused, Cancel, At, Harmless
  <2>2. CASE r # q
    BY <1>1, <2>2, ProceedsGoes DEF Goes, TypeOK
  <2> QED BY <2>1, <2>2
<1>2. ASSUME NEW r \in Requests, Submits(r) PROVE pc'[q] \in {"stored", "writing"}
  BY <1>2, SubmitsChange DEF Changes, TypeOK
<1>3. ASSUME NEW r \in Requests, AcquireLock(r) \/ ReleaseGuard(r) \/ ReleaseFails(r)
      PROVE  pc'[q] = pc[q]
  BY <1>3 DEF AcquireLock, ReleaseGuard, ReleaseFails, Goto, TypeOK
<1>4. CASE UNCHANGED vars \/ ApplyRelease \/ CacheExpires \/ Crash
  BY <1>4 DEF vars, ApplyRelease, CacheExpires, Crash, Harmless
<1>5. CASE ApplyAcquire
  BY <1>5, AcquireApplied DEF Granted
<1>6. CASE ApplyChange
  <2>1. CASE Stops
    BY <2>1 DEF Stops
  <2>2. ASSUME NEW r \in Requests, Changed(r) PROVE pc'[q] = pc[q] \/ q = r
    BY <2>2 DEF Changed, TypeOK
  <2> QED BY <1>6, <2>1, <2>2, ChangeApplied
<1> QED BY <1>1, <1>2, <1>3, <1>4, <1>5, <1>6, NextKinds

(* What a get does.                                                        *)
LEMMA GetMoves ==
  ASSUME TypeOK, [Next]_vars, faults \subseteq Harmless,
         NEW q \in Requests, kind[q] = "get",
         pc[q] \in {"idle", "acquiring", "locked", "found", "dropping", "done"}
  PROVE  \/ GetMetadata(q) \/ GetFile(q)
         \/ /\ result'[q] = result[q] /\ got'[q] = got[q]
            /\ \/ pc'[q] = pc[q]
               \/ pc[q] \in {"idle", "acquiring"} /\ pc'[q] \in {"idle", "acquiring", "locked"}
               \/ pc[q] = "dropping" /\ pc'[q] = "done"
         \/ /\ pc[q] \in {"idle", "acquiring", "locked"} /\ got'[q] = got[q]
            /\ pc'[q] \in {"dropping", "done"}
<1> DEFINE Same == pc'[q] = pc[q] /\ result'[q] = result[q] /\ got'[q] = got[q]
<1>1. ASSUME NEW r \in Requests, Proceeds(r), r # q PROVE Same
  <2>1. pc'[q] = pc[q]
    BY <1>1, ProceedsGoes DEF Goes, TypeOK
  <2>2. result'[q] = result[q] /\ got'[q] = got[q]
    BY <1>1 DEF Proceeds, AcquireFails, BucketCached, BucketRead, BucketRemember,
      StorageCommit, StorageFails, PutReturns, DeleteLooksUp, Unlink, UnlinkFails,
      GetMetadata, GetFile, head_object, CreateLooksUp, DeleteBucketLooksUp,
      DeleteBucketLists, BucketReturns, WriteFails, SubmitRefused, Cancel,
      Return, reqVars, TypeOK
  <2> QED BY <2>1, <2>2
<1>2. ASSUME Proceeds(q)
      PROVE  \/ GetMetadata(q) \/ GetFile(q)
             \/ /\ pc[q] \in {"idle", "acquiring", "locked"} /\ got'[q] = got[q]
                /\ pc'[q] \in {"dropping", "done"}
  <2>1. GetMetadata(q) \/ GetFile(q) \/ AcquireFails(q) \/ SubmitRefused(q)
    BY <1>2 DEF Proceeds, BucketCached, BucketRead, BucketRemember,
      StorageCommit, StorageFails, PutReturns, DeleteLooksUp, Unlink, UnlinkFails,
      head_object, CreateLooksUp, DeleteBucketLooksUp,
      DeleteBucketLists, BucketReturns, WriteFails, Cancel, At, Harmless
  <2>2. CASE AcquireFails(q) \/ SubmitRefused(q)
    BY <2>2 DEF AcquireFails, SubmitRefused, Return, Goto, At, reqVars, TypeOK
  <2> QED BY <2>1, <2>2
<1>3. ASSUME NEW r \in Requests, Submits(r) PROVE Same
  <2>1. r # q
    BY <1>3 DEF Submits, put_object_metadata, delete_object_metadata, SubmitBucket, At
  <2> QED BY <1>3, <2>1, SubmitsChange DEF Changes, TypeOK
<1>4. ASSUME NEW r \in Requests, AcquireLock(r) \/ ReleaseGuard(r) \/ ReleaseFails(r)
      PROVE  /\ result'[q] = result[q] /\ got'[q] = got[q]
             /\ \/ pc'[q] = pc[q]
                \/ pc[q] = "idle" /\ pc'[q] = "acquiring"
                \/ pc[q] = "dropping" /\ pc'[q] = "done"
  BY <1>4 DEF AcquireLock, ReleaseGuard, ReleaseFails, Goto, TypeOK, reqVars
<1>5. CASE UNCHANGED vars \/ ApplyRelease \/ CacheExpires \/ Crash
  BY <1>5 DEF vars, ApplyRelease, CacheExpires, Crash, Harmless, reqVars
<1>6. CASE ApplyAcquire
  <2>1. PICK r \in Requests : Granted(r)
    BY <1>6, AcquireApplied
  <2> QED BY <2>1 DEF Granted
<1>7. CASE ApplyChange
  <2>1. CASE Stops
    BY <2>1 DEF Stops
  <2>2. ASSUME NEW r \in Requests, Changed(r) PROVE Same
    BY <2>2 DEF Changed, TypeOK
  <2> QED BY <1>7, <2>1, <2>2, ChangeApplied
<1> QED BY <1>1, <1>2, <1>3, <1>4, <1>5, <1>6, <1>7, NextKinds

(* Metadata, file and what gets have read stay together.                   *)
LEMMA MatchStep ==
  ASSUME StoreInv, MatchInv, [Next]_vars
  PROVE  MatchInv'
<1>0. TypeOK /\ TypeOK' /\ LockInv /\ LockInv' /\ UNCHANGED <<faults, kind>>
  BY LockStep, KindsStay DEF StoreInv, LockInv
<1> SUFFICES ASSUME faults \subseteq Harmless
             PROVE  crashes' = 0 /\ Together' /\ GetsRead' /\ GetConsistent'
  BY <1>0 DEF MatchInv
<1>1. crashes = 0 /\ Together /\ GetsRead /\ GetConsistent
  BY DEF MatchInv
<1>2. WriterAlone /\ ChangesOwned /\ FileFirst /\ MetaGone
  BY <1>1 DEF StoreInv, PhantomInv, Exclusive, WriterInv
<1>3. crashes' = 0
  <2>1. ~Crash
    BY DEF Crash, Harmless
  <2> QED
    BY <1>1, <2>1 DEF Next, Put, Delete, Get, Bucket, Apply, vars, AcquireLock, AcquireFails,
      ReleaseGuard, ReleaseFails, BucketCached, BucketRead, BucketRemember,
      StorageCommit, StorageFails, put_object_metadata, PutReturns, DeleteLooksUp,
      delete_object_metadata, Unlink, UnlinkFails, GetMetadata, GetFile, head_object,
      CreateLooksUp, DeleteBucketLooksUp, DeleteBucketLists, SubmitBucket, BucketReturns,
      WriteFails, SubmitRefused, Cancel, ApplyAcquire, ApplyRelease, ApplyChange,
      CacheExpires
<1>4. ASSUME NEW r \in Requests, Changed(r), Writes(r)
      PROVE  /\ meta' = NoObject \/ file' = meta'
             /\ table.holders = {r}
  <2>1. 1 \in Logged /\ Is(1, "change", r) /\ UNCHANGED file
    BY <1>4 DEF Changed, Advances
  <2>2. meta' = NoObject \/ file' = meta'
    BY <1>2, <1>4, <2>1 DEF FileFirst, Changed, Writes
  <2>3. r \in table.holders
    <3>1. ~(crashes > 0)
      BY <1>1
    <3> QED BY <1>2, <1>4, <2>1, <3>1 DEF ChangesOwned
  <2> QED BY <1>2, <1>4, <2>2, <2>3 DEF WriterAlone
<1>5. Together'
  <2>1. CASE \E r \in Requests : Changed(r) /\ Writes(r)
    BY <1>4, <2>1 DEF Together
  <2>2. ASSUME UNCHANGED meta, NEW r \in Requests, At(r, "put", "checked"), Proceeds(r), file' = r,
               file' # file
        PROVE  Together'
    <3>1. StorageCommit(r)
      BY <2>2 DEF Proceeds, AcquireFails, BucketCached, BucketRead, BucketRemember,
        StorageFails, PutReturns, DeleteLooksUp, Unlink, UnlinkFails,
        GetMetadata, GetFile, head_object, CreateLooksUp, DeleteBucketLooksUp,
        DeleteBucketLists, BucketReturns, WriteFails, SubmitRefused, Cancel, At, Harmless
    <3>2. pc'[r] = "stored" /\ kind'[r] = "put"
      BY <1>0, <2>2, <3>1 DEF StorageCommit, Goto, At, TypeOK
    <3>3. HasGuard(r)'
      BY <3>2 DEF HasGuard, Running, Locks, Writes
    <3>4. r \in table'.holders
      BY <1>0, <3>3 DEF LockInv, GuardsHold
    <3> QED BY <3>2, <3>4 DEF Together
  <2>3. ASSUME UNCHANGED meta, NEW r \in Requests, At(r, "delete", "written")
        PROVE  Together'
    BY <1>2, <2>3 DEF Together, MetaGone
  <2>4. CASE UNCHANGED <<meta, file>>
    <3>1. CASE meta = NoObject \/ file = meta
      BY <2>4, <3>1 DEF Together
    <3>2. ASSUME NEW r \in table.holders,
                 kind[r] = "put", pc[r] \in {"stored", "writing"} \/ stopped
          PROVE  Together'
      <4>0. r \in Requests
        BY <1>0 DEF TypeOK
      <4>1. CASE stopped
        BY <1>0, <3>2, <4>1, StoppedStays DEF Together
      <4>2. CASE ~stopped /\ Changed(r)
        BY <1>4, <3>2, <4>0, <4>2 DEF Together, Writes
      <4>3. CASE ~stopped /\ ~Changed(r)
        <5>1. pc'[r] \in {"stored", "writing"} /\ kind'[r] = "put"
          BY <1>0, <3>2, <4>0, <4>3, PutGoesOn
        <5>2. HasGuard(r)'
          BY <5>1 DEF HasGuard, Running, Locks, Writes
        <5>3. r \in table'.holders
          BY <1>0, <4>0, <5>2 DEF LockInv, GuardsHold
        <5> QED BY <5>1, <5>3 DEF Together
      <4> QED BY <4>1, <4>2, <4>3
    <3> QED BY <1>1, <3>1, <3>2 DEF Together
  <2> QED BY <1>0, <2>1, <2>2, <2>3, <2>4, FileMoves, MetaMoves
<1>6. ASSUME NEW q \in Requests, kind[q] = "get", HasGuard(q)
      PROVE  UNCHANGED meta /\ (meta # NoObject => file = meta)
  <2>1. q \in table.holders
    BY <1>0, <1>6 DEF LockInv, GuardsHold
  <2>2. ~Writes(q) /\ \A r \in table.holders : ~Writes(r)
    BY <1>2, <1>6, <2>1 DEF WriterAlone, Writes
  <2>3. UNCHANGED meta
    BY <1>0, <1>4, <1>6, <2>1, <2>2, MetaMoves
  <2> QED BY <1>1, <2>2, <2>3 DEF Together, Writes
<1>7. ASSUME NEW q \in Requests, kind[q] = "get"
      PROVE  /\ pc'[q] \in {"idle", "acquiring", "locked", "found", "dropping", "done"}
             /\ result'[q] # "none" => pc'[q] \in {"dropping", "done"}
             /\ pc'[q] \in {"idle", "acquiring", "locked"} => got'[q].meta = NoObject
             /\ pc'[q] = "found" /\ Strong => got'[q].meta = meta'
             /\ Strong /\ result'[q] # "none" /\ got'[q].meta # NoObject
                  => result'[q] = "ok" /\ got'[q].file = got'[q].meta
  <2>1. /\ pc[q] \in {"idle", "acquiring", "locked", "found", "dropping", "done"}
        /\ result[q] # "none" => pc[q] \in {"dropping", "done"}
        /\ pc[q] \in {"idle", "acquiring", "locked"} => got[q].meta = NoObject
        /\ pc[q] = "found" /\ Strong => got[q].meta = meta
        /\ Strong /\ result[q] # "none" /\ got[q].meta # NoObject
             => result[q] = "ok" /\ got[q].file = got[q].meta
    BY <1>1, <1>7 DEF GetsRead, GetConsistent
  <2>2. CASE GetMetadata(q)
    <3>1. got'[q].meta = meta /\ UNCHANGED meta
      BY <1>0, <2>2 DEF GetMetadata, TypeOK, objVars
    <3>2. CASE meta # NoObject
      <4>1. pc'[q] = "found" /\ result'[q] = result[q]
        BY <1>0, <2>2, <3>2 DEF GetMetadata, Goto, TypeOK
      <4>2. result[q] = "none"
        BY <2>1, <2>2 DEF GetMetadata
      <4> QED BY <3>1, <4>1, <4>2
    <3>3. CASE meta = NoObject
      <4>1. pc'[q] \in {"dropping", "done"}
        BY <1>0, <2>2, <3>3 DEF GetMetadata, Return, Goto, TypeOK
      <4> QED BY <3>1, <3>3, <4>1
    <3> QED BY <3>2, <3>3
  <2>3. CASE GetFile(q)
    <3>1. /\ pc'[q] \in {"dropping", "done"} /\ pc[q] = "found"
          /\ got'[q].meta = got[q].meta /\ got'[q].file = file
          /\ result'[q] = IF file = NoObject THEN "error" ELSE "ok"
      BY <1>0, <2>3 DEF GetFile, Return, Goto, TypeOK, At
    <3>2. CASE Strong
      <4>1. HasGuard(q) /\ got[q].meta = meta
        BY <1>7, <2>1, <3>1, <3>2 DEF HasGuard, Running, Locks
      <4> QED BY <1>6, <1>7, <3>1, <4>1
    <3> QED BY <3>1, <3>2
  <2>4. CASE /\ result'[q] = result[q] /\ got'[q] = got[q]
             /\ \/ pc'[q] = pc[q]
                \/ pc[q] \in {"idle", "acquiring"} /\ pc'[q] \in {"idle", "acquiring", "locked"}
                \/ pc[q] = "dropping" /\ pc'[q] = "done"
    <3>1. pc'[q] = "found" /\ Strong => got'[q].meta = meta'
      <4>1. pc'[q] = "found" /\ Strong => pc[q] = "found" /\ HasGuard(q)
        BY <1>7, <2>4 DEF HasGuard, Running, Locks
      <4> QED BY <1>6, <1>7, <2>1, <2>4, <4>1
    <3> QED BY <2>1, <2>4, <3>1
  <2>5. CASE /\ pc[q] \in {"idle", "acquiring", "locked"} /\ got'[q] = got[q]
             /\ pc'[q] \in {"dropping", "done"}
    BY <2>1, <2>5
  <2> QED BY <1>0, <1>7, <2>1, <2>2, <2>3, <2>4, <2>5, GetMoves
<1>8. GetsRead' /\ GetConsistent'
  BY <1>0, <1>7 DEF GetsRead, GetConsistent
<1> QED BY <1>3, <1>5, <1>8

(* The invariant holds at first.                                           *)
LEMMA MatchInit ==
  ASSUME Init
  PROVE  MatchInv
BY DEF Init, MatchInv, Together, GetsRead, GetConsistent

(* StoreInv and MatchInv hold throughout.                                  *)
THEOREM MatchInductive == Spec => [](StoreInv /\ MatchInv)
<1>1. Init => MatchInv
  BY MatchInit
<1>2. StoreInv /\ MatchInv /\ [Next]_vars => MatchInv'
  BY MatchStep
<1> QED BY <1>1, <1>2, StoreInductive, PTL DEF Spec

(* A lock not acquired, a file not renamed and a file not unlinked leave   *)
(* metadata and file together.                                             *)
THEOREM HarmlessFailures == Spec => []FailuresKeepMatch
<1>1. StoreInv /\ MatchInv => FailuresKeepMatch
  <2> SUFFICES ASSUME StoreInv, MatchInv, faults \subseteq Harmless, Quiet, meta # NoObject
               PROVE  file = meta
    BY DEF FailuresKeepMatch, MetaMatchesFile
  <2> QED BY DEF MatchInv, Together, Quiet, Writes
<1> QED BY <1>1, MatchInductive, PTL

(* A strong get returns the file that belongs to its metadata.             *)
THEOREM StrongGets == Spec => []GetConsistent
<1>1. MatchInv => GetConsistent
  BY DEF MatchInv, GetConsistent
<1> QED BY <1>1, MatchInductive, PTL
-----------------------------------------------------------------------------
(* The metadata is a register.                                             *)

AcquireLogged(r) == \E i \in Logged : Is(i, "acquire", r)

(* A command is applied once, and a put or a delete that succeeds has had  *)
(* its command applied.                                                    *)
AppliedOnce ==
  \A r \in Requests :
    /\ pc[r] \notin {"written", "dropping", "done"} => r \notin applied
    /\ \A i \in Logged : Is(i, "change", r) \/ Is(i, "acquire", r) => r \notin applied
    /\ pc[r] = "written" => r \in applied
    /\ Writes(r) /\ result[r] = "ok" => r \in applied

NeverCrashed == NoCrash => crashes = 0

(* The two ways to say that a request still tries to get the lock.         *)
LEMMA AcquiringIs ==
  ASSUME TypeOK, NEW r \in Requests
  PROVE  Acquiring(r) <=> pc[r] \in {"idle", "acquiring"} \/ AcquireLogged(r)
<1>1. \A i \in Logged : log[i] \in Command
  BY ElementOfSeq DEF TypeOK, Logged
<1>2. \A i \in Logged : log[i] = [type |-> "acquire", req |-> r] <=> Is(i, "acquire", r)
  BY <1>1 DEF Command, Is
<1> QED BY <1>2 DEF Acquiring, AcquireLogged, Logged

(* Another command leaves the acquires in the log, ...                     *)
LEMMA AddsAcquires ==
  ASSUME TypeOK, TypeOK', NEW q \in Requests,
         NEW r \in Requests, NEW t, Adds(r, t), t # "acquire" \/ r # q
  PROVE  AcquireLogged(q)' <=> AcquireLogged(q)
<1>0. Len(log) \in Nat /\ Len(log') \in Nat
  BY LenProperties DEF TypeOK
<1>1. /\ \A i \in Logged : log'[i] = log[i] /\ i \in Logged'
      /\ \A i \in Logged' : i \in Logged \/ i = Len(log')
      /\ ~(log'[Len(log')].type = "acquire" /\ log'[Len(log')].req = q)
  BY <1>0 DEF Adds, Logged
<1>2. ASSUME AcquireLogged(q) PROVE AcquireLogged(q)'
  BY <1>1, <1>2 DEF AcquireLogged, Is
<1>3. ASSUME AcquireLogged(q)' PROVE AcquireLogged(q)
  BY <1>1, <1>3 DEF AcquireLogged, Is
<1> QED BY <1>2, <1>3

(* ... as does applying another, ...                                       *)
LEMMA AdvancesAcquires ==
  ASSUME TypeOK, TypeOK', NEW q \in Requests, Advances, ~Is(1, "acquire", q)
  PROVE  AcquireLogged(q)' <=> AcquireLogged(q)
<1>0. Len(log) \in Nat /\ Len(log') \in Nat
  BY LenProperties DEF TypeOK
<1>1. /\ \A i \in Logged' : i + 1 \in Logged /\ log'[i] = log[i + 1]
      /\ \A k \in Logged : k = 1 \/ (k - 1 \in Logged' /\ log'[k - 1] = log[k])
  BY <1>0 DEF Advances, Logged
<1>2. ASSUME AcquireLogged(q) PROVE AcquireLogged(q)'
  BY <1>1, <1>2 DEF AcquireLogged, Is
<1>3. ASSUME AcquireLogged(q)' PROVE AcquireLogged(q)
  BY <1>1, <1>3 DEF AcquireLogged, Is
<1> QED BY <1>2, <1>3

(* ... and a handler's step.                                               *)
LEMMA ProceedsAcquires ==
  ASSUME TypeOK, NEW q \in Requests, NEW r \in Requests, Proceeds(r)
  PROVE  AcquireLogged(q)' <=> AcquireLogged(q)
<1>1. ASSUME UNCHANGED log PROVE AcquireLogged(q)' <=> AcquireLogged(q)
  BY <1>1 DEF AcquireLogged, Is, Logged
<1>2. CASE WriteFails(r) /\ log' # log
  <2>1. PICK n \in 1 .. Len(log) : log[n] = [type |-> "change", req |-> r] /\ log' = Without(n)
    BY <1>2 DEF WriteFails
  <2>2. Shrinks /\ \A k \in Logged : k = n \/ \E i \in Logged' : log'[i] = log[k]
    BY <2>1, WithoutLog DEF TypeOK
  <2>3. ~Is(n, "acquire", q)
    BY <2>1 DEF Is
  <2>4. \A i \in Logged' : \E k \in Logged : log'[i] = log[k]
    BY <2>2 DEF Shrinks, Logged
  <2> QED BY <2>2, <2>3, <2>4 DEF AcquireLogged, Is
<1>3. CASE ~WriteFails(r)
  <2>1. UNCHANGED log
    BY <1>3 DEF Proceeds, AcquireFails, BucketCached, BucketRead, BucketRemember,
      StorageCommit, StorageFails, PutReturns, DeleteLooksUp, Unlink, UnlinkFails,
      GetMetadata, GetFile, head_object, CreateLooksUp, DeleteBucketLooksUp,
      DeleteBucketLists, BucketReturns, SubmitRefused, Cancel
  <2> QED BY <1>1, <2>1
<1> QED BY <1>1, <1>2, <1>3

(* So the acquire of a request is in the log from its submission until it  *)
(* is applied.                                                             *)
LEMMA AcquiresMove ==
  ASSUME TypeOK, [Next]_vars, ~Crash, NEW q \in Requests
  PROVE  \/ AcquireLogged(q)' <=> AcquireLogged(q)
         \/ AcquireLock(q)
         \/ ApplyAcquire /\ q = Head(log).req
<1>0. TypeOK'
  BY TypeStep
<1>1. ASSUME UNCHANGED log PROVE AcquireLogged(q)' <=> AcquireLogged(q)
  BY <1>1 DEF AcquireLogged, Is, Logged
<1>2. ASSUME NEW r \in Requests, Submits(r)
      PROVE  AcquireLogged(q)' <=> AcquireLogged(q)
  BY <1>0, <1>2, SubmitsChange, AddsAcquires DEF Changes
<1>3. ASSUME NEW r \in Requests, AcquireLock(r), r # q
      PROVE  AcquireLogged(q)' <=> AcquireLogged(q)
  BY <1>0, <1>3, SubmitLog, AddsAcquires DEF AcquireLock, TypeOK
<1>4. ASSUME NEW r \in Requests, ReleaseGuard(r)
      PROVE  AcquireLogged(q)' <=> AcquireLogged(q)
  BY <1>0, <1>4, SubmitLog, AddsAcquires DEF ReleaseGuard, TypeOK
<1>5. CASE UNCHANGED vars \/ CacheExpires \/ \E r \in Requests : ReleaseFails(r)
  BY <1>1, <1>5 DEF vars, CacheExpires, ReleaseFails
<1>6. CASE ApplyAcquire
  <2>1. PICK r \in Requests : r = Head(log).req /\ Granted(r)
    BY <1>6, AcquireApplied
  <2> QED BY <1>0, <1>6, <2>1, AdvancesAcquires DEF Granted, Is
<1>7. CASE ApplyRelease
  <2>1. PICK r \in Requests : Freed(r)
    BY <1>7, ReleaseApplied
  <2> QED BY <1>0, <2>1, AdvancesAcquires DEF Freed, Is
<1>8. CASE ApplyChange
  <2>1. CASE Stops
    BY <1>1, <2>1 DEF Stops
  <2>2. ASSUME NEW r \in Requests, Changed(r) PROVE AcquireLogged(q)' <=> AcquireLogged(q)
    BY <1>0, <2>2, AdvancesAcquires DEF Changed, Is
  <2> QED BY <1>8, <2>1, <2>2, ChangeApplied
<1> QED
  BY <1>2, <1>3, <1>4, <1>5, <1>6, <1>7, <1>8, ProceedsAcquires, NextKinds

(* A handler answers its own request.                                      *)
LEMMA ProceedsResult ==
  ASSUME TypeOK, NEW q \in Requests, NEW r \in Requests, Proceeds(r), r # q
  PROVE  result'[q] = result[q]
<1>1. ASSUME NEW res, Return(r, res) PROVE result'[q] = result[q]
  BY <1>1 DEF Return, TypeOK
<1> QED
  BY <1>1 DEF Proceeds, AcquireFails, BucketCached, BucketRead, BucketRemember,
    StorageCommit, StorageFails, PutReturns, DeleteLooksUp, Unlink, UnlinkFails,
    GetMetadata, GetFile, head_object, CreateLooksUp, DeleteBucketLooksUp,
    DeleteBucketLists, BucketReturns, WriteFails, SubmitRefused, Cancel

(* Answers are given once, and success only by a put or a delete whose     *)
(* command is applied.                                                     *)
LEMMA ResultMoves ==
  ASSUME TypeOK, [Next]_vars, NEW q \in Requests, result'[q] # result[q]
  PROVE  /\ Proceeds(q) /\ pc[q] \notin {"dropping", "done"}
         /\ Writes(q) /\ result'[q] = "ok" => pc[q] = "written"
         /\ pc[q] \in {"idle", "acquiring"} /\ Writes(q) => result'[q] = "error"
<1>1. ASSUME NEW r \in Requests, Proceeds(r) PROVE r = q
  BY <1>1, ProceedsResult
<1>2. \E r \in Requests : Proceeds(r)
  <2>1. ASSUME NEW r \in Requests,
               Submits(r) \/ AcquireLock(r) \/ ReleaseGuard(r) \/ ReleaseFails(r)
        PROVE  UNCHANGED result
    BY <2>1 DEF Submits, put_object_metadata, delete_object_metadata, SubmitBucket,
      AcquireLock, ReleaseGuard, ReleaseFails
  <2>2. CASE \/ UNCHANGED vars \/ ApplyAcquire \/ ApplyRelease \/ ApplyChange
             \/ CacheExpires \/ Crash
    BY <2>2 DEF vars, ApplyAcquire, ApplyRelease, ApplyChange, CacheExpires, Crash
  <2> QED BY <2>1, <2>2, NextKinds
<1>3. Proceeds(q)
  BY <1>1, <1>2
<1>4. pc[q] \notin {"dropping", "done"}
  BY <1>3, ProceedsGoes DEF Goes
<1>5. ASSUME NEW res, Return(q, res) PROVE result'[q] = res
  BY <1>5 DEF Return, TypeOK
<1>6. Writes(q) /\ result'[q] = "ok" => pc[q] = "written"
  BY <1>3, <1>5 DEF Proceeds, AcquireFails, BucketCached, BucketRead, BucketRemember,
      StorageCommit, StorageFails, PutReturns, DeleteLooksUp, Unlink, UnlinkFails,
      GetMetadata, GetFile, head_object, CreateLooksUp, DeleteBucketLooksUp,
      DeleteBucketLists, BucketReturns, WriteFails, SubmitRefused, Cancel, At, Writes
<1>7. pc[q] \in {"idle", "acquiring"} /\ Writes(q) => result'[q] = "error"
  BY <1>3, <1>5 DEF Proceeds, AcquireFails, BucketCached, BucketRead, BucketRemember,
      StorageCommit, StorageFails, PutReturns, DeleteLooksUp, Unlink, UnlinkFails,
      GetMetadata, GetFile, head_object, CreateLooksUp, DeleteBucketLooksUp,
      DeleteBucketLists, BucketReturns, WriteFails, SubmitRefused, Cancel, At, Writes
<1> QED BY <1>3, <1>4, <1>6, <1>7
(* A request that has its command behind it does not go back.              *)
LEMMA NoWayBack ==
  ASSUME TypeOK, [Next]_vars, NEW q \in Requests, pc[q] \in {"written", "dropping", "done"}
  PROVE  pc'[q] \in {"written", "dropping", "done"}
<1>1. ASSUME NEW r \in Requests, Proceeds(r) PROVE pc'[q] \in {"written", "dropping", "done"}
  <2>1. CASE r = q
    <3>1. ASSUME NEW res, Return(q, res) PROVE pc'[q] \in {"dropping", "done"}
      BY <3>1 DEF Return, Goto, TypeOK
    <3> QED
      BY <1>1, <2>1, <3>1 DEF Proceeds, AcquireFails, BucketCached, BucketRead, BucketRemember,
        StorageCommit, StorageFails, PutReturns, DeleteLooksUp, Unlink, UnlinkFails,
        GetMetadata, GetFile, head_object, CreateLooksUp, DeleteBucketLooksUp,
        DeleteBucketLists, BucketReturns, WriteFails, SubmitRefused, Cancel, At
  <2>2. CASE r # q
    BY <1>1, <2>2, ProceedsGoes DEF Goes, TypeOK
  <2> QED BY <2>1, <2>2
<1>2. ASSUME NEW r \in Requests, Submits(r) PROVE pc'[q] = pc[q]
  BY <1>2, SubmitsChange DEF Changes, TypeOK
<1>3. ASSUME NEW r \in Requests, AcquireLock(r) \/ ReleaseGuard(r) \/ ReleaseFails(r)
      PROVE  pc'[q] = pc[q] \/ pc'[q] = "done"
  BY <1>3 DEF AcquireLock, ReleaseGuard, ReleaseFails, Goto, TypeOK
<1>4. CASE UNCHANGED vars \/ ApplyRelease \/ CacheExpires \/ Crash
  BY <1>4 DEF vars, ApplyRelease, CacheExpires, Crash, TypeOK
<1>5. CASE ApplyAcquire
  BY <1>5, AcquireApplied DEF Granted
<1>6. CASE ApplyChange
  <2>1. CASE Stops
    BY <2>1 DEF Stops
  <2>2. ASSUME NEW r \in Requests, Changed(r) PROVE pc'[q] = pc[q]
    BY <2>2 DEF Changed, TypeOK
  <2> QED BY <1>6, <2>1, <2>2, ChangeApplied
<1> QED BY <1>1, <1>2, <1>3, <1>4, <1>5, <1>6, NextKinds

(* Which command was applied.                                              *)
LEMMA AppliedMoves ==
  ASSUME TypeOK, [Next]_vars
  PROVE  UNCHANGED applied \/ \E r \in Requests : Changed(r)
<1>1. ASSUME NEW r \in Requests, Proceeds(r) PROVE UNCHANGED applied
  BY <1>1, ProceedsGoes DEF Goes
<1>2. ASSUME NEW r \in Requests,
             Submits(r) \/ AcquireLock(r) \/ ReleaseGuard(r) \/ ReleaseFails(r)
      PROVE  UNCHANGED applied
  BY <1>2 DEF Submits, put_object_metadata, delete_object_metadata, SubmitBucket,
      AcquireLock, ReleaseGuard, ReleaseFails
<1>3. CASE UNCHANGED vars \/ ApplyAcquire \/ ApplyRelease \/ CacheExpires \/ Crash
  BY <1>3 DEF vars, ApplyAcquire, ApplyRelease, CacheExpires, Crash
<1>4. CASE ApplyChange
  BY <1>4, ChangeApplied DEF Stops
<1> QED BY <1>1, <1>2, <1>3, <1>4, NextKinds

(* No command is applied twice.                                            *)
LEMMA AppliedStep ==
  ASSUME LockInv, AppliedOnce, [Next]_vars
  PROVE  AppliedOnce'
<1>0. /\ TypeOK /\ TypeOK' /\ Len(log) \in Nat /\ Len(log') \in Nat
      /\ UNCHANGED kind
  BY TypeStep, KindsStay, LenProperties DEF TypeOK, LockInv
<1> SUFFICES ASSUME NEW q \in Requests
             PROVE  /\ pc'[q] \notin {"written", "dropping", "done"} => q \notin applied'
                    /\ \A i \in Logged' : Is(i, "change", q)' \/ Is(i, "acquire", q)'
                                            => q \notin applied'
                    /\ pc'[q] = "written" => q \in applied'
                    /\ Writes(q)' /\ result'[q] = "ok" => q \in applied'
  BY DEF AppliedOnce
<1>1. /\ pc[q] \notin {"written", "dropping", "done"} => q \notin applied
      /\ \A i \in Logged : Is(i, "change", q) \/ Is(i, "acquire", q) => q \notin applied
      /\ pc[q] = "written" => q \in applied
      /\ Writes(q) /\ result[q] = "ok" => q \in applied
  BY DEF AppliedOnce
<1>2. applied \subseteq applied' /\ (q \in applied' => q \in applied \/ Changed(q))
  BY <1>0, AppliedMoves DEF Changed
<1>3. ASSUME Changed(q)
      PROVE  /\ q \in applied' /\ pc'[q] \in {"written", "dropping", "done"}
             /\ \A i \in Logged' : ~Is(i, "change", q)' /\ ~Is(i, "acquire", q)'
  <2>1. 1 \in Logged /\ Is(1, "change", q) /\ q \in applied'
    BY <1>3 DEF Changed, Advances
  <2>2. \A i \in Logged' : i + 1 \in Logged /\ i + 1 # 1 /\ log'[i] = log[i + 1]
    BY <1>0, <1>3 DEF Changed, Advances, Logged
  <2>3. pc[q] \in {"writing", "dropping", "done"} /\ \A j \in Logged : Is(j, "change", q) => j = 1
    BY <2>1 DEF LockInv, ChangesInLog
  <2>4. pc'[q] \in {"written", "dropping", "done"}
    BY <1>0, <1>3, <2>3 DEF Changed, TypeOK
  <2>5. \A j \in Logged : ~Is(j, "acquire", q)
    BY <2>1 DEF LockInv, AcquiresInLog, Is
  <2> QED BY <2>1, <2>2, <2>3, <2>4, <2>5 DEF Is
<1>4. pc'[q] \notin {"written", "dropping", "done"} => q \notin applied'
  BY <1>0, <1>1, <1>2, <1>3, NoWayBack
<1>5. ASSUME NEW i \in Logged', Is(i, "change", q)', ~Changed(q) PROVE q \notin applied'
  <2>1. Submits(q) => pc[q] \in {"stored", "checked"}
    BY DEF Submits, put_object_metadata, delete_object_metadata, SubmitBucket, At
  <2> QED BY <1>0, <1>1, <1>2, <1>5, <2>1, OldChanges
<1>6. ASSUME NEW i \in Logged', Is(i, "acquire", q)', ~Changed(q) PROVE q \notin applied'
  <2>1. AcquireLogged(q)'
    BY <1>6 DEF AcquireLogged
  <2>2. CASE AcquireLogged(q)
    BY <1>1, <1>2, <1>6, <2>2 DEF AcquireLogged
  <2>3. CASE AcquireLock(q)
    <3>1. pc[q] = "idle"
      BY <2>3 DEF AcquireLock
    <3> QED BY <1>1, <1>2, <1>6, <3>1
  <2>4. CASE ApplyAcquire /\ q = Head(log).req
    <3>1. Granted(q)
      BY <1>0, <2>4, AcquireApplied
    <3>2. AcquireLogged(q)
      BY <3>1 DEF Granted, Advances, AcquireLogged
    <3> QED BY <2>2, <3>2
  <2>5. CASE Crash
    <3>1. Shrinks
      BY <1>0, <2>5, PrefixLog DEF Crash, TypeOK
    <3>2. AcquireLogged(q)
      BY <1>6, <3>1 DEF Shrinks, AcquireLogged, Is, Logged
    <3> QED BY <2>2, <3>2
  <2> QED BY <1>0, <2>1, <2>2, <2>3, <2>4, <2>5, AcquiresMove
<1>7. pc'[q] = "written" => q \in applied'
  BY <1>0, <1>1, <1>2, <1>3, PcMoves
<1>8. Writes(q)' /\ result'[q] = "ok" => q \in applied'
  <2>1. Writes(q)' <=> Writes(q)
    BY <1>0 DEF Writes
  <2> QED BY <1>0, <1>1, <1>2, <2>1, ResultMoves
<1> QED BY <1>3, <1>4, <1>5, <1>6, <1>7, <1>8

(* Without crashes in the environment there are none.                      *)
LEMMA NoCrashStep ==
  ASSUME NeverCrashed, [Next]_vars
  PROVE  NeverCrashed'
<1>1. UNCHANGED faults
  BY KindsStay
<1>2. NoCrash => UNCHANGED crashes
  BY DEF NoCrash, Next, Put, Delete, Get, Bucket, Apply, vars, AcquireLock, AcquireFails,
      ReleaseGuard, ReleaseFails, BucketCached, BucketRead, BucketRemember,
      StorageCommit, StorageFails, put_object_metadata, PutReturns, DeleteLooksUp,
      delete_object_metadata, Unlink, UnlinkFails, GetMetadata, GetFile, head_object,
      CreateLooksUp, DeleteBucketLooksUp, DeleteBucketLists, SubmitBucket, BucketReturns,
      WriteFails, SubmitRefused, Cancel, ApplyAcquire, ApplyRelease, ApplyChange,
      CacheExpires, Crash
<1> QED BY <1>1, <1>2 DEF NeverCrashed, NoCrash

RegisterInv == StoreInv /\ AppliedOnce /\ NeverCrashed

(* What the refinement rests on.                                           *)
THEOREM RegisterInductive == Spec => []RegisterInv
<1>1. Init => AppliedOnce /\ NeverCrashed
  <2> SUFFICES ASSUME Init PROVE AppliedOnce /\ NeverCrashed
    OBVIOUS
  <2>1. Logged = {}
    BY EmptySeq DEF Init, Logged
  <2> QED BY <2>1 DEF Init, AppliedOnce, NeverCrashed
<1>2. RegisterInv /\ [Next]_vars => (AppliedOnce /\ NeverCrashed)'
  BY AppliedStep, NoCrashStep DEF RegisterInv, StoreInv
<1> QED BY <1>1, <1>2, StoreInductive, PTL DEF Spec, RegisterInv
(* What the register sees of a request.                                    *)
LEMMA SameStatus ==
  ASSUME TypeOK, TypeOK', UNCHANGED <<faults, kind>>, NEW q \in Requests,
         q \in table'.holders <=> q \in table.holders,
         q \in table.holders => (q \in applied' <=> q \in applied),
         q \notin table.holders /\ Writes(q) =>
            /\ Acquiring(q)' <=> Acquiring(q)
            /\ Acquiring(q) \/ result'[q] = result[q]
  PROVE  Status(q)' = Status(q)
<1>1. (Writes(q)' <=> Writes(q)) /\ (NoCrash' <=> NoCrash)
  BY DEF Writes, NoCrash
<1>2. CASE ~Writes(q) \/ ~NoCrash
  BY <1>1, <1>2 DEF Status
<1>3. CASE Writes(q) /\ NoCrash /\ q \in table.holders
  BY <1>1, <1>3 DEF Status
<1>4. CASE Writes(q) /\ NoCrash /\ q \notin table.holders
  <2>1. CASE Acquiring(q)
    BY <1>1, <1>4, <2>1 DEF Status
  <2>2. CASE ~Acquiring(q)
    BY <1>1, <1>4, <2>2 DEF Status
  <2> QED BY <2>1, <2>2
<1> QED BY <1>2, <1>3, <1>4

(* What the steps of the handlers and the state machine are to it.         *)
Stutters == UNCHANGED meta /\ \A q \in Requests : Status(q)' = Status(q)

Outcome(r) == IF kind[r] = "put" THEN r ELSE NoObject

Progresses(r) ==
  \/ /\ Status(r) = "idle" /\ Status(r)' = "active" /\ UNCHANGED meta
     /\ \A v \in Requests : Status(v) \in {"idle", "acked", "failed"}
  \/ Status(r) = "idle" /\ Status(r)' = "failed" /\ UNCHANGED meta
  \/ Status(r) = "active" /\ Status(r)' = "effective" /\ meta' = Outcome(r)
  \/ Status(r) = "effective" /\ Status(r)' = "acked" /\ UNCHANGED meta
  \/ Status(r) \in {"active", "effective"} /\ Status(r)' = "failed" /\ UNCHANGED meta

(* Each is a step of the register or none.                                 *)
LEMMA RegisterStep ==
  ASSUME RegisterInv, [Next]_vars, NoCrash
  PROVE  \/ Stutters
         \/ \E r \in Requests :
              Progresses(r) /\ \A q \in Requests : q # r => Status(q)' = Status(q)
<1>0. /\ TypeOK /\ TypeOK' /\ LockInv /\ LockInv' /\ UNCHANGED <<faults, kind>>
      /\ AppliedOnce /\ crashes = 0 /\ stale = {} /\ ~Crash /\ Exclusive
      /\ WriterAlone /\ ChangesOwned
  <2>1. LockInv /\ LockInv' /\ UNCHANGED <<faults, kind>> /\ AppliedOnce /\ crashes = 0
    BY LockStep, KindsStay DEF RegisterInv, StoreInv, NeverCrashed
  <2>2. stale = {} /\ ~Crash /\ Exclusive
    BY <2>1 DEF LockInv, NothingStale, Crash, NoCrash, Exclusive
  <2> QED BY <2>1, <2>2 DEF LockInv, RegisterInv, StoreInv, PhantomInv, WriterInv
<1>1. \A q \in Requests :
        /\ Acquiring(q) <=> pc[q] \in {"idle", "acquiring"} \/ AcquireLogged(q)
        /\ Acquiring(q)' <=> pc'[q] \in {"idle", "acquiring"} \/ AcquireLogged(q)'
        /\ (Writes(q)' <=> Writes(q)) /\ NoCrash'
  <2>1. \A q \in Requests : Acquiring(q) <=> pc[q] \in {"idle", "acquiring"} \/ AcquireLogged(q)
    BY <1>0, AcquiringIs
  <2>2. \A q \in Requests :
          Acquiring(q)' <=> pc'[q] \in {"idle", "acquiring"} \/ AcquireLogged(q)'
    <3>1. \A i \in Logged' : log'[i] \in Command
      BY <1>0, ElementOfSeq DEF TypeOK, Logged
    <3>2. \A q \in Requests, i \in Logged' :
            log'[i] = [type |-> "acquire", req |-> q] <=> Is(i, "acquire", q)'
      BY <3>1 DEF Command, Is
    <3> QED BY <3>2 DEF Acquiring, AcquireLogged, Logged
  <2> QED BY <1>0, <2>1, <2>2 DEF Writes, NoCrash
<1>2. ASSUME NEW r \in Requests, Proceeds(r)
      PROVE  \/ Stutters
             \/ Progresses(r) /\ \A q \in Requests : q # r => Status(q)' = Status(q)
  <2>1. PICK p \in PC : Goes(r, p)
    BY <1>0, <1>2, ProceedsGoes
  <2>2. UNCHANGED <<table, applied, meta>> /\ \A q \in Requests : pc'[q] = IF q = r THEN p ELSE pc[q]
    BY <1>0, <2>1 DEF Goes, TypeOK, lockVars
  <2>3. \A q \in Requests : AcquireLogged(q)' <=> AcquireLogged(q)
    BY <1>0, <1>2, ProceedsAcquires
  <2>4. ASSUME NEW q \in Requests, q # r PROVE Status(q)' = Status(q)
    <3>1. result'[q] = result[q]
      BY <1>0, <1>2, <2>4, ProceedsResult
    <3>2. Acquiring(q)' <=> Acquiring(q)
      BY <1>1, <2>2, <2>3, <2>4
    <3> QED BY <1>0, <2>2, <3>1, <3>2, SameStatus
  <2>5. CASE ~Writes(r) \/ r \in table.holders
    <3>1. Status(r)' = Status(r)
      BY <1>0, <2>2, <2>5, SameStatus
    <3> QED BY <2>2, <2>4, <3>1 DEF Stutters
  <2>6. CASE Writes(r) /\ r \notin table.holders
    <3>1. ~HasGuard(r)
      BY <1>0, <2>6 DEF LockInv, GuardsHold
    <3>2. pc[r] \in {"idle", "acquiring"} /\ p = "done"
      BY <2>1, <2>6, <3>1 DEF Goes, HasGuard, Locks, Running
    <3>3. r \notin applied /\ result[r] # "ok"
      BY <1>0, <2>6, <3>2 DEF AppliedOnce
    <3>4. result'[r] # "ok"
      <4>1. CASE result'[r] = result[r]
        BY <3>3, <4>1
      <4>2. CASE result'[r] # result[r]
        BY <1>0, <2>6, <3>2, <4>2, ResultMoves
      <4> QED BY <4>1, <4>2
    <3>5. Status(r) = "idle"
      BY <1>1, <2>6, <3>2 DEF Status
    <3>6. CASE AcquireLogged(r)
      <4>1. Acquiring(r)'
        BY <1>1, <2>3, <3>6
      <4>2. Status(r)' = "idle"
        BY <1>1, <2>2, <2>6, <4>1 DEF Status
      <4> QED BY <2>2, <2>4, <3>5, <4>2 DEF Stutters
    <3>7. CASE ~AcquireLogged(r)
      <4>1. ~Acquiring(r)'
        BY <1>1, <2>2, <2>3, <3>2, <3>7
      <4>2. Status(r)' = "failed"
        BY <1>1, <2>2, <2>6, <3>4, <4>1 DEF Status
      <4> QED BY <2>2, <2>4, <3>5, <4>2 DEF Progresses
    <3> QED BY <3>6, <3>7
  <2> QED BY <2>5, <2>6
<1>3. ASSUME UNCHANGED <<table, applied, meta, result>>, NEW r \in Requests,
             \A q \in Requests : q # r => pc'[q] = pc[q],
             \A q \in Requests : AcquireLogged(q)' <=> AcquireLogged(q),
             pc'[r] = pc[r] \/ ~Writes(r) \/ r \in table.holders
      PROVE  Stutters
  <2>1. ASSUME NEW q \in Requests PROVE Status(q)' = Status(q)
    <3>1. CASE q = r /\ (~Writes(r) \/ r \in table.holders)
      BY <1>0, <1>3, <3>1, SameStatus
    <3>2. CASE pc'[q] = pc[q]
      <4>1. Acquiring(q)' <=> Acquiring(q)
        BY <1>1, <1>3, <3>2
      <4> QED BY <1>0, <1>3, <4>1, SameStatus
    <3> QED BY <1>3, <3>1, <3>2
  <2> QED BY <1>3, <2>1 DEF Stutters
<1>4. ASSUME NEW r \in Requests, Submits(r) PROVE Stutters
  <2>1. Changes(r)
    BY <1>0, <1>4, SubmitsChange
  <2>2. \A q \in Requests : AcquireLogged(q)' <=> AcquireLogged(q)
    BY <1>0, <2>1, AddsAcquires DEF Changes
  <2>3. Writes(r) => r \in table.holders
    BY <1>0, <2>1 DEF LockInv, GuardsHold, Changes, HasGuard, Running, Locks
  <2>4. /\ UNCHANGED <<table, applied, meta, result>>
        /\ \A q \in Requests : q # r => pc'[q] = pc[q]
    BY <1>0, <2>1 DEF Changes, lockVars, objVars, TypeOK
  <2> QED BY <1>3, <2>2, <2>3, <2>4
<1>5. ASSUME NEW r \in Requests, AcquireLock(r) PROVE Stutters
  <2>1. /\ UNCHANGED <<table, applied, meta, result>>
        /\ \A q \in Requests : q # r => pc'[q] = pc[q]
        /\ pc[r] = "idle" /\ pc'[r] = "acquiring"
    BY <1>0, <1>5 DEF AcquireLock, lockVars, objVars, Goto, TypeOK
  <2>2. Adds(r, "acquire")
    BY <1>0, <1>5, SubmitLog DEF AcquireLock, TypeOK
  <2>3. ASSUME NEW q \in Requests PROVE Acquiring(q)' <=> Acquiring(q)
    <3>1. CASE q = r
      BY <1>1, <2>1, <3>1
    <3>2. CASE q # r
      BY <1>0, <1>1, <2>1, <2>2, <3>2, AddsAcquires
    <3> QED BY <3>1, <3>2
  <2>4. ASSUME NEW q \in Requests PROVE Status(q)' = Status(q)
    BY <1>0, <2>1, <2>3, SameStatus
  <2> QED BY <2>1, <2>4 DEF Stutters
<1>6. ASSUME NEW r \in Requests, ReleaseGuard(r) \/ ReleaseFails(r) PROVE Stutters
  <2>1. /\ UNCHANGED <<table, applied, meta, result>>
        /\ \A q \in Requests : q # r => pc'[q] = pc[q]
        /\ pc[r] = "dropping"
    BY <1>0, <1>6 DEF ReleaseGuard, ReleaseFails, lockVars, objVars, Goto, TypeOK
  <2>2. \A q \in Requests : AcquireLogged(q)' <=> AcquireLogged(q)
    <3>1. CASE ReleaseGuard(r)
      BY <1>0, <3>1, SubmitLog, AddsAcquires DEF ReleaseGuard, TypeOK
    <3>2. CASE ReleaseFails(r)
      BY <3>2 DEF ReleaseFails, AcquireLogged, Is, Logged
    <3> QED BY <1>6, <3>1, <3>2
  <2>3. r \in table.holders
    BY <1>0, <2>1 DEF LockInv, GuardsHold
  <2> QED BY <1>3, <2>1, <2>2, <2>3
<1>7. CASE UNCHANGED vars \/ CacheExpires \/ Stops
  <2>1. UNCHANGED <<table, applied, meta, result, pc, log>>
    BY <1>7 DEF vars, CacheExpires, Stops, lockVars, objVars
  <2>2. ASSUME NEW q \in Requests PROVE Acquiring(q)' <=> Acquiring(q)
    BY <2>1 DEF Acquiring
  <2>3. ASSUME NEW q \in Requests PROVE Status(q)' = Status(q)
    BY <1>0, <2>1, <2>2, SameStatus
  <2> QED BY <2>1, <2>3 DEF Stutters
<1>8. ASSUME NEW r \in Requests, r = Head(log).req, ApplyAcquire, Granted(r)
      PROVE  \/ Stutters
             \/ Progresses(r) /\ \A q \in Requests : q # r => Status(q)' = Status(q)
  <2>1. /\ UNCHANGED <<applied, meta, result>>
        /\ \A q \in Requests : q # r => pc'[q] = pc[q]
        /\ \A q \in Requests : q # r => (q \in table'.holders <=> q \in table.holders)
    BY <1>0, <1>8 DEF Granted, objVars
  <2>2. AcquireLogged(r) /\ 1 \in Logged /\ Is(1, "acquire", r) /\ Advances
    BY <1>8 DEF Granted, Advances, AcquireLogged
  <2>3. r \notin table.holders /\ r \notin applied
    BY <1>0, <2>2 DEF LockInv, AcquiresInLog, AppliedOnce
  <2>4. ASSUME NEW q \in Requests, q # r PROVE Status(q)' = Status(q)
    <3>1. AcquireLogged(q)' <=> AcquireLogged(q)
      BY <1>0, <2>2, <2>4, AdvancesAcquires DEF Is
    <3>2. Acquiring(q)' <=> Acquiring(q)
      BY <1>1, <2>1, <2>4, <3>1
    <3> QED BY <1>0, <2>1, <2>4, <3>2, SameStatus
  <2>5. CASE ~Writes(r)
    <3>1. Status(r)' = Status(r)
      BY <1>1, <2>5 DEF Status
    <3> QED BY <2>1, <2>4, <3>1 DEF Stutters
  <2>6. CASE Writes(r) /\ r \in table'.holders
    <3>1. table.holders = {}
      BY <1>0, <1>8, <2>3, <2>6, GrantedAlone
    <3>2. \A v \in Requests : Status(v) \in {"idle", "acked", "failed"}
      BY <3>1 DEF Status
    <3>3. Status(r) = "idle" /\ Status(r)' = "active"
      BY <1>1, <2>1, <2>2, <2>3, <2>6 DEF Status
    <3> QED BY <2>1, <2>4, <3>2, <3>3 DEF Progresses
  <2>7. CASE Writes(r) /\ r \notin table'.holders
    <3>1. result'[r] # "ok"
      BY <1>0, <2>1, <2>3, <2>7 DEF AppliedOnce
    <3>2. Status(r) = "idle" /\ Status(r)' \in {"idle", "failed"}
      BY <1>1, <2>2, <2>3, <2>7, <3>1 DEF Status
    <3> QED BY <2>1, <2>4, <3>2 DEF Progresses, Stutters
  <2> QED BY <2>5, <2>6, <2>7
<1>9. ASSUME NEW r \in Requests, Freed(r)
      PROVE  \/ Stutters
             \/ Progresses(r) /\ \A q \in Requests : q # r => Status(q)' = Status(q)
  <2>1. /\ UNCHANGED <<pc, applied, meta, result>>
        /\ table'.holders = table.holders \ {r}
        /\ 1 \in Logged /\ Is(1, "release", r) /\ Advances
    BY <1>9 DEF Freed, objVars, Advances
  <2>2. ASSUME NEW q \in Requests PROVE Acquiring(q)' <=> Acquiring(q)
    <3>1. AcquireLogged(q)' <=> AcquireLogged(q)
      BY <1>0, <2>1, AdvancesAcquires DEF Is
    <3> QED BY <1>1, <2>1, <3>1
  <2>3. ASSUME NEW q \in Requests, q # r \/ r \notin table.holders
        PROVE  Status(q)' = Status(q)
    BY <1>0, <2>1, <2>2, <2>3, SameStatus
  <2>4. CASE ~Writes(r) \/ r \notin table.holders
    <3>1. Status(r)' = Status(r)
      BY <1>1, <2>3, <2>4 DEF Status
    <3> QED BY <2>1, <2>3, <3>1 DEF Stutters
  <2>5. CASE Writes(r) /\ r \in table.holders
    <3>1. pc[r] = "done" /\ ~AcquireLogged(r)
      BY <1>0, <2>1, <2>5 DEF LockInv, ReleasesInLog, AcquiresInLog, AcquireLogged
    <3>2. ~Acquiring(r)'
      BY <1>1, <2>2, <3>1
    <3>3. Status(r)' = IF result[r] = "ok" THEN "acked" ELSE "failed"
      BY <1>1, <2>1, <2>5, <3>2 DEF Status
    <3>4. Status(r) = IF r \in applied THEN "effective" ELSE "active"
      BY <2>5 DEF Status
    <3>5. result[r] = "ok" => r \in applied
      BY <1>0, <2>5 DEF AppliedOnce
    <3> QED BY <2>1, <2>3, <3>3, <3>4, <3>5 DEF Progresses
  <2> QED BY <2>4, <2>5
<1>10. ASSUME NEW r \in Requests, Changed(r)
       PROVE  \/ Stutters
              \/ Progresses(r) /\ \A q \in Requests : q # r => Status(q)' = Status(q)
  <2>1. /\ UNCHANGED <<table, result>> /\ applied' = applied \cup {r}
        /\ \A q \in Requests : q # r => pc'[q] = pc[q]
        /\ 1 \in Logged /\ Is(1, "change", r) /\ Advances
    BY <1>0, <1>10 DEF Changed, lockVars, Advances, TypeOK
  <2>2. ASSUME NEW q \in Requests, q # r PROVE Status(q)' = Status(q)
    <3>1. AcquireLogged(q)' <=> AcquireLogged(q)
      BY <1>0, <2>1, AdvancesAcquires DEF Is
    <3>2. Acquiring(q)' <=> Acquiring(q)
      BY <1>1, <2>1, <2>2, <3>1
    <3> QED BY <1>0, <2>1, <2>2, <3>2, SameStatus
  <2>3. CASE ~Writes(r)
    <3>1. Status(r)' = Status(r)
      BY <1>1, <2>3 DEF Status
    <3>2. UNCHANGED meta
      BY <1>10, <2>3 DEF Changed, Writes
    <3> QED BY <2>2, <3>1, <3>2 DEF Stutters
  <2>4. CASE Writes(r)
    <3>1. r \in table.holders
      <4>1. ~(crashes > 0)
        BY <1>0
      <4> QED BY <1>0, <2>1, <2>4, <4>1 DEF ChangesOwned
    <3>2. r \notin applied
      BY <1>0, <2>1 DEF AppliedOnce
    <3>3. Status(r) = "active" /\ Status(r)' = "effective"
      BY <1>1, <2>1, <2>4, <3>1, <3>2 DEF Status
    <3>4. meta' = Outcome(r)
      BY <1>10, <2>4 DEF Changed, Writes, Outcome
    <3> QED BY <2>2, <3>3, <3>4 DEF Progresses
  <2> QED BY <2>3, <2>4
<1>11. CASE ApplyAcquire
  BY <1>0, <1>8, <1>11, AcquireApplied
<1>12. CASE ApplyRelease
  BY <1>0, <1>9, <1>12, ReleaseApplied
<1>13. CASE ApplyChange
  BY <1>0, <1>7, <1>10, <1>13, ChangeApplied
<1> QED
  BY <1>0, <1>2, <1>4, <1>5, <1>6, <1>7, <1>11, <1>12, <1>13, NextKinds
(* Where nothing crashes the metadata of the object is a register: puts    *)
(* and deletes take effect one at a time and while they hold the lock, a   *)
(* successful one before it gives the lock up, and nothing else changes    *)
(* the metadata, whatever fails, times out or is cancelled.                *)
THEOREM MetadataIsRegister == Spec => ImplementsRegister
<1> DEFINE value   == IF NoCrash THEN meta ELSE NoObject
           status  == [r \in Requests |-> Status(r)]
           outcome == [r \in Requests |-> IF kind[r] = "put" THEN r ELSE NoObject]
<1>1. ASSUME Init PROVE Register!Init
  <2>1. value \in Object
    BY <1>1 DEF Init, Object
  <2>2. status = [r \in Requests |-> "idle"]
    <3>1. \A r \in Requests : pc[r] = "idle" /\ r \notin table.holders
      BY <1>1 DEF Init, NoLock
    <3>2. \A r \in Requests : Status(r) = "idle"
      BY <3>1 DEF Status, Acquiring
    <3> QED BY <3>2
  <2>3. outcome \in [Requests -> Object]
    BY DEF Object
  <2> QED BY <2>1, <2>2, <2>3 DEF Register!Init
<1>2. ASSUME RegisterInv, [Next]_vars
      PROVE  [Register!Next]_<<value, status, outcome>>
  <2>1. UNCHANGED <<faults, kind>> /\ UNCHANGED outcome /\ (NoCrash' <=> NoCrash)
    BY <1>2, KindsStay DEF NoCrash
  <2>2. CASE ~NoCrash
    <3>1. \A r \in Requests : Status(r) = "idle" /\ Status(r)' = "idle"
      BY <2>1, <2>2 DEF Status
    <3> QED BY <2>1, <2>2, <3>1
  <2>3. CASE NoCrash
    <3>1. value = meta /\ value' = meta'
      BY <2>1, <2>3
    <3>2. CASE Stutters
      <4>1. status' = status
        BY <3>2 DEF Stutters
      <4>2. value' = value
        BY <3>1, <3>2 DEF Stutters
      <4> QED BY <2>1, <4>1, <4>2
    <3>3. ASSUME NEW r \in Requests, Progresses(r),
                 \A q \in Requests : q # r => Status(q)' = Status(q)
          PROVE  Register!Next
      <4>1. ASSUME NEW s, Status(r)' = s PROVE status' = [status EXCEPT ![r] = s]
        BY <3>3, <4>1
      <4>2. \A q \in Requests : status[q] = Status(q)
        OBVIOUS
      <4>3. outcome[r] = Outcome(r)
        BY DEF Outcome
      <4> HIDE DEF value, status, outcome
      <4>4. CASE /\ Status(r) = "idle" /\ Status(r)' = "active" /\ UNCHANGED meta
                 /\ \A v \in Requests : Status(v) \in {"idle", "acked", "failed"}
        <5>1. Register!Begin(r)
          BY <2>1, <3>1, <4>1, <4>2, <4>4 DEF Register!Begin, Register!Over, value, status, outcome
        <5> QED BY <5>1 DEF Register!Next
      <4>5. CASE Status(r) = "idle" /\ Status(r)' = "failed" /\ UNCHANGED meta
        <5>1. Register!Refuse(r)
          BY <2>1, <3>1, <4>1, <4>2, <4>5 DEF Register!Refuse, value, status, outcome
        <5> QED BY <5>1 DEF Register!Next
      <4>6. CASE Status(r) = "active" /\ Status(r)' = "effective" /\ meta' = Outcome(r)
        <5>1. Register!TakeEffect(r)
          BY <2>1, <3>1, <4>1, <4>2, <4>3, <4>6 DEF Register!TakeEffect, value, status, outcome
        <5> QED BY <5>1 DEF Register!Next
      <4>7. CASE Status(r) = "effective" /\ Status(r)' = "acked" /\ UNCHANGED meta
        <5>1. Register!Ack(r)
          BY <2>1, <3>1, <4>1, <4>2, <4>7 DEF Register!Ack, value, status, outcome
        <5> QED BY <5>1 DEF Register!Next
      <4>8. CASE Status(r) \in {"active", "effective"} /\ Status(r)' = "failed" /\ UNCHANGED meta
        <5>1. Register!Fail(r)
          BY <2>1, <3>1, <4>1, <4>2, <4>8 DEF Register!Fail, value, status, outcome
        <5> QED BY <5>1 DEF Register!Next
      <4> QED BY <3>3, <4>4, <4>5, <4>6, <4>7, <4>8 DEF Progresses
    <3> QED BY <1>2, <2>3, <3>2, <3>3, RegisterStep
  <2> QED BY <2>2, <2>3
<1> QED BY <1>1, <1>2, RegisterInductive, PTL
        DEF Spec, ImplementsRegister, Register!Spec
=============================================================================
