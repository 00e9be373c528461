------------------------------ MODULE Multipart ------------------------------
(***************************************************************************)
(* One multipart upload on the node that serves it: the handlers of        *)
(* handlers/multipart, the mpu: records of save-metadata/multipart.rs, the *)
(* part files under temp/parts/<upload id>, and the garbage collector      *)
(* (gc.rs) that runs beside them.                                          *)
(*                                                                         *)
(* Requests are numbered in the order they arrive.  Only complete takes    *)
(* the lock of the object; initiate, upload_part and abort interleave with *)
(* everything.  A step is what runs between two awaits that other requests *)
(* can see the effect of.  Part contents are the numbers of the requests   *)
(* that wrote them.                                                        *)
(***************************************************************************)
EXTENDS Integers, FiniteSets

CONSTANTS
  Part,         \* part numbers
  MaxRequests,  \* bound: requests
  MaxActive,    \* bound: requests in progress at the same time
  MaxCrashes,   \* bound: crashes of the process
  MaxInstalls,  \* bound: Raft snapshots installed on this node
  FaultSets     \* the environments: the failures each one may cause

(* storage:    an operation on a file fails                                *)
(* metadata:   the Raft write of complete fails, applied or not            *)
(* disconnect: a client goes away, which drops its request                 *)
(* crash:      the process dies                                            *)
(* install:    a Raft snapshot replaces the mpu: records                   *)
(* part_key:   the object key contains ":part:"                            *)
FaultKinds == {"storage", "metadata", "disconnect", "crash", "install", "part_key"}

ASSUME PartAssumption   == Part \subseteq Nat \ {0} /\ IsFiniteSet(Part)
ASSUME BoundsAssumption == {MaxRequests, MaxActive, MaxCrashes, MaxInstalls} \subseteq Nat
ASSUME FaultsAssumption == FaultSets \subseteq SUBSET FaultKinds

VARIABLES
  faults,    \* what may fail, fixed from the start
  record,    \* mpu:<bucket>:<key>:<id> is there
  partRec,   \* mpu:...:part:<n>: the request it is from, 0 is none
  dir,       \* temp/parts/<id> is there
  file,      \* the part files
  final,     \* temp/complete-<id> is there
  old,       \* files that are older than temp_file_max_age
  object,    \* the file of the object, as the last complete left it
  meta,      \* the metadata of the object
  lock,      \* the request that holds the write lock of the object, or 0
  gauge,     \* multipart_uploads_in_progress
  req,       \* the requests so far
  gc,        \* what the garbage collector is doing
  shared,    \* history: a part file was opened while another request used it
  swept,     \* history: the collector took a file that complete was using
  ended,     \* history: requests that ended the upload
  crashes, installs

vars == <<faults, record, partRec, dir, file, final, old, object, meta, lock, gauge, req, gc,
          shared, swept, ended, crashes, installs>>

Request == 1 .. MaxRequests
NoFile  == [there |-> FALSE, handles |-> {}, by |-> {}]
NoParts == [p \in Part |-> 0]
NoData  == [p \in Part |-> {}]
Nothing == [want |-> NoParts, got |-> NoData]
GcIdle  == [step |-> "idle", active |-> FALSE, todo |-> {}]

diskVars == <<record, partRec, dir, file, final, old>>
restVars == <<faults, object, meta, gauge, gc, shared, swept, ended, crashes, installs>>

Init ==
  /\ faults \in FaultSets
  /\ record = FALSE /\ partRec = NoParts
  /\ dir = FALSE /\ file = [p \in Part |-> NoFile] /\ final = FALSE /\ old = {}
  /\ object = Nothing /\ meta = Nothing
  /\ lock = 0 /\ gauge = 0
  /\ req = [i \in {} |-> 0]
  /\ gc = GcIdle
  /\ shared = FALSE /\ swept = FALSE /\ ended = {}
  /\ crashes = 0 /\ installs = 0

Running(i, op, step) == i \in DOMAIN req /\ req[i].op = op /\ req[i].step = step
Active(i) == i \in DOMAIN req /\ req[i].step # "done"
Finished == [op |-> "none", part |-> 0, step |-> "done", want |-> NoParts, got |-> NoData]
Goto(i, step) ==
  req' = [req EXCEPT ![i] = IF step = "done" THEN Finished ELSE [@ EXCEPT !.step = step]]

(* A request arrives; part_number is within 1 .. 10000.                    *)
Arrive(op, p) ==
  LET i == Cardinality(DOMAIN req) + 1
  IN /\ i <= MaxRequests /\ Cardinality({j \in DOMAIN req : Active(j)}) < MaxActive
     /\ op = "initiate" <=> i = 1
     /\ op # "upload_part" => \A q \in Part : p <= q
     /\ req' = [j \in 1 .. i |-> IF j < i THEN req[j]
                                 ELSE [op |-> op, part |-> p, step |-> "start",
                                       want |-> NoParts, got |-> NoData]]
     /\ UNCHANGED <<diskVars, lock, restVars>>
-----------------------------------------------------------------------------
(* The mpu: keys: the record of the upload and one record for each part.   *)
get_multipart_upload == [found |-> record, parts |-> partRec]

put_record      == record' = TRUE
delete_record   == record' = FALSE
put_part(p, i)  == partRec' = [partRec EXCEPT ![p] = i]
delete_parts    == partRec' = NoParts

(* part_path: a part file is known by its number.  Requests that have it   *)
(* open write to nothing once it is gone.                                  *)
create_file(p, i) ==
  file' = [file EXCEPT ![p] = [there |-> TRUE, handles |-> @.handles \cup {i}, by |-> {}]]
Unlink(ps) == file' = [p \in Part |-> IF p \in ps THEN NoFile ELSE file[p]]

(* MultipartGaugeGuard: up when made, down again unless disarmed.          *)
gauge_inc == gauge' = gauge + 1
gauge_dec == gauge' = gauge - 1
-----------------------------------------------------------------------------
(* initiate_multipart: the gauge, the record, then the directory.          *)
initiate_multipart_upload(i) ==
  /\ Running(i, "initiate", "start")
  /\ gauge_inc
  /\ put_record
  /\ Goto(i, "mkdir")
  /\ UNCHANGED <<partRec, dir, file, final, old, lock, faults, object, meta, gc, shared, swept, ended,
                 crashes, installs>>

GaugeGuardKept(i) ==
  /\ Running(i, "initiate", "mkdir")
  /\ dir' = TRUE
  /\ gauge_dec
  /\ Goto(i, "done")
  /\ UNCHANGED <<record, partRec, file, final, old, lock, faults, object, meta, gc, shared,
                 swept, ended, crashes, installs>>

CreatePartsDir(i) ==
  /\ Running(i, "initiate", "mkdir")
  /\ \/ dir' = TRUE /\ UNCHANGED gauge
     \/ "storage" \in faults /\ gauge_dec /\ UNCHANGED dir
  /\ Goto(i, "done")
  /\ UNCHANGED <<record, partRec, file, final, old, lock, faults, object, meta, gc, shared,
                 swept, ended, crashes, installs>>
-----------------------------------------------------------------------------
(* upload_part: check the upload, create (or truncate) the part file,      *)
(* write the body, and record the part if the upload is still there.       *)
CheckUpload(i) ==
  /\ Running(i, "upload_part", "start")
  /\ Goto(i, IF get_multipart_upload.found THEN "create" ELSE "done")
  /\ UNCHANGED <<diskVars, lock, restVars>>

(* Between opening a part file and recording the part, and from the look   *)
(* at the records to the end of complete, a request depends on the file.   *)
Uploading(j, p) ==
  /\ j \in DOMAIN req /\ req[j].op = "upload_part" /\ req[j].part = p
  /\ req[j].step \in {"write", "record", "put"}
Uses(j, p) ==
  Uploading(j, p) \/ (j \in DOMAIN req /\ req[j].op = "complete" /\ req[j].want[p] # 0)

InUse(p, i) == \E j \in DOMAIN req \ {i} : Uses(j, p)

CreatePartFile(i) ==
  LET p == req[i].part
  IN /\ Running(i, "upload_part", "create")
     /\ IF dir
        THEN /\ create_file(p, i)
             /\ old' = old \ {p}
             /\ shared' = (shared \/ InUse(p, i))
             /\ Goto(i, "write")
        ELSE Goto(i, "done") /\ UNCHANGED <<file, old, shared>>
     /\ UNCHANGED <<record, partRec, dir, final, lock, faults, object, meta, gauge, gc, swept, ended,
                    crashes, installs>>

(* A body that breaks off or is too large leaves what has been written.    *)
WriteBody(i) ==
  LET p == req[i].part
  IN /\ Running(i, "upload_part", "write")
     /\ \/ /\ file' = [file EXCEPT ![p].by = IF i \in file[p].handles THEN @ \cup {i} ELSE @,
                                   ![p].handles = @ \ {i}]
           /\ Goto(i, "record")
        \/ /\ "storage" \in faults
           /\ file' = [file EXCEPT ![p].handles = @ \ {i}]
           /\ Goto(i, "done")
     /\ UNCHANGED <<record, partRec, dir, final, old, lock, restVars>>

(* record_part: a read and a put.                                          *)
RecordPartCheck(i) ==
  /\ Running(i, "upload_part", "record")
  /\ Goto(i, IF record THEN "put" ELSE "done")
  /\ UNCHANGED <<diskVars, lock, restVars>>

RecordPartPut(i) ==
  /\ Running(i, "upload_part", "put")
  /\ put_part(req[i].part, i)
  /\ Goto(i, "done")
  /\ UNCHANGED <<record, dir, file, final, old, lock, restVars>>
-----------------------------------------------------------------------------
(* complete_multipart, under the write lock of the object.                 *)
LockForComplete(i) ==
  /\ Running(i, "complete", "start") /\ lock = 0
  /\ lock' = i
  /\ Goto(i, "get")
  /\ UNCHANGED <<diskVars, restVars>>

(* get_multipart_upload, no parts is an error, File::create of the final.  *)
GetUpload(i) ==
  /\ Running(i, "complete", "get")
  /\ \/ /\ get_multipart_upload.found /\ get_multipart_upload.parts # NoParts
        /\ req' = [req EXCEPT ![i].want = get_multipart_upload.parts, ![i].step = "read"]
        /\ final' = TRUE /\ old' = old \ {0}
        /\ shared' = (shared \/ \E p \in Part : partRec[p] # 0 /\ InUse(p, i))
        /\ UNCHANGED lock
     \/ /\ ~record \/ partRec = NoParts \/ "storage" \in faults
        /\ Goto(i, "done") /\ lock' = 0
        /\ UNCHANGED <<final, old, shared>>
  /\ UNCHANGED <<record, partRec, dir, file, faults, object, meta, gauge, gc, swept, ended, crashes,
                 installs>>

(* remove_file and remove_dir_all, whose errors nobody sees, and the end   *)
(* of the request and its lock; what is kept stays behind.                 *)
RemoveBut(i, kept) ==
  /\ final' = (final /\ 0 \in kept) /\ dir' = (dir /\ kept \cap Part # {})
  /\ Unlink(Part \ kept)
  /\ old' = old \cap kept
  /\ lock' = 0
  /\ Goto(i, "done")

(* Dropping an armed MultipartCleanupGuard and the lock's guard: the file  *)
(* of the object and all parts go, the record of the upload stays.         *)
DropGuards(i) ==
  \E kept \in IF "storage" \in faults THEN SUBSET (Part \cup {0}) ELSE {{}} : RemoveBut(i, kept)

ToRead(i) == {p \in Part : req[i].want[p] # 0 /\ req[i].got[p] = {}}

(* The parts in order; an empty file of a part is read as no data.         *)
MissingPartSkipped(i) ==
  LET p == CHOOSE q \in ToRead(i) : \A r \in ToRead(i) : q <= r
  IN /\ Running(i, "complete", "read") /\ ToRead(i) # {}
     /\ req' = [req EXCEPT ![i].got[p] = IF file[p].by = {} THEN {0} ELSE file[p].by]
     /\ UNCHANGED <<diskVars, lock, restVars>>

ReadPart(i) ==
  LET p == CHOOSE q \in ToRead(i) : \A r \in ToRead(i) : q <= r
  IN /\ Running(i, "complete", "read") /\ ToRead(i) # {}
     /\ \/ /\ file[p].there
           /\ req' = [req EXCEPT ![i].got[p] = IF file[p].by = {} THEN {0} ELSE file[p].by]
           /\ UNCHANGED <<dir, file, final, old, lock>>
        \/ (~file[p].there \/ "storage" \in faults) /\ DropGuards(i)
     /\ UNCHANGED <<record, partRec, restVars>>

Assembled(i) == [want |-> req[i].want, got |-> req[i].got]

(* write_temp_object and commit_object of the assembled file.              *)
CommitObject(i) ==
  /\ Running(i, "complete", "read") /\ ToRead(i) = {}
  /\ \/ /\ final
        /\ object' = Assembled(i) /\ Goto(i, "meta")
        /\ UNCHANGED <<dir, file, final, old, lock>>
     \/ /\ ~final \/ "storage" \in faults
        /\ DropGuards(i) /\ UNCHANGED object
  /\ UNCHANGED <<record, partRec, faults, meta, gauge, gc, shared, swept, ended, crashes, installs>>

put_object_metadata(i) ==
  /\ Running(i, "complete", "meta")
  /\ \/ meta' = Assembled(i) /\ Goto(i, "unrecord") /\ UNCHANGED <<dir, file, final, old, lock>>
     \/ "metadata" \in faults /\ meta' \in {meta, Assembled(i)} /\ DropGuards(i)
  /\ UNCHANGED <<record, partRec, faults, object, gauge, gc, shared, swept, ended, crashes, installs>>

(* MetadataStore::abort_multipart_upload: the record, then its parts.      *)
DeleteRecord(i) ==
  /\ Running(i, "complete", "unrecord") \/ Running(i, "abort", "unrecord")
  /\ delete_record
  /\ Goto(i, "unpart")
  /\ UNCHANGED <<partRec, dir, file, final, old, lock, restVars>>

DeletePartRecords(i) ==
  /\ Running(i, "complete", "unpart") \/ Running(i, "abort", "unpart")
  /\ delete_parts
  /\ Goto(i, "clean")
  /\ UNCHANGED <<record, dir, file, final, old, lock, restVars>>

(* The guard is disarmed, and the handler removes the files itself.        *)
FinishComplete(i) ==
  /\ Running(i, "complete", "clean")
  /\ DropGuards(i)
  /\ gauge_dec /\ ended' = ended \cup {i}
  /\ UNCHANGED <<record, partRec, faults, object, meta, gc, shared, swept, crashes, installs>>
-----------------------------------------------------------------------------
(* abort_multipart, without the lock.                                      *)
AbortGet(i) ==
  /\ Running(i, "abort", "start")
  /\ req' = [req EXCEPT ![i] = IF get_multipart_upload.found
                                  THEN [@ EXCEPT !.want = get_multipart_upload.parts,
                                                 !.step = "unrecord"]
                                  ELSE Finished]
  /\ UNCHANGED <<diskVars, lock, restVars>>

(* cleanup_part_files: the parts that were listed, and the directory if    *)
(* nothing else is in it.                                                  *)
cleanup_part_files(i) ==
  LET listed == {p \in Part : req[i].want[p] # 0}
  IN /\ Running(i, "abort", "clean")
     /\ \E kept \in IF "storage" \in faults THEN SUBSET listed ELSE {{}} :
          /\ Unlink(listed \ kept)
          /\ old' = old \ (listed \ kept)
     /\ dir' = (\E p \in Part : file'[p].there)
     /\ gauge_dec /\ ended' = ended \cup {i}
     /\ Goto(i, "done")
     /\ UNCHANGED <<record, partRec, final, lock, faults, object, meta, gc, shared, swept, crashes,
                    installs>>
-----------------------------------------------------------------------------
(* The request's future is dropped at an await: its guards run.  A         *)
(* complete that has disarmed its guard leaves the assembled file if it    *)
(* has not come to it; the directory it has begun to remove goes.          *)
Disconnect(i) ==
  /\ "disconnect" \in faults /\ Active(i) /\ req[i].step # "start"
  /\ IF req[i].op = "complete" /\ req[i].step # "get"
     THEN DropGuards(i) \/ (req[i].step = "clean" /\ RemoveBut(i, {0}))
     ELSE /\ file' = [p \in Part |-> [file[p] EXCEPT !.handles = @ \ {i}]]
          /\ lock' = IF lock = i THEN 0 ELSE lock
          /\ Goto(i, "done")
          /\ UNCHANGED <<dir, final, old>>
  /\ gauge' = IF req[i].op = "initiate" THEN gauge - 1 ELSE gauge
  /\ UNCHANGED <<record, partRec, faults, object, meta, gc, shared, swept, ended, crashes, installs>>

(* The process dies and comes back: what is in memory is gone.             *)
Crash ==
  /\ "crash" \in faults /\ crashes < MaxCrashes
  /\ crashes' = crashes + 1
  /\ req' = [i \in DOMAIN req |-> Finished]
  /\ file' = [p \in Part |-> [file[p] EXCEPT !.handles = {}]]
  /\ lock' = 0 /\ gauge' = 0 /\ gc' = GcIdle
  /\ UNCHANGED <<record, partRec, dir, final, old, faults, object, meta, shared, swept, ended, installs>>

(* restore_default_cf: mpu: is among DATA_PREFIXES, and the sender has no  *)
(* record of this node's uploads.                                          *)
InstallSnapshot ==
  /\ "install" \in faults /\ installs < MaxInstalls
  /\ installs' = installs + 1
  /\ delete_record /\ delete_parts
  /\ UNCHANGED <<dir, file, final, old, lock, faults, object, meta, gauge, req, gc, shared, swept, ended,
                 crashes>>
-----------------------------------------------------------------------------
(* A file at rest gets old between two cycles of the collector; a handler  *)
(* and a cycle are shorter than temp_file_max_age (an hour by default).    *)
Age ==
  /\ gc.step = "idle" /\ \A i \in DOMAIN req : ~Active(i)
  /\ old # {p \in Part : file[p].there} \cup (IF final THEN {0} ELSE {})
  /\ old' = {p \in Part : file[p].there} \cup (IF final THEN {0} ELSE {})
  /\ UNCHANGED <<record, partRec, dir, file, final, lock, req, restVars>>

(* list_all_multipart_uploads passes over a key that contains ":part:".    *)
list_all_multipart_uploads == record /\ "part_key" \notin faults

(* run_gc_cycle: the active uploads, then the files, then one by one.      *)
GcActive ==
  /\ gc.step = "idle" /\ old # {}
  /\ gc' = [step |-> "list", active |-> list_all_multipart_uploads, todo |-> {}]
  /\ UNCHANGED <<diskVars, lock, req, faults, object, meta, gauge, shared, swept, ended, crashes, installs>>

GcList ==
  /\ gc.step = "list"
  /\ \/ gc' = [gc EXCEPT !.step = "sweep", !.todo = old]
     \/ "storage" \in faults /\ gc' = GcIdle
  /\ UNCHANGED <<diskVars, lock, req, faults, object, meta, gauge, shared, swept, ended, crashes, installs>>

(* The parent of a part is the upload's directory, that of the final file  *)
(* is temp.                                                                *)
KeepsNothing(f) == FALSE
AnyParentWillDo(f) == gc.active

should_keep_file(f) == f # 0 /\ gc.active

GcRemove(f) ==
  /\ gc.step = "sweep" /\ f \in gc.todo
  /\ gc' = [gc EXCEPT !.todo = @ \ {f}]
  /\ IF should_keep_file(f)
     THEN UNCHANGED <<file, final, old>>
     ELSE /\ Unlink({f}) /\ final' = (final /\ f # 0) /\ old' = old \ {f}
  /\ swept' = (swept \/ (f = 0 /\ \E i \in DOMAIN req : Running(i, "complete", "read")))
  /\ UNCHANGED <<record, partRec, dir, lock, req, faults, object, meta, gauge, shared, ended, crashes,
                 installs>>

GcEnd ==
  /\ gc.step = "sweep" /\ gc.todo = {}
  /\ gc' = GcIdle
  /\ UNCHANGED <<diskVars, lock, req, faults, object, meta, gauge, shared, swept, ended, crashes, installs>>

Handle(i) ==
  \/ initiate_multipart_upload(i) \/ CreatePartsDir(i)
  \/ CheckUpload(i) \/ CreatePartFile(i) \/ WriteBody(i) \/ RecordPartCheck(i) \/ RecordPartPut(i)
  \/ LockForComplete(i) \/ GetUpload(i) \/ ReadPart(i) \/ CommitObject(i) \/ put_object_metadata(i)
  \/ DeleteRecord(i) \/ DeletePartRecords(i) \/ FinishComplete(i)
  \/ AbortGet(i) \/ cleanup_part_files(i)

Gc == GcActive \/ GcList \/ (\E f \in Part \cup {0} : GcRemove(f)) \/ GcEnd

Next ==
  \/ \E op \in {"initiate", "upload_part", "complete", "abort"}, p \in Part : Arrive(op, p)
  \/ \E i \in Request : Handle(i) \/ Disconnect(i)
  \/ Crash \/ InstallSnapshot \/ Age \/ Gc

Spec == Init /\ [][Next]_vars

(* Handlers run to their end, time passes whatever the worker does, and it *)
(* keeps its interval.                                                     *)
FairSpec == Spec /\ (\A i \in Request : WF_vars(Handle(i))) /\ SF_vars(Age) /\ WF_vars(Gc)
-----------------------------------------------------------------------------
(* The part files of an upload that can still be completed are there: no   *)
(* abort, completion or collector takes a recorded part away before the    *)
(* record of the upload.  (A complete that fails or is dropped does; it    *)
(* fails too when the collector takes the assembled file that an earlier   *)
(* one left in a crash, and that it has begun to write again.)             *)
RecordedPartsExist ==
  /\ faults \cap {"storage", "metadata", "disconnect", "part_key"} = {}
  /\ record /\ ~swept
  =>
    \A p \in Part : partRec[p] # 0 => file[p].there

(* What complete assembled is, part by part, what upload_part recorded,    *)
(* unless a part was uploaded again while a request was using its file, or *)
(* an upload was cut short (a failing write, a client that goes away, a    *)
(* crash), which leaves the file of an earlier one truncated.              *)
CompletedIntact ==
  faults \cap {"storage", "disconnect", "crash"} = {} /\ ~shared =>
    \A p \in Part : object.want[p] # 0 => object.got[p] = {object.want[p]}

(* multipart_uploads_in_progress counts the upload from initiate to its    *)
(* end, if only one request ended it.                                      *)
GaugeExact ==
  /\ faults \subseteq {"metadata", "part_key"} /\ Cardinality(ended) <= 1
  /\ \A i \in DOMAIN req : ~Active(i)
  => gauge = IF record THEN 1 ELSE 0

(* The collector gets what requests leave behind: part files of an upload  *)
(* that is over and the assembled file, after races, drops and crashes.    *)
LeftoversCollected ==
  "storage" \notin faults => []<>(~final /\ (record \/ \A p \in Part : ~file[p].there))

=============================================================================
