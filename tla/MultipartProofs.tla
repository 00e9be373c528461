-------------------------- MODULE MultipartProofs --------------------------
(***************************************************************************)
(* Proofs about Multipart: recorded parts exist, completed objects are     *)
(* whole and the gauge counts, for every number of parts and requests.     *)
(***************************************************************************)
EXTENDS Multipart, FiniteSetTheorems, WellFoundedInduction, TLAPS

Steps == {"start", "mkdir", "create", "write", "record", "put", "get", "read", "meta", "unrecord",
          "unpart", "clean", "done"}
Record == [op : {"initiate", "upload_part", "complete", "abort", "none"}, part : Nat, step : Steps,
           want : [Part -> Nat], got : [Part -> SUBSET Nat]]
FileState == [there : BOOLEAN, handles : SUBSET Nat, by : SUBSET Nat]
Contents == [want : [Part -> Nat], got : [Part -> SUBSET Nat]]

(* Types; the requests are numbered without gaps.                          *)
Numbered == \E n \in Nat : DOMAIN req = 1 .. n
TypeInv ==
  /\ faults \in SUBSET FaultKinds
  /\ record \in BOOLEAN /\ partRec \in [Part -> Nat]
  /\ dir \in BOOLEAN /\ file \in [Part -> FileState] /\ final \in BOOLEAN
  /\ old \subseteq Part \cup {0}
  /\ object \in Contents
  /\ lock \in Nat /\ gauge \in Int
  /\ Numbered /\ req \in [DOMAIN req -> Record]
  /\ gc \in [step : {"idle", "list", "sweep"}, active : BOOLEAN, todo : SUBSET (Part \cup {0})]
  /\ {shared, swept} \subseteq BOOLEAN

(* Where a request of each kind can be.                                    *)
Ops == DOMAIN req
InStep(i, op, steps) == i \in Ops /\ req[i].op = op /\ req[i].step \in steps

Control ==
  \A i \in Ops :
    /\ req[i].op = "none" <=> req[i].step = "done"
    /\ req[i].op = "initiate" => i = 1 /\ req[i].step \in {"start", "mkdir"}
    /\ req[i].op = "upload_part" =>
         req[i].part \in Part /\ req[i].step \in {"start", "create", "write", "record", "put"}
    /\ req[i].op = "complete" =>
         /\ req[i].step \in {"start", "get", "read", "meta", "unrecord", "unpart", "clean"}
         /\ req[i].step \in {"start", "get"} => req[i].want = NoParts /\ req[i].got = NoData
         /\ req[i].step # "start" => lock = i
    /\ req[i].op = "abort" => req[i].step \in {"start", "unrecord", "unpart", "clean"}
    /\ i = 1 => req[i].op \in {"initiate", "none"}

(* Before the upload is initiated there is nothing of it.                  *)
Opened == 1 \in Ops /\ ~(req[1].op = "initiate" /\ req[1].step = "start")

Early ==
  ~Opened =>
    /\ ~record /\ partRec = NoParts
    /\ \A p \in Part : ~file[p].there
    /\ ~final /\ old = {} /\ gc.step = "idle"
    /\ gauge = 0 /\ ended = {}
    /\ \A i \in Ops : req[i].step \in {"start", "get", "done"}

(* Whoever has deleted the record found it; it does not come back.         *)
Ending(i) == i \in Ops /\ req[i].op \in {"complete", "abort"} /\ req[i].step \in {"unpart", "clean"}
Gone == \A i \in Ops : Ending(i) => ~record

(* A file that is not there has no contents and no handles.                *)
Empty(f) == f.handles = {} /\ f.by = {}
GoneFiles == \A p \in Part : ~file[p].there => Empty(file[p])

BaseInv == TypeInv /\ Control /\ Early /\ Gone /\ GoneFiles

(* The collector protects the upload, unless it passes over its key.       *)
Protected == "part_key" \notin faults /\ gc.step # "idle" /\ ~gc.active => ~record

(* The file that complete assembles is there unless the collector took it. *)
FinalThere == ~swept => \A i \in Ops : InStep(i, "complete", {"read"}) => final

(* Requests that depend on a part file find it.                            *)
FilesThere ==
  faults \cap {"storage", "metadata", "disconnect", "part_key"} = {} /\ record /\ ~swept =>
    \A i \in Ops, p \in Part :
      Uploading(i, p) \/ (InStep(i, "complete", {"read"}) /\ req[i].want[p] # 0) => file[p].there

PartsInv == Protected /\ FinalThere /\ FilesThere /\ RecordedPartsExist

(* Contents of part files, while no file is used by two requests.          *)
Calm == faults \cap {"storage", "disconnect", "crash"} = {} /\ ~shared

Alone == Calm => \A p \in Part : \A i, j \in Ops : Uses(i, p) /\ Uses(j, p) => i = j

Written ==
  Calm => \A i \in Ops, p \in Part : Uploading(i, p) /\ file[p].there =>
            IF req[i].step = "write" THEN i \in file[p].handles /\ file[p].by = {}
                                     ELSE file[p].by = {i}

RecordedWritten ==
  Calm /\ record =>
    \A p \in Part : partRec[p] # 0 /\ file[p].there /\ (\A i \in Ops : ~Uploading(i, p))
                      => file[p].by = {partRec[p]}

ReadsWritten ==
  Calm => \A i \in Ops, p \in Part : req[i].op = "complete" /\ req[i].want[p] # 0 =>
            /\ file[p].there => file[p].by = {req[i].want[p]}
            /\ req[i].got[p] \in {{}, {req[i].want[p]}}

ContentInv == Alone /\ Written /\ RecordedWritten /\ ReadsWritten /\ CompletedIntact

(* The gauge counts the initiation and the requests that ended it.         *)
Quiet == faults \subseteq {"metadata", "part_key"}

EndedDone == ended \subseteq {i \in Ops : req[i].step = "done"} /\ IsFiniteSet(ended)
GaugeCounts == Quiet => gauge = (IF Opened THEN 1 ELSE 0) - Cardinality(ended)
RecordEnded == Quiet /\ Opened => (record <=> ended = {} /\ \A i \in Ops : ~Ending(i))

CountInv == EndedDone /\ GaugeCounts /\ RecordEnded
-----------------------------------------------------------------------------
(* What a step does to the requests.                                       *)

Moves(i) ==
  /\ i \in Ops /\ DOMAIN req' = Ops
  /\ \A j \in Ops : j # i => req'[j] = req[j]
  /\ req' \in [Ops -> Record]

To(i, step) ==
  /\ Moves(i)
  /\ req'[i].op = req[i].op /\ req'[i].part = req[i].part /\ req'[i].step = step

Kept(i) == req'[i].want = req[i].want /\ req'[i].got = req[i].got

Ends(i) == Moves(i) /\ req'[i] = Finished

(* A finished request is a request.                                        *)
LEMMA FinishedType == Finished \in Record
BY DEF Finished, Record, Steps, NoParts, NoData

(* A complete ends and removes files, by its guard or by itself.           *)
Removes(i) == \E kept : RemoveBut(i, kept)

(* What dropping the guards, or the request, does is such a removal.       *)
LEMMA GuardsRemove ==
  ASSUME NEW i
  PROVE  /\ DropGuards(i) => Removes(i)
         /\ Disconnect(i) /\ req[i].op = "complete" /\ req[i].step # "get" => Removes(i)
BY DEF DropGuards, Removes, Disconnect

(* Goto moves one request on, or ends it.                                  *)
LEMMA GotoMoves ==
  ASSUME TypeInv, NEW i \in Ops, NEW step \in Steps, Goto(i, step)
  PROVE  /\ step # "done" => To(i, step) /\ Kept(i)
         /\ step = "done" => Ends(i)
<1>1. req \in [Ops -> Record] /\ req[i] \in Record
  BY DEF TypeInv, Ops
<1>2. CASE step = "done"
  BY <1>1, <1>2, FinishedType DEF Goto, Ends, Moves, Ops
<1>3. CASE step # "done"
  <2> DEFINE r == [req[i] EXCEPT !.step = step]
  <2>1. /\ r \in Record /\ r.op = req[i].op /\ r.part = req[i].part /\ r.step = step
        /\ r.want = req[i].want /\ r.got = req[i].got
    BY <1>1 DEF Record
  <2>2. req' = [req EXCEPT ![i] = r]
    BY <1>3 DEF Goto
  <2> HIDE DEF r
  <2> QED BY <1>1, <1>3, <2>1, <2>2 DEF To, Kept, Moves, Ops
<1> QED BY <1>2, <1>3

(* complete, while it reads the parts in order, has one to read.           *)
LEMMA FirstPart ==
  ASSUME TypeInv, NEW i \in Ops, ToRead(i) # {}
  PROVE  (CHOOSE q \in ToRead(i) : \A r \in ToRead(i) : q <= r) \in ToRead(i)
<1> DEFINE T == ToRead(i)
<1>1. T \subseteq Nat /\ T # {}
  BY PartAssumption DEF ToRead
<1> DEFINE R == OpToRel(<, Nat)
<1>2. \A x, y \in Nat : <<x, y>> \in R <=> x < y
  BY DEF OpToRel
<1>3. IsWellFoundedOn(R, Nat)
  BY NatLessThanWellFounded
<1> HIDE DEF R, T
<1>4. PICK q \in T : \A r \in T : ~(<<r, q>> \in R)
  BY <1>1, <1>3, WFMin
<1>5. ASSUME NEW r \in T PROVE q <= r
  <2>1. q \in Nat /\ r \in Nat
    BY <1>1
  <2>2. ~(<<r, q>> \in R)
    BY <1>4
  <2>3. <<r, q>> \in R <=> r < q
    BY <1>2, <2>1
  <2> QED BY <2>1, <2>2, <2>3
<1> QED BY <1>5 DEF T

(* What an action does to the request that it is of.                       *)
LEMMA Requests ==
  ASSUME TypeInv, NEW i \in Request
  PROVE  /\ initiate_multipart_upload(i) => To(i, "mkdir") /\ Kept(i)
         /\ CreatePartsDir(i) => Ends(i)
         /\ CheckUpload(i) => (record /\ To(i, "create") /\ Kept(i)) \/ (~record /\ Ends(i))
         /\ CreatePartFile(i) => (dir /\ To(i, "write") /\ Kept(i)) \/ (~dir /\ Ends(i))
         /\ RecordPartCheck(i) => (record /\ To(i, "put") /\ Kept(i)) \/ (~record /\ Ends(i))
         /\ RecordPartPut(i) => Ends(i)
         /\ LockForComplete(i) => To(i, "get") /\ Kept(i)
         /\ DeleteRecord(i) => To(i, "unpart") /\ Kept(i)
         /\ DeletePartRecords(i) => To(i, "clean") /\ Kept(i)
         /\ FinishComplete(i) => Ends(i)
         /\ cleanup_part_files(i) => Ends(i)
         /\ Disconnect(i) => Ends(i)
<1> USE DEF Steps
<1>1. initiate_multipart_upload(i) => To(i, "mkdir") /\ Kept(i)
  BY GotoMoves DEF initiate_multipart_upload, Running, Ops
<1>2. CreatePartsDir(i) => Ends(i)
  BY GotoMoves DEF CreatePartsDir, Running, Ops
<1>3. CheckUpload(i) => (record /\ To(i, "create") /\ Kept(i)) \/ (~record /\ Ends(i))
  BY GotoMoves DEF CheckUpload, Running, Ops, get_multipart_upload
<1>4. CreatePartFile(i) => (dir /\ To(i, "write") /\ Kept(i)) \/ (~dir /\ Ends(i))
  BY GotoMoves DEF CreatePartFile, Running, Ops
<1>5. RecordPartCheck(i) => (record /\ To(i, "put") /\ Kept(i)) \/ (~record /\ Ends(i))
  BY GotoMoves DEF RecordPartCheck, Running, Ops
<1>6. RecordPartPut(i) => Ends(i)
  BY GotoMoves DEF RecordPartPut, Running, Ops
<1>7. LockForComplete(i) => To(i, "get") /\ Kept(i)
  BY GotoMoves DEF LockForComplete, Running, Ops
<1>8. DeleteRecord(i) => To(i, "unpart") /\ Kept(i)
  BY GotoMoves DEF DeleteRecord, Running, Ops
<1>9. DeletePartRecords(i) => To(i, "clean") /\ Kept(i)
  BY GotoMoves DEF DeletePartRecords, Running, Ops
<1>10. FinishComplete(i) => Ends(i)
  BY GotoMoves DEF FinishComplete, DropGuards, RemoveBut, Running, Ops
<1>11. cleanup_part_files(i) => Ends(i)
  BY GotoMoves DEF cleanup_part_files, Running, Ops
<1>12. Disconnect(i) => Ends(i)
  BY GotoMoves DEF Disconnect, DropGuards, RemoveBut, Active, Ops
<1> QED BY <1>1, <1>2, <1>3, <1>4, <1>5, <1>6, <1>7, <1>8, <1>9, <1>10, <1>11, <1>12

(* The actions that change more of the request than its step, or that may  *)
(* drop the guards.                                                        *)
LEMMA LongRequests ==
  ASSUME TypeInv, NEW i \in Request
  PROVE  /\ WriteBody(i) => (To(i, "record") /\ Kept(i)) \/ ("storage" \in faults /\ Ends(i))
         /\ GetUpload(i) => \/ To(i, "read") /\ req'[i].want = partRec /\ req'[i].got = req[i].got
                            \/ Ends(i)
         /\ ReadPart(i) => (To(i, "read") /\ req'[i].want = req[i].want) \/ Ends(i)
         /\ CommitObject(i) => (To(i, "meta") /\ Kept(i)) \/ Ends(i)
         /\ put_object_metadata(i) => (To(i, "unrecord") /\ Kept(i)) \/ Ends(i)
         /\ AbortGet(i) => (record /\ To(i, "unrecord")) \/ (~record /\ Ends(i))
<1> USE DEF Steps
<1>1. WriteBody(i) => (To(i, "record") /\ Kept(i)) \/ ("storage" \in faults /\ Ends(i))
  BY GotoMoves DEF WriteBody, Running, Ops
<1>2. ASSUME GetUpload(i)
      PROVE  (To(i, "read") /\ req'[i].want = partRec /\ req'[i].got = req[i].got) \/ Ends(i)
  <2>1. i \in Ops /\ req[i] \in Record /\ req \in [Ops -> Record]
    BY <1>2 DEF GetUpload, Running, Ops, TypeInv
  <2>2. CASE Goto(i, "done")
    BY <2>1, <2>2, GotoMoves
  <2>3. CASE req' = [req EXCEPT ![i].want = partRec, ![i].step = "read"]
    <3> DEFINE r == [req[i] EXCEPT !.want = partRec, !.step = "read"]
    <3>1. /\ r \in Record /\ r.op = req[i].op /\ r.part = req[i].part /\ r.step = "read"
          /\ r.want = partRec /\ r.got = req[i].got
      BY <2>1 DEF Record, TypeInv
    <3>2. req' = [req EXCEPT ![i] = r]
      BY <2>1, <2>3
    <3> HIDE DEF r
    <3> QED BY <2>1, <3>1, <3>2 DEF To, Moves, Ops
  <2> QED BY <1>2, <2>2, <2>3 DEF GetUpload, get_multipart_upload
<1>3. ASSUME ReadPart(i) PROVE (To(i, "read") /\ req'[i].want = req[i].want) \/ Ends(i)
  <2>1. i \in Ops /\ req[i] \in Record /\ req \in [Ops -> Record] /\ req[i].step = "read"
    BY <1>3 DEF ReadPart, Running, Ops, TypeInv
  <2> DEFINE p == CHOOSE q \in ToRead(i) : \A r \in ToRead(i) : q <= r
             got == IF file[p].by = {} THEN {0} ELSE file[p].by
  <2>2. p \in Part
    BY <1>3, <2>1, FirstPart DEF ReadPart, ToRead
  <2> HIDE DEF p
  <2>3. got \in SUBSET Nat
    BY <2>2 DEF TypeInv, FileState
  <2>4. CASE DropGuards(i)
    BY <2>1, <2>4, GotoMoves DEF DropGuards, RemoveBut
  <2>5. CASE req' = [req EXCEPT ![i].got[p] = got]
    <3> HIDE DEF got
    <3> DEFINE r == [req[i] EXCEPT !.got[p] = got]
    <3>1. /\ r \in Record /\ r.op = req[i].op /\ r.part = req[i].part /\ r.step = "read"
          /\ r.want = req[i].want
      BY <2>1, <2>2, <2>3 DEF Record
    <3>2. req' = [req EXCEPT ![i] = r]
      BY <2>1, <2>5
    <3> HIDE DEF r
    <3> QED BY <2>1, <3>1, <3>2 DEF To, Moves, Ops
  <2> QED BY <1>3, <2>4, <2>5 DEF ReadPart, p
<1>4. CommitObject(i) => (To(i, "meta") /\ Kept(i)) \/ Ends(i)
  BY GotoMoves DEF CommitObject, DropGuards, RemoveBut, Running, Ops
<1>5. put_object_metadata(i) => (To(i, "unrecord") /\ Kept(i)) \/ Ends(i)
  BY GotoMoves DEF put_object_metadata, DropGuards, RemoveBut, Running, Ops
<1>6. ASSUME AbortGet(i) PROVE (record /\ To(i, "unrecord")) \/ (~record /\ Ends(i))
  <2>1. i \in Ops /\ req[i] \in Record /\ req \in [Ops -> Record]
    BY <1>6 DEF AbortGet, Running, Ops, TypeInv
  <2>2. CASE ~record
    BY <1>6, <2>1, <2>2, FinishedType DEF AbortGet, get_multipart_upload, Ends, Moves, Ops
  <2>3. CASE record
    <3> DEFINE r == [req[i] EXCEPT !.want = partRec, !.step = "unrecord"]
    <3>1. /\ r \in Record /\ r.op = req[i].op /\ r.part = req[i].part /\ r.step = "unrecord"
      BY <2>1 DEF Record, TypeInv
    <3>2. req' = [req EXCEPT ![i] = r]
      BY <1>6, <2>1, <2>3 DEF AbortGet, get_multipart_upload
    <3> HIDE DEF r
    <3> QED BY <2>1, <2>3, <3>1, <3>2 DEF To, Moves, Ops
  <2> QED BY <2>2, <2>3 DEF TypeInv
<1> QED BY <1>1, <1>2, <1>3, <1>4, <1>5, <1>6

(* The request that arrives has the next number.                           *)
Comes(op, p) ==
  \E n \in Nat :
    /\ Ops = 1 .. n /\ DOMAIN req' = 1 .. (n + 1)
    /\ op = "initiate" <=> n = 0
    /\ \A j \in 1 .. n : req'[j] = req[j]
    /\ req'[n + 1] = [op |-> op, part |-> p, step |-> "start", want |-> NoParts, got |-> NoData]
    /\ req' \in [1 .. (n + 1) -> Record]

(* What Arrive does.                                                       *)
LEMMA ArriveComes ==
  ASSUME TypeInv, NEW op \in {"initiate", "upload_part", "complete", "abort"}, NEW p \in Part,
         Arrive(op, p)
  PROVE  Comes(op, p)
<1>1. PICK n \in Nat : DOMAIN req = 1 .. n
  BY DEF TypeInv, Numbered
<1>2. Cardinality(DOMAIN req) = n
  BY <1>1, FS_Interval
<1> DEFINE r == [op |-> op, part |-> p, step |-> "start", want |-> NoParts, got |-> NoData]
<1>3. r \in Record
  BY PartAssumption DEF Record, Steps, NoParts, NoData
<1>4. /\ op = "initiate" <=> n + 1 = 1
      /\ req' = [j \in 1 .. (n + 1) |-> IF j < n + 1 THEN req[j] ELSE r]
  BY <1>2 DEF Arrive
<1>5. req \in [1 .. n -> Record]
  BY <1>1 DEF TypeInv
<1> HIDE DEF r
<1>6. /\ DOMAIN req' = 1 .. (n + 1) /\ (op = "initiate" <=> n = 0)
      /\ \A j \in 1 .. n : req'[j] = req[j]
      /\ req'[n + 1] = r
      /\ req' \in [1 .. (n + 1) -> Record]
  BY <1>3, <1>4, <1>5
<1> QED BY <1>1, <1>6 DEF Comes, Ops, r
-----------------------------------------------------------------------------
(* The types and the places of requests.                                   *)

(* Unlinking files leaves files.                                           *)
LEMMA UnlinkType ==
  ASSUME TypeInv, NEW S, Unlink(S)
  PROVE  file' \in [Part -> FileState]
<1>1. NoFile \in FileState
  BY DEF NoFile, FileState
<1> QED BY <1>1 DEF TypeInv, Unlink

(* Numbers and types of the requests.                                      *)
LEMMA RequestsType ==
  ASSUME TypeInv, [Next]_vars
  PROVE  (Numbered /\ req \in [DOMAIN req -> Record])'
<1> USE DEF Numbered
<1>1. ASSUME NEW op \in {"initiate", "upload_part", "complete", "abort"}, NEW p \in Part, Arrive(op, p)
      PROVE  (Numbered /\ req \in [DOMAIN req -> Record])'
  <2>1. PICK n \in Nat : DOMAIN req' = 1 .. (n + 1) /\ req' \in [1 .. (n + 1) -> Record]
    BY <1>1, ArriveComes DEF Comes
  <2> QED BY <2>1
<1>2. ASSUME NEW i \in Request, Moves(i) PROVE (Numbered /\ req \in [DOMAIN req -> Record])'
  BY <1>2 DEF Moves, TypeInv, Ops
<1>3. ASSUME NEW i \in Request, Handle(i) \/ Disconnect(i) PROVE Moves(i)
  BY <1>3, Requests, LongRequests DEF Handle, To, Ends
<1>4. CASE Crash
  BY <1>4, FinishedType DEF Crash, TypeInv
<1>5. CASE UNCHANGED req
  BY <1>5 DEF TypeInv
<1>6. InstallSnapshot \/ Age \/ Gc => UNCHANGED req
  BY DEF InstallSnapshot, Age, Gc, GcActive, GcList, GcRemove, GcEnd
<1> QED BY <1>1, <1>2, <1>3, <1>4, <1>5, <1>6 DEF Next, vars

(* The type invariant is inductive.                                        *)
LEMMA TypeStep ==
  ASSUME TypeInv, [Next]_vars
  PROVE  TypeInv'
<1>1. (Numbered /\ req \in [DOMAIN req -> Record])'
  BY RequestsType
<1> DEFINE RestType ==
  /\ faults \in SUBSET FaultKinds
  /\ record \in BOOLEAN /\ partRec \in [Part -> Nat]
  /\ dir \in BOOLEAN /\ file \in [Part -> FileState] /\ final \in BOOLEAN
  /\ old \subseteq Part \cup {0}
  /\ object \in Contents
  /\ lock \in Nat /\ gauge \in Int
  /\ gc \in [step : {"idle", "list", "sweep"}, active : BOOLEAN, todo : SUBSET (Part \cup {0})]
  /\ {shared, swept} \subseteq BOOLEAN
<1>0. RestType
  BY DEF TypeInv
<1> SUFFICES RestType'
  BY <1>1 DEF TypeInv
<1>2. ASSUME NEW op \in {"initiate", "upload_part", "complete", "abort"}, NEW p \in Part, Arrive(op, p)
      PROVE  RestType'
  BY <1>0, <1>2 DEF Arrive, diskVars, restVars
<1>3. ASSUME NEW i \in Request, Handle(i) \/ Disconnect(i) PROVE RestType'
  <2>0. i \in Nat
    BY BoundsAssumption DEF Request
  <2>a. i \in Ops => req[i] \in Record
    BY DEF TypeInv, Ops
  <2>c. ASSUME Removes(i)
        PROVE  /\ final' \in BOOLEAN /\ dir' \in BOOLEAN /\ file' \in [Part -> FileState]
               /\ old' \subseteq Part \cup {0} /\ lock' \in Nat
    BY <1>0, <2>c, UnlinkType DEF Removes, RemoveBut
  <2>b. ASSUME DropGuards(i)
        PROVE  /\ final' \in BOOLEAN /\ dir' \in BOOLEAN /\ file' \in [Part -> FileState]
               /\ old' \subseteq Part \cup {0} /\ lock' \in Nat
    BY <2>b, <2>c, GuardsRemove
  <2>1. CASE initiate_multipart_upload(i)
    BY <1>0, <2>1 DEF initiate_multipart_upload, gauge_inc, put_record
  <2>2. CASE CreatePartsDir(i)
    <3>1. gauge' \in Int
      BY <1>0, <2>2 DEF CreatePartsDir, gauge_dec
    <3>2. dir' \in BOOLEAN
      BY <1>0, <2>2 DEF CreatePartsDir
    <3> QED BY <1>0, <2>2, <3>1, <3>2 DEF CreatePartsDir
  <2>3. CASE CheckUpload(i)
    BY <1>0, <2>3 DEF CheckUpload, diskVars, restVars
  <2>4. CASE CreatePartFile(i)
    <3>1. file' \in [Part -> FileState]
      <4> DEFINE p == req[i].part
                 new == [there |-> TRUE, handles |-> file[p].handles \cup {i}, by |-> {}]
      <4>1. p \in Part => new \in FileState
        BY <1>0, <2>0 DEF FileState
      <4>2. file' = file \/ file' = [file EXCEPT ![p] = new]
        BY <1>0, <2>4 DEF CreatePartFile, create_file
      <4> HIDE DEF p, new
      <4> QED BY <1>0, <4>1, <4>2
    <3>2. old' \subseteq Part \cup {0} /\ shared' \in BOOLEAN
      BY <1>0, <2>4 DEF CreatePartFile, InUse
    <3> QED BY <1>0, <2>4, <3>1, <3>2 DEF CreatePartFile
  <2>5. CASE WriteBody(i)
    <3>1. file' \in [Part -> FileState]
      BY <1>0, <2>0, <2>5 DEF WriteBody, FileState
    <3> QED BY <1>0, <2>5, <3>1 DEF WriteBody, restVars
  <2>6. CASE RecordPartCheck(i)
    BY <1>0, <2>6 DEF RecordPartCheck, diskVars, restVars
  <2>7. CASE RecordPartPut(i)
    BY <1>0, <2>0, <2>7 DEF RecordPartPut, put_part, restVars
  <2>8. CASE LockForComplete(i)
    BY <1>0, <2>0, <2>8 DEF LockForComplete, diskVars, restVars
  <2>9. CASE GetUpload(i)
    <3>1. shared' \in BOOLEAN
      BY <1>0, <2>9 DEF GetUpload
    <3>2. old' \subseteq Part \cup {0} /\ lock' \in Nat
      BY <1>0, <2>9 DEF GetUpload
    <3>3. final' \in BOOLEAN
      BY <1>0, <2>9 DEF GetUpload
    <3> QED BY <1>0, <2>9, <3>1, <3>2, <3>3 DEF GetUpload
  <2>10. CASE ReadPart(i)
    <3>1. /\ final' \in BOOLEAN /\ dir' \in BOOLEAN /\ file' \in [Part -> FileState]
          /\ old' \subseteq Part \cup {0} /\ lock' \in Nat
      BY <1>0, <2>10, <2>b DEF ReadPart
    <3> QED BY <1>0, <2>10, <3>1 DEF ReadPart, restVars
  <2>11. CASE CommitObject(i)
    <3>1. /\ final' \in BOOLEAN /\ dir' \in BOOLEAN /\ file' \in [Part -> FileState]
          /\ old' \subseteq Part \cup {0} /\ lock' \in Nat
      BY <1>0, <2>11, <2>b DEF CommitObject
    <3>2. object' \in Contents
      BY <1>0, <2>11, <2>a DEF CommitObject, Assembled, Contents, Running, Ops, Record
    <3> QED BY <1>0, <2>11, <3>1, <3>2 DEF CommitObject
  <2>12. CASE put_object_metadata(i)
    <3>1. /\ final' \in BOOLEAN /\ dir' \in BOOLEAN /\ file' \in [Part -> FileState]
          /\ old' \subseteq Part \cup {0} /\ lock' \in Nat
      BY <1>0, <2>12, <2>b DEF put_object_metadata
    <3> QED BY <1>0, <2>12, <3>1 DEF put_object_metadata
  <2>13. CASE DeleteRecord(i)
    BY <1>0, <2>13 DEF DeleteRecord, delete_record, restVars
  <2>14. CASE DeletePartRecords(i)
    BY <1>0, <2>14 DEF DeletePartRecords, delete_parts, NoParts, restVars
  <2>15. CASE FinishComplete(i)
    BY <1>0, <2>15, <2>b DEF FinishComplete, gauge_dec
  <2>16. CASE AbortGet(i)
    BY <1>0, <2>16 DEF AbortGet, diskVars, restVars
  <2>17. CASE cleanup_part_files(i)
    <3>1. file' \in [Part -> FileState]
      BY <2>17, UnlinkType DEF cleanup_part_files
    <3>2. old' \subseteq Part \cup {0} /\ dir' \in BOOLEAN
      BY <1>0, <2>17 DEF cleanup_part_files
    <3> QED BY <1>0, <2>17, <3>1, <3>2 DEF cleanup_part_files, gauge_dec
  <2>18. CASE Disconnect(i)
    <3>1. [p \in Part |-> [file[p] EXCEPT !.handles = @ \ {i}]] \in [Part -> FileState]
      BY <1>0 DEF FileState
    <3>2. /\ final' \in BOOLEAN /\ dir' \in BOOLEAN /\ file' \in [Part -> FileState]
          /\ old' \subseteq Part \cup {0} /\ lock' \in Nat /\ gauge' \in Int
      <4>1. CASE req[i].op = "complete" /\ req[i].step # "get"
        <5>1. gauge' \in Int
          BY <1>0, <2>18 DEF Disconnect
        <5> QED BY <2>18, <2>c, <4>1, <5>1, GuardsRemove
      <4>2. CASE ~(req[i].op = "complete" /\ req[i].step # "get")
        BY <1>0, <2>18, <3>1, <4>2 DEF Disconnect
      <4> QED BY <4>1, <4>2
    <3> QED BY <1>0, <2>18, <3>2 DEF Disconnect
  <2> QED BY <1>3, <2>1, <2>2, <2>3, <2>4, <2>5, <2>6, <2>7, <2>8, <2>9, <2>10, <2>11, <2>12, <2>13,
             <2>14, <2>15, <2>16, <2>17, <2>18 DEF Handle
<1>4. CASE Crash
  <2>1. [p \in Part |-> [file[p] EXCEPT !.handles = {}]] \in [Part -> FileState]
    BY <1>0 DEF FileState
  <2> QED BY <1>0, <1>4, <2>1 DEF Crash, GcIdle
<1>5. CASE InstallSnapshot
  BY <1>0, <1>5 DEF InstallSnapshot, delete_record, delete_parts, NoParts
<1>6. CASE Age
  BY <1>0, <1>6 DEF Age, restVars
<1>7. CASE Gc
  <2>1. CASE GcActive
    BY <1>0, <2>1 DEF GcActive, diskVars, list_all_multipart_uploads
  <2>2. CASE GcList
    <3>1. gc' \in [step : {"idle", "list", "sweep"}, active : BOOLEAN, todo : SUBSET (Part \cup {0})]
      <4>1. CASE gc' = GcIdle
        BY <4>1 DEF GcIdle
      <4>2. CASE gc' = [gc EXCEPT !.step = "sweep", !.todo = old]
        BY <1>0, <4>2
      <4> QED BY <2>2, <4>1, <4>2 DEF GcList
    <3> QED BY <1>0, <2>2, <3>1 DEF GcList, diskVars
  <2>3. ASSUME NEW f \in Part \cup {0}, GcRemove(f) PROVE RestType'
    <3>1. file' \in [Part -> FileState]
      BY <1>0, <2>3, UnlinkType DEF GcRemove
    <3>2. final' \in BOOLEAN /\ old' \subseteq Part \cup {0} /\ swept' \in BOOLEAN
      BY <1>0, <2>3 DEF GcRemove
    <3> QED BY <1>0, <2>3, <3>1, <3>2 DEF GcRemove
  <2>4. CASE GcEnd
    BY <1>0, <2>4 DEF GcEnd, diskVars, GcIdle
  <2> QED BY <1>7, <2>1, <2>2, <2>3, <2>4 DEF Gc
<1>8. CASE UNCHANGED vars
  BY <1>0, <1>8 DEF vars
<1> QED BY <1>2, <1>3, <1>4, <1>5, <1>6, <1>7, <1>8 DEF Next

Places(i) ==
  /\ req[i].op = "none" <=> req[i].step = "done"
  /\ req[i].op = "initiate" => i = 1 /\ req[i].step \in {"start", "mkdir"}
  /\ req[i].op = "upload_part" =>
       req[i].part \in Part /\ req[i].step \in {"start", "create", "write", "record", "put"}
  /\ req[i].op = "complete" =>
       /\ req[i].step \in {"start", "get", "read", "meta", "unrecord", "unpart", "clean"}
       /\ req[i].step \in {"start", "get"} => req[i].want = NoParts /\ req[i].got = NoData
  /\ req[i].op = "abort" => req[i].step \in {"start", "unrecord", "unpart", "clean"}
  /\ i = 1 => req[i].op \in {"initiate", "none"}

Locked == \A i \in Ops : req[i].op = "complete" /\ req[i].step # "start" => lock = i

(* Control has two parts: where a request is, and who has the lock.        *)
LEMMA ControlParts == Control <=> (\A i \in Ops : Places(i)) /\ Locked
BY DEF Control, Places, Locked

(* A finished request is in place.                                         *)
LEMMA FinishedPlaced ==
  ASSUME NEW i, req'[i] = Finished
  PROVE  Places(i)'
BY DEF Places, Finished

(* Requests stay in their places.                                          *)
LEMMA PlacesStep ==
  ASSUME TypeInv, Control, [Next]_vars
  PROVE  \A i \in DOMAIN req' : Places(i)'
<1>0. \A i \in Ops : Places(i)
  BY ControlParts
<1>1. ASSUME NEW op \in {"initiate", "upload_part", "complete", "abort"}, NEW p \in Part, Arrive(op, p)
      PROVE  \A i \in DOMAIN req' : Places(i)'
  <2>1. PICK n \in Nat :
          /\ Ops = 1 .. n /\ DOMAIN req' = 1 .. (n + 1)
          /\ op = "initiate" <=> n = 0
          /\ \A j \in 1 .. n : req'[j] = req[j]
          /\ req'[n + 1] = [op |-> op, part |-> p, step |-> "start", want |-> NoParts, got |-> NoData]
    BY <1>1, ArriveComes DEF Comes
  <2>2. Places(n + 1)'
    BY <2>1 DEF Places
  <2>3. ASSUME NEW j \in 1 .. n PROVE Places(j)'
    BY <1>0, <2>1 DEF Places
  <2> QED BY <2>1, <2>2, <2>3
<1>2. ASSUME NEW i \in Request, Handle(i) \/ Disconnect(i) PROVE \A j \in DOMAIN req' : Places(j)'
  <2>1. Moves(i)
    BY <1>2, Requests, LongRequests DEF Handle, To, Ends
  <2>2. SUFFICES Places(i)'
    BY <1>0, <2>1 DEF Moves, Places
  <2>3. CASE Ends(i)
    BY <2>3, FinishedPlaced DEF Ends
  <2>4. i \in Ops /\ Places(i)
    BY <1>0, <2>1 DEF Moves
  <2>5. CASE initiate_multipart_upload(i)
    BY <2>4, <2>5, Requests DEF To, Kept, Places, initiate_multipart_upload, Running
  <2>6. CASE CheckUpload(i)
    BY <2>3, <2>4, <2>6, Requests DEF To, Kept, Places, CheckUpload, Running
  <2>7. CASE CreatePartFile(i)
    BY <2>3, <2>4, <2>7, Requests DEF To, Kept, Places, CreatePartFile, Running
  <2>8. CASE WriteBody(i)
    BY <2>3, <2>4, <2>8, LongRequests DEF To, Kept, Places, WriteBody, Running
  <2>9. CASE RecordPartCheck(i)
    BY <2>3, <2>4, <2>9, Requests DEF To, Kept, Places, RecordPartCheck, Running
  <2>10. CASE LockForComplete(i)
    BY <2>4, <2>10, Requests DEF To, Kept, Places, LockForComplete, Running
  <2>11. CASE GetUpload(i)
    BY <2>3, <2>4, <2>11, LongRequests DEF To, Places, GetUpload, Running
  <2>12. CASE ReadPart(i)
    BY <2>3, <2>4, <2>12, LongRequests DEF To, Places, ReadPart, Running
  <2>13. CASE CommitObject(i)
    BY <2>3, <2>4, <2>13, LongRequests DEF To, Places, CommitObject, Running
  <2>14. CASE put_object_metadata(i)
    BY <2>3, <2>4, <2>14, LongRequests DEF To, Places, put_object_metadata, Running
  <2>15. CASE DeleteRecord(i)
    BY <2>4, <2>15, Requests DEF To, Places, DeleteRecord, Running
  <2>16. CASE DeletePartRecords(i)
    BY <2>4, <2>16, Requests DEF To, Places, DeletePartRecords, Running
  <2>17. CASE AbortGet(i)
    BY <2>3, <2>4, <2>17, LongRequests DEF To, Places, AbortGet, Running
  <2>18. CASE \/ CreatePartsDir(i) \/ RecordPartPut(i) \/ FinishComplete(i) \/ cleanup_part_files(i)
              \/ Disconnect(i)
    BY <2>3, <2>18, Requests
  <2> QED BY <1>2, <2>5, <2>6, <2>7, <2>8, <2>9, <2>10, <2>11, <2>12, <2>13, <2>14, <2>15, <2>16,
             <2>17, <2>18 DEF Handle
<1>3. CASE Crash
  <2>1. \A i \in DOMAIN req' : req'[i] = Finished
    BY <1>3 DEF Crash
  <2> QED BY <2>1, FinishedPlaced
<1>4. CASE UNCHANGED req
  BY <1>0, <1>4 DEF Places, Ops
<1>5. InstallSnapshot \/ Age \/ Gc => UNCHANGED req
  BY DEF InstallSnapshot, Age, Gc, GcActive, GcList, GcRemove, GcEnd
<1> QED BY <1>1, <1>2, <1>3, <1>4, <1>5 DEF Next, vars

(* A complete that has begun has the lock.                                 *)
LEMMA LockedStep ==
  ASSUME TypeInv, Control, [Next]_vars
  PROVE  Locked'
<1>0. Locked
  BY ControlParts
<1>1. ASSUME NEW op \in {"initiate", "upload_part", "complete", "abort"}, NEW p \in Part, Arrive(op, p)
      PROVE  Locked'
  <2>1. PICK n \in Nat :
          /\ Ops = 1 .. n /\ DOMAIN req' = 1 .. (n + 1)
          /\ \A j \in 1 .. n : req'[j] = req[j]
          /\ req'[n + 1] = [op |-> op, part |-> p, step |-> "start", want |-> NoParts, got |-> NoData]
    BY <1>1, ArriveComes DEF Comes
  <2>2. req'[n + 1].step = "start"
    BY <2>1
  <2>3. UNCHANGED lock
    BY <1>1 DEF Arrive
  <2> QED BY <1>0, <2>1, <2>2, <2>3 DEF Locked, Ops
<1>2. ASSUME NEW i \in Request, Handle(i) \/ Disconnect(i) PROVE Locked'
  <2>1. Moves(i)
    BY <1>2, Requests, LongRequests DEF Handle, To, Ends
  <2>2. ASSUME UNCHANGED lock, Ends(i) PROVE Locked'
    BY <1>0, <2>2 DEF Locked, Ends, Moves, Finished, Ops
  <2>3. ASSUME UNCHANGED lock, NEW s, To(i, s), req[i].op # "complete" \/ req[i].step # "start"
        PROVE  Locked'
    BY <1>0, <2>3 DEF Locked, To, Moves, Ops
  <2>4. ASSUME lock' = 0, Ends(i), lock = i PROVE Locked'
    BY <1>0, <2>4 DEF Locked, Ends, Moves, Finished, Ops
  <2>a. ASSUME NEW s, Running(i, "complete", s), s # "start", Removes(i) PROVE Locked'
    <3>1. Ends(i)
      BY <2>a, GotoMoves DEF Removes, RemoveBut, Running, Ops, Steps
    <3> QED BY <1>0, <2>4, <2>a, <3>1 DEF Removes, RemoveBut, Locked, Running, Ops
  <2>5. ASSUME NEW s, Running(i, "complete", s), s # "start", DropGuards(i) PROVE Locked'
    BY <2>5, <2>a, GuardsRemove
  <2>6. CASE initiate_multipart_upload(i)
    BY <2>3, <2>6, Requests DEF initiate_multipart_upload, Running
  <2>7. CASE CheckUpload(i)
    BY <2>2, <2>3, <2>7, Requests DEF CheckUpload, Running
  <2>8. CASE CreatePartFile(i)
    BY <2>2, <2>3, <2>8, Requests DEF CreatePartFile, Running
  <2>9. CASE WriteBody(i)
    BY <2>2, <2>3, <2>9, LongRequests DEF WriteBody, Running
  <2>10. CASE RecordPartCheck(i)
    BY <2>2, <2>3, <2>10, Requests DEF RecordPartCheck, Running
  <2>11. CASE LockForComplete(i)
    <3>1. /\ lock = 0 /\ lock' = i /\ To(i, "get")
      BY <2>11, Requests DEF LockForComplete
    <3>2. \A j \in Ops : j # 0
      BY DEF TypeInv, Numbered, Ops
    <3> QED BY <1>0, <3>1, <3>2 DEF Locked, To, Moves, Ops
  <2>12. CASE GetUpload(i)
    <3>1. lock = i
      BY <1>0, <2>12 DEF GetUpload, Running, Locked, Ops
    <3>2. UNCHANGED lock \/ (lock' = 0 /\ Goto(i, "done"))
      BY <2>12 DEF GetUpload
    <3>3. Goto(i, "done") => Ends(i)
      BY <2>12, GotoMoves DEF GetUpload, Running, Ops, Steps
    <3> QED BY <2>2, <2>3, <2>4, <2>12, <3>1, <3>2, <3>3, LongRequests DEF GetUpload, Running
  <2>13. CASE ReadPart(i)
    BY <2>2, <2>3, <2>5, <2>13, LongRequests DEF ReadPart, Running
  <2>14. CASE CommitObject(i)
    BY <2>2, <2>3, <2>5, <2>14, LongRequests DEF CommitObject, Running
  <2>15. CASE put_object_metadata(i)
    BY <2>2, <2>3, <2>5, <2>15, LongRequests DEF put_object_metadata, Running
  <2>16. CASE DeleteRecord(i)
    BY <2>3, <2>16, Requests DEF DeleteRecord, Running
  <2>17. CASE DeletePartRecords(i)
    BY <2>3, <2>17, Requests DEF DeletePartRecords, Running
  <2>18. CASE FinishComplete(i)
    BY <2>5, <2>18 DEF FinishComplete
  <2>19. CASE AbortGet(i)
    BY <2>2, <2>3, <2>19, LongRequests DEF AbortGet, Running
  <2>20. CASE CreatePartsDir(i) \/ RecordPartPut(i) \/ cleanup_part_files(i)
    BY <2>2, <2>20, Requests DEF CreatePartsDir, RecordPartPut, cleanup_part_files
  <2>21. CASE Disconnect(i)
    <3>1. Ends(i) /\ i \in Ops
      BY <2>1, <2>21, Requests DEF Moves
    <3>2. CASE req[i].op = "complete" /\ req[i].step # "get"
      <4>1. Removes(i) /\ req[i].step # "start"
        BY <2>21, <3>2, GuardsRemove DEF Disconnect
      <4> QED BY <2>a, <3>1, <3>2, <4>1 DEF Running, Ops
    <3>3. CASE ~(req[i].op = "complete" /\ req[i].step # "get")
      BY <2>2, <2>4, <2>21, <3>1, <3>3 DEF Disconnect
    <3> QED BY <3>2, <3>3
  <2> QED BY <1>2, <2>6, <2>7, <2>8, <2>9, <2>10, <2>11, <2>12, <2>13, <2>14, <2>15, <2>16, <2>17,
             <2>18, <2>19, <2>20, <2>21 DEF Handle
<1>3. CASE Crash
  BY <1>3 DEF Crash, Locked, Finished, Ops
<1>4. CASE UNCHANGED <<req, lock>>
  BY <1>0, <1>4 DEF Locked, Ops
<1>5. InstallSnapshot \/ Age \/ Gc => UNCHANGED <<req, lock>>
  BY DEF InstallSnapshot, Age, Gc, GcActive, GcList, GcRemove, GcEnd, diskVars
<1> QED BY <1>1, <1>2, <1>3, <1>4, <1>5 DEF Next, vars

(* Nothing that was opened is closed, and only initiate opens.             *)
LEMMA OpenedStep ==
  ASSUME TypeInv, Control, [Next]_vars
  PROVE  /\ Opened => Opened'
         /\ ~Opened /\ Opened' => Crash \/ \E i \in Request : initiate_multipart_upload(i) \/ Disconnect(i)
<1>1. ASSUME NEW op \in {"initiate", "upload_part", "complete", "abort"}, NEW p \in Part, Arrive(op, p)
      PROVE  Opened <=> Opened'
  <2>1. PICK n \in Nat :
          /\ Ops = 1 .. n /\ DOMAIN req' = 1 .. (n + 1)
          /\ op = "initiate" <=> n = 0
          /\ \A j \in 1 .. n : req'[j] = req[j]
          /\ req'[n + 1] = [op |-> op, part |-> p, step |-> "start", want |-> NoParts, got |-> NoData]
    BY <1>1, ArriveComes DEF Comes
  <2>2. req'[n + 1].step = "start" /\ req'[n + 1].op = op
    BY <2>1
  <2>3. CASE n = 0
    BY <2>1, <2>2, <2>3 DEF Opened, Ops
  <2>4. CASE n # 0
    BY <2>1, <2>4 DEF Opened, Ops
  <2> QED BY <2>3, <2>4
<1>2. ASSUME NEW i \in Request, Handle(i) \/ Disconnect(i)
      PROVE  /\ Opened => Opened'
             /\ ~Opened /\ Opened' => initiate_multipart_upload(i) \/ Disconnect(i)
  <2>1. Moves(i) /\ i \in Ops
    BY <1>2, Requests, LongRequests DEF Handle, To, Ends, Moves
  <2>2. CASE i # 1
    BY <2>1, <2>2 DEF Opened, Moves, Ops
  <2>3. CASE i = 1
    <3>1. req[1].op \in {"initiate", "none"} /\ (req[1].op = "none" <=> req[1].step = "done")
      BY <2>1, <2>3 DEF Control
    <3>2. \/ initiate_multipart_upload(1) \/ CreatePartsDir(1) \/ Disconnect(1)
      BY <1>2, <2>3, <3>1 DEF Handle, CheckUpload, CreatePartFile, WriteBody, RecordPartCheck,
         RecordPartPut, LockForComplete, GetUpload, ReadPart, CommitObject, put_object_metadata,
         DeleteRecord, DeletePartRecords, FinishComplete, AbortGet, cleanup_part_files, Running
    <3>3. To(1, "mkdir") \/ Ends(1)
      BY <2>3, <3>2, Requests
    <3>4. Opened'
      BY <2>1, <2>3, <3>3 DEF Opened, To, Ends, Moves, Finished, Ops
    <3>5. CreatePartsDir(1) => Opened
      BY <2>1, <2>3 DEF CreatePartsDir, Running, Opened, Ops
    <3> QED BY <2>3, <3>2, <3>4, <3>5
  <2> QED BY <2>2, <2>3
<1>3. CASE Crash
  BY <1>3 DEF Crash, Opened, Finished, Ops
<1>4. CASE UNCHANGED req
  BY <1>4 DEF Opened, Ops
<1>5. InstallSnapshot \/ Age \/ Gc => UNCHANGED req
  BY DEF InstallSnapshot, Age, Gc, GcActive, GcList, GcRemove, GcEnd
<1> QED BY <1>1, <1>2, <1>3, <1>4, <1>5 DEF Next, vars

(* While nothing is opened nothing of the upload comes to be.              *)
LEMMA EarlyStep ==
  ASSUME TypeInv, Control, Early, [Next]_vars
  PROVE  Early'
<1> SUFFICES ASSUME ~Opened' PROVE Early'
  BY DEF Early
<1>0. /\ ~Opened
      /\ ~record /\ partRec = NoParts /\ (\A p \in Part : ~file[p].there)
      /\ ~final /\ old = {} /\ gc.step = "idle" /\ gauge = 0 /\ ended = {}
      /\ \A i \in Ops : req[i].step \in {"start", "get", "done"}
  BY OpenedStep DEF Early
<1>a. \A i \in Ops : req[i].op = "initiate" => req[i].step = "start" /\ i = 1
  BY <1>0 DEF Control
<1>b. ASSUME UNCHANGED <<record, partRec, file, final, old, gc, gauge, ended>>,
             \A i \in DOMAIN req' : req'[i].step \in {"start", "get", "done"}
      PROVE  Early'
  BY <1>0, <1>b DEF Early, Ops
<1>1. ASSUME NEW op \in {"initiate", "upload_part", "complete", "abort"}, NEW p \in Part, Arrive(op, p)
      PROVE  Early'
  <2>1. PICK n \in Nat :
          /\ Ops = 1 .. n /\ DOMAIN req' = 1 .. (n + 1)
          /\ \A j \in 1 .. n : req'[j] = req[j]
          /\ req'[n + 1] = [op |-> op, part |-> p, step |-> "start", want |-> NoParts, got |-> NoData]
    BY <1>1, ArriveComes DEF Comes
  <2>2. \A i \in DOMAIN req' : req'[i].step \in {"start", "get", "done"}
    BY <1>0, <2>1
  <2> QED BY <1>1, <1>b, <2>2 DEF Arrive, diskVars, restVars
<1>2. ASSUME NEW i \in Request, Handle(i) \/ Disconnect(i) PROVE Early'
  <2>1. Moves(i) /\ i \in Ops
    BY <1>2, Requests, LongRequests DEF Handle, To, Ends, Moves
  <2>2. ASSUME Ends(i) \/ To(i, "get") PROVE \A j \in DOMAIN req' : req'[j].step \in {"start", "get", "done"}
    BY <1>0, <2>1, <2>2 DEF Ends, To, Moves, Finished, Ops
  <2>3. ~initiate_multipart_upload(i) /\ ~CreatePartsDir(i)
    <3>1. initiate_multipart_upload(i) => Opened'
      BY Requests DEF To, Moves, Opened, Ops, initiate_multipart_upload, Running, Control
    <3> QED BY <1>0, <3>1 DEF CreatePartsDir, Running, Ops
  <2>4. CASE CheckUpload(i) \/ LockForComplete(i)
    BY <1>0, <1>b, <2>2, <2>4, Requests DEF CheckUpload, LockForComplete, diskVars, restVars
  <2>5. CASE AbortGet(i)
    BY <1>0, <1>b, <2>2, <2>5, LongRequests DEF AbortGet, diskVars, restVars
  <2>6. CASE GetUpload(i)
    <3>1. Ends(i) /\ UNCHANGED <<final, old, shared>>
      BY <1>0, <2>1, <2>6, GotoMoves DEF GetUpload, get_multipart_upload, Steps
    <3> QED BY <1>b, <2>2, <2>6, <3>1 DEF GetUpload
  <2>7. CASE Disconnect(i)
    <3>1. Ends(i) /\ req[i].op # "initiate" /\ ~(req[i].op = "complete" /\ req[i].step # "get")
      BY <1>0, <1>a, <2>1, <2>7, Requests DEF Disconnect, Active
    <3>2. UNCHANGED <<record, partRec, final, old, gc, gauge, ended>>
      BY <2>7, <3>1 DEF Disconnect
    <3>3. file' = [p \in Part |-> [file[p] EXCEPT !.handles = @ \ {i}]]
      BY <2>7, <3>1 DEF Disconnect
    <3>4. \A p \in Part : ~file'[p].there
      BY <1>0, <3>3 DEF TypeInv, FileState
    <3> QED BY <1>0, <2>2, <3>1, <3>2, <3>4 DEF Early, Ops
  <2> QED BY <1>0, <1>2, <2>1, <2>3, <2>4, <2>5, <2>6, <2>7 DEF Handle, Running, Ops, CreatePartFile,
             WriteBody, RecordPartCheck, RecordPartPut, ReadPart, CommitObject, put_object_metadata,
             DeleteRecord, DeletePartRecords, FinishComplete, cleanup_part_files
<1>3. CASE Crash
  <2>1. \A p \in Part : ~file'[p].there
    BY <1>0, <1>3 DEF Crash, TypeInv, FileState
  <2>2. /\ ~record' /\ partRec' = NoParts /\ ~final' /\ old' = {} /\ gauge' = 0 /\ ended' = {}
        /\ gc'.step = "idle"
    BY <1>0, <1>3 DEF Crash, GcIdle
  <2>3. \A i \in DOMAIN req' : req'[i].step \in {"start", "get", "done"}
    BY <1>3 DEF Crash, Finished
  <2> QED BY <2>1, <2>2, <2>3 DEF Early, Ops
<1>4. CASE InstallSnapshot
  BY <1>0, <1>4 DEF InstallSnapshot, delete_record, delete_parts, Early, Ops
<1>5. CASE Age
  <2>1. old' = {}
    BY <1>0, <1>5 DEF Age
  <2> QED BY <1>0, <1>5, <2>1 DEF Age, Early, Ops, restVars
<1>6. ~Gc
  BY <1>0 DEF Gc, GcActive, GcList, GcRemove, GcEnd
<1>7. CASE UNCHANGED vars
  BY <1>0, <1>7, <1>b DEF vars, Ops
<1> QED BY <1>1, <1>2, <1>3, <1>4, <1>5, <1>6, <1>7 DEF Next

(* The record is put by initiate alone.                                    *)
LEMMA RecordStep ==
  ASSUME [Next]_vars
  PROVE  ~record /\ record' => \E i \in Request : initiate_multipart_upload(i)
<1>1. ASSUME NEW i \in Request, Handle(i) \/ Disconnect(i), ~initiate_multipart_upload(i), record'
      PROVE  record
  BY <1>1 DEF Handle, CheckUpload, CreatePartFile, WriteBody, RecordPartCheck, CreatePartsDir,
     RecordPartPut, LockForComplete, GetUpload, ReadPart, CommitObject, put_object_metadata,
     DeleteRecord, DeletePartRecords, FinishComplete, AbortGet, cleanup_part_files, Disconnect,
     diskVars, delete_record
<1>2. ASSUME NEW op \in {"initiate", "upload_part", "complete", "abort"}, NEW p \in Part, Arrive(op, p)
      PROVE  UNCHANGED record
  BY <1>2 DEF Arrive, diskVars
<1>3. CASE Crash \/ InstallSnapshot \/ Age \/ Gc
  BY <1>3 DEF Crash, InstallSnapshot, delete_record, Age, Gc, GcActive, GcList, GcRemove, GcEnd, diskVars
<1> QED BY <1>1, <1>2, <1>3 DEF Next, vars

(* initiate is the first request, and finds nothing.                       *)
LEMMA InitiateFirst ==
  ASSUME TypeInv, Control, NEW i \in Request, initiate_multipart_upload(i)
  PROVE  i = 1 /\ ~Opened /\ Opened'
<1>1. i = 1 /\ ~Opened
  BY DEF initiate_multipart_upload, Running, Control, Opened, Ops
<1> QED BY <1>1, Requests DEF To, Moves, Opened, Ops

(* A deleted record stays deleted while its deleter goes on.               *)
LEMMA GoneStep ==
  ASSUME TypeInv, Control, Early, Gone, [Next]_vars
  PROVE  Gone'
<1>1. ASSUME NEW op \in {"initiate", "upload_part", "complete", "abort"}, NEW p \in Part, Arrive(op, p)
      PROVE  Gone'
  <2>1. PICK n \in Nat :
          /\ Ops = 1 .. n /\ DOMAIN req' = 1 .. (n + 1)
          /\ \A j \in 1 .. n : req'[j] = req[j]
          /\ req'[n + 1] = [op |-> op, part |-> p, step |-> "start", want |-> NoParts, got |-> NoData]
    BY <1>1, ArriveComes DEF Comes
  <2>2. req'[n + 1].step = "start"
    BY <2>1
  <2>3. UNCHANGED record
    BY <1>1 DEF Arrive, diskVars
  <2>4. \A j \in 1 .. n : Ending(j)' <=> Ending(j)
    BY <2>1 DEF Ending, Ops
  <2>5. ~Ending(n + 1)'
    BY <2>2 DEF Ending
  <2> QED BY <2>1, <2>3, <2>4, <2>5 DEF Gone, Ops
<1>2. ASSUME NEW i \in Request, Handle(i) \/ Disconnect(i) PROVE Gone'
  <2>1. Moves(i) /\ i \in Ops
    BY <1>2, Requests, LongRequests DEF Handle, To, Ends, Moves
  <2>2. \A j \in Ops : j # i => (Ending(j)' <=> Ending(j))
    BY <2>1 DEF Moves, Ending, Ops
  <2>3. CASE initiate_multipart_upload(i)
    <3>1. \A j \in Ops : req[j].step \in {"start", "get", "done"}
      BY <2>3, InitiateFirst DEF Early
    <3>2. \A j \in Ops : ~Ending(j)
      BY <3>1 DEF Ending
    <3>3. ~Ending(i)'
      BY <2>3, Requests DEF To, Ending
    <3> QED BY <2>1, <2>2, <3>2, <3>3 DEF Gone, Ops, Moves
  <2>4. CASE ~initiate_multipart_upload(i)
    <3>1. record' => record
      BY <1>2, <2>4 DEF Handle, CheckUpload, CreatePartFile, WriteBody, RecordPartCheck, CreatePartsDir,
         RecordPartPut, LockForComplete, GetUpload, ReadPart, CommitObject, put_object_metadata,
         DeleteRecord, DeletePartRecords, FinishComplete, AbortGet, cleanup_part_files, Disconnect,
         diskVars, delete_record
    <3>2. Ending(i)' => ~record'
      <4>1. CASE DeleteRecord(i)
        BY <4>1 DEF DeleteRecord, delete_record
      <4>2. CASE DeletePartRecords(i)
        BY <2>1, <3>1, <4>2 DEF DeletePartRecords, Running, Gone, Ending, Ops
      <4>3. CASE ~DeleteRecord(i) /\ ~DeletePartRecords(i)
        <5>1. Ends(i) => ~Ending(i)'
          BY DEF Ends, Ending, Finished
        <5>2. ASSUME NEW s \in {"create", "write", "record", "put", "get", "read", "meta", "unrecord"},
                     To(i, s)
              PROVE  ~Ending(i)'
          BY <5>2 DEF To, Ending
        <5> QED BY <1>2, <2>4, <4>3, <5>1, <5>2, Requests, LongRequests DEF Handle
      <4> QED BY <4>1, <4>2, <4>3
    <3> QED BY <2>1, <2>2, <3>1, <3>2 DEF Gone, Moves, Ops
  <2> QED BY <2>3, <2>4
<1>3. CASE Crash
  BY <1>3 DEF Crash, Gone, Ending, Finished, Ops
<1>4. CASE UNCHANGED req
  <2>1. ASSUME NEW i \in Request PROVE ~initiate_multipart_upload(i)
    <3>1. initiate_multipart_upload(i) => Opened' /\ ~Opened
      BY InitiateFirst
    <3> QED BY <1>4, <3>1 DEF Opened, Ops
  <2>2. record' => record
    BY <2>1, RecordStep DEF TypeInv
  <2> QED BY <1>4, <2>2 DEF Gone, Ending, Ops
<1>5. InstallSnapshot \/ Age \/ Gc => UNCHANGED req
  BY DEF InstallSnapshot, Age, Gc, GcActive, GcList, GcRemove, GcEnd
<1> QED BY <1>1, <1>2, <1>3, <1>4, <1>5 DEF Next, vars
-----------------------------------------------------------------------------
(* What a step does to the part files.                                     *)

(* Some are unlinked.                                                      *)
Unlinked == \A p \in Part : file'[p] \in {file[p], NoFile}

(* One is made or truncated, or written to, by request i.                  *)
CreatedBy(i) ==
  LET p == req[i].part
  IN /\ \A q \in Part : q # p => file'[q] = file[q]
     /\ p \in Part => file'[p].there /\ i \in file'[p].handles /\ file'[p].by = {}
WrittenBy(i) ==
  LET p == req[i].part
  IN /\ \A q \in Part : q # p => file'[q] = file[q]
     /\ p \in Part => /\ file'[p].there = file[p].there
                      /\ Empty(file[p]) => Empty(file'[p])
                      /\ file'[p].by = IF i \in file[p].handles THEN file[p].by \cup {i} ELSE file[p].by

(* Unlink takes files away.                                                *)
LEMMA UnlinkFiles ==
  ASSUME TypeInv, NEW S, Unlink(S)
  PROVE  Unlinked
BY DEF Unlink, Unlinked

(* The part file is made or truncated.                                     *)
LEMMA CreateFiles ==
  ASSUME TypeInv, NEW i \in Request, CreatePartFile(i)
  PROVE  (dir /\ CreatedBy(i)) \/ (~dir /\ UNCHANGED file)
<1> DEFINE p == req[i].part
           new == [there |-> TRUE, handles |-> file[p].handles \cup {i}, by |-> {}]
<1>1. dir => file' = [file EXCEPT ![p] = new]
  BY DEF CreatePartFile, create_file, TypeInv
<1>2. new.there /\ i \in new.handles /\ new.by = {}
  OBVIOUS
<1>3. ~dir => UNCHANGED file
  BY DEF CreatePartFile
<1> HIDE DEF new
<1> QED BY <1>1, <1>2, <1>3 DEF CreatedBy, TypeInv

(* The body is written if the file has not been unlinked since.            *)
LEMMA WriteFiles ==
  ASSUME TypeInv, NEW i \in Request, WriteBody(i)
  PROVE  \/ WrittenBy(i) /\ To(i, "record")
         \/ "storage" \in faults /\ \A p \in Part : /\ file'[p].there = file[p].there
                                                    /\ Empty(file[p]) => Empty(file'[p])
<1> DEFINE p == req[i].part
<1>0. i \in Ops
  BY DEF WriteBody, Running, Ops
<1>1. CASE /\ file' = [file EXCEPT ![p].by = IF i \in file[p].handles THEN @ \cup {i} ELSE @,
                                   ![p].handles = @ \ {i}]
           /\ Goto(i, "record")
  <2> DEFINE by == IF i \in file[p].handles THEN file[p].by \cup {i} ELSE file[p].by
             new == [[file[p] EXCEPT !.by = by] EXCEPT !.handles = file[p].handles \ {i}]
  <2>1. p \in Part => file[p] \in FileState
    BY DEF TypeInv
  <2>2. p \in Part => file'[p] = new /\ \A q \in Part : q # p => file'[q] = file[q]
    BY <1>1, <2>1 DEF TypeInv, FileState
  <2>3. p \notin Part => file' = file
    BY <1>1 DEF TypeInv
  <2>4. p \in Part => /\ new.there = file[p].there /\ new.by = by
                      /\ Empty(file[p]) => Empty(new)
    BY <2>1 DEF Empty, FileState
  <2>5. To(i, "record")
    BY <1>0, <1>1, GotoMoves DEF Steps
  <2> HIDE DEF new
  <2>6. WrittenBy(i)
    BY <2>2, <2>3, <2>4 DEF WrittenBy, TypeInv
  <2> QED BY <2>5, <2>6
<1>2. CASE "storage" \in faults /\ file' = [file EXCEPT ![p].handles = @ \ {i}]
  BY <1>2 DEF TypeInv, FileState, Empty
<1> QED BY <1>1, <1>2 DEF WriteBody

(* What the others do with the files.                                      *)
LEMMA OtherFiles ==
  ASSUME TypeInv, [Next]_vars,
         \A i \in Request : ~CreatePartFile(i) /\ ~WriteBody(i)
  PROVE  \/ Unlinked
         \/ /\ faults \cap {"disconnect", "crash"} # {}
            /\ \A p \in Part : /\ file'[p].there = file[p].there
                               /\ Empty(file[p]) => Empty(file'[p])
<1>1. ASSUME UNCHANGED file PROVE Unlinked
  BY <1>1 DEF Unlinked
<1>2. ASSUME NEW i \in Request, Removes(i) PROVE Unlinked
  BY <1>2, UnlinkFiles DEF Removes, RemoveBut
<1>3. ASSUME NEW i \in Request, Handle(i) PROVE Unlinked
  <2>1. CASE cleanup_part_files(i)
    BY <2>1, UnlinkFiles DEF cleanup_part_files
  <2>2. CASE ~cleanup_part_files(i)
    <3>1. UNCHANGED file \/ Removes(i)
      BY <1>3, <2>2, GuardsRemove
      DEF Handle, initiate_multipart_upload, CreatePartsDir, CheckUpload, RecordPartCheck,
         RecordPartPut, LockForComplete, GetUpload, ReadPart, CommitObject, put_object_metadata,
         DeleteRecord, DeletePartRecords, FinishComplete, AbortGet, diskVars
    <3> QED BY <1>1, <1>2, <3>1
  <2> QED BY <2>1, <2>2
<1>4. ASSUME NEW i \in Request, Disconnect(i), ~Removes(i)
      PROVE  /\ faults \cap {"disconnect", "crash"} # {}
             /\ \A p \in Part : /\ file'[p].there = file[p].there
                                /\ Empty(file[p]) => Empty(file'[p])
  <2>1. file' = [p \in Part |-> [file[p] EXCEPT !.handles = @ \ {i}]] /\ "disconnect" \in faults
    BY <1>4, GuardsRemove DEF Disconnect
  <2> QED BY <2>1 DEF TypeInv, FileState, Empty
<1>5. CASE Crash
  <2>1. file' = [p \in Part |-> [file[p] EXCEPT !.handles = {}]] /\ "crash" \in faults
    BY <1>5 DEF Crash
  <2> QED BY <2>1 DEF TypeInv, FileState, Empty
<1>6. ASSUME NEW f \in Part \cup {0}, GcRemove(f) PROVE Unlinked
  BY <1>1, <1>6, UnlinkFiles DEF GcRemove
<1>7. ASSUME NEW op \in {"initiate", "upload_part", "complete", "abort"}, NEW p \in Part, Arrive(op, p)
      PROVE  Unlinked
  BY <1>1, <1>7 DEF Arrive, diskVars
<1>8. CASE InstallSnapshot \/ Age \/ GcActive \/ GcList \/ GcEnd
  BY <1>1, <1>8 DEF InstallSnapshot, Age, GcActive, GcList, GcEnd, diskVars
<1>9. CASE UNCHANGED vars
  BY <1>1, <1>9 DEF vars
<1> QED BY <1>2, <1>3, <1>4, <1>5, <1>6, <1>7, <1>8, <1>9 DEF Next, Gc

(* Files that are gone are gone entirely.                                  *)
LEMMA GoneFilesStep ==
  ASSUME TypeInv, Control, GoneFiles, [Next]_vars
  PROVE  GoneFiles'
<1>0. Empty(NoFile)
  BY DEF NoFile, Empty
<1>1. ASSUME NEW i \in Request, CreatePartFile(i) PROVE GoneFiles'
  BY <1>1, CreateFiles DEF CreatedBy, GoneFiles
<1>2. ASSUME NEW i \in Request, WriteBody(i) PROVE GoneFiles'
  BY <1>2, WriteFiles DEF WrittenBy, GoneFiles
<1>3. CASE \A i \in Request : ~CreatePartFile(i) /\ ~WriteBody(i)
  BY <1>0, <1>3, OtherFiles DEF Unlinked, GoneFiles
<1> QED BY <1>1, <1>2, <1>3

(* The base invariant is inductive.                                        *)
LEMMA BaseStep ==
  ASSUME BaseInv, [Next]_vars
  PROVE  BaseInv'
<1>1. Control'
  <2>1. (\A i \in DOMAIN req' : Places(i)') /\ Locked'
    BY PlacesStep, LockedStep DEF BaseInv
  <2> QED BY <2>1 DEF Control, Places, Locked, Ops
<1> QED BY <1>1, TypeStep, EarlyStep, GoneStep, GoneFilesStep DEF BaseInv

(* It holds at the start.                                                  *)
LEMMA BaseInit ==
  ASSUME Init
  PROVE  BaseInv
<1>1. NoFile \in FileState
  BY DEF NoFile, FileState
<1>2. DOMAIN req = {}
  BY DEF Init
<1>3. Numbered
  <2>1. 1 .. 0 = {}
    OBVIOUS
  <2> QED BY <1>2, <2>1 DEF Numbered
<1>4. TypeInv
  <2>1. req \in [DOMAIN req -> Record]
    BY <1>2 DEF Init
  <2>2. file \in [Part -> FileState]
    BY <1>1 DEF Init
  <2>3. gc \in [step : {"idle", "list", "sweep"}, active : BOOLEAN, todo : SUBSET (Part \cup {0})]
    BY DEF Init, GcIdle
  <2>4. object \in Contents /\ partRec \in [Part -> Nat]
    BY DEF Init, Nothing, NoParts, NoData, Contents
  <2>5. faults \in SUBSET FaultKinds
    BY FaultsAssumption DEF Init
  <2>6. old \subseteq Part \cup {0} /\ lock \in Nat /\ gauge \in Int
    BY DEF Init
  <2>7. record \in BOOLEAN /\ dir \in BOOLEAN /\ final \in BOOLEAN
    BY DEF Init
  <2>8. {shared, swept} \subseteq BOOLEAN
    BY DEF Init
  <2> QED BY <1>3, <2>1, <2>2, <2>3, <2>4, <2>5, <2>6, <2>7, <2>8 DEF TypeInv
<1>5. Control /\ Gone
  BY <1>2 DEF Control, Gone, Ops
<1>6. Early
  <2>1. \A p \in Part : ~file[p].there
    BY DEF Init, NoFile
  <2>2. gc.step = "idle"
    BY DEF Init, GcIdle
  <2> QED BY <1>2, <2>1, <2>2 DEF Early, Ops, Init
<1>7. GoneFiles
  BY DEF Init, GoneFiles, Empty, NoFile
<1> QED BY <1>4, <1>5, <1>6, <1>7 DEF BaseInv
-----------------------------------------------------------------------------
(* Who begins and ends to use a part file.                                 *)

(* faults are fixed.                                                       *)
LEMMA FaultsFixed ==
  ASSUME [Next]_vars
  PROVE  UNCHANGED faults
<1>1. ASSUME NEW i \in Request, Handle(i) \/ Disconnect(i) PROVE UNCHANGED faults
  BY <1>1 DEF Handle, initiate_multipart_upload, CheckUpload, CreatePartFile, WriteBody, RecordPartCheck,
     CreatePartsDir, RecordPartPut, LockForComplete, GetUpload, ReadPart, CommitObject,
     put_object_metadata, DeleteRecord, DeletePartRecords, FinishComplete, AbortGet, cleanup_part_files,
     Disconnect, restVars
<1>2. ASSUME NEW op \in {"initiate", "upload_part", "complete", "abort"}, NEW p \in Part, Arrive(op, p)
      PROVE  UNCHANGED faults
  BY <1>2 DEF Arrive, restVars
<1>3. CASE Crash \/ InstallSnapshot \/ Age \/ Gc
  BY <1>3 DEF Crash, InstallSnapshot, Age, Gc, GcActive, GcList, GcRemove, GcEnd, restVars
<1> QED BY <1>1, <1>2, <1>3 DEF Next, vars

(* A request that another step does not move stays as it is.               *)
LEMMA OneMoves ==
  ASSUME TypeInv, [Next]_vars, NEW j \in DOMAIN req'
  PROVE  \/ j \in Request /\ j \in Ops /\ (Handle(j) \/ Disconnect(j)) /\ Moves(j)
         \/ Crash /\ req'[j] = Finished
         \/ j \in Ops /\ req'[j] = req[j]
         \/ j \notin Ops /\ req'[j].step = "start"
<1>1. ASSUME NEW op \in {"initiate", "upload_part", "complete", "abort"}, NEW p \in Part, Arrive(op, p)
      PROVE  (j \in Ops /\ req'[j] = req[j]) \/ (j \notin Ops /\ req'[j].step = "start")
  <2>1. PICK n \in Nat :
          /\ Ops = 1 .. n /\ DOMAIN req' = 1 .. (n + 1)
          /\ \A k \in 1 .. n : req'[k] = req[k]
          /\ req'[n + 1] = [op |-> op, part |-> p, step |-> "start", want |-> NoParts, got |-> NoData]
    BY <1>1, ArriveComes DEF Comes
  <2>2. req'[n + 1].step = "start"
    BY <2>1
  <2> QED BY <2>1, <2>2
<1>2. ASSUME NEW i \in Request, Handle(i) \/ Disconnect(i)
      PROVE  (i = j /\ j \in Ops /\ Moves(j)) \/ (j \in Ops /\ req'[j] = req[j])
  <2>1. Moves(i)
    BY <1>2, Requests, LongRequests DEF Handle, To, Ends
  <2> QED BY <2>1 DEF Moves
<1>3. CASE Crash
  BY <1>3 DEF Crash
<1>4. CASE UNCHANGED req
  BY <1>4 DEF Ops
<1>5. InstallSnapshot \/ Age \/ Gc => UNCHANGED req
  BY DEF InstallSnapshot, Age, Gc, GcActive, GcList, GcRemove, GcEnd
<1> QED BY <1>1, <1>2, <1>3, <1>4, <1>5 DEF Next, vars

(* An upload begins to use the file by opening it.                         *)
LEMMA UploadingBegins ==
  ASSUME BaseInv, [Next]_vars, NEW i \in DOMAIN req', NEW p, Uploading(i, p)'
  PROVE  /\ i \in Ops /\ req'[i].part = req[i].part /\ p = req[i].part
         /\ \/ Uploading(i, p) /\ req'[i].step = req[i].step
            \/ Uploading(i, p) /\ i \in Request /\ WriteBody(i) /\ To(i, "record")
            \/ Uploading(i, p) /\ req[i].step = "record" /\ req'[i].step = "put"
            \/ i \in Request /\ CreatePartFile(i) /\ dir /\ To(i, "write")
<1>0. TypeInv /\ Control
  BY DEF BaseInv
<1>1. /\ req'[i].op = "upload_part" /\ req'[i].part = p
      /\ req'[i].step \in {"write", "record", "put"}
  BY DEF Uploading
<1>2. req'[i] # Finished
  BY <1>1 DEF Finished
<1>3. CASE i \in Ops /\ req'[i] = req[i]
  BY <1>1, <1>3 DEF Uploading, Ops
<1>4. CASE i \in Request /\ i \in Ops /\ (Handle(i) \/ Disconnect(i)) /\ Moves(i)
  <2>1. ~Ends(i)
    BY <1>2 DEF Ends
  <2>2. ASSUME NEW s, To(i, s)
        PROVE  s \in {"write", "record", "put"} /\ req[i].op = "upload_part" /\ req[i].part = p
               /\ req'[i].step = s
    BY <1>1, <2>2 DEF To
  <2>3. CASE CreatePartFile(i)
    BY <1>0, <1>1, <1>4, <2>1, <2>2, <2>3, Requests
  <2>4. CASE WriteBody(i)
    BY <1>0, <1>4, <2>1, <2>2, <2>4, LongRequests DEF WriteBody, Running, Uploading, Ops
  <2>5. CASE RecordPartCheck(i)
    BY <1>0, <1>4, <2>1, <2>2, <2>5, Requests DEF RecordPartCheck, Running, Uploading, Ops
  <2> QED BY <1>0, <1>4, <2>1, <2>2, <2>3, <2>4, <2>5, Requests, LongRequests DEF Handle
<1> QED BY <1>0, <1>1, <1>2, <1>3, <1>4, OneMoves

(* It ends to use it by recording the part, if nothing fails.              *)
LEMMA UploadingEnds ==
  ASSUME BaseInv, [Next]_vars, NEW i \in Ops, NEW p, Uploading(i, p), ~Uploading(i, p)'
  PROVE  \/ i \in Request /\ RecordPartPut(i) /\ p = req[i].part /\ req[i].step = "put"
         \/ ~record'
         \/ faults \cap {"storage", "disconnect", "crash"} # {}
<1>0. TypeInv /\ Control
  BY DEF BaseInv
<1>1. /\ req[i].op = "upload_part" /\ req[i].part = p
      /\ req[i].step \in {"write", "record", "put"}
  BY DEF Uploading
<1>2. i \in DOMAIN req'
  <2>1. ASSUME NEW op \in {"initiate", "upload_part", "complete", "abort"}, NEW q \in Part, Arrive(op, q)
        PROVE  i \in DOMAIN req'
    <3>1. PICK n \in Nat : Ops = 1 .. n /\ DOMAIN req' = 1 .. (n + 1)
      BY <1>0, <2>1, ArriveComes DEF Comes
    <3> QED BY <3>1
  <2>2. ASSUME NEW k \in Request, Handle(k) \/ Disconnect(k) PROVE i \in DOMAIN req'
    <3>1. Moves(k)
      BY <1>0, <2>2, Requests, LongRequests DEF Handle, To, Ends
    <3> QED BY <3>1 DEF Moves
  <2>3. Crash \/ UNCHANGED req => i \in DOMAIN req'
    BY DEF Crash, Ops
  <2>4. InstallSnapshot \/ Age \/ Gc => UNCHANGED req
    BY DEF InstallSnapshot, Age, Gc, GcActive, GcList, GcRemove, GcEnd
  <2> QED BY <2>1, <2>2, <2>3, <2>4 DEF Next, vars
<1>3. CASE i \in Request /\ (Handle(i) \/ Disconnect(i)) /\ Moves(i)
  <2>1. \/ Disconnect(i) \/ WriteBody(i) \/ RecordPartCheck(i) \/ RecordPartPut(i)
    BY <1>1, <1>3 DEF Handle, initiate_multipart_upload, CheckUpload, CreatePartFile, CreatePartsDir,
       LockForComplete, GetUpload, ReadPart, CommitObject, put_object_metadata, DeleteRecord,
       DeletePartRecords, FinishComplete, AbortGet, cleanup_part_files, Running
  <2>2. CASE Disconnect(i)
    BY <2>2 DEF Disconnect
  <2>3. CASE WriteBody(i)
    BY <1>0, <1>1, <1>2, <1>3, <2>3, LongRequests DEF Uploading, To, Ops
  <2>4. CASE RecordPartCheck(i)
    <3>1. UNCHANGED record
      BY <2>4 DEF RecordPartCheck, diskVars
    <3> QED BY <1>0, <1>1, <1>2, <1>3, <2>4, <3>1, Requests DEF Uploading, To, Ops
  <2>5. CASE RecordPartPut(i)
    BY <1>1, <1>3, <2>5 DEF RecordPartPut, Running
  <2> QED BY <2>1, <2>2, <2>3, <2>4, <2>5
<1>4. CASE Crash
  BY <1>4 DEF Crash
<1>5. CASE req'[i] = req[i]
  BY <1>1, <1>2, <1>5 DEF Uploading
<1> QED BY <1>0, <1>2, <1>3, <1>4, <1>5, OneMoves

(* A complete begins to use its parts when it has looked at the records.   *)
LEMMA CompleteBegins ==
  ASSUME BaseInv, [Next]_vars, NEW i \in DOMAIN req', req'[i].op = "complete"
  PROVE  \/ i \notin Ops /\ req'[i].step = "start"
         \/ /\ i \in Ops /\ req[i].op = "complete" /\ req'[i].want = req[i].want
            /\ req'[i].step = "read" => req[i].step = "read"
            /\ req'[i].got = req[i].got \/ (i \in Request /\ ReadPart(i))
         \/ /\ i \in Ops /\ i \in Request /\ GetUpload(i) /\ req'[i].step = "read"
            /\ record /\ req'[i].want = partRec /\ req'[i].got = NoData
<1>0. TypeInv /\ Control
  BY DEF BaseInv
<1>1. req'[i] # Finished
  BY DEF Finished
<1>2. CASE i \in Ops /\ req'[i] = req[i]
  BY <1>2
<1>3. CASE i \in Request /\ i \in Ops /\ (Handle(i) \/ Disconnect(i)) /\ Moves(i)
  <2>1. ~Ends(i)
    BY <1>1 DEF Ends
  <2>2. ASSUME NEW s, To(i, s) PROVE req[i].op = "complete" /\ req'[i].step = s
    BY <2>2 DEF To
  <2>3. CASE GetUpload(i)
    <3>1. To(i, "read") /\ req'[i].want = partRec /\ req'[i].got = req[i].got
      BY <1>0, <1>3, <2>1, <2>3, LongRequests
    <3>2. ~Goto(i, "done")
      BY <1>0, <1>3, <2>1, GotoMoves DEF Steps
    <3>3. record
      BY <2>3, <3>2 DEF GetUpload, get_multipart_upload
    <3>4. req[i].got = NoData
      BY <1>0, <1>3, <2>3 DEF GetUpload, Running, Control
    <3> QED BY <1>3, <2>2, <2>3, <3>1, <3>3, <3>4
  <2>4. CASE ReadPart(i)
    BY <1>0, <1>3, <2>1, <2>2, <2>4, LongRequests DEF ReadPart, Running
  <2>5. ~AbortGet(i)
    BY <1>0, <2>1, <2>2, <1>3, LongRequests DEF AbortGet, Running
  <2>6. CASE ~GetUpload(i) /\ ~ReadPart(i)
    BY <1>0, <1>3, <2>1, <2>2, <2>5, <2>6, Requests, LongRequests DEF Handle, Kept
  <2> QED BY <2>3, <2>4, <2>6
<1> QED BY <1>0, <1>1, <1>2, <1>3, OneMoves
-----------------------------------------------------------------------------
(* Recorded parts exist.                                                   *)

(* The record of the upload comes into an empty world.                     *)
LEMMA RecordComes ==
  ASSUME BaseInv, [Next]_vars, ~record, record'
  PROVE  /\ partRec' = NoParts /\ gc'.step = "idle"
         /\ \A i \in DOMAIN req' : /\ i \in Ops
                                   /\ req'[i].step \in {"start", "get", "done", "mkdir"}
                                   /\ req'[i].want = req[i].want
<1>0. TypeInv /\ Control /\ Early
  BY DEF BaseInv
<1>1. PICK i \in Request : initiate_multipart_upload(i)
  BY RecordStep
<1>2. ~Opened /\ To(i, "mkdir") /\ Kept(i)
  BY <1>0, <1>1, InitiateFirst, Requests
<1>3. UNCHANGED <<partRec, gc>>
  BY <1>1 DEF initiate_multipart_upload
<1>4. /\ partRec = NoParts /\ gc.step = "idle"
      /\ \A j \in Ops : req[j].step \in {"start", "get", "done"}
  BY <1>0, <1>2 DEF Early
<1> QED BY <1>2, <1>3, <1>4 DEF To, Moves, Kept

(* The collector keeps what the record protects.                           *)
LEMMA ProtectedStep ==
  ASSUME BaseInv, Protected, [Next]_vars
  PROVE  Protected'
<1> SUFFICES ASSUME "part_key" \notin faults', gc'.step # "idle", ~gc'.active, record'
             PROVE  FALSE
  BY DEF Protected
<1>1. record /\ "part_key" \notin faults
  BY RecordComes, FaultsFixed DEF BaseInv, TypeInv
<1>2. CASE UNCHANGED gc
  BY <1>1, <1>2 DEF Protected
<1>3. CASE GcActive
  BY <1>1, <1>3 DEF GcActive, list_all_multipart_uploads
<1>4. CASE GcList
  <2>1. gc' # GcIdle
    BY DEF GcIdle
  <2>2. gc'.active = gc.active /\ gc.step = "list"
    BY <1>4, <2>1 DEF GcList, BaseInv, TypeInv
  <2> QED BY <1>1, <2>2 DEF Protected
<1>5. ASSUME NEW f \in Part \cup {0}, GcRemove(f) PROVE FALSE
  <2>1. gc'.active = gc.active /\ gc.step = "sweep"
    BY <1>5 DEF GcRemove, BaseInv, TypeInv
  <2> QED BY <1>1, <2>1 DEF Protected
<1>6. ~GcEnd /\ ~Crash
  <2>1. GcIdle.step = "idle"
    BY DEF GcIdle
  <2> QED BY <2>1 DEF GcEnd, Crash
<1>7. ASSUME NEW i \in Request, Handle(i) \/ Disconnect(i) PROVE UNCHANGED gc
  BY <1>7 DEF Handle, initiate_multipart_upload, CheckUpload, CreatePartFile, WriteBody, RecordPartCheck,
     CreatePartsDir, RecordPartPut, LockForComplete, GetUpload, ReadPart, CommitObject,
     put_object_metadata, DeleteRecord, DeletePartRecords, FinishComplete, AbortGet, cleanup_part_files,
     Disconnect, restVars
<1>8. ASSUME NEW op \in {"initiate", "upload_part", "complete", "abort"}, NEW p \in Part, Arrive(op, p)
      PROVE  UNCHANGED gc
  BY <1>8 DEF Arrive, restVars
<1>9. InstallSnapshot \/ Age \/ UNCHANGED vars => UNCHANGED gc
  BY DEF InstallSnapshot, Age, restVars, vars
<1> QED BY <1>2, <1>3, <1>4, <1>5, <1>6, <1>7, <1>8, <1>9 DEF Next, Gc

(* The lock protects the assembled file from other requests.               *)
LEMMA FinalThereStep ==
  ASSUME BaseInv, FinalThere, [Next]_vars
  PROVE  FinalThere'
<1>0. TypeInv /\ Control
  BY DEF BaseInv
<1> SUFFICES ASSUME NEW i \in DOMAIN req', req'[i].op = "complete", req'[i].step = "read", ~swept'
             PROVE  final'
  BY DEF FinalThere, InStep, Ops
<1>1. CASE i \in Request /\ GetUpload(i)
  <2>1. ~Goto(i, "done")
    <3>1. Goto(i, "done") => Ends(i)
      BY <1>0, <1>1, GotoMoves DEF GetUpload, Running, Ops, Steps
    <3> QED BY <3>1 DEF Ends, Finished
  <2> QED BY <1>1, <2>1 DEF GetUpload
<1>2. CASE i \in Ops /\ req[i].op = "complete" /\ req[i].step = "read"
  <2>0. lock = i
    BY <1>0, <1>2 DEF Control
  <2>2. ASSUME NEW k \in Request, Handle(k) \/ Disconnect(k), UNCHANGED swept PROVE final'
    <3>1. final
      BY <1>2, <2>2 DEF FinalThere, InStep
    <3>2. ASSUME Removes(k), k \in Ops, req[k].op = "complete", req[k].step # "start" PROVE FALSE
      <4>1. k = i
        BY <1>0, <2>0, <3>2 DEF Control
      <4>2. Ends(k)
        BY <1>0, <3>2, GotoMoves DEF Removes, RemoveBut, Steps
      <4> QED BY <4>1, <4>2 DEF Ends, Finished
    <3>3. CASE ReadPart(k) \/ CommitObject(k) \/ put_object_metadata(k) \/ FinishComplete(k)
      BY <3>1, <3>2, <3>3, GuardsRemove
      DEF ReadPart, CommitObject, put_object_metadata, FinishComplete, Running, Ops
    <3>4. CASE Disconnect(k)
      BY <3>1, <3>2, <3>4, GuardsRemove DEF Disconnect, Active, Ops
    <3>5. CASE GetUpload(k)
      BY <3>1, <3>5 DEF GetUpload
    <3>6. CASE /\ ~ReadPart(k) /\ ~CommitObject(k) /\ ~put_object_metadata(k) /\ ~FinishComplete(k)
               /\ ~Disconnect(k) /\ ~GetUpload(k)
      BY <2>2, <3>1, <3>6 DEF Handle, initiate_multipart_upload, CheckUpload, CreatePartFile, WriteBody,
         RecordPartCheck, CreatePartsDir, RecordPartPut, LockForComplete, DeleteRecord,
         DeletePartRecords, AbortGet, cleanup_part_files, diskVars
    <3> QED BY <3>3, <3>4, <3>5, <3>6
  <2>3. ASSUME NEW k \in Request, Handle(k) \/ Disconnect(k) PROVE UNCHANGED swept
    BY <2>3 DEF Handle, initiate_multipart_upload, CheckUpload, CreatePartFile, WriteBody, RecordPartCheck,
       CreatePartsDir, RecordPartPut, LockForComplete, GetUpload, ReadPart, CommitObject,
       put_object_metadata, DeleteRecord, DeletePartRecords, FinishComplete, AbortGet,
       cleanup_part_files, Disconnect, restVars
  <2>4. CASE UNCHANGED <<final, swept>>
    BY <1>2, <2>4 DEF FinalThere, InStep
  <2>5. ASSUME NEW f \in Part \cup {0}, GcRemove(f) PROVE final'
    <3>1. f # 0 /\ ~swept
      BY <1>2, <2>5 DEF GcRemove, Running, Ops
    <3>2. final
      BY <1>2, <3>1 DEF FinalThere, InStep
    <3> QED BY <2>5, <3>1, <3>2 DEF GcRemove
  <2>6. ASSUME NEW op \in {"initiate", "upload_part", "complete", "abort"}, NEW p \in Part, Arrive(op, p)
        PROVE  UNCHANGED <<final, swept>>
    BY <2>6 DEF Arrive, restVars, diskVars
  <2>7. InstallSnapshot \/ Age \/ GcActive \/ GcList \/ GcEnd \/ Crash \/ UNCHANGED vars
          => UNCHANGED <<final, swept>>
    BY DEF InstallSnapshot, Age, restVars, diskVars, GcActive, GcList, GcEnd, Crash, vars
  <2> QED BY <2>2, <2>3, <2>4, <2>5, <2>6, <2>7 DEF Next, Gc
<1> QED BY <1>1, <1>2, CompleteBegins

Completable ==
  faults \cap {"storage", "metadata", "disconnect", "part_key"} = {} /\ record /\ ~swept

(* While the upload can be completed, part files stay.                     *)
LEMMA FilesKept ==
  ASSUME BaseInv, PartsInv, [Next]_vars, Completable, NEW p \in Part, file[p].there
  PROVE  file'[p].there
<1>0. TypeInv /\ Control /\ Gone
  BY DEF BaseInv
<1>a. ASSUME UNCHANGED file PROVE file'[p].there
  BY <1>a
<1>1. ASSUME NEW i \in Request, Handle(i) PROVE file'[p].there
  <2>1. CASE CreatePartFile(i)
    BY <1>0, <2>1, CreateFiles DEF CreatedBy
  <2>2. CASE WriteBody(i)
    BY <1>0, <2>2, WriteFiles DEF WrittenBy
  <2>3. ~cleanup_part_files(i) /\ ~FinishComplete(i)
    BY <1>0 DEF cleanup_part_files, FinishComplete, Running, Gone, Ending, Completable, Ops
  <2>4. CASE ReadPart(i)
    <3> DEFINE q == CHOOSE q \in ToRead(i) : \A r \in ToRead(i) : q <= r
    <3>1. i \in Ops /\ InStep(i, "complete", {"read"}) /\ ToRead(i) # {}
      BY <2>4 DEF ReadPart, Running, InStep, Ops
    <3>2. q \in Part /\ req[i].want[q] # 0
      BY <1>0, <3>1, FirstPart DEF ToRead
    <3>3. file[q].there
      BY <3>1, <3>2 DEF PartsInv, FilesThere, Completable
    <3> QED BY <1>a, <2>4, <3>3 DEF ReadPart, Completable
  <2>5. CASE CommitObject(i)
    <3>1. final
      BY <2>5 DEF PartsInv, FinalThere, Completable, CommitObject, Running, InStep, Ops
    <3> QED BY <1>a, <2>5, <3>1 DEF CommitObject, Completable
  <2>6. CASE put_object_metadata(i)
    BY <1>a, <2>6 DEF put_object_metadata, Completable
  <2>7. CASE /\ ~ReadPart(i) /\ ~CommitObject(i) /\ ~put_object_metadata(i) /\ ~CreatePartFile(i)
             /\ ~WriteBody(i)
    BY <1>1, <1>a, <2>3, <2>7 DEF Handle, initiate_multipart_upload, CheckUpload, RecordPartCheck,
       CreatePartsDir, RecordPartPut, LockForComplete, DeleteRecord, DeletePartRecords, AbortGet,
       GetUpload, diskVars
  <2> QED BY <2>1, <2>2, <2>4, <2>5, <2>6, <2>7
<1>2. ASSUME NEW i \in Request PROVE ~Disconnect(i)
  BY DEF Disconnect, Completable
<1>3. CASE Crash
  BY <1>0, <1>3 DEF Crash, TypeInv, FileState
<1>4. ASSUME NEW f \in Part \cup {0}, GcRemove(f) PROVE file'[p].there
  <2>1. CASE f = 0
    BY <1>4, <2>1, PartAssumption DEF GcRemove, Unlink, should_keep_file
  <2>2. CASE f # 0
    <3>1. gc.active
      BY <1>0, <1>4 DEF GcRemove, PartsInv, Protected, Completable, TypeInv
    <3> QED BY <1>4, <1>a, <2>2, <3>1 DEF GcRemove, should_keep_file
  <2> QED BY <2>1, <2>2
<1>5. ASSUME NEW op \in {"initiate", "upload_part", "complete", "abort"}, NEW q \in Part, Arrive(op, q)
      PROVE  UNCHANGED file
  BY <1>5 DEF Arrive, diskVars
<1>6. InstallSnapshot \/ Age \/ GcActive \/ GcList \/ GcEnd \/ UNCHANGED vars => UNCHANGED file
  BY DEF InstallSnapshot, Age, diskVars, GcActive, GcList, GcEnd, vars
<1> QED BY <1>1, <1>2, <1>3, <1>4, <1>5, <1>6, <1>a DEF Next, Gc

(* The collector's history is kept.                                        *)
LEMMA SweptStays ==
  ASSUME TypeInv, [Next]_vars
  PROVE  ~swept' => ~swept
<1>1. ASSUME NEW i \in Request, Handle(i) \/ Disconnect(i) PROVE UNCHANGED swept
  BY <1>1 DEF Handle, initiate_multipart_upload, CheckUpload, CreatePartFile, WriteBody, RecordPartCheck,
     CreatePartsDir, RecordPartPut, LockForComplete, GetUpload, ReadPart, CommitObject,
     put_object_metadata, DeleteRecord, DeletePartRecords, FinishComplete, AbortGet,
     cleanup_part_files, Disconnect, restVars
<1>2. ASSUME NEW op \in {"initiate", "upload_part", "complete", "abort"}, NEW q \in Part, Arrive(op, q)
      PROVE  UNCHANGED swept
  BY <1>2 DEF Arrive, restVars
<1>3. ASSUME NEW f \in Part \cup {0}, GcRemove(f) PROVE ~swept' => ~swept
  BY <1>3 DEF GcRemove
<1>4. InstallSnapshot \/ Crash \/ Age \/ GcActive \/ GcList \/ GcEnd \/ UNCHANGED vars => UNCHANGED swept
  BY DEF InstallSnapshot, Crash, Age, restVars, GcActive, GcList, GcEnd, vars
<1> QED BY <1>1, <1>2, <1>3, <1>4 DEF Next, Gc

(* A part is recorded by the upload that put it.                           *)
LEMMA PartRecStep ==
  ASSUME TypeInv, [Next]_vars, NEW p \in Part, partRec'[p] # 0
  PROVE  \/ partRec'[p] = partRec[p]
         \/ \E i \in Request : RecordPartPut(i) /\ req[i].part = p /\ partRec'[p] = i
<1>1. ASSUME NEW i \in Request, Handle(i) \/ Disconnect(i), ~RecordPartPut(i), ~DeletePartRecords(i)
      PROVE  UNCHANGED partRec
  BY <1>1 DEF Handle, initiate_multipart_upload, CheckUpload, CreatePartFile, WriteBody, RecordPartCheck,
     CreatePartsDir, LockForComplete, GetUpload, ReadPart, CommitObject, put_object_metadata,
     DeleteRecord, FinishComplete, AbortGet, cleanup_part_files, Disconnect, diskVars
<1>2. ASSUME NEW i \in Request, RecordPartPut(i)
      PROVE  partRec'[p] = partRec[p] \/ (req[i].part = p /\ partRec'[p] = i)
  BY <1>2 DEF RecordPartPut, put_part, TypeInv
<1>3. ASSUME NEW i \in Request PROVE ~DeletePartRecords(i)
  BY DEF DeletePartRecords, delete_parts, NoParts
<1>4. ASSUME NEW op \in {"initiate", "upload_part", "complete", "abort"}, NEW q \in Part, Arrive(op, q)
      PROVE  UNCHANGED partRec
  BY <1>4 DEF Arrive, diskVars
<1>5. ~InstallSnapshot
  BY DEF InstallSnapshot, delete_parts, NoParts
<1>6. Crash \/ Age \/ Gc \/ UNCHANGED vars => UNCHANGED partRec
  BY DEF Crash, Age, diskVars, Gc, GcActive, GcList, GcRemove, GcEnd, vars
<1> QED BY <1>1, <1>2, <1>3, <1>4, <1>5, <1>6 DEF Next

(* The invariant of recorded parts is inductive.                           *)
LEMMA PartsStep ==
  ASSUME BaseInv, PartsInv, [Next]_vars
  PROVE  PartsInv'
<1>0. TypeInv /\ Control
  BY DEF BaseInv
<1>1. Protected' /\ FinalThere'
  BY ProtectedStep, FinalThereStep DEF PartsInv
<1>2. Completable' => Completable \/ ~record
  BY <1>0, SweptStays, FaultsFixed DEF Completable
<1>3. ASSUME Completable', NEW i \in DOMAIN req', NEW p \in Part,
             Uploading(i, p)' \/ (InStep(i, "complete", {"read"})' /\ req'[i].want[p] # 0)
      PROVE  file'[p].there
  <2>1. record'
    BY <1>3 DEF Completable
  <2>2. CASE Uploading(i, p)'
    <3>0. req'[i].step \in {"write", "record", "put"}
      BY <2>2 DEF Uploading
    <3>1. record
      BY <2>1, <3>0, RecordComes
    <3>2. CASE Uploading(i, p)
      BY <1>2, <1>3, <3>1, <3>2, FilesKept DEF PartsInv, FilesThere, Completable, Uploading, Ops
    <3>3. CASE i \in Request /\ CreatePartFile(i) /\ dir /\ p = req[i].part
      BY <1>0, <3>3, CreateFiles DEF CreatedBy
    <3> QED BY <2>2, <3>2, <3>3, UploadingBegins
  <2>3. CASE InStep(i, "complete", {"read"})' /\ req'[i].want[p] # 0
    <3>0. req'[i].step = "read" /\ req'[i].op = "complete"
      BY <2>3 DEF InStep
    <3>1. record
      BY <2>1, <3>0, RecordComes
    <3>2. Completable
      BY <1>2, <1>3, <3>1
    <3>3. CASE i \in Ops /\ req[i].op = "complete" /\ req[i].step = "read" /\ req'[i].want = req[i].want
      BY <2>3, <3>2, <3>3, FilesKept DEF PartsInv, FilesThere, Completable, InStep
    <3>4. CASE i \in Ops /\ i \in Request /\ GetUpload(i) /\ req'[i].want = partRec
      BY <2>3, <3>2, <3>4, FilesKept DEF PartsInv, RecordedPartsExist, Completable
    <3> QED BY <3>0, <3>3, <3>4, CompleteBegins
  <2> QED BY <1>3, <2>2, <2>3
<1>4. FilesThere'
  BY <1>3 DEF FilesThere, Completable, Ops
<1>5. ASSUME Completable', NEW p \in Part, partRec'[p] # 0
      PROVE  file'[p].there
  <2>1. record
    BY <1>5, RecordComes DEF Completable, NoParts
  <2>2. Completable
    BY <1>2, <1>5, <2>1
  <2>3. CASE partRec'[p] = partRec[p]
    BY <1>5, <2>2, <2>3, FilesKept DEF PartsInv, RecordedPartsExist, Completable
  <2>4. ASSUME NEW i \in Request, RecordPartPut(i), req[i].part = p PROVE file'[p].there
    <3>1. i \in Ops /\ Uploading(i, p)
      BY <2>4 DEF RecordPartPut, Running, Uploading, Ops
    <3> QED BY <2>2, <3>1, FilesKept DEF PartsInv, FilesThere, Completable
  <2> QED BY <1>0, <1>5, <2>3, <2>4, PartRecStep
<1>6. RecordedPartsExist'
  BY <1>5 DEF RecordedPartsExist, Completable
<1> QED BY <1>1, <1>4, <1>6 DEF PartsInv

(* While an upload can be completed its recorded parts are there, and so   *)
(* are the files that an upload_part or a complete under way depends on.   *)
THEOREM PartsInductive == Spec => [](BaseInv /\ PartsInv)
<1>1. Init => BaseInv /\ PartsInv
  <2> SUFFICES ASSUME Init PROVE BaseInv /\ PartsInv
    OBVIOUS
  <2>1. DOMAIN req = {} /\ ~record
    BY DEF Init
  <2> QED BY <2>1, BaseInit DEF PartsInv, Protected, FinalThere, FilesThere, RecordedPartsExist, Ops
<1>2. BaseInv /\ PartsInv /\ [Next]_vars => (BaseInv /\ PartsInv)'
  BY BaseStep, PartsStep
<1> QED BY <1>1, <1>2, PTL DEF Spec

(* No abort, completion or collection takes a recorded part away before    *)
(* the record of the upload, for any number of parts and requests.         *)
THEOREM PartsKept == Spec => []RecordedPartsExist
<1>1. PartsInv => RecordedPartsExist
  BY DEF PartsInv
<1> QED BY <1>1, PartsInductive, PTL
-----------------------------------------------------------------------------
(* Completed objects are whole.                                            *)

(* Opening a file that another request uses is remembered.                 *)
LEMMA SharedStep ==
  ASSUME TypeInv, [Next]_vars, ~shared'
  PROVE  /\ ~shared
         /\ \A i \in Request : CreatePartFile(i) /\ dir => ~InUse(req[i].part, i)
         /\ \A i \in Request : GetUpload(i) /\ To(i, "read") =>
              \A p \in Part : partRec[p] # 0 => ~InUse(p, i)
<1>1. ASSUME NEW i \in Request, CreatePartFile(i)
      PROVE  ~shared /\ (dir => ~InUse(req[i].part, i))
  BY <1>1 DEF CreatePartFile
<1>2. ASSUME NEW i \in Request, GetUpload(i)
      PROVE  ~shared /\ (To(i, "read") => \A p \in Part : partRec[p] # 0 => ~InUse(p, i))
  <2>1. To(i, "read") => ~Goto(i, "done")
    <3>1. Goto(i, "done") => Ends(i)
      BY <1>2, GotoMoves DEF GetUpload, Running, Ops, Steps
    <3> QED BY <3>1 DEF To, Ends, Finished
  <2>2. \/ shared' = (shared \/ \E p \in Part : partRec[p] # 0 /\ InUse(p, i))
        \/ Goto(i, "done") /\ shared' = shared
    BY <1>2 DEF GetUpload
  <2>3. ~shared
    BY <2>2
  <2>4. ASSUME To(i, "read"), NEW p \in Part, partRec[p] # 0 PROVE ~InUse(p, i)
    BY <2>1, <2>2, <2>4
  <2> QED BY <2>3, <2>4
<1>3. ASSUME NEW i \in Request, Handle(i) \/ Disconnect(i) PROVE ~shared
  <2>1. CASE ~CreatePartFile(i) /\ ~GetUpload(i)
    BY <1>3, <2>1 DEF Handle, initiate_multipart_upload, CheckUpload, WriteBody, RecordPartCheck,
       CreatePartsDir, RecordPartPut, LockForComplete, ReadPart, CommitObject, put_object_metadata,
       DeleteRecord, DeletePartRecords, FinishComplete, AbortGet, cleanup_part_files, Disconnect, restVars
  <2> QED BY <1>1, <1>2, <2>1
<1>4. ASSUME NEW op \in {"initiate", "upload_part", "complete", "abort"}, NEW q \in Part, Arrive(op, q)
      PROVE  ~shared
  BY <1>4 DEF Arrive, restVars
<1>5. InstallSnapshot \/ Crash \/ Age \/ Gc \/ UNCHANGED vars => ~shared
  BY DEF InstallSnapshot, Crash, Age, restVars, Gc, GcActive, GcList, GcRemove, GcEnd, vars
<1>6. ~shared
  BY <1>3, <1>4, <1>5 DEF Next
<1> QED BY <1>1, <1>2, <1>6

(* Requests begin to use a part in two ways.                               *)
LEMMA UsesBegins ==
  ASSUME BaseInv, [Next]_vars, NEW i \in DOMAIN req', NEW p \in Part, Uses(i, p)'
  PROVE  /\ i \in Ops
         /\ \/ Uses(i, p)
            \/ i \in Request /\ CreatePartFile(i) /\ dir /\ p = req[i].part /\ To(i, "write")
            \/ i \in Request /\ GetUpload(i) /\ partRec[p] # 0 /\ To(i, "read")
<1>0. TypeInv /\ Control /\ Control'
  BY BaseStep DEF BaseInv
<1>1. CASE Uploading(i, p)'
  BY <1>1, UploadingBegins DEF Uses
<1>2. CASE req'[i].op = "complete" /\ req'[i].want[p] # 0
  <2>1. ~(req'[i].step = "start")
    BY <1>0, <1>2 DEF Control, NoParts, Ops
  <2>2. CASE i \in Ops /\ req[i].op = "complete" /\ req'[i].want = req[i].want
    BY <1>2, <2>2 DEF Uses, Ops
  <2>3. CASE i \in Ops /\ i \in Request /\ GetUpload(i) /\ req'[i].step = "read" /\ req'[i].want = partRec
    <3>1. To(i, "read")
      BY <1>0, <2>3, LongRequests DEF Ends, Finished
    <3> QED BY <1>2, <2>3, <3>1
  <2> QED BY <1>2, <2>1, <2>2, <2>3, CompleteBegins
<1> QED BY <1>1, <1>2 DEF Uses

(* Two requests do not move at once.                                       *)
LEMMA OnlyOneMoves ==
  ASSUME TypeInv, NEW i \in Request, NEW j \in Request, i # j,
         \/ CreatePartFile(i) /\ To(i, "write")
         \/ GetUpload(i) /\ To(i, "read")
  PROVE  ~Moves(j)
<1>1. i \in Ops /\ req[i].step # req'[i].step
  BY DEF CreatePartFile, GetUpload, Running, To, Ops
<1> QED BY <1>1 DEF Moves

(* While nothing fails and no file is shared, it has one user.             *)
LEMMA AloneStep ==
  ASSUME BaseInv, Alone, [Next]_vars
  PROVE  Alone'
<1>0. TypeInv
  BY DEF BaseInv
<1> SUFFICES ASSUME Calm', NEW p \in Part, NEW i \in DOMAIN req', NEW j \in DOMAIN req',
                    Uses(i, p)', Uses(j, p)', i # j
             PROVE  FALSE
  BY DEF Alone, Ops
<1>1. Calm /\ ~shared'
  BY <1>0, SharedStep, FaultsFixed DEF Calm
<1>2. ASSUME NEW k \in Ops, NEW l \in Ops, k # l, Uses(l, p),
             \/ k \in Request /\ CreatePartFile(k) /\ dir /\ p = req[k].part /\ To(k, "write")
             \/ k \in Request /\ GetUpload(k) /\ partRec[p] # 0 /\ To(k, "read")
      PROVE  FALSE
  <2>1. ~InUse(p, k)
    BY <1>0, <1>1, <1>2, SharedStep
  <2> QED BY <1>2, <2>1 DEF InUse, Ops
<1>3. CASE Uses(i, p) /\ Uses(j, p)
  BY <1>1, <1>3, UsesBegins DEF Alone
<1>4. CASE Uses(i, p) /\ ~Uses(j, p)
  BY <1>2, <1>4, UsesBegins
<1>5. CASE ~Uses(i, p) /\ Uses(j, p)
  BY <1>2, <1>5, UsesBegins
<1>6. CASE ~Uses(i, p) /\ ~Uses(j, p)
  <2>1. /\ i \in Request /\ ((CreatePartFile(i) /\ To(i, "write")) \/ (GetUpload(i) /\ To(i, "read")))
        /\ j \in Request /\ Moves(j)
    BY <1>6, UsesBegins DEF To
  <2> QED BY <1>0, <2>1, OnlyOneMoves
<1> QED BY <1>3, <1>4, <1>5, <1>6

(* A file that a request uses is changed by that request only; others may  *)
(* unlink it.                                                              *)
LEMMA UsedFileStays ==
  ASSUME BaseInv, Alone, [Next]_vars, Calm, ~shared', NEW p \in Part, NEW i \in Ops, Uses(i, p),
         ~(i \in Request /\ (CreatePartFile(i) \/ WriteBody(i)))
  PROVE  file'[p] \in {file[p], NoFile}
<1>0. TypeInv
  BY DEF BaseInv
<1>1. ASSUME NEW k \in Request, CreatePartFile(k) PROVE file'[p] = file[p]
  <2>1. CASE ~dir
    BY <1>0, <1>1, <2>1, CreateFiles
  <2>2. CASE dir
    <3>1. ~InUse(req[k].part, k)
      BY <1>0, <1>1, <2>2, SharedStep
    <3>2. req[k].part # p
      BY <1>1, <3>1 DEF InUse, Ops
    <3> QED BY <1>0, <1>1, <2>2, <3>2, CreateFiles DEF CreatedBy
  <2> QED BY <2>1, <2>2
<1>2. ASSUME NEW k \in Request, WriteBody(k) PROVE file'[p] = file[p]
  <2>1. k \in Ops /\ Uploading(k, req[k].part)
    BY <1>2 DEF WriteBody, Running, Uploading, Ops
  <2>2. req[k].part # p
    BY <1>2, <2>1 DEF Alone, Uses
  <2>3. WrittenBy(k)
    BY <1>0, <1>2, WriteFiles DEF Calm
  <2> QED BY <2>2, <2>3 DEF WrittenBy
<1>3. CASE \A k \in Request : ~CreatePartFile(k) /\ ~WriteBody(k)
  BY <1>0, <1>3, OtherFiles DEF Unlinked, Calm
<1> QED BY <1>1, <1>2, <1>3

(* An upload finds in its file what it has written.                        *)
LEMMA WrittenStep ==
  ASSUME BaseInv, Alone, Written, [Next]_vars
  PROVE  Written'
<1>0. TypeInv
  BY DEF BaseInv
<1> SUFFICES ASSUME Calm', NEW i \in DOMAIN req', NEW p \in Part, Uploading(i, p)', file'[p].there
             PROVE  IF req'[i].step = "write" THEN i \in file'[p].handles /\ file'[p].by = {}
                                              ELSE file'[p].by = {i}
  BY DEF Written, Ops
<1>1. Calm /\ ~shared'
  BY <1>0, SharedStep, FaultsFixed DEF Calm
<1>2. ~NoFile.there
  BY DEF NoFile
<1>3. i \in Ops /\ p = req[i].part
  BY UploadingBegins
<1>4. CASE i \in Request /\ CreatePartFile(i) /\ dir /\ To(i, "write")
  BY <1>0, <1>3, <1>4, CreateFiles DEF CreatedBy, To
<1>5. CASE i \in Request /\ WriteBody(i) /\ To(i, "record")
  <2>1. WrittenBy(i)
    BY <1>0, <1>1, <1>5, WriteFiles DEF Calm
  <2>2. Uploading(i, p) /\ req[i].step = "write"
    BY <1>3, <1>5 DEF WriteBody, Running, Uploading, Ops
  <2>3. file[p].there
    BY <1>3, <2>1 DEF WrittenBy
  <2>4. i \in file[p].handles /\ file[p].by = {}
    BY <1>1, <1>3, <2>2, <2>3 DEF Written
  <2> QED BY <1>3, <1>5, <2>1, <2>4 DEF WrittenBy, To
<1>6. CASE /\ Uploading(i, p)
           /\ req'[i].step = req[i].step \/ (req[i].step = "record" /\ req'[i].step = "put")
  <2>1. ~(i \in Request /\ (CreatePartFile(i) \/ WriteBody(i)))
    <3>1. i \in Request /\ CreatePartFile(i) => ~Uploading(i, p)
      BY DEF CreatePartFile, Running, Uploading
    <3>2. i \in Request /\ WriteBody(i) => req[i].step = "write" /\ To(i, "record")
      BY <1>0, <1>1, WriteFiles DEF WriteBody, Running, Calm
    <3> QED BY <1>6, <3>1, <3>2 DEF To
  <2>2. Uses(i, p)
    BY <1>6 DEF Uses
  <2>3. file'[p] = file[p]
    BY <1>1, <1>2, <1>3, <2>1, <2>2, UsedFileStays
  <2> QED BY <1>1, <1>3, <1>6, <2>3 DEF Written
<1> QED BY <1>4, <1>5, <1>6, UploadingBegins

(* A recorded part is the upload that recorded it, once no other is under  *)
(* way.                                                                    *)
LEMMA RecordedWrittenStep ==
  ASSUME BaseInv, Alone, Written, RecordedWritten, [Next]_vars
  PROVE  RecordedWritten'
<1>0. TypeInv
  BY DEF BaseInv
<1> SUFFICES ASSUME Calm', record', NEW p \in Part, partRec'[p] # 0, file'[p].there,
                    \A i \in DOMAIN req' : ~Uploading(i, p)'
             PROVE  file'[p].by = {partRec'[p]}
  BY DEF RecordedWritten, Ops
<1>1. Calm /\ ~shared'
  BY <1>0, SharedStep, FaultsFixed DEF Calm
<1>2. record
  BY RecordComes DEF NoParts
<1>3. ~NoFile.there
  BY DEF NoFile
<1>4. ASSUME NEW i \in Request, RecordPartPut(i), req[i].part = p PROVE file'[p].by = {partRec'[p]}
  <2>1. i \in Ops /\ Uploading(i, p) /\ req[i].step = "put"
    BY <1>4 DEF RecordPartPut, Running, Uploading, Ops
  <2>2. UNCHANGED file /\ partRec'[p] = i
    BY <1>0, <1>4 DEF RecordPartPut, put_part, TypeInv
  <2> QED BY <1>1, <2>1, <2>2 DEF Written
<1>5. ASSUME \A i \in Request : ~(RecordPartPut(i) /\ req[i].part = p)
      PROVE  file'[p].by = {partRec'[p]}
  <2>1. partRec'[p] = partRec[p]
    BY <1>0, <1>5, PartRecStep
  <2>2. ASSUME NEW i \in Ops PROVE ~Uploading(i, p)
    <3>1. ~Uploading(i, p)'
      BY DEF Uploading
    <3> QED BY <1>1, <1>5, <3>1, UploadingEnds DEF Calm
  <2>3. file'[p] \in {file[p], NoFile}
    <3>1. ASSUME NEW k \in Request, CreatePartFile(k) PROVE file'[p] = file[p]
      <4>1. CASE ~dir
        BY <1>0, <3>1, <4>1, CreateFiles
      <4>2. CASE dir
        <5>1. To(k, "write") /\ req[k].op = "upload_part" /\ k \in Ops
          BY <1>0, <3>1, <4>2, Requests DEF CreatePartFile, Running, Ops
        <5>2. k \in DOMAIN req' /\ (req[k].part = p => Uploading(k, p)')
          BY <5>1 DEF To, Moves, Uploading, Ops
        <5>3. req[k].part # p
          BY <5>2
        <5> QED BY <1>0, <3>1, <4>2, <5>3, CreateFiles DEF CreatedBy
      <4> QED BY <4>1, <4>2
    <3>2. ASSUME NEW k \in Request, WriteBody(k) PROVE file'[p] = file[p]
      <4>1. k \in Ops /\ Uploading(k, req[k].part)
        BY <3>2 DEF WriteBody, Running, Uploading, Ops
      <4>2. req[k].part # p
        BY <2>2, <4>1
      <4>3. WrittenBy(k)
        BY <1>0, <1>1, <3>2, WriteFiles DEF Calm
      <4> QED BY <4>2, <4>3 DEF WrittenBy
    <3>3. CASE \A k \in Request : ~CreatePartFile(k) /\ ~WriteBody(k)
      BY <1>0, <1>1, <3>3, OtherFiles DEF Unlinked, Calm
    <3> QED BY <3>1, <3>2, <3>3
  <2>4. file'[p] = file[p]
    BY <1>3, <2>3
  <2> QED BY <1>1, <1>2, <2>1, <2>2, <2>4 DEF RecordedWritten
<1> QED BY <1>4, <1>5

(* What ReadPart adds to what has been read.                               *)
LEMMA ReadGot ==
  ASSUME TypeInv, NEW i \in Request, ReadPart(i), ~Ends(i), NEW p \in Part
  PROVE  \/ req'[i].got[p] = req[i].got[p]
         \/ /\ file[p].there
            /\ req'[i].got[p] = IF file[p].by = {} THEN {0} ELSE file[p].by
<1> DEFINE q == CHOOSE q \in ToRead(i) : \A r \in ToRead(i) : q <= r
           got == IF file[q].by = {} THEN {0} ELSE file[q].by
<1>1. i \in Ops /\ req[i] \in Record /\ req \in [Ops -> Record]
  BY DEF ReadPart, Running, Ops, TypeInv
<1>2. ~DropGuards(i)
  BY <1>1, GotoMoves DEF DropGuards, RemoveBut, Steps
<1>3. file[q].there /\ req' = [req EXCEPT ![i].got[q] = got]
  BY <1>2 DEF ReadPart
<1> HIDE DEF q
<1>4. req[i].got \in [Part -> SUBSET Nat]
  BY <1>1 DEF Record
<1>5. req'[i].got = [req[i].got EXCEPT ![q] = got]
  BY <1>1, <1>3 DEF Record
<1>6. CASE p = q
  BY <1>3, <1>4, <1>5, <1>6
<1>7. CASE p # q
  BY <1>4, <1>5, <1>7
<1> QED BY <1>6, <1>7

(* complete reads what it found recorded.                                  *)
LEMMA ReadsWrittenStep ==
  ASSUME BaseInv, Alone, RecordedWritten, ReadsWritten, [Next]_vars
  PROVE  ReadsWritten'
<1>0. TypeInv /\ Control /\ Control'
  BY BaseStep DEF BaseInv
<1> SUFFICES ASSUME Calm', NEW i \in DOMAIN req', NEW p \in Part, req'[i].op = "complete",
                    req'[i].want[p] # 0
             PROVE  /\ file'[p].there => file'[p].by = {req'[i].want[p]}
                    /\ req'[i].got[p] \in {{}, {req'[i].want[p]}}
  BY DEF ReadsWritten, Ops
<1>1. Calm /\ ~shared'
  BY <1>0, SharedStep, FaultsFixed DEF Calm
<1>2. ~NoFile.there
  BY DEF NoFile
<1>3. ~(req'[i].step = "start")
  BY <1>0 DEF Control, NoParts, Ops
<1>4. CASE /\ i \in Ops /\ req[i].op = "complete" /\ req'[i].want = req[i].want
           /\ req'[i].got = req[i].got \/ (i \in Request /\ ReadPart(i))
  <2>1. Uses(i, p)
    BY <1>4 DEF Uses, Ops
  <2>2. ~(i \in Request /\ (CreatePartFile(i) \/ WriteBody(i)))
    BY <1>4 DEF CreatePartFile, WriteBody, Running
  <2>3. file'[p] \in {file[p], NoFile}
    BY <1>1, <1>4, <2>1, <2>2, UsedFileStays
  <2>4. /\ file[p].there => file[p].by = {req[i].want[p]}
        /\ req[i].got[p] \in {{}, {req[i].want[p]}}
    BY <1>1, <1>4 DEF ReadsWritten
  <2>5. ASSUME i \in Request, ReadPart(i)
        PROVE  req'[i].got[p] \in {{}, {req[i].want[p]}}
    <3>1. ~Ends(i)
      BY DEF Ends, Finished
    <3> QED BY <1>0, <2>4, <2>5, <3>1, ReadGot
  <2> QED BY <1>2, <1>4, <2>3, <2>4, <2>5
<1>5. CASE /\ i \in Ops /\ i \in Request /\ GetUpload(i) /\ req'[i].step = "read"
           /\ record /\ req'[i].want = partRec /\ req'[i].got = NoData
  <2>1. To(i, "read")
    BY <1>0, <1>5, LongRequests DEF Ends, Finished
  <2>2. ~InUse(p, i)
    BY <1>0, <1>1, <1>5, <2>1, SharedStep
  <2>3. ASSUME NEW j \in Ops PROVE ~Uploading(j, p)
    <3>1. ~Uploading(i, p)
      BY <1>5 DEF GetUpload, Running, Uploading
    <3>2. CASE j # i
      BY <2>2, <3>2 DEF InUse, Uses, Ops
    <3> QED BY <3>1, <3>2
  <2>4. UNCHANGED file
    BY <1>5 DEF GetUpload
  <2>5. file[p].there => file[p].by = {partRec[p]}
    BY <1>1, <1>5, <2>3 DEF RecordedWritten
  <2>6. req'[i].got[p] = {}
    BY <1>5 DEF NoData
  <2> QED BY <1>5, <2>4, <2>5, <2>6
<1> QED BY <1>3, <1>4, <1>5, CompleteBegins

(* The object is what complete assembled.                                  *)
LEMMA IntactStep ==
  ASSUME BaseInv, ReadsWritten, CompletedIntact, [Next]_vars
  PROVE  CompletedIntact'
<1>0. TypeInv
  BY DEF BaseInv
<1> SUFFICES ASSUME Calm', NEW p \in Part, object'.want[p] # 0
             PROVE  object'.got[p] = {object'.want[p]}
  BY DEF CompletedIntact, Calm
<1>1. Calm
  BY <1>0, SharedStep, FaultsFixed DEF Calm
<1>2. CASE UNCHANGED object
  BY <1>1, <1>2 DEF CompletedIntact, Calm
<1>3. ASSUME NEW i \in Request, CommitObject(i) PROVE object'.got[p] = {object'.want[p]}
  <2>1. CASE object' = Assembled(i)
    <3>1. i \in Ops /\ req[i].op = "complete" /\ ToRead(i) = {}
      BY <1>3 DEF CommitObject, Running, Ops
    <3>2. object'.want = req[i].want /\ object'.got = req[i].got
      BY <2>1 DEF Assembled
    <3>3. req[i].got[p] # {}
      BY <3>1, <3>2 DEF ToRead
    <3> QED BY <1>1, <3>1, <3>2, <3>3 DEF ReadsWritten
  <2> QED BY <1>2, <1>3, <2>1 DEF CommitObject
<1>4. ASSUME NEW i \in Request, Handle(i) \/ Disconnect(i), ~CommitObject(i) PROVE UNCHANGED object
  BY <1>4 DEF Handle, initiate_multipart_upload, CheckUpload, CreatePartFile, WriteBody, RecordPartCheck,
     CreatePartsDir, RecordPartPut, LockForComplete, GetUpload, ReadPart, put_object_metadata,
     DeleteRecord, DeletePartRecords, FinishComplete, AbortGet, cleanup_part_files, Disconnect, restVars
<1>5. ASSUME NEW op \in {"initiate", "upload_part", "complete", "abort"}, NEW q \in Part, Arrive(op, q)
      PROVE  UNCHANGED object
  BY <1>5 DEF Arrive, restVars
<1>6. InstallSnapshot \/ Crash \/ Age \/ Gc \/ UNCHANGED vars => UNCHANGED object
  BY DEF InstallSnapshot, Crash, Age, restVars, Gc, GcActive, GcList, GcRemove, GcEnd, vars
<1> QED BY <1>2, <1>3, <1>4, <1>5, <1>6 DEF Next

(* Part files, part records and what complete has read agree, while no     *)
(* file is used by two requests.                                           *)
THEOREM ContentInductive == Spec => [](BaseInv /\ ContentInv)
<1>1. Init => BaseInv /\ ContentInv
  <2> SUFFICES ASSUME Init PROVE BaseInv /\ ContentInv
    OBVIOUS
  <2>1. DOMAIN req = {} /\ ~record
    BY DEF Init
  <2>2. CompletedIntact
    BY DEF Init, CompletedIntact, Nothing, NoParts
  <2> QED BY <2>1, <2>2, BaseInit DEF ContentInv, Alone, Written, RecordedWritten, ReadsWritten, Ops
<1>2. BaseInv /\ ContentInv /\ [Next]_vars => (BaseInv /\ ContentInv)'
  BY BaseStep, AloneStep, WrittenStep, RecordedWrittenStep, ReadsWrittenStep, IntactStep DEF ContentInv
<1> QED BY <1>1, <1>2, PTL DEF Spec

(* What complete assembled is what upload_part recorded, part by part, for *)
(* any number of parts and requests, although only complete has the lock.  *)
THEOREM CompletesIntact == Spec => []CompletedIntact
<1>1. ContentInv => CompletedIntact
  BY DEF ContentInv
<1> QED BY <1>1, ContentInductive, PTL
-----------------------------------------------------------------------------
(* The gauge.                                                              *)

(* Requests that ended the upload have ended.                              *)
LEMMA EndedStep ==
  ASSUME BaseInv, EndedDone, [Next]_vars
  PROVE  EndedDone'
<1>0. TypeInv /\ Control
  BY DEF BaseInv
<1>1. ASSUME NEW i \in Request, FinishComplete(i) \/ cleanup_part_files(i) PROVE EndedDone'
  <2>1. Ends(i) /\ ended' = ended \cup {i}
    BY <1>0, <1>1, Requests DEF FinishComplete, cleanup_part_files
  <2>2. IsFiniteSet(ended')
    BY <2>1, FS_AddElement DEF EndedDone
  <2> QED BY <2>1, <2>2 DEF EndedDone, Ends, Moves, Finished, Ops
<1>2. ASSUME UNCHANGED ended, \A i \in ended : i \in DOMAIN req' /\ req'[i].step = "done" PROVE EndedDone'
  BY <1>2 DEF EndedDone, Ops
<1>3. ASSUME NEW i \in Request, Handle(i) \/ Disconnect(i), ~FinishComplete(i), ~cleanup_part_files(i)
      PROVE  EndedDone'
  <2>1. UNCHANGED ended
    BY <1>3 DEF Handle, initiate_multipart_upload, CheckUpload, CreatePartFile, WriteBody, RecordPartCheck,
       CreatePartsDir, RecordPartPut, LockForComplete, GetUpload, ReadPart, CommitObject,
       put_object_metadata, DeleteRecord, DeletePartRecords, AbortGet, Disconnect, restVars
  <2>2. Moves(i) /\ req[i].step # "done"
    <3>1. Moves(i)
      BY <1>0, <1>3, Requests, LongRequests DEF Handle, To, Ends
    <3>2. req[i].step # "done"
      BY <1>3 DEF Handle, initiate_multipart_upload, CheckUpload, CreatePartFile, WriteBody,
         RecordPartCheck, CreatePartsDir, RecordPartPut, LockForComplete, GetUpload, ReadPart,
         CommitObject, put_object_metadata, DeleteRecord, DeletePartRecords, AbortGet, Disconnect,
         Running, Active
    <3> QED BY <3>1, <3>2
  <2>3. \A j \in ended : j \in DOMAIN req' /\ req'[j].step = "done"
    BY <2>2 DEF EndedDone, Moves
  <2> QED BY <1>2, <2>1, <2>3
<1>4. ASSUME NEW op \in {"initiate", "upload_part", "complete", "abort"}, NEW p \in Part, Arrive(op, p)
      PROVE  EndedDone'
  <2>1. PICK n \in Nat :
          Ops = 1 .. n /\ DOMAIN req' = 1 .. (n + 1) /\ \A j \in 1 .. n : req'[j] = req[j]
    BY <1>0, <1>4, ArriveComes DEF Comes
  <2>2. \A j \in ended : j \in DOMAIN req' /\ req'[j].step = "done"
    BY <2>1 DEF EndedDone
  <2> QED BY <1>2, <1>4, <2>2 DEF Arrive, restVars
<1>5. CASE Crash
  <2>1. \A j \in ended : j \in DOMAIN req' /\ req'[j].step = "done"
    BY <1>5 DEF EndedDone, Crash, Finished, Ops
  <2> QED BY <1>2, <1>5, <2>1 DEF Crash
<1>6. CASE UNCHANGED <<req, ended>>
  BY <1>6 DEF EndedDone, Ops
<1>7. InstallSnapshot \/ Age \/ Gc \/ UNCHANGED vars => UNCHANGED <<req, ended>>
  BY DEF InstallSnapshot, Age, restVars, Gc, GcActive, GcList, GcRemove, GcEnd, vars
<1> QED BY <1>1, <1>3, <1>4, <1>5, <1>6, <1>7 DEF Next

(* A request is in the middle of ending the upload from the deletion of    *)
(* its record to the end of the request.                                   *)
LEMMA EndingStep ==
  ASSUME BaseInv, [Next]_vars, Quiet
  PROVE  /\ \A i \in DOMAIN req' : Ending(i)' =>
              (i \in Ops /\ Ending(i)) \/ (i \in Request /\ DeleteRecord(i))
         /\ \A i \in Ops : Ending(i) =>
              \/ i \in DOMAIN req' /\ Ending(i)'
              \/ i \in Request /\ (FinishComplete(i) \/ cleanup_part_files(i))
<1>0. TypeInv /\ Control
  BY DEF BaseInv
<1>1. ASSUME NEW i \in DOMAIN req', Ending(i)'
      PROVE  (i \in Ops /\ Ending(i)) \/ (i \in Request /\ DeleteRecord(i))
  <2>1. req'[i].step \in {"unpart", "clean"} /\ req'[i].op \in {"complete", "abort"}
    BY <1>1 DEF Ending
  <2>2. CASE i \in Ops /\ req'[i] = req[i]
    BY <2>1, <2>2 DEF Ending
  <2>3. CASE i \in Request /\ i \in Ops /\ (Handle(i) \/ Disconnect(i)) /\ Moves(i)
    <3>1. ~Ends(i)
      BY <2>1 DEF Ends, Finished
    <3>2. ASSUME NEW s \in {"mkdir", "create", "write", "record", "put", "get", "read", "meta", "unrecord"}
          PROVE  ~To(i, s)
      BY <2>1 DEF To
    <3>3. DeleteRecord(i) \/ DeletePartRecords(i)
      BY <1>0, <2>3, <3>1, <3>2, Requests, LongRequests DEF Handle
    <3>4. DeletePartRecords(i) => Ending(i)
      BY <2>3 DEF DeletePartRecords, Running, Ending
    <3> QED BY <2>3, <3>3, <3>4
  <2>4. req'[i] # Finished
    BY <2>1 DEF Finished
  <2> QED BY <1>0, <2>1, <2>2, <2>3, <2>4, OneMoves
<1>2. ASSUME NEW i \in Ops, Ending(i)
      PROVE  \/ i \in DOMAIN req' /\ Ending(i)'
             \/ i \in Request /\ (FinishComplete(i) \/ cleanup_part_files(i))
  <2>1. req[i].step \in {"unpart", "clean"} /\ req[i].op \in {"complete", "abort"}
    BY <1>2 DEF Ending
  <2>2. ASSUME NEW k \in Request, Handle(k)
        PROVE  \/ i \in DOMAIN req' /\ Ending(i)'
               \/ i \in Request /\ (FinishComplete(i) \/ cleanup_part_files(i))
    <3>1. Moves(k)
      BY <1>0, <2>2, Requests, LongRequests DEF Handle, To, Ends
    <3>2. CASE k # i
      <4>1. i \in DOMAIN req' /\ req'[i] = req[i]
        BY <3>1, <3>2 DEF Moves
      <4> QED BY <2>1, <4>1 DEF Ending, Ops
    <3>3. CASE k = i
      <4>1. DeletePartRecords(i) \/ FinishComplete(i) \/ cleanup_part_files(i)
        BY <2>1, <2>2, <3>3 DEF Handle, initiate_multipart_upload, CheckUpload, CreatePartFile, WriteBody,
           RecordPartCheck, CreatePartsDir, RecordPartPut, LockForComplete, GetUpload, ReadPart,
           CommitObject, put_object_metadata, DeleteRecord, AbortGet, Running
      <4>2. DeletePartRecords(i) => i \in DOMAIN req' /\ Ending(i)'
        BY <1>0, <2>1, <2>2, <3>1, <3>3, Requests DEF To, Moves, Ending, Ops
      <4> QED BY <2>2, <3>3, <4>1, <4>2
    <3> QED BY <3>2, <3>3
  <2>3. ASSUME NEW op \in {"initiate", "upload_part", "complete", "abort"}, NEW p \in Part, Arrive(op, p)
        PROVE  i \in DOMAIN req' /\ Ending(i)'
    <3>1. PICK n \in Nat :
            Ops = 1 .. n /\ DOMAIN req' = 1 .. (n + 1) /\ \A j \in 1 .. n : req'[j] = req[j]
      BY <1>0, <2>3, ArriveComes DEF Comes
    <3>2. i \in 1 .. (n + 1) /\ req'[i] = req[i]
      BY <3>1
    <3> QED BY <2>1, <3>1, <3>2 DEF Ending, Ops
  <2>4. CASE UNCHANGED req
    BY <1>2, <2>4 DEF Ending, Ops
  <2>5. InstallSnapshot \/ Age \/ Gc \/ UNCHANGED vars => UNCHANGED req
    BY DEF InstallSnapshot, Age, Gc, GcActive, GcList, GcRemove, GcEnd, vars
  <2>6. ~Crash /\ \A k \in Request : ~Disconnect(k)
    BY DEF Crash, Disconnect, Quiet
  <2> QED BY <2>2, <2>3, <2>4, <2>5, <2>6 DEF Next
<1> QED BY <1>1, <1>2

(* What happens to the gauge when nothing fails but metadata commands.     *)
LEMMA GaugeStep ==
  ASSUME BaseInv, EndedDone, Quiet, [Next]_vars
  PROVE  \/ \E i \in Request : initiate_multipart_upload(i) /\ gauge' = gauge + 1 /\ UNCHANGED ended
         \/ \E i \in Request : /\ FinishComplete(i) \/ cleanup_part_files(i)
                               /\ gauge' = gauge - 1 /\ ended' = ended \cup {i} /\ i \notin ended
                               /\ Ending(i) /\ i \in Ops
         \/ UNCHANGED <<gauge, ended>> /\ \A i \in Request : ~initiate_multipart_upload(i)
<1>0. TypeInv /\ Control
  BY DEF BaseInv
<1>1. ASSUME NEW i \in Request, FinishComplete(i) \/ cleanup_part_files(i)
      PROVE  /\ gauge' = gauge - 1 /\ ended' = ended \cup {i} /\ i \notin ended
             /\ Ending(i) /\ i \in Ops
  BY <1>1 DEF FinishComplete, cleanup_part_files, gauge_dec, EndedDone, Running, Ending, Ops
<1>2. ASSUME NEW i \in Request, initiate_multipart_upload(i)
      PROVE  gauge' = gauge + 1 /\ UNCHANGED ended
  BY <1>2 DEF initiate_multipart_upload, gauge_inc
<1>3. ASSUME NEW i \in Request, Handle(i), ~initiate_multipart_upload(i), ~FinishComplete(i),
             ~cleanup_part_files(i)
      PROVE  UNCHANGED <<gauge, ended>>
  <2>1. CASE CreatePartsDir(i)
    BY <2>1 DEF CreatePartsDir, Quiet
  <2>2. CASE ~CreatePartsDir(i)
    BY <1>3, <2>2 DEF Handle, CheckUpload, CreatePartFile, WriteBody, RecordPartCheck, RecordPartPut,
       LockForComplete, GetUpload, ReadPart, CommitObject, put_object_metadata, DeleteRecord,
       DeletePartRecords, AbortGet, restVars
  <2> QED BY <2>1, <2>2
<1>4. ~Crash /\ \A k \in Request : ~Disconnect(k)
  BY DEF Crash, Disconnect, Quiet
<1>5. ASSUME NEW op \in {"initiate", "upload_part", "complete", "abort"}, NEW p \in Part, Arrive(op, p)
      PROVE  UNCHANGED <<gauge, ended>>
  BY <1>5 DEF Arrive, restVars
<1>6. InstallSnapshot \/ Age \/ Gc \/ UNCHANGED vars => UNCHANGED <<gauge, ended>>
  BY DEF InstallSnapshot, Age, restVars, Gc, GcActive, GcList, GcRemove, GcEnd, vars
<1> QED BY <1>1, <1>2, <1>3, <1>4, <1>5, <1>6 DEF Next

(* The gauge counts the initiation and the requests that ended it.         *)
LEMMA CountsStep ==
  ASSUME BaseInv, EndedDone, GaugeCounts, [Next]_vars
  PROVE  GaugeCounts'
<1>0. TypeInv /\ Control
  BY DEF BaseInv
<1> SUFFICES ASSUME Quiet'
             PROVE  gauge' = (IF Opened' THEN 1 ELSE 0) - Cardinality(ended')
  BY DEF GaugeCounts
<1>1. Quiet
  BY FaultsFixed DEF Quiet
<1>2. gauge = (IF Opened THEN 1 ELSE 0) - Cardinality(ended) /\ Cardinality(ended) \in Nat
  BY <1>1, FS_CardinalityType DEF GaugeCounts, EndedDone
<1>3. ASSUME NEW i \in Request, initiate_multipart_upload(i), gauge' = gauge + 1, UNCHANGED ended
      PROVE  gauge' = (IF Opened' THEN 1 ELSE 0) - Cardinality(ended')
  <2>1. ~Opened /\ Opened'
    BY <1>0, <1>3, InitiateFirst
  <2> QED BY <1>2, <1>3, <2>1
<1>4. ASSUME \A i \in Request : ~initiate_multipart_upload(i)
      PROVE  Opened' <=> Opened
  <2>1. ~Crash /\ \A k \in Request : ~Disconnect(k)
    BY <1>1 DEF Crash, Disconnect, Quiet
  <2>2. Opened => Opened'
    BY <1>0, OpenedStep
  <2> QED BY <1>0, <1>4, <2>1, <2>2, OpenedStep
<1>5. ASSUME NEW i \in Request, gauge' = gauge - 1, ended' = ended \cup {i}, i \notin ended,
             FinishComplete(i) \/ cleanup_part_files(i)
      PROVE  gauge' = (IF Opened' THEN 1 ELSE 0) - Cardinality(ended')
  <2>1. Cardinality(ended') = Cardinality(ended) + 1
    BY <1>5, FS_AddElement DEF EndedDone
  <2>2. Opened' <=> Opened
    <3>1. Ends(i) /\ i \in Ops /\ i # 1
      BY <1>0, <1>5, Requests DEF FinishComplete, cleanup_part_files, Running, Ends, Moves, Control, Ops
    <3> QED BY <3>1 DEF Ends, Moves, Opened, Ops
  <2> QED BY <1>2, <1>5, <2>1, <2>2
<1> QED BY <1>1, <1>2, <1>3, <1>4, <1>5, GaugeStep

(* The record is there until a request ends the upload.                    *)
LEMMA RecordEndedStep ==
  ASSUME BaseInv, EndedDone, RecordEnded, [Next]_vars
  PROVE  RecordEnded'
<1>0. TypeInv /\ Control /\ Early
  BY DEF BaseInv
<1> SUFFICES ASSUME Quiet', Opened'
             PROVE  record' <=> ended' = {} /\ \A i \in DOMAIN req' : ~Ending(i)'
  BY DEF RecordEnded, Ops
<1>1. Quiet
  BY FaultsFixed DEF Quiet
<1>2. ASSUME NEW i \in Request, initiate_multipart_upload(i)
      PROVE  record' /\ ended' = {} /\ \A j \in DOMAIN req' : ~Ending(j)'
  <2>1. ~Opened /\ To(i, "mkdir")
    BY <1>0, <1>2, InitiateFirst, Requests
  <2>2. ended = {} /\ \A j \in Ops : req[j].step \in {"start", "get", "done"}
    BY <1>0, <2>1 DEF Early
  <2>3. record' /\ UNCHANGED ended
    BY <1>2 DEF initiate_multipart_upload, put_record
  <2>4. \A j \in DOMAIN req' : req'[j].step \in {"start", "get", "done", "mkdir"}
    BY <2>1, <2>2 DEF To, Moves
  <2> QED BY <2>2, <2>3, <2>4 DEF Ending
<1>3. ASSUME NEW i \in Request, DeleteRecord(i)
      PROVE  ~record' /\ i \in DOMAIN req' /\ Ending(i)'
  <2>1. To(i, "unpart") /\ req[i].op \in {"complete", "abort"}
    BY <1>0, <1>3, Requests DEF DeleteRecord, Running
  <2> QED BY <1>3, <2>1 DEF DeleteRecord, delete_record, To, Moves, Ending, Ops
<1>4. ASSUME \A i \in Request : ~DeleteRecord(i) /\ ~initiate_multipart_upload(i)
      PROVE  record' <=> ended' = {} /\ \A i \in DOMAIN req' : ~Ending(i)'
  <2>1. ~Crash /\ ~InstallSnapshot /\ \A k \in Request : ~Disconnect(k)
    BY <1>1 DEF Crash, InstallSnapshot, Disconnect, Quiet
  <2>2. UNCHANGED record
    <3>1. ASSUME NEW i \in Request, Handle(i) PROVE UNCHANGED record
      BY <1>4, <3>1 DEF Handle, CheckUpload, CreatePartFile, WriteBody, RecordPartCheck, CreatePartsDir,
         RecordPartPut, LockForComplete, GetUpload, ReadPart, CommitObject, put_object_metadata,
         DeletePartRecords, FinishComplete, AbortGet, cleanup_part_files, diskVars
    <3>2. ASSUME NEW op \in {"initiate", "upload_part", "complete", "abort"}, NEW p \in Part, Arrive(op, p)
          PROVE  UNCHANGED record
      BY <3>2 DEF Arrive, diskVars
    <3>3. Age \/ Gc \/ UNCHANGED vars => UNCHANGED record
      BY DEF Age, Gc, GcActive, GcList, GcRemove, GcEnd, diskVars, vars
    <3> QED BY <2>1, <3>1, <3>2, <3>3 DEF Next
  <2>3. Opened
    BY <1>0, <1>4, <2>1, OpenedStep
  <2>4. record <=> ended = {} /\ \A i \in Ops : ~Ending(i)
    BY <1>1, <2>3 DEF RecordEnded
  <2>5. CASE \E i \in Request : ended' = ended \cup {i} /\ Ending(i) /\ i \in Ops
    BY <2>2, <2>4, <2>5
  <2>6. CASE UNCHANGED ended /\ \A i \in Request : ~FinishComplete(i) /\ ~cleanup_part_files(i)
    <3>1. \A i \in DOMAIN req' : Ending(i)' => i \in Ops /\ Ending(i)
      BY <1>1, <1>4, EndingStep
    <3>2. \A i \in Ops : Ending(i) => i \in DOMAIN req' /\ Ending(i)'
      BY <1>1, <2>6, EndingStep
    <3> QED BY <2>2, <2>4, <2>6, <3>1, <3>2
  <2>7. ASSUME NEW i \in Request, FinishComplete(i) \/ cleanup_part_files(i)
        PROVE  ended' = ended \cup {i} /\ Ending(i) /\ i \in Ops
    BY <2>7 DEF FinishComplete, cleanup_part_files, Running, Ending, Ops
  <2> QED BY <1>1, <1>4, <2>5, <2>6, <2>7, GaugeStep
<1> QED BY <1>2, <1>3, <1>4

(* Every initiation and every end of the upload is counted, and the record *)
(* tells whether it is over.                                               *)
THEOREM CountInductive == Spec => [](BaseInv /\ CountInv)
<1>1. Init => BaseInv /\ CountInv
  <2> SUFFICES ASSUME Init PROVE BaseInv /\ CountInv
    OBVIOUS
  <2>1. ended = {} /\ gauge = 0 /\ DOMAIN req = {}
    BY DEF Init
  <2>2. Cardinality(ended) = 0 /\ IsFiniteSet(ended)
    BY <2>1, FS_EmptySet
  <2> QED BY <2>1, <2>2, BaseInit DEF CountInv, EndedDone, GaugeCounts, RecordEnded, Opened, Ops
<1>2. BaseInv /\ CountInv /\ [Next]_vars => (BaseInv /\ CountInv)'
  BY BaseStep, EndedStep, CountsStep, RecordEndedStep DEF CountInv
<1> QED BY <1>1, <1>2, PTL DEF Spec

(* If one request at most ended the upload, multipart_uploads_in_progress  *)
(* is exact whenever no request is under way.                              *)
THEOREM GaugeIsExact == Spec => []GaugeExact
<1>1. BaseInv /\ CountInv => GaugeExact
  <2> SUFFICES ASSUME BaseInv, CountInv, Quiet, Cardinality(ended) <= 1, \A i \in DOMAIN req : ~Active(i)
               PROVE  gauge = IF record THEN 1 ELSE 0
    BY DEF GaugeExact, Quiet
  <2>1. gauge = (IF Opened THEN 1 ELSE 0) - Cardinality(ended) /\ IsFiniteSet(ended)
    BY DEF CountInv, GaugeCounts, EndedDone
  <2>2. \A i \in Ops : ~Ending(i)
    BY DEF Active, Ending, Ops
  <2>3. Cardinality(ended) \in Nat /\ (Cardinality(ended) = 0 <=> ended = {})
    BY <2>1, FS_CardinalityType, FS_EmptySet
  <2>4. CASE Opened
    <3>1. record <=> ended = {}
      BY <2>2, <2>4 DEF CountInv, RecordEnded
    <3>2. CASE ended = {}
      BY <2>1, <2>3, <2>4, <3>1, <3>2
    <3>3. CASE ended # {}
      BY <2>1, <2>3, <2>4, <3>1, <3>3
    <3> QED BY <3>2, <3>3
  <2>5. CASE ~Opened
    BY <2>5 DEF BaseInv, Early
  <2> QED BY <2>4, <2>5
<1> QED BY <1>1, CountInductive, PTL
=============================================================================
