------------------------ MODULE MetadataReplicaProofs ------------------------
(***************************************************************************)
(* Proofs about MetadataReplica: what a replica's data is after batches    *)
(* that are cut short and applied again, snapshots taken beside batches,   *)
(* and crashes between any two writes.                                     *)
(***************************************************************************)
EXTENDS MetadataReplica, TLAPS

(* The parts of a replica that a snapshot brings, and the commands that    *)
(* set each one whatever it was before.                                    *)
Part == {"bucket", "object", "member"}
Setters(x) ==
  IF x = "bucket" THEN {"create_bucket", "delete_bucket"}
  ELSE IF x = "object" THEN {"put_object", "delete_object"} ELSE {"membership"}

(* A part after the first k commands, in a replica, and in a snapshot.     *)
At(x, k)  == IF x = "member" THEN MembershipAt(k) ELSE StateAt(k)[x]
Of(x, d, m) == IF x = "member" THEN m ELSE d[x]

(* No command after a and up to b sets the part.                           *)
Untouched(x, a, b) == \A i \in a + 1 .. b : log[i].op \notin Setters(x)

(* Two holders have the lock together only if both read.                   *)
Compatible(S) == \A g, h \in S : g = h \/ {g, h} \subseteq Readers

DataRec  == [bucket : BOOLEAN, object : 0 .. MaxLog, lock : SUBSET Holder]
MetaRec  == [last : Nat, member : Nat]
ImageRec == [of : Nat, data : DataRec, top : Nat]
SnapRec  == [last : Nat, member : Nat, of : Nat, data : DataRec, top : Nat]

Installing == {"clear", "copy", "applied", "member", "snapshot", "image", "purge"}
ApplyRec   == [op : {"apply"}, next : Nat, upto : Nat]
InstallRec == [op : {"install"}, step : Installing, snap : SnapRec]
ReadRec    == [step : {"read"}, last : Nat, member : Nat]
CopiedRec  == [step : {"copied", "meta"}, last : Nat, member : Nat, data : DataRec, top : Nat]
BuiltRec   == [step : {"built", "deleted"}, last : Nat]
-----------------------------------------------------------------------------
(* The history of the log.                                                 *)
LogTyped ==
  /\ log \in Seq(Command) /\ Len(log) <= MaxLog
  /\ states \in Seq(DataRec) /\ Len(states) = Len(log) + 1

Replays ==
  /\ StateAt(0) = Empty
  /\ \A i \in 1 .. Len(log) : StateAt(i) = apply_command(StateAt(i - 1), log[i], i)

Stays ==
  \A a, b \in 0 .. Len(log) : a <= b =>
    \A x \in Part : Untouched(x, a, b) => At(x, a) = At(x, b)

Exclusive == \A k \in 0 .. Len(log) : Compatible(StateAt(k).lock)

History == LogTyped /\ Replays /\ Stays /\ Exclusive
-----------------------------------------------------------------------------
(* A snapshot, or its parts, is what the commands up to an index from last *)
(* to top make of each part.                                               *)
Matches(last, upper, d, m) ==
  /\ last <= upper
  /\ \A x \in Part : \E j \in last .. upper : Of(x, d, m) = At(x, j)

SnapOK(s) ==
  /\ s.of <= s.last /\ s.last <= Len(log) /\ s.member <= Len(log) /\ s.top <= Len(log)
  /\ 0 < s.last
  /\ s.of = s.last => Matches(s.last, s.top, s.data, s.member)

(* What an installation has done so far.                                   *)
CopyDone(n, s)   == \A x \in {"bucket", "object"} : data[n][x] = s.data[x]
Progress(n, j) ==
  /\ j.step \notin {"clear", "copy"} =>
       /\ CopyDone(n, j.snap) /\ top[n] = j.snap.top
       /\ j.snap.of < j.snap.last => n \in torn
  /\ j.step \notin {"clear", "copy", "applied"} => applied[n] = j.snap.last
  /\ j.step \notin {"clear", "copy", "applied", "member"} => member[n] = j.snap.member

JobOK(n) ==
  \/ job[n] = NoJob
  \/ /\ job[n] \in ApplyRec
     /\ applied[n] < job[n].next /\ job[n].next <= job[n].upto + 1 /\ job[n].upto <= Len(log)
     /\ job[n].upto <= end[n]
  \/ /\ job[n] \in InstallRec
     /\ n # Leader /\ build[n] = NoBuild /\ first[Leader] > 1
     /\ SnapOK(job[n].snap) /\ Progress(n, job[n])

BuildOK(n) ==
  \/ build[n] = NoBuild
  \/ build[n] \in ReadRec \cup CopiedRec \cup BuiltRec

Idle(n) == status[n] # "running" => job[n] = NoJob /\ build[n] = NoBuild

NodeTyped ==
  /\ data \in [Node -> DataRec]
  /\ applied \in [Node -> Nat] /\ member \in [Node -> Nat] /\ top \in [Node -> Nat]
  /\ first \in [Node -> Nat] /\ end \in [Node -> Nat] /\ purged \in [Node -> Nat]
  /\ meta \in [Node -> SUBSET MetaRec] /\ image \in [Node -> SUBSET ImageRec]
  /\ status \in [Node -> {"running", "down", "stopped"}]
  /\ torn \subseteq Node /\ Leader \notin torn
  /\ <<faults, offered>> \in Scenarios /\ regranted \subseteq Node
  /\ job = [n \in Node |-> job[n]] /\ build = [n \in Node |-> build[n]]

Within ==
  /\ end[Leader] = Len(log) /\ first[Leader] >= 1
  /\ \A n \in Node :
       /\ applied[n] <= Len(log) /\ member[n] <= Len(log) /\ top[n] <= Len(log)
       /\ end[n] <= Len(log)

(* The last command of a batch that has been applied.                      *)
Done(n) == IF job[n].op = "apply" THEN job[n].next - 1 ELSE applied[n]

(* Where the lock keys were never left out of a snapshot.                  *)
Uncopied(n) ==
  \/ n = Leader \/ first[Leader] = 1 \/ top[n] = 0
  \/ purged[n] = 0 /\ end[n] > 0

LockSafe(n) == n \notin regranted /\ Uncopied(n)

(* The value v of a part, where a is the last applied index on disk, e the *)
(* last command of the batch under way, and t the last one ever seen: it   *)
(* is what some index from a to t makes of it, and what e makes of it once *)
(* the batch has set it.                                                   *)
PartIs(v, x, a, e, t) ==
  /\ \E j \in a .. t : v = At(x, j)
  /\ v = At(x, e) \/ Untouched(x, a, e)

(* The holders v of a lock: each has it, or has it not, as at some index   *)
(* from e to t.                                                            *)
LockIs(v, e, t) ==
  \A h \in Holder : \E k \in e .. t : h \in v <=> h \in StateAt(k).lock

PartSound(n, x) == PartIs(Of(x, data[n], member[n]), x, applied[n], Done(n), top[n])
LockSound(n)    == LockIs(data[n].lock, Done(n), top[n])

Sound(n) ==
  /\ applied[n] <= Done(n) /\ Done(n) <= top[n]
  /\ \A x \in Part : PartSound(n, x)
  /\ LockSafe(n) => LockSound(n)

(* The snapshot of the leader, and the one it is building.                 *)
Older(b) == \A d \in image[Leader] : d.of < b.last
Building(b) ==
  /\ 0 < b.last /\ b.last <= applied[Leader] /\ first[Leader] <= b.last + 1
  /\ b.step = "read" =>
       /\ b.member <= Len(log)
       /\ \E j \in b.last .. top[Leader] : b.member = At("member", j)
       /\ Older(b)
  /\ b.step \in {"copied", "meta"} =>
       /\ b.member <= Len(log) /\ b.top <= Len(log)
       /\ Matches(b.last, b.top, b.data, b.member)
       /\ Older(b)
       /\ b.step = "meta" => meta[Leader] = {[last |-> b.last, member |-> b.member]}
  /\ b.step \in {"built", "deleted"} =>
       /\ \A m \in meta[Leader] : m.last = b.last
       /\ meta[Leader] # {} /\ image[Leader] # {}

Snap(m, d) == [last |-> m.last, member |-> m.member, of |-> d.of, data |-> d.data, top |-> d.top]
Snaps ==
  /\ image[Leader] # {} => meta[Leader] # {}
  /\ \A m \in meta[Leader], d \in image[Leader] : SnapOK(Snap(m, d))
  /\ first[Leader] # 1 =>
       /\ meta[Leader] # {} /\ image[Leader] # {}
       /\ \A m \in meta[Leader] : m.last + 1 >= first[Leader]

Stored == Snaps /\ (build[Leader] # NoBuild => Building(build[Leader]))

Stops(n) ==
  status[n] = "stopped" =>
    "large" \in faults \/ n \in torn \/ \E i \in applied[n] + 1 .. end[n] : SecondCreate(n, i)

NodeInv(n) ==
  /\ JobOK(n) /\ BuildOK(n) /\ Idle(n) /\ Stops(n)
  /\ n \notin torn /\ job[n].op # "install" => Sound(n)

ReplicaInv == History /\ NodeTyped /\ Within /\ Stored /\ \A n \in Node : NodeInv(n)

(* The window of the log a replica has.                                    *)
Window(n) ==
  /\ purged[n] < first[n] /\ first[n] <= end[n] + 1
  /\ Running(n) /\ job[n].op # "install" => applied[n] <= end[n]
  /\ build[n] # NoBuild => build[n].last <= end[n]
  /\ build[n].step = "deleted" => build[n].last < first[n]

WindowInv == \A n \in Node : Window(n)
-----------------------------------------------------------------------------
(* What a command does to each part, and to the lock.                      *)
LEMMA ApplyTyped ==
  ASSUME NEW d \in DataRec, NEW c \in Command, NEW i \in 0 .. MaxLog
  PROVE  apply_command(d, c, i) \in DataRec
<1>0. MaxLog \in Nat
  BY BoundsAssumption
<1>1. CASE c.op = "create_bucket"
  BY <1>0, <1>1 DEF apply_command, DataRec, create_bucket
<1>2. CASE c.op = "delete_bucket"
  BY <1>0, <1>2 DEF apply_command, DataRec, delete_bucket
<1>3. CASE c.op = "put_object"
  BY <1>3 DEF apply_command, DataRec, put_object_metadata
<1>4. CASE c.op = "delete_object"
  BY <1>0, <1>4 DEF apply_command, DataRec, delete_object_metadata
<1>5. CASE c.op = "acquire_lock"
  BY <1>5 DEF apply_command, DataRec, acquire_lock, Command, LockCommand, DataCommand
<1>6. CASE c.op = "release_lock"
  BY <1>6 DEF apply_command, DataRec, release_lock
<1>7. CASE c.op = "membership"
  BY <1>7 DEF apply_command, DataRec
<1> QED BY <1>1, <1>2, <1>3, <1>4, <1>5, <1>6, <1>7 DEF Command, LockCommand, DataCommand

(* A command sets a part or leaves it as it was, whatever else it finds.   *)
LEMMA ApplyParts ==
  ASSUME NEW d \in DataRec, NEW e \in DataRec, NEW c \in Command, NEW i \in Nat,
         NEW x \in {"bucket", "object"}
  PROVE  /\ c.op \in Setters(x) => apply_command(d, c, i)[x] = apply_command(e, c, i)[x]
         /\ c.op \notin Setters(x) => apply_command(d, c, i)[x] = d[x]
<1>1. CASE c.op = "create_bucket"
  BY <1>1 DEF apply_command, DataRec, create_bucket, Setters
<1>2. CASE c.op = "delete_bucket"
  BY <1>2 DEF apply_command, DataRec, delete_bucket, Setters
<1>3. CASE c.op = "put_object"
  BY <1>3 DEF apply_command, DataRec, put_object_metadata, Setters
<1>4. CASE c.op = "delete_object"
  BY <1>4 DEF apply_command, DataRec, delete_object_metadata, Setters
<1>5. CASE c.op = "acquire_lock"
  BY <1>5 DEF apply_command, DataRec, acquire_lock, Setters
<1>6. CASE c.op = "release_lock"
  BY <1>6 DEF apply_command, DataRec, release_lock, Setters
<1>7. CASE c.op = "membership"
  BY <1>7 DEF apply_command, DataRec, Setters
<1> QED BY <1>1, <1>2, <1>3, <1>4, <1>5, <1>6, <1>7 DEF Command, LockCommand, DataCommand

(* What a command makes of the holders of the lock.                        *)
LockAfter(v, c) ==
  IF c.op = "release_lock" THEN v \ {c.holder}
  ELSE IF c.op = "acquire_lock" /\ can_acquire([lock |-> v], c.holder) THEN v \cup {c.holder}
  ELSE v

(* A lock command changes its own holder; no other command touches a lock. *)
LEMMA ApplyLock ==
  ASSUME NEW d \in DataRec, NEW c \in Command, NEW i \in Nat
  PROVE  apply_command(d, c, i).lock = LockAfter(d.lock, c)
<1>1. CASE c.op = "create_bucket"
  BY <1>1 DEF apply_command, DataRec, create_bucket, LockAfter
<1>2. CASE c.op = "delete_bucket"
  BY <1>2 DEF apply_command, DataRec, delete_bucket, LockAfter
<1>3. CASE c.op = "put_object"
  BY <1>3 DEF apply_command, DataRec, put_object_metadata, LockAfter
<1>4. CASE c.op = "delete_object"
  BY <1>4 DEF apply_command, DataRec, delete_object_metadata, LockAfter
<1>5. CASE c.op = "acquire_lock"
  <2>1. can_acquire([lock |-> d.lock], c.holder) <=> can_acquire(d, c.holder)
    BY DEF can_acquire
  <2>2. CASE can_acquire(d, c.holder)
    BY <1>5, <2>1, <2>2 DEF apply_command, DataRec, acquire_lock, LockAfter
  <2>3. CASE ~can_acquire(d, c.holder)
    BY <1>5, <2>1, <2>3 DEF apply_command, DataRec, acquire_lock, LockAfter
  <2> QED BY <2>2, <2>3
<1>6. CASE c.op = "release_lock"
  BY <1>6 DEF apply_command, DataRec, release_lock, LockAfter
<1>7. CASE c.op = "membership"
  BY <1>7 DEF apply_command, DataRec, LockAfter
<1> QED BY <1>1, <1>2, <1>3, <1>4, <1>5, <1>6, <1>7 DEF Command, LockCommand, DataCommand

(* An acquire that is not granted has met a holder it cannot share with.   *)
LEMMA Denied ==
  ASSUME NEW v, NEW h, ~can_acquire([lock |-> v], h)
  PROVE  h \notin v /\ \E x \in v : x # h /\ ~({x, h} \subseteq Readers)
<1>1. ~(v \subseteq {h}) /\ h \notin v /\ ~(h \in Readers /\ v \subseteq Readers)
  BY DEF can_acquire
<1>2. PICK x \in v : x # h
  BY <1>1
<1>3. CASE h \notin Readers
  BY <1>1, <1>2, <1>3
<1>4. CASE h \in Readers
  <2>1. PICK y \in v : y \notin Readers
    BY <1>1, <1>4
  <2> QED BY <1>1, <1>4, <2>1
<1> QED BY <1>3, <1>4

(* The holders stay compatible.                                            *)
LEMMA StayCompatible ==
  ASSUME NEW v, NEW c, Compatible(v)
  PROVE  Compatible(LockAfter(v, c))
<1>1. CASE c.op = "acquire_lock" /\ can_acquire([lock |-> v], c.holder)
  <2>1. LockAfter(v, c) = v \cup {c.holder}
    BY <1>1 DEF LockAfter
  <2>2. v \subseteq {c.holder} \/ c.holder \in v \/ (c.holder \in Readers /\ v \subseteq Readers)
    BY <1>1 DEF can_acquire
  <2> QED BY <2>1, <2>2 DEF Compatible
<1>2. CASE LockAfter(v, c) \subseteq v
  BY <1>2 DEF Compatible
<1> QED BY <1>1, <1>2 DEF LockAfter

(* The membership is the one of the last membership command.               *)
LastIn(S) == IF S = {} THEN 0 ELSE CHOOSE i \in S : \A j \in S : i >= j
Changes(l, k) == {i \in 1 .. k : l[i].op = "membership"}

(* The membership at an index is an index no later than it.                *)
LEMMA MembershipIs ==
  ASSUME NEW l, NEW k \in Nat, k > 0
  PROVE  /\ l[k].op = "membership" => LastIn(Changes(l, k)) = k
         /\ l[k].op # "membership" => Changes(l, k) = Changes(l, k - 1)
<1>1. ASSUME l[k].op = "membership" PROVE LastIn(Changes(l, k)) = k
  <2>1. k \in Changes(l, k) /\ \A j \in Changes(l, k) : k >= j
    BY <1>1 DEF Changes
  <2>2. \A i \in Changes(l, k) : (\A j \in Changes(l, k) : i >= j) => i = k
    BY <2>1 DEF Changes
  <2> QED BY <2>1, <2>2 DEF LastIn
<1>2. ASSUME l[k].op # "membership" PROVE Changes(l, k) = Changes(l, k - 1)
  BY <1>2 DEF Changes
<1> QED BY <1>1, <1>2

(* A membership command is the membership at its own index.                *)
LEMMA MembershipLast ==
  \A k : MembershipAt(k) = LastIn(Changes(log, k))
BY DEF MembershipAt, LastIn, Changes
-----------------------------------------------------------------------------
(* A step leaves the commands there are, and what they make.               *)
Grows ==
  /\ Len(log) <= Len(log')
  /\ \A i \in 1 .. Len(log) : log'[i] = log[i]
  /\ \A k \in 0 .. Len(log) : StateAt(k)' = StateAt(k) /\ MembershipAt(k)' = MembershipAt(k)

(* A step that leaves the log and its history alone keeps every state.     *)
LEMMA SameGrows ==
  ASSUME LogTyped, UNCHANGED <<log, states>>
  PROVE  Grows
BY DEF Grows, StateAt, MembershipAt, LogTyped

(* A written command adds a state and keeps the earlier ones.              *)
LEMMA WriteGrows ==
  ASSUME History, NEW c \in Command, Write(c)
  PROVE  /\ Grows /\ Len(log') = Len(log) + 1 /\ log'[Len(log) + 1] = c
         /\ states'[Len(log) + 2] = apply_command(StateAt(Len(log)), c, Len(log) + 1)
         /\ LogTyped'
<1> DEFINE k == Len(log) + 1
<1>1. /\ Len(log) \in Nat /\ log' = Append(log, c) /\ Len(log) < MaxLog
      /\ states' = Append(states, apply_command(StateAt(Len(log)), c, k))
      /\ StateAt(Len(log)) \in DataRec /\ c \in Command
  BY DEF Write, History, LogTyped, StateAt
<1>2. apply_command(StateAt(Len(log)), c, k) \in DataRec
  <2>1. k \in 0 .. MaxLog
    BY <1>1, BoundsAssumption
  <2> QED BY <1>1, <2>1, ApplyTyped
<1> HIDE DEF k
<1>3. Len(log') = Len(log) + 1 /\ log'[Len(log) + 1] = c
      /\ \A i \in 1 .. Len(log) : log'[i] = log[i]
  BY <1>1 DEF History, LogTyped
<1>4. LogTyped'
  BY <1>1, <1>2, BoundsAssumption DEF History, LogTyped
<1>5. \A i \in 0 .. Len(log) : StateAt(i)' = StateAt(i)
  BY <1>1, <1>2 DEF History, LogTyped, StateAt
<1>6. states'[Len(log) + 2] = apply_command(StateAt(Len(log)), c, Len(log) + 1)
  BY <1>1, <1>2 DEF History, LogTyped, StateAt, k
<1>7. \A i \in 0 .. Len(log) : MembershipAt(i)' = MembershipAt(i)
  <2> SUFFICES ASSUME NEW i \in 0 .. Len(log) PROVE MembershipAt(i)' = MembershipAt(i)
    OBVIOUS
  <2>1. Changes(log', i) = Changes(log, i)
    BY <1>1, <1>3 DEF Changes
  <2>2. MembershipAt(i)' = LastIn(Changes(log', i))
    BY DEF MembershipAt, LastIn, Changes
  <2> QED BY <2>1, <2>2, MembershipLast
<1> QED BY <1>1, <1>3, <1>4, <1>5, <1>6, <1>7 DEF Grows

(* The history of the log grows with it.                                   *)
LEMMA WriteHistory ==
  ASSUME History, NEW c \in Command, Write(c)
  PROVE  History'
<1>1. /\ Grows /\ Len(log') = Len(log) + 1 /\ log'[Len(log) + 1] = c
      /\ states'[Len(log) + 2] = apply_command(StateAt(Len(log)), c, Len(log) + 1)
      /\ LogTyped'
  BY WriteGrows
<1>2. PICK k \in Nat : k = Len(log) + 1 /\ k - 1 = Len(log)
  BY DEF History, LogTyped
<1>3. /\ StateAt(k)' = apply_command(StateAt(k - 1), c, k) /\ Len(log') = k /\ log'[k] = c
      /\ StateAt(k - 1) \in DataRec /\ c \in Command /\ StateAt(k)' \in DataRec
      /\ StateAt(k - 1)' = StateAt(k - 1)
  <2>1. StateAt(k)' = states'[Len(log) + 2] /\ StateAt(k - 1) = StateAt(Len(log))
    BY <1>2 DEF StateAt
  <2>2. StateAt(k - 1) \in DataRec /\ c \in Command
    BY <1>2 DEF History, LogTyped, StateAt
  <2>3. StateAt(k)' \in DataRec
    BY <1>1, <1>2 DEF LogTyped, StateAt
  <2>4. StateAt(k - 1)' = StateAt(k - 1)
    BY <1>1, <1>2 DEF Grows
  <2> QED BY <1>1, <1>2, <2>1, <2>2, <2>3, <2>4
<1>4. Replays'
  <2>1. StateAt(0)' = Empty
    BY <1>1, <1>2 DEF Grows, History, Replays
  <2> SUFFICES ASSUME NEW i \in 1 .. k
               PROVE  StateAt(i)' = apply_command(StateAt(i - 1)', log'[i], i)
    BY <1>3, <2>1 DEF Replays
  <2>2. CASE i = k
    BY <1>3, <2>2
  <2>3. CASE i # k
    <3>1. i \in 1 .. Len(log) /\ i - 1 \in 0 .. Len(log) /\ i \in 0 .. Len(log)
      BY <1>2, <2>3
    <3>2. StateAt(i)' = StateAt(i) /\ StateAt(i - 1)' = StateAt(i - 1) /\ log'[i] = log[i]
      BY <1>1, <3>1 DEF Grows
    <3> QED BY <3>1, <3>2 DEF History, Replays
  <2> QED BY <2>2, <2>3
<1>6. Stays'
  <2> SUFFICES ASSUME NEW a \in 0 .. k, NEW b \in 0 .. k, a <= b
               PROVE  \A x \in Part : Untouched(x, a, b)' => At(x, a)' = At(x, b)'
    BY <1>3 DEF Stays
  <2>1. CASE b < k
    <3>1. a \in 0 .. Len(log) /\ b \in 0 .. Len(log)
      BY <1>2, <2>1
    <3>2. \A x \in Part : Untouched(x, a, b)' => Untouched(x, a, b)
      BY <1>1, <3>1 DEF Grows, Untouched
    <3>3. \A x \in Part : At(x, a)' = At(x, a) /\ At(x, b)' = At(x, b)
      BY <1>1, <3>1 DEF Grows, At
    <3>4. \A x \in Part : Untouched(x, a, b) => At(x, a) = At(x, b)
      BY <3>1 DEF History, Stays
    <3> QED BY <3>2, <3>3, <3>4
  <2>2. CASE a = k
    <3>1. a = b
      BY <1>2, <2>2
    <3> QED BY <3>1
  <2>3. CASE b = k /\ a < k
    <3>1. a \in 0 .. Len(log) /\ k - 1 \in 0 .. Len(log) /\ a <= k - 1
      BY <1>2, <2>3
    <3>2. \A x \in Part : Untouched(x, a, k - 1) => At(x, a) = At(x, k - 1)
      BY <3>1 DEF History, Stays
    <3>3. \A x \in Part : Untouched(x, a, b)' => Untouched(x, a, k - 1) /\ c.op \notin Setters(x)
      BY <1>1, <1>2, <1>3, <2>3, <3>1 DEF Grows, Untouched
    <3>4. StateAt(a)' = StateAt(a) /\ MembershipAt(a)' = MembershipAt(a)
          /\ MembershipAt(k - 1)' = MembershipAt(k - 1)
      BY <1>1, <3>1 DEF Grows
    <3>5. \A x \in Part : c.op \notin Setters(x) => At(x, k)' = At(x, k - 1)
      <4>1. \A x \in {"bucket", "object"} : c.op \notin Setters(x) => StateAt(k)'[x] = StateAt(k - 1)[x]
        BY <1>3, ApplyParts
      <4>2. c.op # "membership" => MembershipAt(k)' = MembershipAt(k - 1)
        <5>1. k > 0 /\ log'[k] = c
          BY <1>2, <1>3 DEF History, LogTyped
        <5>2. c.op # "membership" => Changes(log', k) = Changes(log', k - 1)
          BY <5>1, MembershipIs
        <5>3. MembershipAt(k)' = LastIn(Changes(log', k))
              /\ MembershipAt(k - 1)' = LastIn(Changes(log', k - 1))
          BY DEF MembershipAt, LastIn, Changes
        <5> QED BY <3>4, <5>2, <5>3
      <4> QED BY <4>1, <4>2 DEF At, Part, Setters
    <3>6. \A x \in Part : At(x, a)' = At(x, a)
      BY <3>4 DEF At
    <3> QED BY <2>3, <3>2, <3>3, <3>5, <3>6
  <2> QED BY <1>2, <2>1, <2>2, <2>3
<1>7. Exclusive'
  <2> SUFFICES ASSUME NEW j \in 0 .. k PROVE Compatible(StateAt(j)'.lock)
    BY <1>3 DEF Exclusive, Compatible
  <2>1. CASE j = k
    <3>1. Compatible(StateAt(k - 1).lock)
      BY <1>2 DEF History, Exclusive
    <3>2. StateAt(k)'.lock = LockAfter(StateAt(k - 1).lock, c)
      BY <1>3, ApplyLock
    <3> QED BY <2>1, <3>1, <3>2, StayCompatible
  <2>2. CASE j # k
    <3>1. j \in 0 .. Len(log)
      BY <1>2, <2>2
    <3>2. StateAt(j)' = StateAt(j)
      BY <1>1, <3>1 DEF Grows
    <3> QED BY <3>1, <3>2 DEF History, Exclusive
  <2> QED BY <2>1, <2>2
<1> QED BY <1>1, <1>4, <1>6, <1>7 DEF History
-----------------------------------------------------------------------------
(* The kinds of jobs and builds, told by their first field.                *)
LEMMA JobKinds ==
  ASSUME NEW n \in Node, JobOK(n)
  PROVE  /\ job[n].op \in {"none", "apply", "install"}
         /\ job[n].op = "none" <=> job[n] = NoJob
         /\ job[n].op = "apply" =>
              /\ job[n] \in ApplyRec
              /\ applied[n] < job[n].next /\ job[n].next <= job[n].upto + 1
              /\ job[n].upto <= Len(log) /\ job[n].upto <= end[n]
         /\ job[n].op = "install" =>
              /\ job[n] \in InstallRec
              /\ n # Leader /\ build[n] = NoBuild /\ first[Leader] > 1
              /\ SnapOK(job[n].snap) /\ Progress(n, job[n])
<1>1. CASE job[n] = NoJob
  BY <1>1 DEF NoJob
<1>2. CASE job[n] \in ApplyRec
  BY <1>2 DEF NoJob, ApplyRec, InstallRec, JobOK
<1>3. CASE job[n] \in InstallRec
  BY <1>3 DEF NoJob, ApplyRec, InstallRec, JobOK
<1> QED BY <1>1, <1>2, <1>3 DEF JobOK

(* The kinds of snapshot builds, told by how far they are.                 *)
LEMMA BuildKinds ==
  ASSUME NEW n \in Node, BuildOK(n)
  PROVE  /\ build[n].step = "none" <=> build[n] = NoBuild
         /\ build[n].step = "read" => build[n] \in ReadRec
         /\ build[n].step \in {"copied", "meta"} => build[n] \in CopiedRec
         /\ build[n].step \in {"built", "deleted"} => build[n] \in BuiltRec
<1>1. CASE build[n] = NoBuild
  BY <1>1 DEF NoBuild
<1>2. CASE build[n] \in ReadRec
  BY <1>2 DEF NoBuild, ReadRec
<1>3. CASE build[n] \in CopiedRec
  BY <1>3 DEF NoBuild, CopiedRec
<1>4. CASE build[n] \in BuiltRec
  BY <1>4 DEF NoBuild, BuiltRec
<1> QED BY <1>1, <1>2, <1>3, <1>4 DEF BuildOK

(* What is said of a replica stays true while the log grows and nothing of *)
(* the replica changes.                                                    *)
LEMMA MatchesStays ==
  ASSUME LogTyped, Grows, NEW last \in Nat, NEW upper \in Nat, upper <= Len(log), NEW d, NEW m,
         Matches(last, upper, d, m)
  PROVE  Matches(last, upper, d, m)'
<1>1. \A x, j : j \in last .. upper => At(x, j)' = At(x, j)
  BY DEF Grows, At, LogTyped
<1> QED BY <1>1 DEF Matches, Of

(* A snapshot that holds a state of the log holds it when the log grows.   *)
LEMMA SnapStays ==
  ASSUME LogTyped, LogTyped', Grows, NEW s \in SnapRec, SnapOK(s)
  PROVE  SnapOK(s)'
<1>1. s.last \in Nat /\ s.top \in Nat /\ s.of \in Nat /\ s.member \in Nat
  BY DEF SnapRec
<1>2. Len(log) \in Nat /\ Len(log') \in Nat /\ Len(log) <= Len(log')
  BY DEF LogTyped, Grows
<1>3. s.of = s.last => Matches(s.last, s.top, s.data, s.member)'
  BY <1>1, MatchesStays DEF SnapOK
<1> QED BY <1>1, <1>2, <1>3 DEF SnapOK

(* A sound replica stays so when only the log grows.                       *)
LEMMA SoundStays ==
  ASSUME History, LogTyped', Grows, NodeTyped, Within, NEW n \in Node, JobOK(n), Sound(n),
         data'[n] = data[n], applied'[n] = applied[n], member'[n] = member[n], top'[n] = top[n],
         Done(n)' = Done(n), LockSafe(n)' => LockSafe(n)
  PROVE  Sound(n)'
<1>0. /\ applied[n] \in Nat /\ top[n] \in Nat /\ Done(n) \in Int /\ Len(log) \in Nat
      /\ applied[n] <= Done(n) /\ Done(n) <= top[n] /\ top[n] <= Len(log)
  <2>1. job[n].op = "apply" => job[n].next \in Nat
    BY JobKinds DEF ApplyRec
  <2> QED BY <2>1 DEF NodeTyped, Within, Sound, Done, History, LogTyped
<1>1. PICK a \in Nat, t \in Nat, e \in Int :
        /\ a = applied[n] /\ t = top[n] /\ e = Done(n)
        /\ a <= e /\ e <= t /\ t <= Len(log) /\ Len(log) \in Nat
  BY <1>0
<1>2. \A j \in a .. t : StateAt(j)' = StateAt(j) /\ \A x : At(x, j)' = At(x, j)
  BY <1>1 DEF Grows, At
<1>3. \A i \in a + 1 .. t : log'[i] = log[i]
  BY <1>1 DEF Grows
<1>4. applied'[n] = a /\ top'[n] = t /\ Done(n)' = e
  BY <1>1
<1>5. \A x \in Part : PartSound(n, x)'
  <2> SUFFICES ASSUME NEW x \in Part PROVE PartSound(n, x)'
    OBVIOUS
  <2>1. /\ \E j \in a .. t : Of(x, data[n], member[n]) = At(x, j)
        /\ Of(x, data[n], member[n]) = At(x, e) \/ Untouched(x, a, e)
    BY <1>1 DEF Sound, PartSound, PartIs
  <2>2. Of(x, data[n], member[n])' = Of(x, data[n], member[n])
    BY DEF Of
  <2>3. \A i : Untouched(x, a, e) => (i \in a + 1 .. e => log'[i].op \notin Setters(x))
    BY <1>1, <1>3 DEF Untouched
  <2>4. At(x, e)' = At(x, e)
    BY <1>1, <1>2
  <2>5. \E j \in a .. t : Of(x, data[n], member[n])' = At(x, j)'
    BY <1>2, <2>1, <2>2
  <2>6. Of(x, data[n], member[n])' = At(x, e)' \/ \A i \in a + 1 .. e : log'[i].op \notin Setters(x)
    BY <2>1, <2>2, <2>3, <2>4
  <2> QED BY <1>4, <2>5, <2>6 DEF PartSound, PartIs, Untouched
<1>6. LockSafe(n)' => LockSound(n)'
  <2> SUFFICES ASSUME LockSafe(n)' PROVE LockSound(n)'
    OBVIOUS
  <2>1. LockIs(data[n].lock, e, t)
    BY <1>1 DEF Sound, LockSound
  <2>2. \A k \in e .. t : StateAt(k)' = StateAt(k)
    BY <1>1, <1>2
  <2>3. \A h \in Holder : \E k \in e .. t : h \in data[n].lock <=> h \in StateAt(k)'.lock
    BY <2>1, <2>2 DEF LockIs
  <2> QED BY <1>4, <2>3 DEF LockSound, LockIs
<1> QED BY <1>1, <1>4, <1>5, <1>6 DEF Sound

(* A job under way stays well formed when only the log grows.              *)
LEMMA JobStays ==
  ASSUME LogTyped, LogTyped', Grows, NodeTyped, NodeTyped', NEW n \in Node, JobOK(n),
         data'[n] = data[n], applied'[n] = applied[n], member'[n] = member[n], top'[n] = top[n],
         job'[n] = job[n], build'[n] = build[n], end'[n] >= end[n], n \in torn => n \in torn',
         first'[Leader] >= first[Leader]
  PROVE  JobOK(n)'
<1>1. Len(log) \in Nat /\ Len(log') \in Nat /\ Len(log) <= Len(log')
  BY DEF LogTyped, Grows
<1>2. CASE job[n] = NoJob
  BY <1>2 DEF JobOK
<1>3. CASE job[n].op = "apply"
  <2>1. job[n].upto \in Nat /\ end[n] \in Nat /\ end'[n] \in Nat
    BY <1>3, JobKinds DEF ApplyRec, NodeTyped
  <2> QED BY <1>1, <1>3, <2>1, JobKinds DEF JobOK
<1>4. CASE job[n].op = "install"
  <2>1. first[Leader] \in Nat /\ first'[Leader] \in Nat
    BY LeaderAssumption DEF NodeTyped
  <2>2. PICK j \in InstallRec : j = job[n]
    BY <1>4, JobKinds
  <2>3. SnapOK(j.snap)'
    BY <1>4, <2>2, JobKinds, SnapStays DEF InstallRec
  <2>4. Progress(n, j)'
    BY <1>4, <2>2, JobKinds DEF Progress, CopyDone
  <2>5. n # Leader /\ build[n] = NoBuild /\ first[Leader] > 1
    BY <1>4, JobKinds
  <2> QED BY <2>1, <2>2, <2>3, <2>4, <2>5 DEF JobOK
<1> QED BY <1>2, <1>3, <1>4, JobKinds

(* A step of one replica, and what the others see of it.                   *)
Still(n) ==
  /\ data'[n] = data[n] /\ applied'[n] = applied[n] /\ member'[n] = member[n]
  /\ first'[n] = first[n] /\ end'[n] = end[n] /\ purged'[n] = purged[n]
  /\ meta'[n] = meta[n] /\ image'[n] = image[n]
  /\ status'[n] = status[n] /\ job'[n] = job[n] /\ build'[n] = build[n]
  /\ top'[n] = top[n] /\ (n \in torn' <=> n \in torn) /\ (n \in regranted' <=> n \in regranted)

Acts(m) ==
  /\ faults' = faults /\ first'[Leader] >= first[Leader]
  /\ \A n \in Node \ {m} : Still(n)

(* What a replica knows of its lock survives a growing log.                *)
LEMMA StillLock ==
  ASSUME NodeTyped, NodeTyped', Within, NEW n \in Node, first'[Leader] >= first[Leader],
         top'[n] = top[n], end'[n] = end[n], purged'[n] = purged[n],
         n \in regranted' <=> n \in regranted, LockSafe(n)'
  PROVE  LockSafe(n)
<1>1. first[Leader] \in Nat /\ first'[Leader] \in Nat /\ first[Leader] >= 1
  BY LeaderAssumption DEF NodeTyped, Within
<1>2. first'[Leader] = 1 => first[Leader] = 1
  BY <1>1
<1> QED BY <1>2 DEF LockSafe, Uncopied

(* Why a replica has stopped stays true while the log grows.               *)
LEMMA StopsStay ==
  ASSUME LogTyped, Grows, NodeTyped, Within, NEW n \in Node, Stops(n), faults' = faults,
         status'[n] = status[n], applied'[n] = applied[n], end'[n] = end[n], top'[n] = top[n],
         n \in torn => n \in torn'
  PROVE  Stops(n)'
<1>1. applied[n] \in Nat /\ end[n] \in Nat /\ end[n] <= Len(log) /\ Len(log) \in Nat
  BY DEF NodeTyped, Within, LogTyped
<1>2. ASSUME NEW i \in applied[n] + 1 .. end[n], SecondCreate(n, i) PROVE SecondCreate(n, i)'
  <2>1. i \in 1 .. Len(log) /\ i - 1 \in 0 .. Len(log)
    BY <1>1
  <2>2. log'[i] = log[i] /\ StateAt(i - 1)' = StateAt(i - 1)
    BY <2>1 DEF Grows
  <2> QED BY <1>2, <2>2 DEF SecondCreate
<1> QED BY <1>2 DEF Stops

(* What a step leaves alone on the other replicas stays so.                *)
LEMMA Others ==
  ASSUME ReplicaInv, NodeTyped', LogTyped', Grows, NEW m \in Node, Acts(m)
  PROVE  \A n \in Node \ {m} : NodeInv(n)'
<1> SUFFICES ASSUME NEW n \in Node, n # m PROVE NodeInv(n)'
  OBVIOUS
<1>1. Still(n) /\ first'[Leader] >= first[Leader] /\ faults' = faults
  BY DEF Acts
<1>2. NodeInv(n) /\ History /\ LogTyped /\ NodeTyped /\ Within
  BY DEF ReplicaInv, History
<1>3. JobOK(n)'
  <2>1. end'[n] >= end[n]
    BY <1>1, <1>2 DEF Still, NodeTyped
  <2> QED BY <1>1, <1>2, <2>1, JobStays DEF Still, NodeInv
<1>4. BuildOK(n)' /\ Idle(n)' /\ Stops(n)'
  <2>1. applied'[n] = applied[n] /\ end'[n] = end[n] /\ top'[n] = top[n]
    BY <1>1 DEF Still
  <2>2. Stops(n)'
    BY <1>1, <1>2, <2>1, StopsStay DEF Still, NodeInv
  <2> QED BY <1>1, <1>2, <2>2 DEF Still, NodeInv, BuildOK, Idle
<1>5. n \notin torn' /\ job'[n].op # "install" => Sound(n)'
  <2>1. LockSafe(n)' => LockSafe(n)
    BY <1>1, <1>2, StillLock DEF Still
  <2>2. Done(n)' = Done(n)
    BY <1>1 DEF Still, Done
  <2>3. n \notin torn' /\ job'[n].op # "install" => Sound(n)
    BY <1>1, <1>2 DEF Still, NodeInv
  <2> QED BY <1>1, <1>2, <2>1, <2>2, <2>3, SoundStays DEF Still, NodeInv
<1> QED BY <1>3, <1>4, <1>5 DEF NodeInv

(* A build under way survives a step that does not touch it.               *)
LEMMA BuildingStays ==
  ASSUME LogTyped, LogTyped', Grows, NodeTyped, NodeTyped', Within, BuildOK(Leader),
         NEW b, b = build[Leader], b # NoBuild, Building(b),
         meta'[Leader] = meta[Leader], image'[Leader] = image[Leader],
         first'[Leader] = first[Leader],
         applied'[Leader] >= applied[Leader], top'[Leader] >= top[Leader]
  PROVE  Building(b)'
<1>1. /\ Len(log) \in Nat /\ Len(log') \in Nat /\ Len(log) <= Len(log')
      /\ {applied[Leader], applied'[Leader], top[Leader], top'[Leader]} \subseteq Nat
      /\ top[Leader] <= Len(log) /\ Leader \in Node
  BY LeaderAssumption DEF LogTyped, Grows, NodeTyped, Within
<1>2. b.last \in Nat
  BY <1>1 DEF BuildOK, ReadRec, CopiedRec, BuiltRec
<1>3. 0 < b.last /\ b.last <= applied'[Leader] /\ first'[Leader] <= b.last + 1
  BY <1>1, <1>2 DEF Building
<1>4. ASSUME b.step = "read"
      PROVE  /\ b.member <= Len(log')
             /\ \E j \in b.last .. top'[Leader] : b.member = At("member", j)'
             /\ Older(b)'
  <2>1. b \in ReadRec
    BY <1>1, <1>4, BuildKinds
  <2>2. b.member <= Len(log) /\ b.member \in Nat
    BY <1>4, <2>1 DEF Building, ReadRec
  <2>3. PICK j \in b.last .. top[Leader] : b.member = At("member", j)
    BY <1>4 DEF Building
  <2>4. At("member", j)' = At("member", j) /\ j \in b.last .. top'[Leader]
    BY <1>1, <1>2 DEF Grows, At
  <2>5. Older(b)'
    BY <1>4 DEF Building, Older
  <2> QED BY <1>1, <2>2, <2>3, <2>4, <2>5
<1>5. ASSUME b.step \in {"copied", "meta"}
      PROVE  /\ b.member <= Len(log') /\ b.top <= Len(log')
             /\ Matches(b.last, b.top, b.data, b.member)'
             /\ Older(b)'
             /\ b.step = "meta" => meta'[Leader] = {[last |-> b.last, member |-> b.member]}
  <2>1. b \in CopiedRec
    BY <1>1, <1>5, BuildKinds
  <2>2. b.member <= Len(log) /\ b.top <= Len(log) /\ b.member \in Nat /\ b.top \in Nat
    BY <1>5, <2>1 DEF Building, CopiedRec
  <2>3. Matches(b.last, b.top, b.data, b.member)'
    BY <1>2, <1>5, <2>2, MatchesStays DEF Building
  <2>4. Older(b)'
    BY <1>5 DEF Building, Older
  <2>5. b.step = "meta" => meta'[Leader] = {[last |-> b.last, member |-> b.member]}
    BY <1>5 DEF Building
  <2> QED BY <1>1, <2>2, <2>3, <2>4, <2>5
<1>6. ASSUME b.step \in {"built", "deleted"}
      PROVE  /\ \A m \in meta'[Leader] : m.last = b.last
             /\ meta'[Leader] # {} /\ image'[Leader] # {}
  BY <1>6 DEF Building
<1> QED BY <1>3, <1>4, <1>5, <1>6 DEF Building

(* Snapshots in installation survive a growing log.                        *)
LEMMA SnapsStay ==
  ASSUME LogTyped, LogTyped', Grows, NodeTyped, Snaps,
         NEW m \in meta[Leader], NEW d \in image[Leader]
  PROVE  SnapOK(Snap(m, d))'
<1>1. m \in MetaRec /\ d \in ImageRec
  BY LeaderAssumption DEF NodeTyped
<1>2. Snap(m, d) \in SnapRec
  BY <1>1 DEF Snap, MetaRec, ImageRec, SnapRec
<1>3. PICK s \in SnapRec : s = Snap(m, d)
  BY <1>2
<1>4. SnapOK(s)'
  BY <1>3, SnapStays DEF Snaps
<1> QED BY <1>3, <1>4 DEF Snap

(* What the leader has stored survives a growing log.                      *)
LEMMA StoredStays ==
  ASSUME LogTyped, LogTyped', Grows, NodeTyped, NodeTyped', Within, Stored, BuildOK(Leader),
         meta'[Leader] = meta[Leader], image'[Leader] = image[Leader],
         first'[Leader] = first[Leader], build'[Leader] \in {build[Leader], NoBuild},
         applied'[Leader] >= applied[Leader], top'[Leader] >= top[Leader]
  PROVE  Stored'
<1>1. Snaps'
  <2>1. \A m \in meta[Leader], d \in image[Leader] : SnapOK(Snap(m, d))'
    BY SnapsStay DEF Stored
  <2> QED BY <2>1 DEF Stored, Snaps
<1>2. build'[Leader] # NoBuild => Building(build[Leader])'
  <2> SUFFICES ASSUME build'[Leader] # NoBuild PROVE Building(build[Leader])'
    OBVIOUS
  <2>1. PICK b : b = build[Leader]
    OBVIOUS
  <2>2. Building(b) /\ b # NoBuild /\ b = build'[Leader]
    BY <2>1 DEF Stored
  <2>3. Building(b)'
    BY <2>1, <2>2, BuildingStays
  <2> QED BY <2>2, <2>3
<1> QED BY <1>1, <1>2 DEF Stored

(* Steps that leave the log alone.                                         *)
LEMMA SameHistory ==
  ASSUME History, UNCHANGED <<log, states>>
  PROVE  History' /\ LogTyped' /\ Grows
<1>1. LogTyped'
  BY DEF History, LogTyped
<1>2. Replays'
  BY DEF History, Replays, StateAt, apply_command
<1>4. Stays'
  <2>1. \A x, a, b : Untouched(x, a, b)' <=> Untouched(x, a, b)
    BY DEF Untouched
  <2>2. \A x, a : At(x, a)' = At(x, a)
    BY DEF At, StateAt, MembershipAt
  <2> SUFFICES ASSUME NEW a \in 0 .. Len(log), NEW b \in 0 .. Len(log), a <= b
               PROVE  \A x \in Part : Untouched(x, a, b)' => At(x, a)' = At(x, b)'
    BY DEF Stays
  <2>3. \A x \in Part : Untouched(x, a, b) => At(x, a) = At(x, b)
    BY DEF History, Stays
  <2> QED BY <2>1, <2>2, <2>3
<1>5. Exclusive'
  BY DEF History, Exclusive, StateAt, Compatible
<1> QED BY <1>1, <1>2, <1>4, <1>5, SameGrows DEF History

(* A step that does nothing to the leader's snapshots and their builder.   *)
LEMMA Quiet ==
  ASSUME ReplicaInv, UNCHANGED <<log, states>>, NEW m \in Node, Acts(m), NodeTyped', Within',
         NodeInv(m)',
         m = Leader =>
           /\ meta'[m] = meta[m] /\ image'[m] = image[m] /\ first'[m] = first[m]
           /\ build'[m] \in {build[m], NoBuild}
           /\ applied'[m] >= applied[m] /\ top'[m] >= top[m]
  PROVE  ReplicaInv'
<1>1. History /\ LogTyped /\ NodeTyped /\ Within /\ Stored /\ BuildOK(Leader) /\ Leader \in Node
  BY LeaderAssumption DEF ReplicaInv, History, NodeInv
<1>2. History' /\ LogTyped' /\ Grows
  BY <1>1, SameHistory
<1>3. \A n \in Node : NodeInv(n)'
  BY <1>2, Others
<1>4. /\ meta'[Leader] = meta[Leader] /\ image'[Leader] = image[Leader]
      /\ first'[Leader] = first[Leader] /\ build'[Leader] \in {build[Leader], NoBuild}
      /\ applied'[Leader] >= applied[Leader] /\ top'[Leader] >= top[Leader]
  <2>1. CASE m = Leader
    BY <2>1
  <2>2. CASE m # Leader
    <3>1. Still(Leader)
      BY <1>1, <2>2 DEF Acts
    <3>2. applied[Leader] \in Nat /\ top[Leader] \in Nat
      BY <1>1 DEF NodeTyped
    <3> QED BY <3>1, <3>2 DEF Still
  <2> QED BY <2>1, <2>2
<1>5. Stored'
  BY <1>1, <1>2, <1>4, StoredStays
<1> QED BY <1>2, <1>3, <1>5 DEF ReplicaInv
-----------------------------------------------------------------------------
(* A replica gets the next entry.                                          *)
LEMMA ReplicateStep ==
  ASSUME ReplicaInv, NEW n \in Node, Replicate(n)
  PROVE  ReplicaInv'
<1>1. History /\ LogTyped /\ NodeTyped /\ Within /\ NodeInv(n) /\ Leader \in Node
  BY LeaderAssumption DEF ReplicaInv, History
<1>2. n # Leader /\ end'[n] = end[n] + 1 /\ end[n] < end[Leader] /\ first[Leader] <= end[n] + 1
      /\ UNCHANGED <<log, states>> /\ end[n] \in Nat /\ end[Leader] = Len(log) /\ Len(log) \in Nat
      /\ first[Leader] \in Nat /\ first[Leader] >= 1
  BY <1>1 DEF Replicate, NodeTyped, Within, LogTyped
<1>3. NodeTyped'
  <2>1. end' \in [Node -> Nat]
    BY <1>1 DEF Replicate, NodeTyped
  <2>2. UNCHANGED <<faults, offered, regranted, data, applied, member, first, purged, meta, image,
                    status, job, build, top, torn>>
    BY DEF Replicate, taskVars
  <2> QED BY <1>1, <2>1, <2>2 DEF NodeTyped
<1>4. Within'
  BY <1>1, <1>2 DEF Replicate, NodeTyped, Within, taskVars
<1>5. Acts(n)
  BY <1>1, <1>2 DEF Replicate, Acts, Still, NodeTyped, taskVars
<1>6. /\ data'[n] = data[n] /\ applied'[n] = applied[n] /\ member'[n] = member[n] /\ top'[n] = top[n]
      /\ job'[n] = job[n] /\ build'[n] = build[n] /\ (n \in torn <=> n \in torn')
      /\ status'[n] = status[n] /\ first' = first /\ purged' = purged /\ faults' = faults
      /\ regranted' = regranted /\ status[n] = "running"
  BY DEF Replicate, taskVars, Running
<1>7. LogTyped' /\ Grows
  BY <1>1, <1>2, SameHistory
<1>8. JobOK(n)'
  <2>1. end'[n] >= end[n] /\ first'[Leader] >= first[Leader]
    BY <1>2, <1>6
  <2> QED BY <1>1, <1>3, <1>6, <1>7, <2>1, JobStays DEF NodeInv
<1>9. BuildOK(n)' /\ Idle(n)' /\ Stops(n)'
  BY <1>1, <1>6 DEF NodeInv, BuildOK, Idle, Stops
<1>10. n \notin torn' /\ job'[n].op # "install" => Sound(n)'
  <2>1. LockSafe(n)' => LockSafe(n)
    <3>1. end[n] = 0 => first[Leader] = 1
      BY <1>2
    <3>2. end[n] = 0 \/ end[n] > 0
      BY <1>2
    <3> QED BY <1>6, <3>1, <3>2 DEF LockSafe, Uncopied
  <2>2. Done(n)' = Done(n)
    BY <1>6 DEF Done
  <2>3. n \notin torn' /\ job'[n].op # "install" => Sound(n)
    BY <1>1, <1>6 DEF NodeInv
  <2> QED BY <1>1, <1>6, <1>7, <2>1, <2>2, <2>3, SoundStays DEF NodeInv
<1> QED BY <1>2, <1>3, <1>4, <1>5, <1>8, <1>9, <1>10, Quiet DEF NodeInv

(* A command is written.                                                   *)
LEMMA WriteStep ==
  ASSUME ReplicaInv, NEW c \in offered, Write(c)
  PROVE  ReplicaInv'
<1>0. c \in Command
  BY ScenariosAssumption DEF ReplicaInv, NodeTyped
<1>1. History /\ LogTyped /\ NodeTyped /\ Within /\ Stored /\ Leader \in Node
  BY LeaderAssumption DEF ReplicaInv, History
<1>2. History' /\ LogTyped' /\ Grows /\ Len(log') = Len(log) + 1 /\ Len(log) \in Nat
  BY <1>0, <1>1, WriteHistory, WriteGrows DEF History, LogTyped
<1>3. /\ end' = [end EXCEPT ![Leader] = Len(log) + 1]
      /\ UNCHANGED <<faults, offered, regranted, data, applied, member, first, purged, meta, image,
                     status, job, build, top, torn>>
  BY DEF Write, taskVars
<1>4. NodeTyped'
  BY <1>1, <1>2, <1>3 DEF NodeTyped
<1>5. Within'
  <2> SUFFICES ASSUME NEW n \in Node
               PROVE  /\ end'[Leader] = Len(log')
                      /\ applied[n] <= Len(log') /\ member[n] <= Len(log') /\ top[n] <= Len(log')
                      /\ end'[n] <= Len(log')
    BY <1>1, <1>3 DEF Within
  <2>1. applied[n] \in Nat /\ member[n] \in Nat /\ top[n] \in Nat /\ end[n] \in Nat
        /\ applied[n] <= Len(log) /\ member[n] <= Len(log) /\ top[n] <= Len(log)
        /\ end[n] <= Len(log) /\ end \in [Node -> Nat]
    BY <1>1 DEF NodeTyped, Within
  <2> QED BY <1>1, <1>2, <1>3, <2>1
<1>6. ASSUME NEW n \in Node PROVE NodeInv(n)'
  <2>1. NodeInv(n)
    BY DEF ReplicaInv
  <2>2. end'[n] >= end[n] /\ first'[Leader] >= first[Leader] /\ (n # Leader => end'[n] = end[n])
    BY <1>1, <1>2, <1>3 DEF NodeTyped, Within
  <2>3. JobOK(n)'
    BY <1>1, <1>2, <1>3, <1>4, <2>1, <2>2, JobStays DEF NodeInv
  <2>4. BuildOK(n)' /\ Idle(n)' /\ Stops(n)'
    <3>1. CASE n = Leader
      <4>1. status'[n] = "running"
        BY <1>3, <3>1 DEF Write, Running
      <4> QED BY <1>3, <2>1, <4>1 DEF NodeInv, BuildOK, Idle, Stops
    <3>2. CASE n # Leader
      <4>1. Stops(n)'
        BY <1>1, <1>2, <1>3, <2>1, <2>2, <3>2, StopsStay DEF NodeInv
      <4> QED BY <1>3, <2>1, <4>1 DEF NodeInv, BuildOK, Idle
    <3> QED BY <3>1, <3>2
  <2>5. LockSafe(n)' => LockSafe(n)
    BY <1>3, <2>2 DEF LockSafe, Uncopied
  <2>6. Done(n)' = Done(n)
    BY <1>3 DEF Done
  <2>7. n \notin torn' /\ job'[n].op # "install" => Sound(n)
    BY <1>3, <2>1 DEF NodeInv
  <2>8. n \notin torn' /\ job'[n].op # "install" => Sound(n)'
    BY <1>1, <1>2, <1>3, <2>1, <2>5, <2>6, <2>7, SoundStays DEF NodeInv
  <2> QED BY <2>3, <2>4, <2>8 DEF NodeInv
<1>7. Stored'
  <2>1. BuildOK(Leader) /\ applied'[Leader] >= applied[Leader] /\ top'[Leader] >= top[Leader]
    BY <1>1, <1>3 DEF ReplicaInv, NodeInv, NodeTyped
  <2> QED BY <1>1, <1>2, <1>3, <1>4, <2>1, StoredStays
<1> QED BY <1>2, <1>4, <1>5, <1>6, <1>7 DEF ReplicaInv
-----------------------------------------------------------------------------
(* What a command, applied for the first time or again, does to a part.    *)
LEMMA PartApplied ==
  ASSUME History, NEW x \in Part, NEW a \in Nat, NEW t \in Nat, NEW i \in 1 .. Len(log),
         a <= i - 1, i - 1 <= t, t <= Len(log), NEW v, PartIs(v, x, a, i - 1, t), NEW w,
         log[i].op \in Setters(x) => w = At(x, i), log[i].op \notin Setters(x) => w = v
  PROVE  PartIs(w, x, a, i, MaxOf(t, i))
<1>1. Len(log) \in Nat /\ i \in a .. MaxOf(t, i) /\ \A j \in a .. t : j \in a .. MaxOf(t, i)
  BY DEF History, LogTyped, MaxOf
<1>2. CASE log[i].op \in Setters(x)
  BY <1>1, <1>2 DEF PartIs
<1>3. CASE log[i].op \notin Setters(x)
  <2>1. Untouched(x, i - 1, i) /\ i - 1 \in 0 .. Len(log) /\ i \in 0 .. Len(log)
    BY <1>1, <1>3 DEF Untouched
  <2>2. At(x, i - 1) = At(x, i)
    BY <2>1 DEF History, Stays
  <2>3. Untouched(x, a, i - 1) => Untouched(x, a, i)
    BY <1>1, <1>3 DEF Untouched
  <2> QED BY <1>1, <1>3, <2>2, <2>3 DEF PartIs
<1> QED BY <1>2, <1>3

(* What a command, applied for the first time or again, does to the lock.  *)
LEMMA LockApplied ==
  ASSUME History, NEW t \in Nat, NEW i \in 1 .. Len(log), i - 1 <= t, t <= Len(log),
         NEW v \in SUBSET Holder, LockIs(v, i - 1, t), NEW w, w = LockAfter(v, log[i]),
         Refused(i) => log[i].holder \notin w
  PROVE  LockIs(w, i, MaxOf(t, i))
<1> DEFINE g == log[i].holder
<1>1. Len(log) \in Nat /\ i \in Nat /\ i - 1 \in 0 .. Len(log) /\ i \in 0 .. Len(log)
      /\ log[i] \in Command
  BY DEF History, LogTyped
<1>2. StateAt(i - 1) \in DataRec /\ StateAt(i).lock = LockAfter(StateAt(i - 1).lock, log[i])
  <2>1. StateAt(i) = apply_command(StateAt(i - 1), log[i], i) /\ StateAt(i - 1) \in DataRec
    BY <1>1 DEF History, Replays, LogTyped, StateAt
  <2> QED BY <1>1, <2>1, ApplyLock
<1>3. i \in i .. MaxOf(t, i) /\ \A k \in i - 1 .. t : k = i - 1 \/ k \in i .. MaxOf(t, i)
  BY <1>1 DEF MaxOf
<1>4. CASE t = i - 1
  <2>1. v = StateAt(i - 1).lock
    <3>1. \A h \in Holder : h \in v <=> h \in StateAt(i - 1).lock
      BY <1>1, <1>4 DEF LockIs
    <3> QED BY <1>2, <3>1 DEF DataRec
  <2>2. w = StateAt(i).lock
    BY <1>2, <2>1
  <2> QED BY <1>3, <2>2 DEF LockIs
<1>5. CASE t # i - 1
  <2> SUFFICES ASSUME NEW h \in Holder
               PROVE  \E k \in i .. MaxOf(t, i) : h \in w <=> h \in StateAt(k).lock
    BY DEF LockIs
  <2>1. PICK k \in i - 1 .. t : h \in v <=> h \in StateAt(k).lock
    BY DEF LockIs
  <2>2. CASE log[i].op \notin {"acquire_lock", "release_lock"} \/ h # g
    <3>1. (h \in w <=> h \in v) /\ (h \in StateAt(i).lock <=> h \in StateAt(i - 1).lock)
      BY <1>2, <2>2 DEF LockAfter
    <3> QED BY <1>3, <2>1, <3>1
  <2>3. CASE log[i].op = "release_lock" /\ h = g
    <3>1. h \notin w /\ h \notin StateAt(i).lock
      BY <1>2, <2>3 DEF LockAfter
    <3> QED BY <1>3, <3>1
  <2>4. CASE log[i].op = "acquire_lock" /\ h = g /\ h \in w
    <3>1. h \in StateAt(i).lock
      BY <2>4 DEF Refused
    <3> QED BY <1>3, <2>4, <3>1
  <2>5. CASE log[i].op = "acquire_lock" /\ h = g /\ h \notin w
    <3>1. ~can_acquire([lock |-> v], h)
      BY <2>5 DEF LockAfter
    <3>2. PICK x \in v : x # h /\ ~({x, h} \subseteq Readers)
      BY <3>1, Denied
    <3>3. PICK j \in i - 1 .. t : x \in StateAt(j).lock
      BY <3>2 DEF LockIs
    <3>4. \A m \in 0 .. Len(log) : x \in StateAt(m).lock => h \notin StateAt(m).lock
      BY <3>2 DEF History, Exclusive, Compatible
    <3>5. j \in 0 .. Len(log)
      BY <1>1
    <3>6. CASE j = i - 1
      <4>1. x \in StateAt(i).lock
        BY <1>2, <2>5, <3>3, <3>6 DEF LockAfter
      <4> QED BY <1>1, <1>3, <2>5, <3>4, <4>1
    <3>7. CASE j # i - 1
      BY <1>3, <2>5, <3>3, <3>4, <3>5, <3>7
    <3> QED BY <3>6, <3>7
  <2> QED BY <2>2, <2>3, <2>4, <2>5
<1> QED BY <1>4, <1>5

(* The end of a batch makes its last command the last applied one.         *)
LEMMA PartEnded ==
  ASSUME History, NEW x \in Part, NEW a \in Nat, NEW e \in Nat, NEW t \in Nat,
         a <= e, e <= t, t <= Len(log), NEW v, PartIs(v, x, a, e, t)
  PROVE  PartIs(v, x, e, e, t)
<1>1. Len(log) \in Nat
  BY DEF History, LogTyped
<1>2. Untouched(x, e, e)
  BY DEF Untouched
<1>3. CASE v = At(x, e)
  BY <1>2, <1>3 DEF PartIs
<1>4. CASE Untouched(x, a, e)
  <2>1. PICK j \in a .. t : v = At(x, j)
    BY DEF PartIs
  <2>2. CASE j >= e
    BY <1>2, <2>1, <2>2 DEF PartIs
  <2>3. CASE j < e
    <3>1. Untouched(x, j, e) /\ j \in 0 .. Len(log) /\ e \in 0 .. Len(log) /\ j <= e
      BY <1>1, <1>4, <2>3 DEF Untouched
    <3>2. At(x, j) = At(x, e)
      BY <3>1 DEF History, Stays
    <3> QED BY <1>3, <2>1, <3>2
  <2> QED BY <2>2, <2>3
<1> QED BY <1>3, <1>4 DEF PartIs

(* A batch that is cut short is forgotten, and so is last_applied_log_id   *)
(* with the Raft state.                                                    *)
LEMMA PartCut ==
  ASSUME NEW x \in Part, NEW a \in Nat, NEW b \in Nat, NEW e \in Nat, NEW t \in Nat,
         b <= a, NEW v, PartIs(v, x, a, e, t)
  PROVE  PartIs(v, x, b, b, t)
<1>1. Untouched(x, b, b)
  BY DEF Untouched
<1> QED BY <1>1 DEF PartIs

(* A batch that is cut short, for the lock.                                *)
LEMMA LockCut ==
  ASSUME NEW b \in Nat, NEW e \in Nat, NEW t \in Nat, b <= e, NEW v, LockIs(v, e, t)
  PROVE  LockIs(v, b, t)
<1>1. \A k \in e .. t : k \in b .. t
  OBVIOUS
<1> QED BY <1>1 DEF LockIs

(* With nothing left to replay a part is what the last command made it.    *)
LEMMA PartNow ==
  ASSUME History, NEW x \in Part, NEW a \in Nat, NEW t \in Nat, a <= t, t <= Len(log),
         NEW v, PartIs(v, x, a, t, t)
  PROVE  v = At(x, t)
<1>1. PartIs(v, x, t, t, t)
  BY PartEnded
<1>2. \A j \in t .. t : j = t
  OBVIOUS
<1> QED BY <1>1, <1>2 DEF PartIs
-----------------------------------------------------------------------------
(* What a step that leaves the log alone has to show for its replica.      *)
LEMMA SoundAfter ==
  ASSUME UNCHANGED <<log, states>>, NEW n \in Node, NEW d, NEW m, NEW a, NEW e, NEW t,
         data'[n] = d, member'[n] = m, applied'[n] = a, Done(n)' = e, top'[n] = t,
         a <= e, e <= t, \A x \in Part : PartIs(Of(x, d, m), x, a, e, t),
         LockSafe(n)' => LockIs(d.lock, e, t)
  PROVE  Sound(n)'
<1>1. \A x, k : At(x, k)' = At(x, k) /\ StateAt(k)' = StateAt(k)
  BY DEF At, StateAt, MembershipAt
<1>2. \A x \in Part : PartSound(n, x)'
  <2> SUFFICES ASSUME NEW x \in Part PROVE PartSound(n, x)'
    OBVIOUS
  <2>1. PartIs(Of(x, d, m), x, a, e, t)'
    <3>1. Untouched(x, a, e)' <=> Untouched(x, a, e)
      BY DEF Untouched
    <3> QED BY <1>1, <3>1 DEF PartIs, Of
  <2>2. Of(x, data[n], member[n])' = Of(x, d, m)'
    BY DEF Of
  <2> QED BY <2>1, <2>2 DEF PartSound
<1>3. LockSafe(n)' => LockSound(n)'
  <2>1. LockIs(d.lock, e, t)' <=> LockIs(d.lock, e, t)
    BY <1>1 DEF LockIs
  <2> QED BY <2>1 DEF LockSound
<1> QED BY <1>2, <1>3 DEF Sound

(* What is known of a sound replica.                                       *)
LEMMA SoundNow ==
  ASSUME ReplicaInv, NEW n \in Node, n \notin torn, job[n].op # "install"
  PROVE  /\ applied[n] \in Nat /\ Done(n) \in Nat /\ top[n] \in Nat /\ data[n] \in DataRec
         /\ applied[n] <= Done(n) /\ Done(n) <= top[n] /\ top[n] <= Len(log) /\ Len(log) \in Nat
         /\ \A x \in Part : PartIs(Of(x, data[n], member[n]), x, applied[n], Done(n), top[n])
         /\ LockSafe(n) => LockIs(data[n].lock, Done(n), top[n])
<1>1. NodeTyped /\ Within /\ Sound(n) /\ JobOK(n) /\ LogTyped
  BY DEF ReplicaInv, NodeInv, History
<1>2. job[n].op = "apply" => job[n].next \in Nat
  BY <1>1, JobKinds DEF ApplyRec
<1>3. applied[n] \in Nat /\ top[n] \in Nat /\ data[n] \in DataRec /\ top[n] <= Len(log)
      /\ Len(log) \in Nat
  BY <1>1 DEF NodeTyped, Within, LogTyped
<1>4. applied[n] <= Done(n) /\ Done(n) <= top[n] /\ Done(n) \in Nat
  BY <1>1, <1>2, <1>3 DEF Sound, Done
<1> QED BY <1>1, <1>3, <1>4 DEF Sound, PartSound, LockSound

(* A batch starts.                                                         *)
LEMMA StartBatchStep ==
  ASSUME ReplicaInv, NEW n \in Node, StartBatch(n)
  PROVE  ReplicaInv'
<1>1. LogTyped /\ NodeTyped /\ Within /\ NodeInv(n) /\ Leader \in Node
  BY LeaderAssumption DEF ReplicaInv, History
<1>2. PICK k \in applied[n] + 1 .. end[n] :
        job' = [job EXCEPT ![n] = [op |-> "apply", next |-> applied[n] + 1, upto |-> k]]
  BY DEF StartBatch
<1>3. /\ status[n] = "running" /\ job[n] = NoJob /\ job[n].op = "none"
      /\ UNCHANGED <<faults, offered, regranted, log, states, data, applied, member, first, end,
                     purged, meta, image, status, build, top, torn>>
  BY DEF StartBatch, Running, diskVars, NoJob
<1>4. NodeTyped' /\ Within' /\ Acts(n)
  <2>1. NodeTyped'
    BY <1>1, <1>2, <1>3 DEF NodeTyped
  <2>2. Within'
    BY <1>1, <1>3 DEF Within
  <2>3. Acts(n)
    BY <1>1, <1>2, <1>3 DEF Acts, Still, NodeTyped
  <2> QED BY <2>1, <2>2, <2>3
<1>5. job'[n] = [op |-> "apply", next |-> applied[n] + 1, upto |-> k]
  BY <1>1, <1>2 DEF NodeTyped
<1>6. applied[n] \in Nat /\ end[n] \in Nat /\ end[n] <= Len(log) /\ Len(log) \in Nat
  BY <1>1 DEF NodeTyped, Within, LogTyped
<1>7. JobOK(n)'
  BY <1>3, <1>5, <1>6 DEF JobOK, ApplyRec
<1>8. BuildOK(n)' /\ Idle(n)' /\ Stops(n)'
  BY <1>1, <1>3 DEF NodeInv, BuildOK, Idle, Stops
<1>9. ASSUME n \notin torn' PROVE Sound(n)'
  <2>1. Done(n) = applied[n] /\ Done(n)' = applied[n]
    BY <1>3, <1>5, <1>6 DEF Done
  <2>2. LockSafe(n)' => LockSafe(n)
    BY <1>3 DEF LockSafe, Uncopied
  <2> QED BY <1>3, <1>9, <2>1, <2>2, SoundNow, SoundAfter
<1>10. NodeInv(n)'
  BY <1>7, <1>8, <1>9 DEF NodeInv
<1>11. applied'[n] >= applied[n] /\ top'[n] >= top[n]
  BY <1>1, <1>3 DEF NodeTyped
<1> QED BY <1>3, <1>4, <1>10, <1>11, Quiet

(* A batch ends: last_applied_log_id and the membership are written.       *)
LEMMA EndBatchStep ==
  ASSUME ReplicaInv, NEW n \in Node, EndBatch(n)
  PROVE  ReplicaInv'
<1>1. History /\ LogTyped /\ NodeTyped /\ Within /\ NodeInv(n) /\ JobOK(n) /\ Leader \in Node
  BY LeaderAssumption DEF ReplicaInv, History, NodeInv
<1>2. /\ job[n] \in ApplyRec /\ job[n].op = "apply" /\ job[n].upto = job[n].next - 1
      /\ job[n].upto \in Nat /\ job[n].next \in Nat /\ applied[n] \in Nat
      /\ applied[n] <= job[n].upto /\ job[n].upto <= Len(log)
  <2>1. job[n].op = "apply" /\ job[n].next > job[n].upto
    BY DEF EndBatch
  <2>2. job[n] \in ApplyRec /\ applied[n] < job[n].next /\ job[n].next <= job[n].upto + 1
        /\ job[n].upto <= Len(log) /\ applied[n] \in Nat
    BY <1>1, <2>1, JobKinds DEF NodeTyped
  <2> QED BY <2>1, <2>2 DEF ApplyRec
<1>3. /\ status[n] = "running" /\ applied' = [applied EXCEPT ![n] = job[n].upto]
      /\ job' = [job EXCEPT ![n] = NoJob]
      /\ UNCHANGED <<faults, offered, regranted, log, states, data, member, first, end, purged, meta,
                     image, status, build, top, torn>>
  BY DEF EndBatch, Running
<1>4. NodeTyped' /\ Within' /\ Acts(n)
  <2>1. NodeTyped'
    BY <1>1, <1>2, <1>3 DEF NodeTyped
  <2>2. Within'
    BY <1>1, <1>2, <1>3 DEF Within, NodeTyped
  <2>3. Acts(n)
    BY <1>1, <1>3 DEF Acts, Still, NodeTyped
  <2> QED BY <2>1, <2>2, <2>3
<1>5. job'[n] = NoJob /\ applied'[n] = job[n].upto
  BY <1>1, <1>3 DEF NodeTyped
<1>6. JobOK(n)' /\ BuildOK(n)' /\ Idle(n)' /\ Stops(n)'
  BY <1>1, <1>3, <1>5 DEF NodeInv, JobOK, BuildOK, Idle, Stops
<1>7. ASSUME n \notin torn' PROVE Sound(n)'
  <2>1. Done(n) = job[n].upto /\ Done(n)' = job[n].upto
    BY <1>2, <1>5 DEF Done, NoJob
  <2>2. LockSafe(n)' => LockSafe(n)
    BY <1>3 DEF LockSafe, Uncopied
  <2>3. n \notin torn /\ job[n].op # "install"
    BY <1>2, <1>3, <1>7
  <2>4. \A x \in Part : PartIs(Of(x, data[n], member[n]), x, Done(n), Done(n), top[n])
    BY <1>1, <2>3, SoundNow, PartEnded
  <2>5. LockSafe(n)' => LockIs(data[n].lock, Done(n), top[n])
    BY <2>2, <2>3, SoundNow
  <2>6. Done(n) \in Nat /\ Done(n) <= Done(n) /\ Done(n) <= top[n]
    BY <2>3, SoundNow
  <2> QED BY <1>3, <1>5, <2>1, <2>4, <2>5, <2>6, SoundAfter
<1>8. NodeInv(n)'
  BY <1>6, <1>7 DEF NodeInv
<1>9. applied'[n] >= applied[n] /\ top'[n] >= top[n]
  BY <1>1, <1>2, <1>3, <1>5 DEF NodeTyped
<1> QED BY <1>3, <1>4, <1>8, <1>9, Quiet

(* The command a batch is at.                                              *)
LEMMA ApplyNext ==
  ASSUME ReplicaInv, NEW n \in Node, ApplyOne(n)
  PROVE  /\ job[n].op = "apply" /\ job[n] \in ApplyRec /\ job[n].next \in 1 .. Len(log)
         /\ job[n].next <= job[n].upto /\ job[n].upto <= Len(log) /\ job[n].upto <= end[n]
         /\ job[n].upto \in Nat /\ applied[n] \in Nat /\ applied[n] <= job[n].next - 1
         /\ Done(n) = job[n].next - 1 /\ log[job[n].next] \in Command /\ Len(log) \in Nat
<1>1. NodeTyped /\ JobOK(n) /\ LogTyped
  BY DEF ReplicaInv, NodeInv, History
<1>2. job[n].op = "apply" /\ job[n].next <= job[n].upto
  BY DEF ApplyOne
<1>3. /\ job[n] \in ApplyRec /\ applied[n] < job[n].next
      /\ job[n].upto <= Len(log) /\ job[n].upto <= end[n]
  BY <1>1, <1>2, JobKinds
<1>4. job[n].next \in Nat /\ job[n].upto \in Nat /\ applied[n] \in Nat /\ Len(log) \in Nat
  BY <1>1, <1>3 DEF ApplyRec, NodeTyped, LogTyped
<1>5. job[n].next \in 1 .. Len(log)
  BY <1>2, <1>3, <1>4
<1>6. log[job[n].next] \in Command
  BY <1>1, <1>5 DEF LogTyped
<1> QED BY <1>2, <1>3, <1>4, <1>5, <1>6 DEF Done

(* One command of a batch is applied.                                      *)
LEMMA ApplyOneStep ==
  ASSUME ReplicaInv, NEW n \in Node, ApplyOne(n), apply_succeeds(data[n], job[n].next)
  PROVE  ReplicaInv'
<1> DEFINE i == job[n].next  d == apply_command(data[n], log[i], i)
           m == IF log[i].op = "membership" THEN i ELSE member[n]
<1>1. History /\ LogTyped /\ NodeTyped /\ Within /\ NodeInv(n) /\ JobOK(n) /\ Leader \in Node
  BY LeaderAssumption DEF ReplicaInv, History, NodeInv
<1>2. /\ job[n].op = "apply" /\ job[n] \in ApplyRec /\ i \in 1 .. Len(log)
      /\ i <= job[n].upto /\ job[n].upto <= Len(log) /\ job[n].upto <= end[n]
      /\ job[n].upto \in Nat /\ applied[n] \in Nat /\ applied[n] <= i - 1
      /\ Done(n) = i - 1 /\ log[i] \in Command /\ Len(log) \in Nat
  BY ApplyNext
<1>3. /\ status[n] = "running" /\ data' = [data EXCEPT ![n] = d]
      /\ member' = [member EXCEPT ![n] = m]
      /\ job' = [job EXCEPT ![n].next = i + 1]
      /\ top' = [top EXCEPT ![n] = MaxOf(top[n], i)]
      /\ regranted' = IF Refused(i) /\ log[i].holder \in data'[n].lock
                      THEN regranted \cup {n} ELSE regranted
      /\ UNCHANGED <<faults, offered, log, states, applied, first, end, purged, meta, image,
                     status, build, torn>>
  BY DEF ApplyOne, Running
<1>4. data[n] \in DataRec /\ member[n] \in Nat /\ top[n] \in Nat /\ member[n] <= Len(log)
      /\ top[n] <= Len(log)
  BY <1>1 DEF NodeTyped, Within
<1>5. d \in DataRec /\ m \in Nat /\ m <= Len(log) /\ MaxOf(top[n], i) \in Nat
      /\ MaxOf(top[n], i) <= Len(log) /\ MaxOf(top[n], i) >= top[n] /\ MaxOf(top[n], i) >= i
  <2>1. d \in DataRec
    <3>1. i \in 0 .. MaxLog
      BY <1>1, <1>2, BoundsAssumption DEF LogTyped
    <3> QED BY <1>2, <1>4, <3>1, ApplyTyped
  <2> QED BY <1>2, <1>4, <2>1 DEF MaxOf
<1> HIDE DEF d, m
<1>6. NodeTyped' /\ Within' /\ Acts(n)
  <2>1. NodeTyped'
    <3>1. data' \in [Node -> DataRec] /\ member' \in [Node -> Nat] /\ top' \in [Node -> Nat]
      BY <1>1, <1>3, <1>5 DEF NodeTyped
    <3>2. job' = [q \in Node |-> job'[q]]
      BY <1>1, <1>3 DEF NodeTyped
    <3> QED BY <1>1, <1>3, <3>1, <3>2 DEF NodeTyped
  <2>2. Within'
    BY <1>1, <1>3, <1>5 DEF Within, NodeTyped
  <2>3. Acts(n)
    BY <1>1, <1>3 DEF Acts, Still, NodeTyped
  <2> QED BY <2>1, <2>2, <2>3
<1>7. data'[n] = d /\ member'[n] = m /\ top'[n] = MaxOf(top[n], i)
      /\ job'[n] = [job[n] EXCEPT !.next = i + 1]
  BY <1>1, <1>3 DEF NodeTyped
<1>8. job'[n] \in ApplyRec /\ job'[n].op = "apply" /\ job'[n].next = i + 1
      /\ job'[n].upto = job[n].upto
  BY <1>2, <1>7 DEF ApplyRec
<1>9. JobOK(n)'
  BY <1>2, <1>3, <1>8 DEF JobOK
<1>10. BuildOK(n)' /\ Idle(n)' /\ Stops(n)'
  BY <1>1, <1>3 DEF NodeInv, BuildOK, Idle, Stops
<1>11. ASSUME n \notin torn' PROVE Sound(n)'
  <2>1. n \notin torn /\ job[n].op # "install" /\ i - 1 <= top[n]
    BY <1>2, <1>3, <1>11, SoundNow
  <2>2. Done(n)' = i
    BY <1>2, <1>8 DEF Done
  <2>3. LockSafe(n)' => LockSafe(n)
    BY <1>2, <1>3, <1>5, <1>7 DEF LockSafe, Uncopied
  <2>4. \A x \in Part : PartIs(Of(x, d, m), x, applied[n], i, MaxOf(top[n], i))
    <3> SUFFICES ASSUME NEW x \in Part
                 PROVE  PartIs(Of(x, d, m), x, applied[n], i, MaxOf(top[n], i))
      OBVIOUS
    <3>1. PartIs(Of(x, data[n], member[n]), x, applied[n], i - 1, top[n])
      BY <1>2, <2>1, SoundNow
    <3>2. /\ log[i].op \in Setters(x) => Of(x, d, m) = At(x, i)
          /\ log[i].op \notin Setters(x) => Of(x, d, m) = Of(x, data[n], member[n])
      <4>1. CASE x = "member"
        <5>1. MembershipAt(i) = LastIn(Changes(log, i)) /\ i \in Nat /\ i > 0
          BY <1>2, MembershipLast
        <5>2. log[i].op = "membership" => MembershipAt(i) = i
          BY <5>1, MembershipIs
        <5> QED BY <4>1, <5>2 DEF Setters, Of, At, m
      <4>2. CASE x \in {"bucket", "object"}
        <5>1. StateAt(i) = apply_command(StateAt(i - 1), log[i], i) /\ StateAt(i - 1) \in DataRec
          BY <1>1, <1>2 DEF History, Replays, LogTyped, StateAt
        <5>2. /\ log[i].op \in Setters(x) => d[x] = StateAt(i)[x]
              /\ log[i].op \notin Setters(x) => d[x] = data[n][x]
          BY <1>2, <1>4, <4>2, <5>1, ApplyParts DEF d
        <5> QED BY <4>2, <5>2 DEF Of, At
      <4> QED BY <4>1, <4>2 DEF Part
    <3> QED BY <1>1, <1>2, <1>4, <2>1, <3>1, <3>2, PartApplied
  <2>5. LockSafe(n)' => LockIs(d.lock, i, MaxOf(top[n], i))
    <3> SUFFICES ASSUME LockSafe(n)' PROVE LockIs(d.lock, i, MaxOf(top[n], i))
      OBVIOUS
    <3>1. LockIs(data[n].lock, i - 1, top[n])
      BY <1>2, <2>1, <2>3, SoundNow
    <3>2. d.lock = LockAfter(data[n].lock, log[i])
      BY <1>2, <1>4, ApplyLock DEF d
    <3>3. Refused(i) => log[i].holder \notin d.lock
      BY <1>3, <1>7 DEF LockSafe
    <3>4. data[n].lock \in SUBSET Holder
      BY <1>4 DEF DataRec
    <3> QED BY <1>1, <1>2, <1>4, <2>1, <3>1, <3>2, <3>3, <3>4, LockApplied
  <2>6. applied'[n] = applied[n] /\ applied[n] <= i
    BY <1>2, <1>3
  <2> QED BY <1>3, <1>5, <1>7, <2>2, <2>4, <2>5, <2>6, SoundAfter
<1>12. NodeInv(n)'
  BY <1>9, <1>10, <1>11 DEF NodeInv
<1>13. applied'[n] >= applied[n] /\ top'[n] >= top[n]
  BY <1>2, <1>3, <1>5, <1>7
<1> QED BY <1>3, <1>6, <1>12, <1>13, Quiet

(* A command fails only if it is the second create.                        *)
LEMMA ApplyFailStep ==
  ASSUME ReplicaInv, NEW n \in Node, ApplyOne(n), ~apply_succeeds(data[n], job[n].next)
  PROVE  ReplicaInv'
<1>0. PICK i : i = job[n].next
  OBVIOUS
<1>1. History /\ LogTyped /\ NodeTyped /\ Within /\ NodeInv(n) /\ JobOK(n) /\ Leader \in Node
  BY LeaderAssumption DEF ReplicaInv, History, NodeInv
<1>2. /\ job[n].op = "apply" /\ i \in 1 .. Len(log) /\ applied[n] \in Nat /\ applied[n] <= i - 1
      /\ Done(n) = i - 1 /\ Len(log) \in Nat /\ i <= job[n].upto /\ job[n].upto <= end[n]
      /\ job[n].upto \in Nat
  BY <1>0, ApplyNext
<1>3. /\ status' = [status EXCEPT ![n] = "stopped"] /\ job' = [job EXCEPT ![n] = NoJob]
      /\ build' = [build EXCEPT ![n] = NoBuild]
      /\ UNCHANGED <<faults, offered, regranted, log, states, data, applied, member, first, end,
                     purged, meta, image, top, torn>>
  BY DEF ApplyOne
<1>4. log[i].op = "create_bucket" /\ data[n].bucket
  BY <1>0 DEF apply_succeeds
<1>5. NodeTyped' /\ Within' /\ Acts(n)
  <2>1. NodeTyped'
    BY <1>1, <1>3 DEF NodeTyped
  <2>2. Within'
    BY <1>1, <1>3 DEF Within
  <2>3. Acts(n)
    BY <1>1, <1>3 DEF Acts, Still, NodeTyped
  <2> QED BY <2>1, <2>2, <2>3
<1>6. job'[n] = NoJob /\ build'[n] = NoBuild /\ status'[n] = "stopped"
  BY <1>1, <1>3 DEF NodeTyped
<1>7. JobOK(n)' /\ BuildOK(n)' /\ Idle(n)'
  BY <1>6 DEF JobOK, BuildOK, Idle
<1>8. ASSUME n \notin torn' PROVE Sound(n)' /\ SecondCreate(n, i)'
  <2>1. n \notin torn /\ job[n].op # "install"
    BY <1>2, <1>3, <1>8
  <2>2. Done(n)' = applied[n]
    BY <1>3, <1>6 DEF Done, NoJob
  <2>3. LockSafe(n)' => LockSafe(n)
    BY <1>3 DEF LockSafe, Uncopied
  <2>4. \A x \in Part : PartIs(Of(x, data[n], member[n]), x, applied[n], applied[n], top[n])
    BY <2>1, SoundNow, PartCut
  <2>5. LockSafe(n)' => LockIs(data[n].lock, applied[n], top[n])
    BY <2>1, <2>3, SoundNow, LockCut
  <2>6. applied[n] <= applied[n] /\ applied[n] <= top[n] /\ top[n] \in Nat /\ i - 1 <= top[n]
    BY <1>2, <2>1, SoundNow
  <2>7. Sound(n)'
    BY <1>3, <2>2, <2>4, <2>5, <2>6, SoundAfter
  <2>8. ASSUME top[n] = i - 1 PROVE StateAt(i - 1).bucket
    <3>1. PartIs(Of("bucket", data[n], member[n]), "bucket", applied[n], top[n], top[n])
      BY <1>2, <2>1, <2>8, SoundNow DEF Part
    <3>2. Of("bucket", data[n], member[n]) = At("bucket", top[n])
      BY <1>1, <1>2, <2>1, <2>6, <3>1, SoundNow, PartNow DEF Part
    <3> QED BY <1>4, <2>8, <3>2 DEF Of, At
  <2>9. i <= top[n] \/ StateAt(i - 1).bucket
    BY <1>2, <2>6, <2>8
  <2>10. SecondCreate(n, i)'
    BY <1>3, <1>4, <2>9 DEF SecondCreate, StateAt
  <2> QED BY <2>7, <2>10
<1>9. Stops(n)'
  <2>1. end[n] \in Nat
    BY <1>1 DEF NodeTyped
  <2>2. i \in applied[n] + 1 .. end[n]
    BY <1>2, <2>1
  <2>3. applied' = applied /\ end' = end
    BY <1>3
  <2> QED BY <1>3, <1>8, <2>2, <2>3 DEF Stops
<1>10. NodeInv(n)'
  BY <1>6, <1>7, <1>8, <1>9 DEF NodeInv
<1>11. applied'[n] >= applied[n] /\ top'[n] >= top[n]
  BY <1>1, <1>3 DEF NodeTyped
<1> QED BY <1>3, <1>5, <1>6, <1>10, <1>11, Quiet
-----------------------------------------------------------------------------
(* Processes that die and start again.                                     *)
LEMMA CrashStep ==
  ASSUME ReplicaInv, NEW n \in Node, Crash(n)
  PROVE  ReplicaInv'
<1>1. History /\ LogTyped /\ NodeTyped /\ Within /\ NodeInv(n) /\ JobOK(n) /\ Leader \in Node
  BY LeaderAssumption DEF ReplicaInv, History, NodeInv
<1>2. /\ status' = [status EXCEPT ![n] = "down"] /\ job' = [job EXCEPT ![n] = NoJob]
      /\ build' = [build EXCEPT ![n] = NoBuild]
      /\ torn' = IF job[n].op = "install" THEN torn \cup {n} ELSE torn
      /\ UNCHANGED <<faults, offered, regranted, log, states, data, applied, member, first, end,
                     purged, meta, image, top>>
  BY DEF Crash, diskVars
<1>3. job[n].op = "install" => n # Leader
  BY <1>1, JobKinds
<1>4. NodeTyped' /\ Within' /\ Acts(n)
  <2>1. torn' \subseteq Node /\ Leader \notin torn'
    BY <1>1, <1>2, <1>3 DEF NodeTyped
  <2>2. NodeTyped'
    BY <1>1, <1>2, <2>1 DEF NodeTyped
  <2>3. Within'
    BY <1>1, <1>2 DEF Within
  <2>4. Acts(n)
    BY <1>1, <1>2 DEF Acts, Still, NodeTyped
  <2> QED BY <2>2, <2>3, <2>4
<1>5. job'[n] = NoJob /\ build'[n] = NoBuild /\ status'[n] = "down"
  BY <1>1, <1>2 DEF NodeTyped
<1>6. JobOK(n)' /\ BuildOK(n)' /\ Idle(n)' /\ Stops(n)'
  BY <1>5 DEF JobOK, BuildOK, Idle, Stops
<1>7. ASSUME n \notin torn' PROVE Sound(n)'
  <2>1. n \notin torn /\ job[n].op # "install"
    BY <1>2, <1>7
  <2>2. Done(n)' = applied[n]
    BY <1>2, <1>5 DEF Done, NoJob
  <2>3. LockSafe(n)' => LockSafe(n)
    BY <1>2 DEF LockSafe, Uncopied
  <2>4. \A x \in Part : PartIs(Of(x, data[n], member[n]), x, applied[n], applied[n], top[n])
    BY <2>1, SoundNow, PartCut
  <2>5. LockSafe(n)' => LockIs(data[n].lock, applied[n], top[n])
    BY <2>1, <2>3, SoundNow, LockCut
  <2>6. applied[n] <= applied[n] /\ applied[n] <= top[n]
    BY <2>1, SoundNow
  <2> QED BY <1>2, <2>2, <2>4, <2>5, <2>6, SoundAfter
<1>8. NodeInv(n)'
  BY <1>6, <1>7 DEF NodeInv
<1>9. applied'[n] >= applied[n] /\ top'[n] >= top[n]
  BY <1>1, <1>2 DEF NodeTyped
<1> QED BY <1>2, <1>4, <1>5, <1>8, <1>9, Quiet

(* A process starts again.                                                 *)
LEMMA RestartStep ==
  ASSUME ReplicaInv, NEW n \in Node, Restart(n)
  PROVE  ReplicaInv'
<1> DEFINE w == last_applied_state(n)
<1>1. History /\ LogTyped /\ NodeTyped /\ Within /\ NodeInv(n) /\ JobOK(n) /\ Leader \in Node
  BY LeaderAssumption DEF ReplicaInv, History, NodeInv
<1>2. /\ status' = [status EXCEPT ![n] = "running"] /\ status[n] = "down"
      /\ first' = [first EXCEPT ![n] = w.first] /\ end' = [end EXCEPT ![n] = w.end]
      /\ purged' = [purged EXCEPT ![n] = w.purged]
      /\ UNCHANGED <<faults, offered, regranted, log, states, data, applied, member, meta, image, job,
                     build, top, torn>>
  BY DEF Restart
<1>3. job[n] = NoJob /\ build[n] = NoBuild /\ job[n].op = "none"
  BY <1>1, <1>2 DEF NodeInv, Idle, NoJob
<1>4. /\ applied[n] \in Nat /\ applied[n] <= Len(log) /\ end[n] \in Nat /\ end[n] <= Len(log)
      /\ first[n] \in Nat /\ purged[n] \in Nat /\ Len(log) \in Nat /\ end[Leader] = Len(log)
      /\ first[Leader] >= 1 /\ first[Leader] \in Nat
  BY <1>1 DEF NodeTyped, Within, LogTyped
<1>5. /\ w.first \in Nat /\ w.end \in Nat /\ w.purged \in Nat /\ w.end <= Len(log)
      /\ n = Leader => w.first = first[n] /\ w.end = end[n]
      /\ w.purged = 0 /\ w.end > 0 => purged[n] = 0 /\ end[n] > 0
  <2>1. CASE applied[n] > end[n]
    BY <1>4, <2>1 DEF last_applied_state
  <2>2. CASE ~(applied[n] > end[n])
    BY <1>4, <2>2 DEF last_applied_state
  <2> QED BY <2>1, <2>2
<1> HIDE DEF w
<1>6. first'[n] = w.first /\ end'[n] = w.end /\ purged'[n] = w.purged /\ status'[n] = "running"
      /\ (n # Leader => first'[Leader] = first[Leader])
  BY <1>1, <1>2 DEF NodeTyped
<1>7. NodeTyped' /\ Within' /\ Acts(n)
  <2>1. NodeTyped'
    BY <1>1, <1>2, <1>5 DEF NodeTyped
  <2>2. Within'
    BY <1>1, <1>2, <1>4, <1>5 DEF Within, NodeTyped
  <2>3. first'[Leader] >= first[Leader]
    BY <1>4, <1>5, <1>6
  <2>4. Acts(n)
    BY <1>1, <1>2, <2>3 DEF Acts, Still, NodeTyped
  <2> QED BY <2>1, <2>2, <2>4
<1>8. JobOK(n)' /\ BuildOK(n)' /\ Idle(n)' /\ Stops(n)'
  BY <1>2, <1>3, <1>6 DEF JobOK, BuildOK, Idle, Stops
<1>9. ASSUME n \notin torn' PROVE Sound(n)'
  <2>1. Done(n) = applied[n] /\ Done(n)' = applied[n]
    BY <1>2, <1>3 DEF Done
  <2>2. LockSafe(n)' => LockSafe(n)
    BY <1>2, <1>5, <1>6 DEF LockSafe, Uncopied
  <2> QED BY <1>2, <1>3, <1>9, <2>1, <2>2, SoundNow, SoundAfter
<1>10. NodeInv(n)'
  BY <1>8, <1>9 DEF NodeInv
<1>11. applied'[n] >= applied[n] /\ top'[n] >= top[n]
  BY <1>1, <1>2 DEF NodeTyped
<1> QED BY <1>2, <1>5, <1>6, <1>7, <1>10, <1>11, Quiet

(* clear_raft_state forgets what was applied, not what it made.            *)
LEMMA ClearStep ==
  ASSUME ReplicaInv, NEW n \in Node, clear_raft_state(n)
  PROVE  ReplicaInv'
<1>1. History /\ LogTyped /\ NodeTyped /\ Within /\ NodeInv(n) /\ JobOK(n) /\ Leader \in Node
  BY LeaderAssumption DEF ReplicaInv, History, NodeInv
<1>2. /\ status' = [status EXCEPT ![n] = "running"] /\ status[n] = "down" /\ n # Leader
      /\ applied' = [applied EXCEPT ![n] = 0] /\ member' = [member EXCEPT ![n] = 0]
      /\ first' = [first EXCEPT ![n] = 1] /\ end' = [end EXCEPT ![n] = 0]
      /\ purged' = [purged EXCEPT ![n] = 0]
      /\ meta' = [meta EXCEPT ![n] = {}] /\ image' = [image EXCEPT ![n] = {}]
      /\ UNCHANGED <<faults, offered, regranted, log, states, data, job, build, top, torn>>
  BY DEF clear_raft_state
<1>3. job[n] = NoJob /\ build[n] = NoBuild /\ job[n].op = "none"
  BY <1>1, <1>2 DEF NodeInv, Idle, NoJob
<1>4. Len(log) \in Nat
  BY <1>1 DEF LogTyped
<1>5. NodeTyped' /\ Within' /\ Acts(n)
  <2>1. NodeTyped'
    BY <1>1, <1>2 DEF NodeTyped
  <2>2. Within'
    BY <1>1, <1>2, <1>4 DEF Within, NodeTyped
  <2>3. Acts(n)
    BY <1>1, <1>2 DEF Acts, Still, NodeTyped
  <2> QED BY <2>1, <2>2, <2>3
<1>6. applied'[n] = 0 /\ member'[n] = 0 /\ end'[n] = 0 /\ status'[n] = "running"
      /\ first'[Leader] = first[Leader]
  BY <1>1, <1>2 DEF NodeTyped
<1>7. JobOK(n)' /\ BuildOK(n)' /\ Idle(n)' /\ Stops(n)'
  BY <1>2, <1>3, <1>6 DEF JobOK, BuildOK, Idle, Stops
<1>8. ASSUME n \notin torn' PROVE Sound(n)'
  <2>1. n \notin torn /\ job[n].op # "install"
    BY <1>2, <1>3, <1>8
  <2>2. Done(n)' = 0
    BY <1>2, <1>3, <1>6 DEF Done
  <2>3. LockSafe(n)' => LockSafe(n)
    BY <1>2, <1>6 DEF LockSafe, Uncopied
  <2>4. \A x \in Part : PartIs(Of(x, data[n], 0), x, 0, 0, top[n])
    <3> SUFFICES ASSUME NEW x \in Part PROVE PartIs(Of(x, data[n], 0), x, 0, 0, top[n])
      OBVIOUS
    <3>1. CASE x = "member"
      <4>1. MembershipAt(0) = 0
        <5>1. Changes(log, 0) = {}
          BY DEF Changes
        <5> QED BY <5>1, MembershipLast DEF LastIn
      <4>2. Of(x, data[n], 0) = At(x, 0) /\ 0 \in 0 .. top[n]
        BY <2>1, <3>1, <4>1, SoundNow DEF Of, At
      <4> QED BY <4>2 DEF PartIs
    <3>2. CASE x # "member"
      <4>1. Of(x, data[n], 0) = Of(x, data[n], member[n])
        BY <3>2 DEF Of
      <4> QED BY <2>1, <4>1, SoundNow, PartCut
    <3> QED BY <3>1, <3>2
  <2>5. LockSafe(n)' => LockIs(data[n].lock, 0, top[n])
    BY <2>1, <2>3, SoundNow, LockCut
  <2>6. 0 <= 0 /\ 0 <= top[n]
    BY <2>1, SoundNow
  <2> QED BY <1>2, <1>6, <2>2, <2>4, <2>5, <2>6, SoundAfter
<1>9. NodeInv(n)'
  BY <1>7, <1>8 DEF NodeInv
<1> QED BY <1>2, <1>5, <1>9, Quiet
-----------------------------------------------------------------------------
(* What the leader sends.                                                  *)
LEMMA CurrentSnapshot ==
  ASSUME NodeTyped, Stored, NEW s \in get_current_snapshot(Leader)
  PROVE  s \in SnapRec /\ SnapOK(s)
<1>1. PICK m \in meta[Leader], d \in image[Leader] : s = Snap(m, d)
  BY DEF get_current_snapshot, Snap
<1>2. m \in MetaRec /\ d \in ImageRec
  BY LeaderAssumption DEF NodeTyped
<1>3. Snap(m, d) \in SnapRec
  BY <1>2 DEF Snap, MetaRec, ImageRec, SnapRec
<1> QED BY <1>1, <1>3 DEF Stored, Snaps

(* A replica that is too far behind receives the snapshot.                 *)
LEMMA SendSnapshotStep ==
  ASSUME ReplicaInv, NEW n \in Node, SendSnapshot(n)
  PROVE  ReplicaInv'
<1>1. History /\ LogTyped /\ NodeTyped /\ Within /\ NodeInv(n) /\ JobOK(n) /\ Leader \in Node
      /\ Stored
  BY LeaderAssumption DEF ReplicaInv, History, NodeInv
<1>2. PICK s \in get_current_snapshot(Leader) :
        /\ n # Leader /\ Running(n) /\ job[n] = NoJob /\ build[n] = NoBuild
        /\ first[Leader] > end[n] + 1
        /\ \/ /\ \E c \in do_install_snapshot(Chunks) : ~Unpacks(c)
              /\ status' = [status EXCEPT ![n] = "stopped"]
              /\ build' = [build EXCEPT ![n] = NoBuild] /\ UNCHANGED job
           \/ /\ job' = [job EXCEPT ![n] = [op |-> "install", step |-> "clear", snap |-> s]]
              /\ UNCHANGED <<status, build>>
        /\ UNCHANGED <<faults, offered, regranted, log, states, data, applied, member, first, end,
                       purged, meta, image, top, torn>>
  BY DEF SendSnapshot, diskVars
<1>3. s \in SnapRec /\ SnapOK(s)
  BY <1>1, CurrentSnapshot
<1>4. end[n] \in Nat /\ first[Leader] \in Nat /\ first[Leader] > 1
  BY <1>1, <1>2 DEF NodeTyped
<1>5. Within'
  BY <1>1, <1>2 DEF Within
<1>6. CASE /\ \E c \in do_install_snapshot(Chunks) : ~Unpacks(c)
           /\ status' = [status EXCEPT ![n] = "stopped"]
           /\ build' = [build EXCEPT ![n] = NoBuild] /\ UNCHANGED job
  <2>1. NodeTyped' /\ Acts(n)
    <3>1. NodeTyped'
      BY <1>1, <1>2, <1>6 DEF NodeTyped
    <3>2. Acts(n)
      BY <1>1, <1>2, <1>6 DEF Acts, Still, NodeTyped
    <3> QED BY <3>1, <3>2
  <2>2. "large" \in faults
    <3>1. ASSUME "large" \notin faults,
                 NEW c \in do_install_snapshot(Chunks), ~Unpacks(c) PROVE FALSE
      <4>1. PICK q \in Chunks : c = convert_install_snapshot_request(q)
        BY DEF do_install_snapshot
      <4>2. q = [part |-> 0, offset |-> 0, done |-> TRUE]
        BY <3>1, <4>1 DEF Chunks
      <4>3. c.part = 0
        BY <4>1, <4>2 DEF convert_install_snapshot_request
      <4> QED BY <3>1, <4>3 DEF Unpacks
    <3> QED BY <1>6, <3>1
  <2>3. build'[n] = NoBuild /\ status'[n] = "stopped" /\ job'[n] = NoJob /\ job[n].op = "none"
    BY <1>1, <1>2, <1>6 DEF NodeTyped, NoJob
  <2>4. JobOK(n)' /\ BuildOK(n)' /\ Idle(n)' /\ Stops(n)'
    BY <1>2, <2>2, <2>3 DEF JobOK, BuildOK, Idle, Stops
  <2>5. ASSUME n \notin torn' PROVE Sound(n)'
    <3>1. Done(n) = applied[n] /\ Done(n)' = applied[n]
      BY <1>2, <2>3 DEF Done, NoJob
    <3>2. LockSafe(n)' => LockSafe(n)
      BY <1>2 DEF LockSafe, Uncopied
    <3> QED BY <1>2, <2>3, <2>5, <3>1, <3>2, SoundNow, SoundAfter
  <2>6. NodeInv(n)'
    BY <2>4, <2>5 DEF NodeInv
  <2> QED BY <1>2, <1>5, <2>1, <2>6, Quiet
<1>7. CASE /\ job' = [job EXCEPT ![n] = [op |-> "install", step |-> "clear", snap |-> s]]
           /\ UNCHANGED <<status, build>>
  <2>1. NodeTyped' /\ Acts(n)
    <3>1. NodeTyped'
      BY <1>1, <1>2, <1>7 DEF NodeTyped
    <3>2. Acts(n)
      BY <1>1, <1>2, <1>7 DEF Acts, Still, NodeTyped
    <3> QED BY <3>1, <3>2
  <2>2. PICK k : k = [op |-> "install", step |-> "clear", snap |-> s]
    OBVIOUS
  <2>3. job'[n] = k /\ k \in InstallRec /\ k.snap = s /\ k.step = "clear" /\ k.op = "install"
    BY <1>1, <1>3, <1>7, <2>2 DEF NodeTyped, InstallRec, Installing
  <2>4. SnapOK(s)'
    BY <1>1, <1>2, <1>3, SameHistory, SnapStays
  <2>5. Progress(n, k)'
    BY <2>3 DEF Progress
  <2>6. JobOK(n)'
    BY <1>2, <1>4, <1>7, <2>3, <2>4, <2>5 DEF JobOK
  <2>7. BuildOK(n)' /\ Idle(n)' /\ Stops(n)'
    BY <1>1, <1>2, <1>7 DEF NodeInv, BuildOK, Idle, Stops, Running
  <2>8. NodeInv(n)'
    BY <2>3, <2>6, <2>7 DEF NodeInv
  <2> QED BY <1>2, <1>5, <2>1, <2>8, Quiet
<1> QED BY <1>2, <1>6, <1>7

(* The steps of an installation.                                           *)
LEMMA InstallNow ==
  ASSUME ReplicaInv, NEW n \in Node, NEW step, NEW next, InstallStep(n, step, next)
  PROVE  /\ History /\ LogTyped /\ NodeTyped /\ Within /\ NodeInv(n) /\ Leader \in Node
         /\ n # Leader /\ build[n] = NoBuild /\ first[Leader] > 1
         /\ job[n] \in InstallRec /\ job[n].step = step /\ job[n].snap \in SnapRec
         /\ SnapOK(job[n].snap) /\ Progress(n, job[n])
         /\ status[n] = "running" /\ UNCHANGED <<faults, offered, regranted, log, states, status,
                                                 build>>
         /\ job' = [job EXCEPT ![n] = IF next = "done" THEN NoJob ELSE [@ EXCEPT !.step = next]]
<1>1. History /\ LogTyped /\ NodeTyped /\ Within /\ NodeInv(n) /\ JobOK(n) /\ Leader \in Node
  BY LeaderAssumption DEF ReplicaInv, History, NodeInv
<1>2. /\ job[n].op = "install" /\ job[n].step = step /\ status[n] = "running"
      /\ UNCHANGED <<faults, offered, regranted, log, states, status, build>>
      /\ job' = [job EXCEPT ![n] = IF next = "done" THEN NoJob ELSE [@ EXCEPT !.step = next]]
  BY DEF InstallStep, Running
<1>3. /\ n # Leader /\ build[n] = NoBuild /\ first[Leader] > 1
      /\ job[n] \in InstallRec /\ SnapOK(job[n].snap) /\ Progress(n, job[n])
  BY <1>1, <1>2, JobKinds
<1>4. job[n].snap \in SnapRec
  BY <1>3 DEF InstallRec
<1> QED BY <1>1, <1>2, <1>3, <1>4

(* An installation that goes on keeps its snapshot.                        *)
LEMMA InstallGoesOn ==
  ASSUME ReplicaInv, NEW n \in Node, NEW step, NEW next \in Installing, InstallStep(n, step, next),
         NodeTyped', Within', Acts(n),
         NEW k, k = [job[n] EXCEPT !.step = next], Progress(n, k)'
  PROVE  ReplicaInv'
<1>1. /\ History /\ LogTyped /\ NodeTyped /\ NodeInv(n) /\ Leader \in Node
      /\ n # Leader /\ build[n] = NoBuild /\ first[Leader] > 1
      /\ job[n] \in InstallRec /\ job[n].snap \in SnapRec /\ SnapOK(job[n].snap)
      /\ status[n] = "running" /\ UNCHANGED <<faults, offered, regranted, log, states, status, build>>
  BY InstallNow
<1>2. job'[n] = k
  <2>1. next # "done"
    BY DEF Installing
  <2>2. job' = [job EXCEPT ![n] = [@ EXCEPT !.step = next]]
    BY <2>1, InstallNow
  <2> QED BY <1>1, <2>2 DEF NodeTyped
<1>3. k \in InstallRec /\ k.snap = job[n].snap /\ k.op = "install"
  BY <1>1 DEF InstallRec
<1>4. PICK s \in SnapRec : s = k.snap /\ SnapOK(s)
  BY <1>1, <1>3
<1>5. SnapOK(s)'
  BY <1>1, <1>4, SameHistory, SnapStays
<1>6. first'[Leader] > 1
  <2>1. Still(Leader)
    BY <1>1 DEF Acts
  <2> QED BY <1>1, <2>1 DEF Still
<1>7. JobOK(n)'
  BY <1>1, <1>2, <1>3, <1>4, <1>5, <1>6 DEF JobOK
<1>8. BuildOK(n)' /\ Idle(n)' /\ Stops(n)'
  BY <1>1 DEF NodeInv, BuildOK, Idle, Stops
<1>9. NodeInv(n)'
  BY <1>2, <1>3, <1>7, <1>8 DEF NodeInv
<1> QED BY <1>1, <1>9, Quiet

(* The keys that are copied are those of the snapshot.                     *)
LEMMA Restored ==
  ASSUME NEW d \in DataRec, NEW source \in DataRec
  PROVE  /\ Restore(d, source) \in DataRec
         /\ \A x \in {"bucket", "object"} : Restore(d, source)[x] = source[x]
<1>1. Restore(d, source) = [bucket |-> source.bucket, object |-> source.object, lock |-> d.lock]
  BY DEF Restore, AllPrefixes, DATA_PREFIXES
<1> QED BY <1>1 DEF DataRec

(* The keys of the replica are deleted.                                    *)
LEMMA DeleteKeysStep ==
  ASSUME ReplicaInv, NEW n \in Node, DeleteKeys(n)
  PROVE  ReplicaInv'
<1>1. InstallStep(n, "clear", "copy") /\ "copy" \in Installing
  BY DEF DeleteKeys, Installing
<1>2. /\ LogTyped /\ NodeTyped /\ Within /\ Leader \in Node /\ n # Leader
      /\ job[n] \in InstallRec /\ job[n].step = "clear" /\ job[n].snap \in SnapRec
      /\ SnapOK(job[n].snap) /\ Progress(n, job[n])
      /\ UNCHANGED <<faults, offered, regranted, log, states, status, build>>
      /\ job' = [job EXCEPT ![n] = [@ EXCEPT !.step = "copy"]]
  BY <1>1, InstallNow
<1>3. data' = [data EXCEPT ![n] = Restore(@, Empty)]
      /\ UNCHANGED <<applied, member, first, end, purged, meta, image, top, torn>>
  BY DEF DeleteKeys
<1>4. Restore(data[n], Empty) \in DataRec
  <2>1. data[n] \in DataRec /\ Empty \in DataRec
    BY <1>2, BoundsAssumption DEF NodeTyped, Empty, DataRec
  <2> QED BY <2>1, Restored
<1>5. NodeTyped'
  BY <1>2, <1>3, <1>4 DEF NodeTyped
<1>6. Within'
  BY <1>2, <1>3, <1>4 DEF Within, NodeTyped
<1>7. Acts(n)
  BY <1>2, <1>3 DEF Acts, Still, NodeTyped
<1>8. PICK k : k = [job[n] EXCEPT !.step = "copy"]
  OBVIOUS
<1>9. k.step = "copy" /\ k.snap = job[n].snap
  BY <1>2, <1>8 DEF InstallRec
<1>10. Progress(n, k)'
  BY <1>9 DEF Progress
<1> QED BY <1>1, <1>5, <1>6, <1>7, <1>8, <1>10, InstallGoesOn

(* The keys of the snapshot are copied.                                    *)
LEMMA CopyKeysStep ==
  ASSUME ReplicaInv, NEW n \in Node, CopyKeys(n)
  PROVE  ReplicaInv'
<1>1. InstallStep(n, "copy", "applied") /\ "applied" \in Installing
  BY DEF CopyKeys, Installing
<1>2. /\ LogTyped /\ NodeTyped /\ Within /\ Leader \in Node /\ n # Leader
      /\ job[n] \in InstallRec /\ job[n].step = "copy" /\ job[n].snap \in SnapRec
      /\ SnapOK(job[n].snap) /\ Progress(n, job[n])
      /\ UNCHANGED <<faults, offered, regranted, log, states, status, build>>
      /\ job' = [job EXCEPT ![n] = [@ EXCEPT !.step = "applied"]]
  BY <1>1, InstallNow
<1>3. /\ data' = [data EXCEPT ![n] = Restore(@, job[n].snap.data)]
      /\ top' = [top EXCEPT ![n] = job[n].snap.top]
      /\ torn' = IF job[n].snap.of < job[n].snap.last THEN torn \cup {n} ELSE torn
      /\ UNCHANGED <<applied, member, first, end, purged, meta, image>>
  BY DEF CopyKeys
<1>4. /\ Restore(data[n], job[n].snap.data) \in DataRec
      /\ \A x \in {"bucket", "object"} :
           Restore(data[n], job[n].snap.data)[x] = job[n].snap.data[x]
      /\ job[n].snap.top \in Nat /\ job[n].snap.top <= Len(log)
  <2>1. data[n] \in DataRec /\ job[n].snap.data \in DataRec /\ job[n].snap.top \in Nat
        /\ job[n].snap.top <= Len(log)
    BY <1>2 DEF NodeTyped, SnapRec, SnapOK
  <2> QED BY <2>1, Restored
<1>5. NodeTyped'
  BY <1>2, <1>3, <1>4 DEF NodeTyped
<1>6. Within'
  BY <1>2, <1>3, <1>4 DEF Within, NodeTyped
<1>7. Acts(n)
  BY <1>2, <1>3 DEF Acts, Still, NodeTyped
<1>8. PICK k : k = [job[n] EXCEPT !.step = "applied"]
  OBVIOUS
<1>9. k.step = "applied" /\ k.snap = job[n].snap
  BY <1>2, <1>8 DEF InstallRec
<1>10. Progress(n, k)'
  <2>1. top'[n] = k.snap.top /\ (k.snap.of < k.snap.last => n \in torn')
    BY <1>2, <1>3, <1>9 DEF NodeTyped
  <2>2. data'[n] = Restore(data[n], job[n].snap.data)
    BY <1>2, <1>3 DEF NodeTyped
  <2>3. CopyDone(n, k.snap)'
    BY <1>4, <1>9, <2>2 DEF CopyDone
  <2> QED BY <1>9, <2>1, <2>3 DEF Progress
<1> QED BY <1>1, <1>5, <1>6, <1>7, <1>8, <1>10, InstallGoesOn

(* last_applied_log_id of the snapshot is written.                         *)
LEMMA WriteAppliedStep ==
  ASSUME ReplicaInv, NEW n \in Node, WriteApplied(n)
  PROVE  ReplicaInv'
<1>1. InstallStep(n, "applied", "member") /\ "member" \in Installing
  BY DEF WriteApplied, Installing
<1>2. /\ LogTyped /\ NodeTyped /\ Within /\ Leader \in Node /\ n # Leader
      /\ job[n] \in InstallRec /\ job[n].step = "applied" /\ job[n].snap \in SnapRec
      /\ SnapOK(job[n].snap) /\ Progress(n, job[n])
      /\ UNCHANGED <<faults, offered, regranted, log, states, status, build>>
      /\ job' = [job EXCEPT ![n] = [@ EXCEPT !.step = "member"]]
  BY <1>1, InstallNow
<1>3. applied' = [applied EXCEPT ![n] = job[n].snap.last]
      /\ UNCHANGED <<data, member, first, end, purged, meta, image, top, torn>>
  BY DEF WriteApplied
<1>4. job[n].snap.last \in Nat /\ job[n].snap.last <= Len(log)
  BY <1>2 DEF SnapRec, SnapOK
<1>5. NodeTyped'
  BY <1>2, <1>3, <1>4 DEF NodeTyped
<1>6. Within'
  BY <1>2, <1>3, <1>4 DEF Within, NodeTyped
<1>7. Acts(n)
  BY <1>2, <1>3 DEF Acts, Still, NodeTyped
<1>8. PICK k : k = [job[n] EXCEPT !.step = "member"]
  OBVIOUS
<1>9. k.step = "member" /\ k.snap = job[n].snap
  BY <1>2, <1>8 DEF InstallRec
<1>10. Progress(n, k)'
  <2>1. applied'[n] = k.snap.last
    BY <1>2, <1>3, <1>9 DEF NodeTyped
  <2> QED BY <1>2, <1>3, <1>9, <2>1 DEF Progress, CopyDone
<1> QED BY <1>1, <1>5, <1>6, <1>7, <1>8, <1>10, InstallGoesOn

(* The membership of the snapshot is written.                              *)
LEMMA WriteMembershipStep ==
  ASSUME ReplicaInv, NEW n \in Node, WriteMembership(n)
  PROVE  ReplicaInv'
<1>1. InstallStep(n, "member", "snapshot") /\ "snapshot" \in Installing
  BY DEF WriteMembership, Installing
<1>2. /\ LogTyped /\ NodeTyped /\ Within /\ Leader \in Node /\ n # Leader
      /\ job[n] \in InstallRec /\ job[n].step = "member" /\ job[n].snap \in SnapRec
      /\ SnapOK(job[n].snap) /\ Progress(n, job[n])
      /\ UNCHANGED <<faults, offered, regranted, log, states, status, build>>
      /\ job' = [job EXCEPT ![n] = [@ EXCEPT !.step = "snapshot"]]
  BY <1>1, InstallNow
<1>3. member' = [member EXCEPT ![n] = job[n].snap.member]
      /\ UNCHANGED <<data, applied, first, end, purged, meta, image, top, torn>>
  BY DEF WriteMembership
<1>4. job[n].snap.member \in Nat /\ job[n].snap.member <= Len(log)
  BY <1>2 DEF SnapRec, SnapOK
<1>5. NodeTyped'
  BY <1>2, <1>3, <1>4 DEF NodeTyped
<1>6. Within'
  BY <1>2, <1>3, <1>4 DEF Within, NodeTyped
<1>7. Acts(n)
  BY <1>2, <1>3 DEF Acts, Still, NodeTyped
<1>8. PICK k : k = [job[n] EXCEPT !.step = "snapshot"]
  OBVIOUS
<1>9. k.step = "snapshot" /\ k.snap = job[n].snap
  BY <1>2, <1>8 DEF InstallRec
<1>10. Progress(n, k)'
  <2>1. member'[n] = k.snap.member
    BY <1>2, <1>3, <1>9 DEF NodeTyped
  <2> QED BY <1>2, <1>3, <1>9, <2>1 DEF Progress, CopyDone
<1> QED BY <1>1, <1>5, <1>6, <1>7, <1>8, <1>10, InstallGoesOn

(* The metadata of the snapshot is stored.                                 *)
LEMMA WriteSnapshotStep ==
  ASSUME ReplicaInv, NEW n \in Node, WriteSnapshot(n)
  PROVE  ReplicaInv'
<1>1. InstallStep(n, "snapshot", "image") /\ "image" \in Installing
  BY DEF WriteSnapshot, Installing
<1>2. /\ LogTyped /\ NodeTyped /\ Within /\ Leader \in Node /\ n # Leader
      /\ job[n] \in InstallRec /\ job[n].step = "snapshot" /\ job[n].snap \in SnapRec
      /\ SnapOK(job[n].snap) /\ Progress(n, job[n])
      /\ UNCHANGED <<faults, offered, regranted, log, states, status, build>>
      /\ job' = [job EXCEPT ![n] = [@ EXCEPT !.step = "image"]]
  BY <1>1, InstallNow
<1>3. meta' = [meta EXCEPT ![n] = {[last |-> job[n].snap.last,
                                        member |-> job[n].snap.member]}]
      /\ UNCHANGED <<data, applied, member, first, end, purged, image, top, torn>>
  BY DEF WriteSnapshot
<1>4. [last |-> job[n].snap.last, member |-> job[n].snap.member] \in MetaRec
  BY <1>2 DEF SnapRec, MetaRec
<1>5. NodeTyped'
  BY <1>2, <1>3, <1>4 DEF NodeTyped
<1>6. Within'
  BY <1>2, <1>3, <1>4 DEF Within, NodeTyped
<1>7. Acts(n)
  BY <1>2, <1>3 DEF Acts, Still, NodeTyped
<1>8. PICK k : k = [job[n] EXCEPT !.step = "image"]
  OBVIOUS
<1>9. k.step = "image" /\ k.snap = job[n].snap
  BY <1>2, <1>8 DEF InstallRec
<1>10. Progress(n, k)'
  BY <1>2, <1>3, <1>9 DEF Progress, CopyDone
<1> QED BY <1>1, <1>5, <1>6, <1>7, <1>8, <1>10, InstallGoesOn

(* The data of the snapshot is stored.                                     *)
LEMMA WriteImageStep ==
  ASSUME ReplicaInv, NEW n \in Node, WriteImage(n)
  PROVE  ReplicaInv'
<1>1. InstallStep(n, "image", "purge") /\ "purge" \in Installing
  BY DEF WriteImage, Installing
<1>2. /\ LogTyped /\ NodeTyped /\ Within /\ Leader \in Node /\ n # Leader
      /\ job[n] \in InstallRec /\ job[n].step = "image" /\ job[n].snap \in SnapRec
      /\ SnapOK(job[n].snap) /\ Progress(n, job[n])
      /\ UNCHANGED <<faults, offered, regranted, log, states, status, build>>
      /\ job' = [job EXCEPT ![n] = [@ EXCEPT !.step = "purge"]]
  BY <1>1, InstallNow
<1>3. image' = [image EXCEPT ![n] = {[of |-> job[n].snap.of, data |-> job[n].snap.data,
                                          top |-> job[n].snap.top]}]
      /\ UNCHANGED <<data, applied, member, first, end, purged, meta, top, torn>>
  BY DEF WriteImage
<1>4. [of |-> job[n].snap.of, data |-> job[n].snap.data, top |-> job[n].snap.top] \in ImageRec
  BY <1>2 DEF SnapRec, ImageRec
<1>5. NodeTyped'
  BY <1>2, <1>3, <1>4 DEF NodeTyped
<1>6. Within'
  BY <1>2, <1>3, <1>4 DEF Within, NodeTyped
<1>7. Acts(n)
  BY <1>2, <1>3 DEF Acts, Still, NodeTyped
<1>8. PICK k : k = [job[n] EXCEPT !.step = "purge"]
  OBVIOUS
<1>9. k.step = "purge" /\ k.snap = job[n].snap
  BY <1>2, <1>8 DEF InstallRec
<1>10. Progress(n, k)'
  BY <1>2, <1>3, <1>9 DEF Progress, CopyDone
<1> QED BY <1>1, <1>5, <1>6, <1>7, <1>8, <1>10, InstallGoesOn

(* A complete installation of a consistent snapshot makes a sound replica. *)
LEMMA PurgeInstalledStep ==
  ASSUME ReplicaInv, NEW n \in Node, PurgeInstalled(n)
  PROVE  ReplicaInv'
<1> DEFINE sn == job[n].snap
<1>1. InstallStep(n, "purge", "done")
  BY DEF PurgeInstalled
<1>2. /\ History /\ LogTyped /\ NodeTyped /\ Within /\ Leader \in Node /\ n # Leader
      /\ job[n].step = "purge" /\ sn \in SnapRec /\ build[n] = NoBuild /\ first[Leader] > 1
      /\ SnapOK(sn) /\ Progress(n, job[n]) /\ status[n] = "running"
      /\ UNCHANGED <<faults, offered, regranted, log, states, status, build>>
      /\ job' = [job EXCEPT ![n] = NoJob]
  BY <1>1, InstallNow
<1>3. /\ first' = [first EXCEPT ![n] = sn.last + 1]
      /\ end' = [end EXCEPT ![n] = MaxOf(@, sn.last)]
      /\ purged' = [purged EXCEPT ![n] = sn.last]
      /\ torn' = IF sn.of < sn.last THEN torn ELSE torn \ {n}
      /\ UNCHANGED <<data, applied, member, meta, image, top>>
  BY DEF PurgeInstalled
<1>4. /\ sn.last \in Nat /\ sn.top \in Nat /\ sn.of \in Nat /\ 0 < sn.last /\ sn.last <= Len(log)
      /\ sn.of <= sn.last /\ (sn.of = sn.last => Matches(sn.last, sn.top, sn.data, sn.member))
  BY <1>2 DEF SnapRec, SnapOK
<1>5. /\ CopyDone(n, sn) /\ top[n] = sn.top /\ (sn.of < sn.last => n \in torn)
      /\ applied[n] = sn.last /\ member[n] = sn.member
  BY <1>2 DEF Progress
<1> HIDE DEF sn
<1>6. MaxOf(end[n], sn.last) \in Nat /\ MaxOf(end[n], sn.last) <= Len(log)
  BY <1>2, <1>4 DEF MaxOf, NodeTyped, Within, LogTyped
<1>7. NodeTyped'
  <2>1. torn' \subseteq Node /\ Leader \notin torn'
    BY <1>2, <1>3 DEF NodeTyped
  <2>2. first' \in [Node -> Nat] /\ end' \in [Node -> Nat] /\ purged' \in [Node -> Nat]
    <3>1. first \in [Node -> Nat] /\ end \in [Node -> Nat] /\ purged \in [Node -> Nat]
      BY <1>2 DEF NodeTyped
    <3>2. sn.last + 1 \in Nat
      BY <1>4
    <3> QED BY <1>3, <1>4, <1>6, <3>1, <3>2
  <2> QED BY <1>2, <1>3, <2>1, <2>2 DEF NodeTyped
<1>8. Within'
  BY <1>2, <1>3, <1>4, <1>6 DEF Within, NodeTyped
<1>9. Acts(n)
  BY <1>2, <1>3 DEF Acts, Still, NodeTyped
<1>10. job'[n] = NoJob /\ purged'[n] = sn.last /\ first'[Leader] = first[Leader]
  BY <1>2, <1>3 DEF NodeTyped
<1>11. JobOK(n)' /\ BuildOK(n)' /\ Idle(n)' /\ Stops(n)'
  BY <1>2, <1>10 DEF JobOK, BuildOK, Idle, Stops
<1>12. ASSUME n \notin torn' PROVE Sound(n)'
  <2>1. sn.of = sn.last
    <3>1. ~(sn.of < sn.last)
      BY <1>3, <1>5, <1>12
    <3> QED BY <1>4, <3>1
  <2>2. sn.last <= sn.top
        /\ \A x \in Part : \E k \in sn.last .. sn.top : Of(x, sn.data, sn.member) = At(x, k)
    BY <1>4, <2>1 DEF Matches
  <2>3. \A x \in Part : Of(x, data[n], member[n]) = Of(x, sn.data, sn.member)
    BY <1>5 DEF Of, Part, CopyDone
  <2>4. \A x \in Part : PartIs(Of(x, data[n], member[n]), x, sn.last, sn.last, sn.top)
    <3>1. \A x \in Part : Untouched(x, sn.last, sn.last)
      BY <1>4 DEF Untouched
    <3> QED BY <2>2, <2>3, <3>1 DEF PartIs
  <2>5. ~LockSafe(n)'
    BY <1>2, <1>3, <1>4, <1>5, <1>10, <2>2 DEF LockSafe, Uncopied
  <2>6. Done(n)' = sn.last /\ sn.last <= sn.last
    BY <1>3, <1>4, <1>5, <1>10 DEF Done, NoJob
  <2> QED BY <1>2, <1>3, <1>5, <2>2, <2>4, <2>5, <2>6, SoundAfter
<1>13. NodeInv(n)'
  BY <1>11, <1>12 DEF NodeInv
<1> QED BY <1>2, <1>7, <1>8, <1>9, <1>13, Quiet
-----------------------------------------------------------------------------
(* The steps of a snapshot builder touch nothing that a batch works on.    *)
BuilderOf(n) ==
  /\ UNCHANGED <<faults, offered, regranted, log, states, data, applied, member, end, status, job,
                 top, torn>>
  /\ status[n] = "running" /\ job[n].op # "install"
  /\ first'[Leader] >= first[Leader] /\ (purged'[n] = 0 => purged[n] = 0)

(* What a step of the builder has to show.                                 *)
LEMMA BuilderStep ==
  ASSUME ReplicaInv, NEW n \in Node, BuilderOf(n), NodeTyped', Acts(n), BuildOK(n)',
         n = Leader => Stored'
  PROVE  ReplicaInv'
<1>1. /\ History /\ LogTyped /\ NodeTyped /\ Within /\ NodeInv(n) /\ JobOK(n) /\ Leader \in Node
      /\ Stored /\ BuildOK(Leader)
  BY LeaderAssumption DEF ReplicaInv, History, NodeInv
<1>2. /\ UNCHANGED <<faults, offered, regranted, log, states, data, applied, member, end, status, job,
                     top, torn>>
      /\ status[n] = "running" /\ job[n].op # "install"
      /\ first'[Leader] >= first[Leader] /\ (purged'[n] = 0 => purged[n] = 0)
  BY DEF BuilderOf
<1>3. History' /\ LogTyped' /\ Grows
  BY <1>1, <1>2, SameHistory
<1>4. first[Leader] \in Nat /\ first'[Leader] \in Nat /\ first[Leader] >= 1
  BY <1>1 DEF NodeTyped, Within
<1>5. Within'
  BY <1>1, <1>2, <1>4 DEF Within
<1>6. JobOK(n)'
  <2>1. job[n] = NoJob \/ job[n].op = "apply"
    BY <1>1, <1>2, JobKinds
  <2> QED BY <1>1, <1>2, <2>1, JobKinds DEF JobOK
<1>7. Idle(n)' /\ Stops(n)'
  BY <1>2 DEF Idle, Stops
<1>8. ASSUME n \notin torn' PROVE Sound(n)'
  <2>1. LockSafe(n)' => LockSafe(n)
    <3>1. first'[Leader] = 1 => first[Leader] = 1
      BY <1>2, <1>4
    <3> QED BY <1>2, <3>1 DEF LockSafe, Uncopied
  <2>2. Done(n)' = Done(n)
    BY <1>2 DEF Done
  <2> QED BY <1>2, <1>8, <2>1, <2>2, SoundNow, SoundAfter
<1>9. NodeInv(n)'
  BY <1>6, <1>7, <1>8 DEF NodeInv
<1>10. CASE n # Leader
  BY <1>2, <1>5, <1>9, <1>10, Quiet
<1>11. CASE n = Leader
  <2>1. \A q \in Node : NodeInv(q)'
    BY <1>3, <1>9, Others
  <2> QED BY <1>3, <1>5, <1>11, <2>1 DEF ReplicaInv
<1> QED BY <1>10, <1>11

(* The builder reads last_applied_log_id and the membership.               *)
LEMMA ReadAppliedStateStep ==
  ASSUME ReplicaInv, NEW n \in Node, ReadAppliedState(n)
  PROVE  ReplicaInv'
<1>1. /\ History /\ LogTyped /\ NodeTyped /\ Within /\ NodeInv(n) /\ JobOK(n) /\ Leader \in Node
      /\ Stored /\ Snaps
  BY LeaderAssumption DEF ReplicaInv, History, NodeInv, Stored
<1>2. /\ status[n] = "running" /\ applied[n] > 0
      /\ job[n] = NoJob \/ job[n].op = "apply"
      /\ \A s \in get_current_snapshot(n) : applied[n] > s.last
      /\ build' = [build EXCEPT ![n] = [step |-> "read", last |-> applied[n], member |-> member[n]]]
      /\ UNCHANGED <<faults, offered, regranted, log, states, data, applied, member, first, end,
                     purged, meta, image, status, job, top, torn>>
  BY DEF ReadAppliedState, Running, diskVars
<1>3. /\ applied[n] \in Nat /\ member[n] \in Nat /\ member[n] <= Len(log) /\ top[n] \in Nat
      /\ first[Leader] \in Nat
  BY <1>1 DEF NodeTyped, Within
<1>4. BuilderOf(n)
  <2>1. job[n].op # "install"
    BY <1>2 DEF NoJob
  <2>2. first'[Leader] >= first[Leader]
    BY <1>2, <1>3
  <2> QED BY <1>2, <2>1, <2>2 DEF BuilderOf
<1>5. NodeTyped'
  BY <1>1, <1>2 DEF NodeTyped
<1>6. Acts(n)
  BY <1>1, <1>2, <1>3 DEF Acts, Still, NodeTyped
<1>7. PICK b : b = [step |-> "read", last |-> applied[n], member |-> member[n]]
  OBVIOUS
<1>8. build'[n] = b /\ b \in ReadRec
      /\ b.step = "read" /\ b.last = applied[n] /\ b.member = member[n]
  BY <1>1, <1>2, <1>3, <1>7 DEF NodeTyped, ReadRec
<1>9. BuildOK(n)'
  BY <1>8 DEF BuildOK
<1>10. ASSUME n = Leader PROVE Stored'
  <2>1. LogTyped' /\ Grows
    BY <1>1, <1>2, SameHistory
  <2>2. Snaps'
    <3>1. \A m \in meta[Leader], d \in image[Leader] : SnapOK(Snap(m, d))'
      BY <1>1, <2>1, SnapsStay
    <3> QED BY <1>1, <1>2, <3>1 DEF Snaps
  <2>3. \A m \in meta[Leader], d \in image[Leader] : m.last < b.last /\ d.of < b.last
    <3> SUFFICES ASSUME NEW m \in meta[Leader], NEW d \in image[Leader]
                 PROVE  m.last < b.last /\ d.of < b.last
      OBVIOUS
    <3>1. Snap(m, d) \in get_current_snapshot(n)
      BY <1>10 DEF get_current_snapshot, Snap
    <3>2. applied[n] > Snap(m, d).last /\ Snap(m, d).of <= Snap(m, d).last
      BY <1>1, <1>2, <3>1 DEF Snaps, SnapOK
    <3>3. m.last \in Nat /\ d.of \in Nat
      BY <1>1 DEF NodeTyped, MetaRec, ImageRec
    <3> QED BY <1>3, <1>8, <3>2, <3>3 DEF Snap
  <2>4. Older(b)'
    BY <1>1, <1>2, <2>3 DEF Older, Snaps
  <2>5. first'[Leader] <= b.last + 1
    <3>1. CASE first[Leader] = 1
      BY <1>2, <1>3, <1>8, <3>1
    <3>2. CASE first[Leader] # 1
      <4>1. PICK m \in meta[Leader], d \in image[Leader] : m.last + 1 >= first[Leader]
        BY <1>1, <3>2 DEF Snaps
      <4>2. m.last \in Nat /\ m.last < b.last
        BY <1>1, <2>3 DEF NodeTyped, MetaRec
      <4> QED BY <1>2, <1>3, <1>8, <4>1, <4>2
    <3> QED BY <3>1, <3>2
  <2>6. \E k \in b.last .. top'[Leader] : b.member = At("member", k)'
    <3>1. n \notin torn /\ job[n].op # "install"
      BY <1>1, <1>2, <1>10 DEF NodeTyped, NoJob
    <3>2. PartIs(Of("member", data[n], member[n]), "member", applied[n], Done(n), top[n])
      BY <3>1, SoundNow DEF Part
    <3>3. PICK k \in applied[n] .. top[n] : member[n] = At("member", k)
      BY <3>2 DEF PartIs, Of
    <3>4. At("member", k)' = At("member", k)
      BY <1>2 DEF At, MembershipAt
    <3> QED BY <1>2, <1>8, <1>10, <3>3, <3>4
  <2>7. Building(b)'
    BY <1>2, <1>3, <1>8, <1>10, <2>4, <2>5, <2>6 DEF Building
  <2> QED BY <1>8, <1>10, <2>2, <2>7 DEF Stored
<1> QED BY <1>4, <1>5, <1>6, <1>9, <1>10, BuilderStep

(* What is known of a build under way.                                     *)
LEMMA BuildNow ==
  ASSUME ReplicaInv, NEW n \in Node, build[n].step # "none"
  PROVE  /\ History /\ LogTyped /\ NodeTyped /\ Within /\ NodeInv(n) /\ BuildOK(n)
         /\ Leader \in Node /\ Stored /\ Snaps /\ job[n].op # "install"
         /\ n = Leader => Building(build[n]) /\ n \notin torn
         /\ build[n].step = "read" => build[n] \in ReadRec
         /\ build[n].step \in {"copied", "meta"} => build[n] \in CopiedRec
         /\ build[n].step \in {"built", "deleted"} => build[n] \in BuiltRec
<1>1. /\ History /\ LogTyped /\ NodeTyped /\ Within /\ NodeInv(n) /\ BuildOK(n) /\ JobOK(n)
      /\ Leader \in Node /\ Stored /\ Snaps
  BY LeaderAssumption DEF ReplicaInv, History, NodeInv, Stored
<1>2. build[n] # NoBuild
  BY DEF NoBuild
<1>3. job[n].op # "install"
  BY <1>1, <1>2, JobKinds
<1>4. n = Leader => Building(build[n]) /\ n \notin torn
  BY <1>1, <1>2 DEF Stored, NodeTyped
<1>5. /\ build[n].step = "read" => build[n] \in ReadRec
      /\ build[n].step \in {"copied", "meta"} => build[n] \in CopiedRec
      /\ build[n].step \in {"built", "deleted"} => build[n] \in BuiltRec
  BY <1>1, BuildKinds
<1> QED BY <1>1, <1>3, <1>4, <1>5

(* The builder copies the data, later than it read the index.              *)
LEMMA CheckpointStep ==
  ASSUME ReplicaInv, NEW n \in Node, create_checkpoint_archive(n)
  PROVE  ReplicaInv'
<1>1. /\ status[n] = "running" /\ build[n].step = "read"
      /\ build' = [build EXCEPT ![n] = [step |-> "copied", last |-> build[n].last,
                                        member |-> build[n].member, data |-> data[n],
                                        top |-> top[n]]]
      /\ UNCHANGED <<faults, offered, regranted, log, states, data, applied, member, first, end,
                     purged, meta, image, status, job, top, torn>>
  BY DEF create_checkpoint_archive, Running, diskVars
<1>2. /\ History /\ LogTyped /\ NodeTyped /\ Within /\ NodeInv(n) /\ Leader \in Node /\ Snaps
      /\ job[n].op # "install" /\ build[n] \in ReadRec
      /\ n = Leader => Building(build[n]) /\ n \notin torn
  BY <1>1, BuildNow
<1>3. /\ data[n] \in DataRec /\ top[n] \in Nat /\ top[n] <= Len(log) /\ first[Leader] \in Nat
      /\ build[n].last \in Nat /\ build[n].member \in Nat /\ applied[n] \in Nat
  BY <1>2 DEF NodeTyped, Within, ReadRec
<1>4. BuilderOf(n)
  <2>1. first'[Leader] >= first[Leader]
    BY <1>1, <1>3
  <2> QED BY <1>1, <1>2, <2>1 DEF BuilderOf
<1>5. NodeTyped'
  BY <1>1, <1>2 DEF NodeTyped
<1>6. Acts(n)
  BY <1>1, <1>2, <1>3 DEF Acts, Still, NodeTyped
<1>7. PICK b : b = [step |-> "copied", last |-> build[n].last, member |-> build[n].member,
                    data |-> data[n], top |-> top[n]]
  OBVIOUS
<1>8. /\ build'[n] = b /\ b \in CopiedRec /\ b.step = "copied" /\ b.last = build[n].last
      /\ b.member = build[n].member /\ b.data = data[n] /\ b.top = top[n]
  BY <1>1, <1>2, <1>3, <1>7 DEF NodeTyped, CopiedRec
<1>9. BuildOK(n)'
  BY <1>8 DEF BuildOK
<1>10. ASSUME n = Leader PROVE Stored'
  <2>1. LogTyped' /\ Grows
    BY <1>1, <1>2, SameHistory
  <2>2. Snaps'
    <3>1. \A m \in meta[Leader], d \in image[Leader] : SnapOK(Snap(m, d))'
      BY <1>2, <2>1, SnapsStay
    <3> QED BY <1>1, <1>2, <3>1 DEF Snaps
  <2>3. /\ 0 < b.last /\ b.last <= applied[n] /\ first[Leader] <= b.last + 1
        /\ b.member <= Len(log) /\ \E k \in b.last .. b.top : b.member = At("member", k)
        /\ \A d \in image[Leader] : d.of < b.last
    BY <1>1, <1>2, <1>8, <1>10 DEF Building, Older
  <2>4. Matches(b.last, b.top, b.data, b.member)
    <3>1. b.last <= b.top /\ applied[n] <= top[n]
      BY <1>2, <1>3, <1>8, <1>10, <2>3, SoundNow
    <3>2. \A x \in {"bucket", "object"} : \E k \in b.last .. b.top : b.data[x] = At(x, k)
      <4> SUFFICES ASSUME NEW x \in {"bucket", "object"}
                   PROVE  \E k \in b.last .. b.top : b.data[x] = At(x, k)
        OBVIOUS
      <4>1. PartIs(Of(x, data[n], member[n]), x, applied[n], Done(n), top[n])
        BY <1>2, <1>10, SoundNow DEF Part
      <4>2. PICK k \in applied[n] .. top[n] : data[n][x] = At(x, k)
        BY <4>1 DEF PartIs, Of
      <4>3. k \in b.last .. b.top
        BY <1>3, <1>8, <2>3, <4>2
      <4> QED BY <1>8, <4>2, <4>3
    <3> QED BY <2>3, <3>1, <3>2 DEF Matches, Of, Part
  <2>5. Matches(b.last, b.top, b.data, b.member)'
    BY <1>2, <1>3, <1>8, <2>1, <2>4, MatchesStays
  <2>6. Older(b)'
    BY <1>1, <2>3 DEF Older
  <2>7. Building(b)'
    BY <1>1, <1>3, <1>8, <1>10, <2>3, <2>5, <2>6 DEF Building
  <2> QED BY <1>8, <1>10, <2>2, <2>7 DEF Stored
<1> QED BY <1>4, <1>5, <1>6, <1>9, <1>10, BuilderStep

(* The builder stores the metadata of its snapshot.                        *)
LEMMA PutMetaStep ==
  ASSUME ReplicaInv, NEW n \in Node, PutMeta(n)
  PROVE  ReplicaInv'
<1>1. /\ status[n] = "running" /\ build[n].step = "copied"
      /\ meta' = [meta EXCEPT ![n] = {[last |-> build[n].last, member |-> build[n].member]}]
      /\ build' = [build EXCEPT ![n].step = "meta"]
      /\ UNCHANGED <<faults, offered, regranted, log, states, data, applied, member, first, end,
                     purged, image, status, job, top, torn>>
  BY DEF PutMeta, Running
<1>2. /\ History /\ LogTyped /\ NodeTyped /\ Within /\ NodeInv(n) /\ Leader \in Node /\ Snaps
      /\ job[n].op # "install" /\ build[n] \in CopiedRec
      /\ n = Leader => Building(build[n]) /\ n \notin torn
  BY <1>1, BuildNow
<1>3. /\ build[n].last \in Nat /\ build[n].member \in Nat /\ build[n].top \in Nat
      /\ applied[n] \in Nat /\ applied[n] <= Len(log) /\ Len(log) \in Nat /\ first[Leader] \in Nat
      /\ [last |-> build[n].last, member |-> build[n].member] \in MetaRec
  BY <1>2 DEF NodeTyped, Within, LogTyped, CopiedRec, MetaRec
<1>4. BuilderOf(n)
  <2>1. first'[Leader] >= first[Leader]
    BY <1>1, <1>3
  <2> QED BY <1>1, <1>2, <2>1 DEF BuilderOf
<1>5. NodeTyped'
  BY <1>1, <1>2, <1>3 DEF NodeTyped
<1>6. Acts(n)
  <2>1. \A q \in Node \ {n} : meta'[q] = meta[q] /\ build'[q] = build[q]
    BY <1>1, <1>2 DEF NodeTyped
  <2>2. first'[Leader] >= first[Leader]
    BY <1>1, <1>3
  <2> QED BY <1>1, <2>1, <2>2 DEF Acts, Still
<1>7. PICK b : b = [build[n] EXCEPT !.step = "meta"]
  OBVIOUS
<1>8. /\ build'[n] = b /\ b \in CopiedRec /\ b.step = "meta" /\ b.last = build[n].last
      /\ b.member = build[n].member /\ b.data = build[n].data /\ b.top = build[n].top
      /\ meta'[n] = {[last |-> b.last, member |-> b.member]}
  <2>1. build'[n] = b
    BY <1>1, <1>2, <1>7 DEF NodeTyped
  <2>2. /\ b \in CopiedRec /\ b.step = "meta" /\ b.last = build[n].last
        /\ b.member = build[n].member /\ b.data = build[n].data /\ b.top = build[n].top
    BY <1>2, <1>7 DEF CopiedRec
  <2>3. meta'[n] = {[last |-> b.last, member |-> b.member]}
    BY <1>1, <1>2, <2>2 DEF NodeTyped
  <2> QED BY <2>1, <2>2, <2>3
<1>9. BuildOK(n)'
  BY <1>8 DEF BuildOK
<1>10. ASSUME n = Leader PROVE Stored'
  <2>1. LogTyped' /\ Grows
    BY <1>1, <1>2, SameHistory
  <2>2. /\ 0 < b.last /\ b.last <= applied[n] /\ first[Leader] <= b.last + 1
        /\ b.member <= Len(log) /\ b.top <= Len(log)
        /\ Matches(b.last, b.top, b.data, b.member)
        /\ \A d \in image[Leader] : d.of < b.last
    BY <1>1, <1>2, <1>8, <1>10 DEF Building, Older
  <2>3. \A m \in meta'[Leader], d \in image'[Leader] : SnapOK(Snap(m, d))'
    <3> SUFFICES ASSUME NEW m \in meta'[Leader], NEW d \in image'[Leader] PROVE SnapOK(Snap(m, d))'
      OBVIOUS
    <3>1. m = [last |-> b.last, member |-> b.member] /\ d \in image[Leader]
      BY <1>1, <1>8, <1>10
    <3>2. d.top <= Len(log) /\ d.of < b.last /\ d.of \in Nat
      <4>1. PICK q \in meta[Leader] : SnapOK(Snap(q, d))
        BY <1>2, <3>1 DEF Snaps
      <4> QED BY <1>2, <2>2, <3>1, <4>1 DEF SnapOK, Snap, NodeTyped, ImageRec
    <3>3. PICK s : s = Snap(m, d)
      OBVIOUS
    <3>4. /\ s.of = d.of /\ s.last = b.last /\ s.member = b.member /\ s.top = d.top
      BY <3>1, <3>3 DEF Snap
    <3>5. SnapOK(s)'
      <4>1. s.of <= s.last /\ s.of # s.last /\ s.last <= Len(log)
        BY <1>3, <1>8, <2>2, <3>2, <3>4
      <4> QED BY <1>1, <2>2, <3>2, <3>4, <4>1 DEF SnapOK
    <3> QED BY <3>3, <3>5 DEF Snap
  <2>4. Snaps'
    <3>1. meta'[Leader] # {} /\ image'[Leader] = image[Leader] /\ first'[Leader] = first[Leader]
      BY <1>1, <1>8, <1>10
    <3>2. \A m \in meta'[Leader] : m.last + 1 >= first[Leader]
      BY <1>3, <1>8, <1>10, <2>2
    <3> QED BY <1>2, <2>3, <3>1, <3>2 DEF Snaps
  <2>5. Matches(b.last, b.top, b.data, b.member)'
    BY <1>2, <1>3, <1>8, <2>1, <2>2, MatchesStays
  <2>6. Older(b)'
    BY <1>1, <2>2 DEF Older
  <2>7. Building(b)'
    BY <1>1, <1>3, <1>8, <1>10, <2>2, <2>5, <2>6 DEF Building
  <2> QED BY <1>8, <1>10, <2>4, <2>7 DEF Stored
<1> QED BY <1>4, <1>5, <1>6, <1>9, <1>10, BuilderStep

(* The builder stores the data of its snapshot.                            *)
LEMMA PutDataStep ==
  ASSUME ReplicaInv, NEW n \in Node, PutData(n)
  PROVE  ReplicaInv'
<1> DEFINE c == build[n]
<1>1. /\ status[n] = "running" /\ c.step = "meta"
      /\ image' = [image EXCEPT ![n] = {[of |-> c.last, data |-> c.data, top |-> c.top]}]
      /\ build' = [build EXCEPT ![n] = [step |-> "built", last |-> c.last]]
      /\ UNCHANGED <<faults, offered, regranted, log, states, data, applied, member, first, end,
                     purged, meta, status, job, top, torn>>
  BY DEF PutData, Running
<1>2. /\ History /\ LogTyped /\ NodeTyped /\ Within /\ NodeInv(n) /\ Leader \in Node /\ Snaps
      /\ job[n].op # "install" /\ c \in CopiedRec
      /\ n = Leader => Building(c) /\ n \notin torn
  BY <1>1, BuildNow
<1>3. /\ c.last \in Nat /\ c.member \in Nat /\ c.top \in Nat /\ c.data \in DataRec
      /\ applied[n] \in Nat /\ applied[n] <= Len(log) /\ Len(log) \in Nat /\ first[Leader] \in Nat
      /\ [of |-> c.last, data |-> c.data, top |-> c.top] \in ImageRec
  BY <1>2 DEF NodeTyped, Within, LogTyped, CopiedRec, ImageRec
<1>4. BuilderOf(n)
  <2>1. first'[Leader] >= first[Leader]
    BY <1>1, <1>3
  <2> QED BY <1>1, <1>2, <2>1 DEF BuilderOf
<1>5. NodeTyped'
  BY <1>1, <1>2, <1>3 DEF NodeTyped
<1>6. Acts(n)
  BY <1>1, <1>2, <1>3 DEF Acts, Still, NodeTyped
<1>7. PICK b, d : b = [step |-> "built", last |-> c.last]
                  /\ d = [of |-> c.last, data |-> c.data, top |-> c.top]
  OBVIOUS
<1>8. /\ build'[n] = b /\ b \in BuiltRec /\ b.step = "built" /\ b.last = c.last
      /\ image'[n] = {d}
  BY <1>1, <1>2, <1>3, <1>7 DEF NodeTyped, BuiltRec
<1>9. BuildOK(n)'
  BY <1>8 DEF BuildOK
<1>10. ASSUME n = Leader PROVE Stored'
  <2>1. LogTyped' /\ Grows
    BY <1>1, <1>2, SameHistory
  <2>2. /\ 0 < c.last /\ c.last <= applied[n] /\ first[Leader] <= c.last + 1
        /\ c.member <= Len(log) /\ c.top <= Len(log)
        /\ Matches(c.last, c.top, c.data, c.member)
        /\ meta[Leader] = {[last |-> c.last, member |-> c.member]}
    BY <1>1, <1>2, <1>10 DEF Building
  <2>3. PICK m : m = [last |-> c.last, member |-> c.member]
    OBVIOUS
  <2>4. meta'[Leader] = {m} /\ image'[Leader] = {d} /\ first'[Leader] = first[Leader]
    BY <1>1, <1>8, <1>10, <2>2, <2>3
  <2>5. SnapOK(Snap(m, d))'
    <3>1. PICK s : s = Snap(m, d)
      OBVIOUS
    <3>2. /\ s.of = c.last /\ s.last = c.last /\ s.member = c.member /\ s.top = c.top
          /\ s.data = c.data
      BY <1>7, <2>3, <3>1 DEF Snap
    <3>3. s \in SnapRec
      BY <1>3, <1>7, <2>3, <3>1 DEF Snap, SnapRec
    <3>4. SnapOK(s)
      <4>1. s.of <= s.last /\ s.last <= Len(log)
        BY <1>3, <2>2, <3>2
      <4> QED BY <2>2, <3>2, <4>1 DEF SnapOK
    <3>5. SnapOK(s)'
      BY <1>2, <2>1, <3>3, <3>4, SnapStays
    <3> QED BY <3>1, <3>5 DEF Snap
  <2>6. Snaps'
    <3>1. m.last + 1 >= first[Leader]
      BY <1>3, <2>2, <2>3
    <3> QED BY <2>4, <2>5, <3>1 DEF Snaps
  <2>7. Building(b)'
    BY <1>1, <1>3, <1>8, <1>10, <2>2, <2>3, <2>4 DEF Building
  <2> QED BY <1>8, <1>10, <2>6, <2>7 DEF Stored
<1> QED BY <1>4, <1>5, <1>6, <1>9, <1>10, BuilderStep

(* The entries the snapshot covers are deleted.                            *)
LEMMA DeleteEntriesStep ==
  ASSUME ReplicaInv, NEW n \in Node, DeleteEntries(n)
  PROVE  ReplicaInv'
<1>1. /\ status[n] = "running" /\ build[n].step = "built"
      /\ first' = [first EXCEPT ![n] = MaxOf(first[n], build[n].last + 1)]
      /\ build' = [build EXCEPT ![n].step = "deleted"]
      /\ UNCHANGED <<faults, offered, regranted, log, states, data, applied, member, end, purged,
                     meta, image, status, job, top, torn>>
  BY DEF DeleteEntries, Running
<1>2. /\ History /\ LogTyped /\ NodeTyped /\ Within /\ NodeInv(n) /\ Leader \in Node /\ Snaps
      /\ job[n].op # "install" /\ build[n] \in BuiltRec
      /\ n = Leader => Building(build[n]) /\ n \notin torn
  BY <1>1, BuildNow
<1>3. /\ build[n].last \in Nat /\ applied[n] \in Nat /\ first[Leader] \in Nat /\ first[n] \in Nat
  BY <1>2 DEF NodeTyped, BuiltRec
<1>4. MaxOf(first[n], build[n].last + 1) \in Nat /\ MaxOf(first[n], build[n].last + 1) >= first[n]
  BY <1>3 DEF MaxOf
<1>5. first'[n] = MaxOf(first[n], build[n].last + 1) /\ (n # Leader => first'[Leader] = first[Leader])
  BY <1>1, <1>2 DEF NodeTyped
<1>6. first'[Leader] >= first[Leader]
  BY <1>3, <1>4, <1>5
<1>7. BuilderOf(n)
  BY <1>1, <1>2, <1>6 DEF BuilderOf
<1>8. NodeTyped'
  BY <1>1, <1>2, <1>4 DEF NodeTyped
<1>9. Acts(n)
  BY <1>1, <1>2, <1>6 DEF Acts, Still, NodeTyped
<1>10. PICK b : b = [build[n] EXCEPT !.step = "deleted"]
  OBVIOUS
<1>11. build'[n] = b /\ b \in BuiltRec /\ b.step = "deleted" /\ b.last = build[n].last
  BY <1>1, <1>2, <1>10 DEF NodeTyped, BuiltRec
<1>12. BuildOK(n)'
  BY <1>11 DEF BuildOK
<1>13. ASSUME n = Leader PROVE Stored'
  <2>1. LogTyped' /\ Grows
    BY <1>1, <1>2, SameHistory
  <2>2. /\ 0 < b.last /\ b.last <= applied[n] /\ first[Leader] <= b.last + 1
        /\ \A m \in meta[Leader] : m.last = b.last
        /\ meta[Leader] # {} /\ image[Leader] # {}
    BY <1>1, <1>2, <1>11, <1>13 DEF Building
  <2>3. first'[Leader] = b.last + 1
    BY <1>3, <1>5, <1>11, <1>13, <2>2 DEF MaxOf
  <2>4. Snaps'
    <3>1. \A m \in meta[Leader], d \in image[Leader] : SnapOK(Snap(m, d))'
      BY <1>2, <2>1, SnapsStay
    <3>2. \A m \in meta[Leader] : m.last + 1 >= first'[Leader]
      BY <1>3, <1>11, <2>2, <2>3
    <3> QED BY <1>1, <2>2, <3>1, <3>2 DEF Snaps
  <2>5. Building(b)'
    BY <1>1, <1>3, <1>11, <1>13, <2>2, <2>3 DEF Building
  <2> QED BY <1>11, <1>13, <2>4, <2>5 DEF Stored
<1> QED BY <1>7, <1>8, <1>9, <1>12, <1>13, BuilderStep

(* The index they were purged to is written.                               *)
LEMMA WritePurgedStep ==
  ASSUME ReplicaInv, NEW n \in Node, WritePurged(n)
  PROVE  ReplicaInv'
<1>1. /\ status[n] = "running" /\ build[n].step = "deleted"
      /\ purged' = [purged EXCEPT ![n] = MaxOf(purged[n], build[n].last)]
      /\ build' = [build EXCEPT ![n] = NoBuild]
      /\ UNCHANGED <<faults, offered, regranted, log, states, data, applied, member, first, end, meta,
                     image, status, job, top, torn>>
  BY DEF WritePurged, Running
<1>2. /\ History /\ LogTyped /\ NodeTyped /\ Within /\ NodeInv(n) /\ Leader \in Node /\ Stored
      /\ job[n].op # "install" /\ build[n] \in BuiltRec
  BY <1>1, BuildNow
<1>3. /\ build[n].last \in Nat /\ applied[Leader] \in Nat /\ first[Leader] \in Nat
      /\ purged[n] \in Nat /\ top[Leader] \in Nat
  BY <1>2 DEF NodeTyped, BuiltRec
<1>4. MaxOf(purged[n], build[n].last) \in Nat
      /\ (MaxOf(purged[n], build[n].last) = 0 => purged[n] = 0)
  BY <1>3 DEF MaxOf
<1>5. purged'[n] = MaxOf(purged[n], build[n].last) /\ build'[n] = NoBuild
  BY <1>1, <1>2 DEF NodeTyped
<1>6. BuilderOf(n)
  <2>1. first'[Leader] >= first[Leader]
    BY <1>1, <1>3
  <2> QED BY <1>1, <1>2, <1>4, <1>5, <2>1 DEF BuilderOf
<1>7. NodeTyped'
  BY <1>1, <1>2, <1>4 DEF NodeTyped
<1>8. Acts(n)
  BY <1>1, <1>2, <1>3 DEF Acts, Still, NodeTyped
<1>9. BuildOK(n)'
  BY <1>5 DEF BuildOK
<1>10. ASSUME n = Leader PROVE Stored'
  <2>1. LogTyped' /\ Grows
    BY <1>1, <1>2, SameHistory
  <2>2. applied'[Leader] >= applied[Leader] /\ top'[Leader] >= top[Leader]
    BY <1>1, <1>3
  <2>3. BuildOK(Leader)
    BY <1>2, <1>10 DEF NodeInv
  <2> QED BY <1>1, <1>2, <1>5, <1>7, <1>10, <2>1, <2>2, <2>3, StoredStays
<1> QED BY <1>6, <1>7, <1>8, <1>9, <1>10, BuilderStep
-----------------------------------------------------------------------------
(* An empty cluster satisfies the invariant.                               *)
LEMMA ReplicaInit ==
  ASSUME Init PROVE ReplicaInv
<1>1. /\ <<faults, offered>> \in Scenarios /\ log = <<>> /\ data = [n \in Node |-> Empty]
      /\ applied = [n \in Node |-> 0] /\ member = [n \in Node |-> 0]
      /\ first = [n \in Node |-> 1] /\ end = [n \in Node |-> 0] /\ purged = [n \in Node |-> 0]
      /\ meta = [n \in Node |-> {}] /\ image = [n \in Node |-> {}]
      /\ status = [n \in Node |-> "running"]
      /\ job = [n \in Node |-> NoJob] /\ build = [n \in Node |-> NoBuild]
      /\ states = <<Empty>> /\ top = [n \in Node |-> 0] /\ torn = {} /\ regranted = {}
  BY ScenariosAssumption DEF Init
<1>2. Empty \in DataRec /\ Leader \in Node /\ MaxLog \in Nat
  BY BoundsAssumption, LeaderAssumption DEF Empty, DataRec
<1>3. Len(log) = 0 /\ StateAt(0) = Empty
  BY <1>1, <1>2 DEF StateAt
<1>4. LogTyped
  BY <1>1, <1>2 DEF LogTyped
<1>5. Replays
  BY <1>3 DEF Replays
<1>6. Stays
  <2>1. \A a, b \in 0 .. Len(log) : a = b
    BY <1>3
  <2>2. \A a \in 0 .. Len(log), x \in Part : At(x, a) = At(x, a)
    OBVIOUS
  <2> SUFFICES ASSUME NEW a \in 0 .. Len(log), NEW b \in 0 .. Len(log), a <= b
               PROVE  \A x \in Part : Untouched(x, a, b) => At(x, a) = At(x, b)
    BY DEF Stays
  <2>3. a = b
    BY <2>1
  <2> QED BY <2>3
<1>7. NodeTyped
  BY <1>1, <1>2 DEF NodeTyped
<1>8. Within
  BY <1>1, <1>2, <1>3 DEF Within
<1>9. Stored
  BY <1>1, <1>2 DEF Stored, Snaps
<1>10. ASSUME NEW n \in Node PROVE NodeInv(n)
  <2>1. /\ applied[n] = 0 /\ member[n] = 0 /\ top[n] = 0 /\ data[n] = Empty
        /\ job[n] = NoJob /\ build[n] = NoBuild /\ status[n] = "running"
    BY <1>1
  <2>2. JobOK(n) /\ BuildOK(n) /\ Idle(n) /\ Stops(n)
    BY <2>1 DEF JobOK, BuildOK, Idle, Stops
  <2>3. Done(n) = 0
    BY <2>1 DEF Done, NoJob
  <2>4. \A x \in Part : PartSound(n, x)
    <3>1. MembershipAt(0) = 0
      <4>1. Changes(log, 0) = {}
        BY DEF Changes
      <4> QED BY <4>1, MembershipLast DEF LastIn
    <3>2. \A x \in Part : Of(x, data[n], member[n]) = At(x, 0)
      BY <1>3, <2>1, <3>1 DEF Of, At
    <3> QED BY <2>1, <2>3, <3>2 DEF PartSound, PartIs
  <2>5. LockSound(n)
    BY <1>3, <2>1, <2>3 DEF LockSound, LockIs
  <2> QED BY <2>1, <2>2, <2>3, <2>4, <2>5 DEF NodeInv, Sound
<1>11. Exclusive
  BY <1>3 DEF Exclusive, Compatible, Empty
<1> QED BY <1>4, <1>5, <1>6, <1>7, <1>8, <1>9, <1>10, <1>11 DEF ReplicaInv, History

(* A step that changes nothing keeps the invariant.                        *)
LEMMA ReplicaStutters ==
  ASSUME ReplicaInv, UNCHANGED vars
  PROVE  ReplicaInv'
<1>1. /\ UNCHANGED <<faults, offered, regranted, log, states, data, applied, member, first, end,
                     purged, meta, image>>
      /\ UNCHANGED <<status, job, build, top, torn>>
  BY DEF vars
<1>2. Leader \in Node /\ NodeTyped /\ Within /\ History /\ LogTyped /\ NodeInv(Leader)
  BY LeaderAssumption DEF ReplicaInv, History
<1>3. NodeTyped' /\ Within'
  <2>1. NodeTyped'
    BY <1>1, <1>2 DEF NodeTyped
  <2>2. Within'
    BY <1>1, <1>2 DEF Within
  <2> QED BY <2>1, <2>2
<1>4. \A m \in Node : Acts(m)
  BY <1>1, <1>2 DEF Acts, Still, NodeTyped
<1>5. History' /\ LogTyped' /\ Grows
  BY <1>1, <1>2, SameHistory
<1>6. NodeInv(Leader)'
  <2>1. first'[Leader] >= first[Leader] /\ end'[Leader] >= end[Leader]
    BY <1>1, <1>2 DEF NodeTyped
  <2>2. JobOK(Leader)'
    BY <1>1, <1>2, <1>3, <1>5, <2>1, JobStays DEF NodeInv
  <2>3. BuildOK(Leader)' /\ Idle(Leader)' /\ Stops(Leader)'
    BY <1>1, <1>2, <1>5, StopsStay DEF NodeInv, BuildOK, Idle
  <2>4. LockSafe(Leader)' => LockSafe(Leader)
    BY <1>1 DEF LockSafe, Uncopied
  <2>5. Done(Leader)' = Done(Leader)
    BY <1>1 DEF Done
  <2>6. Leader \notin torn' /\ job'[Leader].op # "install" => Sound(Leader)'
    BY <1>1, <1>2, <1>5, <2>4, <2>5, SoundStays DEF NodeInv
  <2> QED BY <2>2, <2>3, <2>6 DEF NodeInv
<1>7. applied'[Leader] >= applied[Leader] /\ top'[Leader] >= top[Leader]
  BY <1>1, <1>2 DEF NodeTyped
<1> QED BY <1>1, <1>2, <1>3, <1>4, <1>6, <1>7, Quiet

(* Batches, snapshots and crashes keep every replica sound: what is on its *)
(* disk is explained by the log from last_applied_log_id to the last       *)
(* command its data has seen.                                              *)
THEOREM ReplicaInductive == Spec => []ReplicaInv
<1>1. Init => ReplicaInv
  BY ReplicaInit
<1>2. ReplicaInv /\ [Next]_vars => ReplicaInv'
  <2> SUFFICES ASSUME ReplicaInv, [Next]_vars PROVE ReplicaInv'
    OBVIOUS
  <2>1. ASSUME NEW c \in offered, Write(c) PROVE ReplicaInv'
    BY <2>1, WriteStep
  <2>2. ASSUME NEW n \in Node, Replicate(n) PROVE ReplicaInv'
    BY <2>2, ReplicateStep
  <2>3. ASSUME NEW n \in Node, Apply(n) PROVE ReplicaInv'
    BY <2>3, StartBatchStep, ApplyOneStep, ApplyFailStep, EndBatchStep DEF Apply
  <2>4. ASSUME NEW n \in Node, Build(n) PROVE ReplicaInv'
    BY <2>4, ReadAppliedStateStep, CheckpointStep, PutMetaStep, PutDataStep, DeleteEntriesStep,
       WritePurgedStep DEF Build
  <2>5. ASSUME NEW n \in Node, SendSnapshot(n) PROVE ReplicaInv'
    BY <2>5, SendSnapshotStep
  <2>6. ASSUME NEW n \in Node, Install(n) PROVE ReplicaInv'
    BY <2>6, DeleteKeysStep, CopyKeysStep, WriteAppliedStep, WriteMembershipStep,
       WriteSnapshotStep, WriteImageStep, PurgeInstalledStep DEF Install
  <2>7. ASSUME NEW n \in Node, Crash(n) PROVE ReplicaInv'
    BY <2>7, CrashStep
  <2>8. ASSUME NEW n \in Node, Restart(n) PROVE ReplicaInv'
    BY <2>8, RestartStep
  <2>9. ASSUME NEW n \in Node, clear_raft_state(n) PROVE ReplicaInv'
    BY <2>9, ClearStep
  <2>10. CASE UNCHANGED vars
    BY <2>10, ReplicaStutters
  <2> QED BY <2>1, <2>2, <2>3, <2>4, <2>5, <2>6, <2>7, <2>8, <2>9, <2>10 DEF Next
<1> QED BY <1>1, <1>2, PTL DEF Spec

-----------------------------------------------------------------------------
(* The window of the log of the others stays.                              *)
Elsewhere(m) ==
  \A q \in Node \ {m} :
    /\ first'[q] = first[q] /\ end'[q] = end[q] /\ purged'[q] = purged[q]
    /\ applied'[q] = applied[q] /\ status'[q] = status[q]
    /\ job'[q] = job[q] /\ build'[q] = build[q]

(* A step of one replica leaves the windows of the others alone.           *)
LEMMA WindowStep ==
  ASSUME WindowInv, NEW n \in Node, Elsewhere(n), Window(n)'
  PROVE  WindowInv'
<1> SUFFICES ASSUME NEW q \in Node, q # n PROVE Window(q)'
  BY DEF WindowInv
<1>1. /\ first'[q] = first[q] /\ end'[q] = end[q] /\ purged'[q] = purged[q]
      /\ applied'[q] = applied[q] /\ status'[q] = status[q]
      /\ job'[q] = job[q] /\ build'[q] = build[q]
  BY DEF Elsewhere
<1> QED BY <1>1 DEF WindowInv, Window, Running

(* Batches.                                                                *)
LEMMA WindowApply ==
  ASSUME ReplicaInv, WindowInv, NEW n \in Node, Apply(n)
  PROVE  WindowInv'
<1>1. NodeTyped /\ JobOK(n) /\ Window(n)
  BY DEF ReplicaInv, NodeInv, WindowInv
<1>2. UNCHANGED <<first, end, purged>>
  BY DEF Apply, StartBatch, ApplyOne, EndBatch, diskVars
<1>3. CASE StartBatch(n)
  <2>1. UNCHANGED <<applied, status, build>> /\ job[n] = NoJob
        /\ \E k : job' = [job EXCEPT ![n] = k]
    BY <1>3 DEF StartBatch, diskVars
  <2>2. Elsewhere(n)
    BY <1>1, <1>2, <2>1 DEF Elsewhere, NodeTyped
  <2>3. Window(n)'
    BY <1>1, <1>2, <2>1 DEF Window, Running, NoJob
  <2> QED BY <2>2, <2>3, WindowStep
<1>4. CASE ApplyOne(n)
  <2>1. job[n].op = "apply" /\ applied' = applied
    BY <1>4 DEF ApplyOne
  <2>2. Elsewhere(n)
    BY <1>1, <1>2, <1>4 DEF ApplyOne, Elsewhere, NodeTyped
  <2>3. \/ status' = status /\ build' = build
        \/ status'[n] = "stopped" /\ build'[n] = NoBuild
    BY <1>1, <1>4 DEF ApplyOne, NodeTyped
  <2>4. Window(n)'
    <3>1. CASE status' = status /\ build' = build
      BY <1>1, <1>2, <2>1, <3>1 DEF Window, Running
    <3>2. CASE status'[n] = "stopped" /\ build'[n] = NoBuild
      BY <1>1, <1>2, <3>2 DEF Window, Running, NoBuild
    <3> QED BY <2>3, <3>1, <3>2
  <2> QED BY <2>2, <2>4, WindowStep
<1>5. CASE EndBatch(n)
  <2>1. job[n].op = "apply" /\ UNCHANGED <<status, build>>
        /\ applied' = [applied EXCEPT ![n] = job[n].upto] /\ job' = [job EXCEPT ![n] = NoJob]
    BY <1>5 DEF EndBatch
  <2>2. Elsewhere(n)
    BY <1>1, <1>2, <2>1 DEF Elsewhere, NodeTyped
  <2>3. applied'[n] = job[n].upto /\ job[n].upto <= end[n]
    BY <1>1, <2>1, JobKinds DEF NodeTyped
  <2>4. Window(n)'
    BY <1>1, <1>2, <2>1, <2>3 DEF Window
  <2> QED BY <2>2, <2>4, WindowStep
<1> QED BY <1>3, <1>4, <1>5 DEF Apply

(* Snapshots that are built.                                               *)
LEMMA WindowBuild ==
  ASSUME ReplicaInv, WindowInv, NEW n \in Node, Build(n)
  PROVE  WindowInv'
<1>1. NodeTyped /\ JobOK(n) /\ BuildOK(n) /\ Window(n)
  BY DEF ReplicaInv, NodeInv, WindowInv
<1>2. UNCHANGED <<end, applied, status, job>>
  BY DEF Build, ReadAppliedState, create_checkpoint_archive, PutMeta, PutData, DeleteEntries,
         WritePurged, diskVars
<1>3. applied[n] \in Nat /\ end[n] \in Nat /\ first[n] \in Nat /\ purged[n] \in Nat
  BY <1>1 DEF NodeTyped
<1>4. CASE ReadAppliedState(n)
  <2>1. /\ UNCHANGED <<first, purged>> /\ job[n].op # "install" /\ Running(n)
        /\ build' = [build EXCEPT ![n] = [step |-> "read", last |-> applied[n], member |-> member[n]]]
    BY <1>4 DEF ReadAppliedState, diskVars, NoJob
  <2>2. Elsewhere(n)
    BY <1>1, <1>2, <2>1 DEF Elsewhere, NodeTyped
  <2>3. build'[n].step = "read" /\ build'[n].last = applied[n]
    BY <1>1, <2>1 DEF NodeTyped
  <2>4. Window(n)'
    BY <1>1, <1>2, <2>1, <2>3 DEF Window, Running
  <2> QED BY <2>2, <2>4, WindowStep
<1>5. CASE create_checkpoint_archive(n)
  <2>1. /\ UNCHANGED <<first, purged>> /\ build[n].step = "read"
        /\ build' = [build EXCEPT ![n] = [step |-> "copied", last |-> build[n].last,
                                          member |-> build[n].member, data |-> data[n],
                                          top |-> top[n]]]
    BY <1>5 DEF create_checkpoint_archive, diskVars
  <2>2. Elsewhere(n)
    BY <1>1, <1>2, <2>1 DEF Elsewhere, NodeTyped
  <2>3. build'[n].step = "copied" /\ build'[n].last = build[n].last /\ build[n] # NoBuild
    BY <1>1, <2>1 DEF NodeTyped, NoBuild
  <2>4. Window(n)'
    BY <1>1, <1>2, <2>1, <2>3 DEF Window, Running
  <2> QED BY <2>2, <2>4, WindowStep
<1>6. CASE PutMeta(n)
  <2>1. /\ UNCHANGED <<first, purged>> /\ build[n].step = "copied"
        /\ build' = [build EXCEPT ![n].step = "meta"]
    BY <1>6 DEF PutMeta
  <2>2. Elsewhere(n)
    BY <1>1, <1>2, <2>1 DEF Elsewhere, NodeTyped
  <2>3. build[n] \in CopiedRec /\ build'[n] = [build[n] EXCEPT !.step = "meta"]
    BY <1>1, <2>1, BuildKinds DEF NodeTyped
  <2>4. build'[n].step = "meta" /\ build'[n].last = build[n].last /\ build[n] # NoBuild
    BY <2>1, <2>3 DEF CopiedRec, NoBuild
  <2>5. Window(n)'
    BY <1>1, <1>2, <2>1, <2>4 DEF Window, Running
  <2> QED BY <2>2, <2>5, WindowStep
<1>7. CASE PutData(n)
  <2>1. /\ UNCHANGED <<first, purged>> /\ build[n].step = "meta"
        /\ build' = [build EXCEPT ![n] = [step |-> "built", last |-> build[n].last]]
    BY <1>7 DEF PutData
  <2>2. Elsewhere(n)
    BY <1>1, <1>2, <2>1 DEF Elsewhere, NodeTyped
  <2>3. build'[n].step = "built" /\ build'[n].last = build[n].last /\ build[n] # NoBuild
    BY <1>1, <2>1 DEF NodeTyped, NoBuild
  <2>4. Window(n)'
    BY <1>1, <1>2, <2>1, <2>3 DEF Window, Running
  <2> QED BY <2>2, <2>4, WindowStep
<1>8. CASE DeleteEntries(n)
  <2>1. /\ UNCHANGED purged /\ build[n].step = "built"
        /\ first' = [first EXCEPT ![n] = MaxOf(first[n], build[n].last + 1)]
        /\ build' = [build EXCEPT ![n].step = "deleted"]
    BY <1>8 DEF DeleteEntries
  <2>2. Elsewhere(n)
    BY <1>1, <1>2, <2>1 DEF Elsewhere, NodeTyped
  <2>3. build[n] \in BuiltRec /\ build'[n] = [build[n] EXCEPT !.step = "deleted"]
        /\ first'[n] = MaxOf(first[n], build[n].last + 1)
    BY <1>1, <2>1, BuildKinds DEF NodeTyped
  <2>4. build'[n].step = "deleted" /\ build'[n].last = build[n].last /\ build[n] # NoBuild
        /\ build[n].last \in Nat
    BY <2>1, <2>3 DEF BuiltRec, NoBuild
  <2>5. purged[n] < first'[n] /\ first'[n] <= end[n] + 1 /\ build[n].last < first'[n]
    BY <1>1, <1>3, <2>3, <2>4 DEF Window, MaxOf
  <2>6. Window(n)'
    BY <1>1, <1>2, <2>1, <2>4, <2>5 DEF Window, Running
  <2> QED BY <2>2, <2>6, WindowStep
<1>9. CASE WritePurged(n)
  <2>1. /\ UNCHANGED first /\ build[n].step = "deleted"
        /\ purged' = [purged EXCEPT ![n] = MaxOf(purged[n], build[n].last)]
        /\ build' = [build EXCEPT ![n] = NoBuild]
    BY <1>9 DEF WritePurged
  <2>2. Elsewhere(n)
    BY <1>1, <1>2, <2>1 DEF Elsewhere, NodeTyped
  <2>3. build'[n] = NoBuild /\ purged'[n] = MaxOf(purged[n], build[n].last)
        /\ build[n].last < first[n]
    BY <1>1, <2>1 DEF NodeTyped, Window
  <2>4. Window(n)'
    BY <1>1, <1>2, <2>1, <2>3 DEF Window, Running, NoBuild, MaxOf
  <2> QED BY <2>2, <2>4, WindowStep
<1> QED BY <1>4, <1>5, <1>6, <1>7, <1>8, <1>9 DEF Build

(* Snapshots that are installed.                                           *)
LEMMA WindowInstall ==
  ASSUME ReplicaInv, WindowInv, NEW n \in Node, Install(n)
  PROVE  WindowInv'
<1>1. NodeTyped /\ JobOK(n) /\ Window(n)
  BY DEF ReplicaInv, NodeInv, WindowInv
<1>2. CASE PurgeInstalled(n)
  <2>1. InstallStep(n, "purge", "done")
    BY <1>2 DEF PurgeInstalled
  <2>2. /\ job[n].step = "purge" /\ job[n].snap \in SnapRec /\ build[n] = NoBuild
        /\ Progress(n, job[n]) /\ UNCHANGED <<status, build>> /\ job' = [job EXCEPT ![n] = NoJob]
    BY <2>1, InstallNow
  <2>3. applied[n] = job[n].snap.last /\ job[n].snap.last \in Nat /\ end[n] \in Nat
    BY <1>1, <2>2 DEF Progress, SnapRec, NodeTyped
  <2>4. /\ first' = [first EXCEPT ![n] = job[n].snap.last + 1]
        /\ end' = [end EXCEPT ![n] = MaxOf(end[n], job[n].snap.last)]
        /\ purged' = [purged EXCEPT ![n] = job[n].snap.last] /\ applied' = applied
    BY <1>2 DEF PurgeInstalled
  <2>5. Elsewhere(n)
    BY <1>1, <2>2, <2>4 DEF Elsewhere, NodeTyped
  <2>6. first'[n] = job[n].snap.last + 1 /\ end'[n] = MaxOf(end[n], job[n].snap.last)
        /\ purged'[n] = job[n].snap.last
    BY <1>1, <2>4 DEF NodeTyped
  <2>7. purged'[n] < first'[n] /\ first'[n] <= end'[n] + 1 /\ applied'[n] <= end'[n]
    BY <2>3, <2>4, <2>6 DEF MaxOf
  <2>8. Window(n)'
    BY <2>2, <2>7 DEF Window, NoBuild
  <2> QED BY <2>5, <2>8, WindowStep
<1>3. CASE ~PurgeInstalled(n)
  <2>1. \E step, next \in Installing : InstallStep(n, step, next)
    BY <1>3 DEF Install, DeleteKeys, CopyKeys, WriteApplied, WriteMembership, WriteSnapshot,
                WriteImage, Installing
  <2>2. PICK step, next \in Installing : InstallStep(n, step, next)
    BY <2>1
  <2>3. /\ build[n] = NoBuild /\ UNCHANGED <<status, build>> /\ job[n] \in InstallRec
        /\ job' = [job EXCEPT ![n] = [@ EXCEPT !.step = next]]
    <3>1. next # "done"
      BY DEF Installing
    <3> QED BY <2>2, <3>1, InstallNow
  <2>4. job'[n] = [job[n] EXCEPT !.step = next] /\ job'[n].op = "install"
    BY <1>1, <2>3 DEF NodeTyped, InstallRec
  <2>5. UNCHANGED <<first, end, purged>> /\ \E k : applied' = [applied EXCEPT ![n] = k]
    <3>1. CASE WriteApplied(n)
      BY <3>1 DEF WriteApplied
    <3>2. CASE ~WriteApplied(n)
      <4>1. UNCHANGED <<first, end, purged, applied>>
        BY <1>3, <3>2 DEF Install, DeleteKeys, CopyKeys, WriteMembership, WriteSnapshot, WriteImage
      <4>2. applied' = [applied EXCEPT ![n] = applied[n]]
        BY <1>1, <4>1 DEF NodeTyped
      <4> QED BY <4>1, <4>2
    <3> QED BY <3>1, <3>2
  <2>6. Elsewhere(n)
    BY <1>1, <2>3, <2>5 DEF Elsewhere, NodeTyped
  <2>7. Window(n)'
    BY <1>1, <2>3, <2>4, <2>5 DEF Window, NoBuild
  <2> QED BY <2>6, <2>7, WindowStep
<1> QED BY <1>2, <1>3

(* Entries, messages and processes.                                        *)
LEMMA WindowRest ==
  ASSUME ReplicaInv, WindowInv, NEW n \in Node,
         \/ Replicate(n) \/ SendSnapshot(n) \/ Crash(n) \/ Restart(n) \/ clear_raft_state(n)
  PROVE  WindowInv'
<1>1. NodeTyped /\ JobOK(n) /\ Idle(n) /\ Window(n)
  BY DEF ReplicaInv, NodeInv, WindowInv
<1>2. applied[n] \in Nat /\ end[n] \in Nat /\ first[n] \in Nat /\ purged[n] \in Nat
  BY <1>1 DEF NodeTyped
<1>3. CASE Replicate(n)
  <2>1. end' = [end EXCEPT ![n] = @ + 1] /\ UNCHANGED <<first, purged, applied, status, job, build>>
    BY <1>3 DEF Replicate, taskVars
  <2>2. Elsewhere(n) /\ end'[n] = end[n] + 1
    BY <1>1, <2>1 DEF Elsewhere, NodeTyped
  <2>3. build[n] # NoBuild => build[n].last \in Nat
    BY DEF ReplicaInv, NodeInv, BuildOK, ReadRec, CopiedRec, BuiltRec
  <2>4. Window(n)'
    BY <1>1, <1>2, <2>1, <2>2, <2>3 DEF Window, Running
  <2> QED BY <2>2, <2>4, WindowStep
<1>4. CASE SendSnapshot(n)
  <2>1. /\ UNCHANGED <<first, end, purged, applied>> /\ job[n] = NoJob /\ build[n] = NoBuild
        /\ \/ /\ status' = [status EXCEPT ![n] = "stopped"]
              /\ build' = [build EXCEPT ![n] = NoBuild] /\ UNCHANGED job
           \/ /\ \E k : job' = [job EXCEPT ![n] = k]
              /\ UNCHANGED <<status, build>>
    BY <1>4 DEF SendSnapshot, diskVars
  <2>2. Elsewhere(n)
    BY <1>1, <2>1 DEF Elsewhere, NodeTyped
  <2>3. build'[n] = NoBuild /\ job[n].op = "none" /\ (status'[n] = "running" => Running(n))
    BY <1>1, <2>1 DEF NodeTyped, NoJob, Running
  <2>4. Window(n)'
    BY <1>1, <2>1, <2>3 DEF Window, NoBuild, Running
  <2> QED BY <2>2, <2>4, WindowStep
<1>5. CASE Crash(n)
  <2>1. /\ UNCHANGED <<first, end, purged, applied>> /\ status' = [status EXCEPT ![n] = "down"]
        /\ job' = [job EXCEPT ![n] = NoJob] /\ build' = [build EXCEPT ![n] = NoBuild]
    BY <1>5 DEF Crash, diskVars
  <2>2. Elsewhere(n) /\ status'[n] = "down" /\ build'[n] = NoBuild
    BY <1>1, <2>1 DEF Elsewhere, NodeTyped
  <2>3. Window(n)'
    BY <1>1, <2>1, <2>2 DEF Window, NoBuild, Running
  <2> QED BY <2>2, <2>3, WindowStep
<1>6. CASE Restart(n)
  <2>1. /\ status[n] = "down" /\ status' = [status EXCEPT ![n] = "running"]
        /\ first' = [first EXCEPT ![n] = last_applied_state(n).first]
        /\ end' = [end EXCEPT ![n] = last_applied_state(n).end]
        /\ purged' = [purged EXCEPT ![n] = last_applied_state(n).purged]
        /\ UNCHANGED <<applied, job, build>>
    BY <1>6 DEF Restart
  <2>2. Elsewhere(n)
    BY <1>1, <2>1 DEF Elsewhere, NodeTyped
  <2>3. first'[n] = last_applied_state(n).first /\ end'[n] = last_applied_state(n).end
        /\ purged'[n] = last_applied_state(n).purged /\ build[n] = NoBuild
    BY <1>1, <2>1 DEF NodeTyped, Idle
  <2>4. purged'[n] < first'[n] /\ first'[n] <= end'[n] + 1 /\ applied[n] <= end'[n]
    <3>1. CASE applied[n] > end[n]
      BY <1>2, <2>3, <3>1 DEF last_applied_state
    <3>2. CASE ~(applied[n] > end[n])
      BY <1>1, <1>2, <2>3, <3>2 DEF last_applied_state, Window
    <3> QED BY <3>1, <3>2
  <2>5. Window(n)'
    BY <2>1, <2>3, <2>4 DEF Window, NoBuild
  <2> QED BY <2>2, <2>5, WindowStep
<1>7. CASE clear_raft_state(n)
  <2>1. /\ status[n] = "down" /\ status' = [status EXCEPT ![n] = "running"]
        /\ applied' = [applied EXCEPT ![n] = 0]
        /\ first' = [first EXCEPT ![n] = 1] /\ end' = [end EXCEPT ![n] = 0]
        /\ purged' = [purged EXCEPT ![n] = 0] /\ UNCHANGED <<job, build>>
    BY <1>7 DEF clear_raft_state
  <2>2. Elsewhere(n) /\ first'[n] = 1 /\ end'[n] = 0 /\ purged'[n] = 0 /\ applied'[n] = 0
        /\ build[n] = NoBuild
    BY <1>1, <2>1 DEF Elsewhere, NodeTyped, Idle
  <2>3. Window(n)'
    BY <2>1, <2>2 DEF Window, NoBuild
  <2> QED BY <2>2, <2>3, WindowStep
<1> QED BY <1>3, <1>4, <1>5, <1>6, <1>7

(* A command is written at the end of the log of the leader.               *)
LEMMA WindowWrite ==
  ASSUME ReplicaInv, WindowInv, NEW c \in offered, Write(c)
  PROVE  WindowInv'
<1>1. NodeTyped /\ Within /\ LogTyped /\ Leader \in Node /\ Window(Leader) /\ BuildOK(Leader)
  BY LeaderAssumption DEF ReplicaInv, NodeInv, WindowInv, History
<1>2. end' = [end EXCEPT ![Leader] = Len(log) + 1]
      /\ UNCHANGED <<first, purged, applied, status, job, build>>
  BY DEF Write, taskVars
<1>3. Elsewhere(Leader) /\ end'[Leader] = Len(log) + 1
  BY <1>1, <1>2 DEF Elsewhere, NodeTyped
<1>4. /\ end[Leader] = Len(log) /\ Len(log) \in Nat /\ first[Leader] \in Nat
      /\ applied[Leader] \in Nat /\ (build[Leader] # NoBuild => build[Leader].last \in Nat)
  BY <1>1 DEF NodeTyped, Within, LogTyped, BuildOK, ReadRec, CopiedRec, BuiltRec
<1>5. Window(Leader)'
  BY <1>1, <1>2, <1>3, <1>4 DEF Window, Running
<1> QED BY <1>1, <1>3, <1>5, WindowStep

(* The log of a replica has no gap: it starts after what was purged, and   *)
(* it reaches to what a running replica has applied.                       *)
THEOREM WindowInductive == Spec => []WindowInv
<1>1. Init => WindowInv
  <2> SUFFICES ASSUME Init, NEW n \in Node PROVE Window(n)
    BY DEF WindowInv
  <2>1. first[n] = 1 /\ end[n] = 0 /\ purged[n] = 0 /\ applied[n] = 0 /\ build[n] = NoBuild
    BY DEF Init
  <2> QED BY <2>1 DEF Window, NoBuild
<1>2. ReplicaInv /\ WindowInv /\ [Next]_vars => WindowInv'
  <2> SUFFICES ASSUME ReplicaInv, WindowInv, [Next]_vars PROVE WindowInv'
    OBVIOUS
  <2>1. ASSUME NEW c \in offered, Write(c) PROVE WindowInv'
    BY <2>1, WindowWrite
  <2>2. ASSUME NEW n \in Node, Apply(n) PROVE WindowInv'
    BY <2>2, WindowApply
  <2>3. ASSUME NEW n \in Node, Build(n) PROVE WindowInv'
    BY <2>3, WindowBuild
  <2>4. ASSUME NEW n \in Node, Install(n) PROVE WindowInv'
    BY <2>4, WindowInstall
  <2>5. ASSUME NEW n \in Node,
               Replicate(n) \/ SendSnapshot(n) \/ Crash(n) \/ Restart(n) \/ clear_raft_state(n)
        PROVE  WindowInv'
    BY <2>5, WindowRest
  <2>6. CASE UNCHANGED vars
    BY <2>6 DEF vars, WindowInv, Window, Running
  <2> QED BY <2>1, <2>2, <2>3, <2>4, <2>5, <2>6 DEF Next
<1> QED BY <1>1, <1>2, ReplicaInductive, PTL DEF Spec

(* A replica that has nothing left to replay has the buckets, the objects, *)
(* the membership, and without an installed snapshot or an acquire that a  *)
(* replay granted the lock holders, that the commands up to                *)
(* last_applied_log_id make.                                               *)
THEOREM ReplicasAgree == Spec => []ReplicasConverge
<1>1. ReplicaInv /\ WindowInv => ReplicasConverge
  <2> SUFFICES ASSUME ReplicaInv, WindowInv, NEW n \in Node, Settled(n), n \notin torn
               PROVE  /\ data[n].bucket = StateAt(applied[n]).bucket
                      /\ data[n].object = StateAt(applied[n]).object
                      /\ member[n] = MembershipAt(applied[n])
                      /\ (n = Leader \/ purged[n] = 0) /\ n \notin regranted =>
                           data[n].lock = StateAt(applied[n]).lock
    BY DEF ReplicasConverge
  <2>1. job[n] = NoJob /\ job[n].op = "none" /\ applied[n] >= top[n]
    BY DEF Settled, NoJob
  <2>2. Done(n) = applied[n]
    BY <2>1 DEF Done
  <2>3. /\ applied[n] \in Nat /\ top[n] = applied[n] /\ applied[n] <= Len(log) /\ History
        /\ \A x \in Part : PartIs(Of(x, data[n], member[n]), x, applied[n], applied[n], applied[n])
        /\ LockSafe(n) => LockIs(data[n].lock, applied[n], applied[n])
        /\ data[n] \in DataRec
    <3>1. /\ applied[n] \in Nat /\ top[n] \in Nat /\ applied[n] <= Done(n) /\ Done(n) <= top[n]
          /\ top[n] <= Len(log) /\ History
      BY <2>1, SoundNow DEF ReplicaInv
    <3>2. top[n] = applied[n]
      BY <2>1, <2>2, <3>1
    <3> QED BY <2>1, <2>2, <3>1, <3>2, SoundNow
  <2>4. \A x \in Part : Of(x, data[n], member[n]) = At(x, applied[n])
    BY <2>3, PartNow
  <2>5. /\ data[n].bucket = StateAt(applied[n]).bucket
        /\ data[n].object = StateAt(applied[n]).object
        /\ member[n] = MembershipAt(applied[n])
    BY <2>4 DEF Part, Of, At
  <2>6. LockSafe(n) => data[n].lock = StateAt(applied[n]).lock
    <3>1. StateAt(applied[n]) \in DataRec /\ \A k \in applied[n] .. applied[n] : k = applied[n]
      BY <2>3 DEF History, LogTyped, StateAt
    <3>2. ASSUME LockSafe(n), NEW h \in Holder
          PROVE  h \in data[n].lock <=> h \in StateAt(applied[n]).lock
      BY <2>3, <3>1, <3>2 DEF LockIs
    <3> QED BY <2>3, <3>1, <3>2 DEF DataRec
  <2>7. (n = Leader \/ purged[n] = 0) /\ n \notin regranted => LockSafe(n)
    <3>1. end[n] \in Nat /\ applied[n] <= end[n]
      BY <2>1 DEF ReplicaInv, NodeTyped, WindowInv, Window, Settled
    <3>2. end[n] > 0 \/ top[n] = 0
      BY <2>3, <3>1
    <3> QED BY <3>2 DEF LockSafe, Uncopied
  <2> QED BY <2>5, <2>6, <2>7
<1> QED BY <1>1, ReplicaInductive, WindowInductive, PTL

(* A replica stops only at the second of two creates, whether it replays   *)
(* one or two requests passed the check together; or its data is torn, or  *)
(* the snapshot is larger than a chunk.                                    *)
THEOREM StopsOnSecondCreate == Spec => []StopsOnlyOnSecondCreate
<1>1. ReplicaInv => StopsOnlyOnSecondCreate
  BY DEF ReplicaInv, NodeInv, Stops, StopsOnlyOnSecondCreate
<1> QED BY <1>1, ReplicaInductive, PTL

(* What the leader has purged it can send as a snapshot.                   *)
THEOREM AlwaysReachable == Spec => []NothingUnreachable
<1>1. ReplicaInv => NothingUnreachable
  <2> SUFFICES ASSUME ReplicaInv, NEW n \in Node, first[Leader] > end[n] + 1
               PROVE  \E s \in get_current_snapshot(Leader) : s.last + 1 >= first[Leader]
    BY DEF NothingUnreachable
  <2>1. first[Leader] # 1 /\ Snaps
    BY LeaderAssumption DEF ReplicaInv, NodeTyped, Stored
  <2>2. PICK m \in meta[Leader], d \in image[Leader] : m.last + 1 >= first[Leader]
    BY <2>1 DEF Snaps
  <2>3. Snap(m, d) \in get_current_snapshot(Leader) /\ Snap(m, d).last = m.last
    BY DEF get_current_snapshot, Snap
  <2> QED BY <2>2, <2>3
<1> QED BY <1>1, ReplicaInductive, PTL
-----------------------------------------------------------------------------
(* The bounds of the crashes and of the snapshots a replica starts.        *)
Bounded == crashes \in 0 .. MaxCrashes /\ snapshots \in [Node -> 0 .. MaxSnapshots]

(* Only a crash and the start of a build count, below their bounds.        *)
LEMMA BoundedStep ==
  ASSUME Bounded, [Next]_vars
  PROVE  Bounded'
<1>0. MaxCrashes \in Nat /\ MaxSnapshots \in Nat
  BY BoundsAssumption
<1>1. CASE UNCHANGED <<crashes, snapshots>>
  BY <1>1 DEF Bounded
<1>2. ASSUME NEW n \in Node, Crash(n) PROVE Bounded'
  BY <1>0, <1>2 DEF Bounded, Crash
<1>3. ASSUME NEW n \in Node, ReadAppliedState(n) PROVE Bounded'
  <2>1. /\ snapshots' = [snapshots EXCEPT ![n] = @ + 1] /\ crashes' = crashes
        /\ snapshots[n] < MaxSnapshots
    BY <1>3 DEF ReadAppliedState
  <2>2. snapshots[n] + 1 \in 0 .. MaxSnapshots
    BY <1>0, <2>1 DEF Bounded
  <2> QED BY <2>1, <2>2 DEF Bounded
<1>4. ASSUME NEW c \in offered, Write(c) PROVE UNCHANGED <<crashes, snapshots>>
  BY <1>4 DEF Write
<1>5. ASSUME NEW n \in Node, Apply(n) PROVE UNCHANGED <<crashes, snapshots>>
  BY <1>5 DEF Apply, StartBatch, ApplyOne, EndBatch
<1>6. ASSUME NEW n \in Node, Build(n), ~ReadAppliedState(n) PROVE UNCHANGED <<crashes, snapshots>>
  BY <1>6 DEF Build, create_checkpoint_archive, PutMeta, PutData, DeleteEntries, WritePurged
<1>7. ASSUME NEW n \in Node, Install(n) PROVE UNCHANGED <<crashes, snapshots>>
  BY <1>7 DEF Install, InstallStep, DeleteKeys, CopyKeys, WriteApplied, WriteMembership,
              WriteSnapshot, WriteImage, PurgeInstalled
<1>8. ASSUME NEW n \in Node,
             Replicate(n) \/ SendSnapshot(n) \/ Restart(n) \/ clear_raft_state(n)
      PROVE  UNCHANGED <<crashes, snapshots>>
  BY <1>8 DEF Replicate, SendSnapshot, Restart, clear_raft_state
<1>9. CASE UNCHANGED vars
  BY <1>1, <1>9 DEF vars
<1> QED BY <1>1, <1>2, <1>3, <1>4, <1>5, <1>6, <1>7, <1>8, <1>9 DEF Next

(* Type correctness: every index stays within the log, a replica's log     *)
(* starts after what was purged, and the data keeps its type through every *)
(* batch, snapshot and crash.                                              *)
THEOREM ReplicaTypes == Spec => []TypeOK
<1>1. Init => Bounded
  BY BoundsAssumption DEF Init, Bounded
<1>2. Bounded /\ [Next]_vars => Bounded'
  BY BoundedStep
<1>3. ReplicaInv /\ WindowInv /\ Bounded => TypeOK
  <2> SUFFICES ASSUME ReplicaInv, WindowInv, Bounded PROVE TypeOK
    OBVIOUS
  <2>1. NodeTyped /\ Within /\ LogTyped
    BY DEF ReplicaInv, History
  <2>2. ASSUME NEW n \in Node
        PROVE  /\ {applied[n], member[n], purged[n], end[n], top[n]} \subseteq 0 .. Len(log)
               /\ first[n] \in 1 .. Len(log) + 1
               /\ purged[n] < first[n] /\ first[n] <= end[n] + 1
    <3>1. /\ applied[n] \in Nat /\ member[n] \in Nat /\ top[n] \in Nat /\ Len(log) \in Nat
          /\ first[n] \in Nat /\ end[n] \in Nat /\ purged[n] \in Nat
      BY <2>1 DEF NodeTyped, LogTyped
    <3>2. /\ applied[n] <= Len(log) /\ member[n] <= Len(log) /\ top[n] <= Len(log)
          /\ end[n] <= Len(log) /\ purged[n] < first[n] /\ first[n] <= end[n] + 1
      BY <2>1 DEF Within, WindowInv, Window
    <3> QED BY <3>1, <3>2
  <2>3. /\ <<faults, offered>> \in Scenarios /\ torn \subseteq Node /\ regranted \subseteq Node
        /\ status \in [Node -> {"running", "down", "stopped"}]
        /\ data \in [Node -> [bucket : BOOLEAN, object : 0 .. MaxLog, lock : SUBSET Holder]]
    BY <2>1 DEF NodeTyped, DataRec
  <2> QED BY <2>1, <2>2, <2>3 DEF TypeOK, LogTyped, Bounded
<1> QED BY <1>1, <1>2, <1>3, ReplicaInductive, WindowInductive, PTL DEF Spec
=============================================================================
