------------------------ MODULE Replication2PCProofs ------------------------
(***************************************************************************)
(* Proofs about Replication2PC for any set of nodes, any number of         *)
(* operations, any faults and any bounds.                                  *)
(***************************************************************************)
EXTENDS Replication2PC, FiniteSetTheorems, TLAPS

(* The calls an operation sends are well formed.                           *)
LEMMA CallsType ==
  ASSUME NEW type \in {"prepare", "commit", "abort", "delete"},
         NEW w \in Ops, NEW to \in SUBSET Nodes, NEW r \in Nat,
         NEW data \in Content, NEW tries \in 0..MaxRetries
  PROVE  Calls(type, w, to, r, data, tries) \subseteq Call
BY DEF Calls, Call

(* Every operation is coordinated by a node.                               *)
LEMMA CoordIsNode == TypeOK => \A w \in Ops : coord[w] \in Nodes
BY NodesAssumption DEF TypeOK

(* The replicas of an operation are other nodes than its coordinator.      *)
LEMMA ReplicasElsewhere ==
  ASSUME NEW c, NEW S \in select_replica_nodes(c)
  PROVE  S \subseteq Nodes \ {c}
BY DEF select_replica_nodes

(* The initial states have the right types.                                *)
LEMMA TypeInit == Init => TypeOK
BY FaultsAssumption DEF Init, TypeOK, Phase, Content, NoFile

(* The type invariant, for the steps of a coordinator.                     *)
LEMMA CoordinateType ==
  ASSUME TypeOK, NEW w \in Ops, Coordinate(w) \/ Cancel(w)
  PROVE  TypeOK'
<1> USE DEF TypeOK, Phase
<1>1. coord[w] \in Nodes /\ w \in Content /\ NoFile \in Content
  BY CoordIsNode DEF Content
<1>2. MaxRetries \in 0..MaxRetries /\ 0 \in 0..MaxRetries
  BY BoundsAssumption
<1>3. CASE StartPut(w)
  BY <1>1, <1>3 DEF StartPut, opVars, procVars
<1>4. CASE StartDelete(w)
  BY <1>1, <1>4 DEF StartDelete, opVars, fileVars, procVars
<1>5. CASE SendPrepares(w)
  <2>1. counter[coord[w]] \in Nat /\ temp[coord[w]] \in Content
    BY <1>1
  <2>2. PICK S \in select_replica_nodes(coord[w]) :
          /\ waiting' = [waiting EXCEPT ![w] = S]
          /\ net' = net \cup Calls("prepare", w, S, counter[coord[w]], temp[coord[w]], 0)
    BY <1>5 DEF SendPrepares
  <2>3. S \in SUBSET Nodes
    BY ReplicasElsewhere
  <2>4. net' \subseteq Call
    BY <1>2, <2>1, <2>2, <2>3, CallsType
  <2> QED BY <1>1, <1>5, <2>1, <2>2, <2>3, <2>4 DEF SendPrepares, opVars, fileVars, procVars
<1>6. CASE TempLost(w) \/ DeleteNotFound(w) \/ Ack(w)
  BY <1>6 DEF TempLost, DeleteNotFound, Ack, Fail, opVars, fileVars, procVars
<1>7. Calls("abort", w, prepared[w], rid[w], NoFile, MaxRetries) \subseteq Call
  BY <1>1, <1>2, CallsType
<1>8. CASE NoQuorum(w)
  BY <1>1, <1>7, <1>8 DEF NoQuorum, abort_all, Fail, opVars, procVars
<1>9. CASE LocalCommit(w)
  <2>1. Calls("commit", w, prepared[w], rid[w], NoFile, MaxRetries) \subseteq Call
    BY <1>1, <1>2, CallsType
  <2> QED BY <1>1, <1>9, <2>1 DEF LocalCommit, opVars, procVars
<1>10. CASE LocalCommitFails(w)
  <2>1. final' \in [Nodes -> Content]
    BY <1>1, <1>10 DEF LocalCommitFails
  <2> QED BY <1>1, <1>7, <1>10, <2>1 DEF LocalCommitFails, abort_all, Fail, opVars, procVars
<1>11. CASE LocalDelete(w)
  <2>1. Calls("delete", w, Nodes \ {coord[w]}, rid[w], NoFile, MaxRetries) \subseteq Call
    BY <1>1, <1>2, CallsType
  <2> QED BY <1>1, <1>11, <2>1 DEF LocalDelete, opVars, procVars
<1>12. CASE Cancel(w)
  BY <1>1, <1>12 DEF Cancel, Fail, opVars, procVars
<1> QED BY <1>3, <1>4, <1>5, <1>6, <1>8, <1>9, <1>10, <1>11, <1>12 DEF Coordinate

(* The type invariant, for the steps a call causes.                        *)
LEMMA CallType ==
  ASSUME TypeOK, NEW m \in net,
         Execute(m) \/ PrepareFails(m) \/ CommitFails(m) \/ GiveUp(m)
  PROVE  TypeOK'
<1> USE DEF TypeOK
<1>1. /\ m.to \in Nodes /\ m.op \in Ops /\ m.rid \in Nat /\ m.data \in Content
      /\ m.tries \in 0..MaxRetries /\ NoFile \in Content
  BY DEF Call, Content
<1>2. ASSUME Answered(m)
      PROVE  net' \subseteq Call /\ waiting' \in [Ops -> SUBSET Nodes]
  BY <1>1, <1>2 DEF Answered
<1>3. ASSUME AnswerLost(m)
      PROVE  net' \subseteq Call /\ waiting' \in [Ops -> SUBSET Nodes]
  <2>1. [m EXCEPT !.tries = @ - 1] \in Call
    BY <1>1, <1>3, BoundsAssumption DEF AnswerLost, retry_with_backoff, Call
  <2> QED BY <1>3, <2>1 DEF AnswerLost, retry_with_backoff
<1>4. ASSUME Dropped(m)
      PROVE  /\ pending' \in [Nodes -> SUBSET [rid : Nat, op : Ops]]
             /\ temp' \in [Nodes -> Content]
  BY <1>1, <1>4 DEF Dropped
<1>5. CASE ExecPrepare(m)
  <2>1. pending' \in [Nodes -> SUBSET [rid : Nat, op : Ops]]
    BY <1>1, <1>5 DEF ExecPrepare
  <2>2. prepared' \in [Ops -> SUBSET Nodes]
    BY <1>1, <1>5 DEF ExecPrepare
  <2> QED BY <1>1, <1>2, <1>5, <2>1, <2>2 DEF ExecPrepare, opVars, procVars
<1>6. CASE PrepareFails(m)
  BY <1>1, <1>2, <1>6 DEF PrepareFails, opVars, procVars
<1>7. CASE ExecCommit(m)
  <2>1. pending' \in [Nodes -> SUBSET [rid : Nat, op : Ops]]
    BY <1>1, <1>7 DEF ExecCommit
  <2>2. final' \in [Nodes -> Content] /\ temp' \in [Nodes -> Content]
    BY <1>1, <1>7 DEF ExecCommit
  <2> QED BY <1>1, <1>2, <1>3, <1>7, <2>1, <2>2 DEF ExecCommit, opVars, procVars
<1>8. CASE CommitFails(m)
  BY <1>2, <1>4, <1>8 DEF CommitFails, opVars, procVars
<1>9. CASE ExecAbort(m)
  BY <1>2, <1>3, <1>4, <1>9 DEF ExecAbort, opVars, procVars
<1>10. CASE ExecDelete(m)
  BY <1>1, <1>2, <1>3, <1>10 DEF ExecDelete, opVars, procVars
<1>11. CASE GiveUp(m)
  BY <1>1, <1>11 DEF GiveUp, opVars, fileVars, procVars
<1> QED BY <1>5, <1>6, <1>7, <1>8, <1>9, <1>10, <1>11 DEF Execute

(* The type invariant, for one step.                                       *)
LEMMA TypeStep == TypeOK /\ [Next]_vars => TypeOK'
<1> SUFFICES ASSUME TypeOK, [Next]_vars PROVE TypeOK'
  OBVIOUS
<1>1. ASSUME NEW n \in Nodes, CleanupStale(n) PROVE TypeOK'
  BY <1>1 DEF CleanupStale, TypeOK, Content, opVars, procVars
<1>1a. ASSUME NEW n \in Nodes, GcList(n) \/ GcRemove(n) PROVE TypeOK'
  BY <1>1a DEF GcList, GcRemove, TypeOK, Content, opVars, fileVars
<1>2. ASSUME NEW n \in Nodes, Crash(n) PROVE TypeOK'
  <2>1. phase' \in [Ops -> Phase] /\ waiting' \in [Ops -> SUBSET Nodes]
    BY <1>2 DEF Crash, TypeOK, Phase
  <2> QED BY <1>2, <2>1 DEF Crash, TypeOK, opVars, procVars
<1>3. CASE UNCHANGED vars
  BY <1>3 DEF vars, TypeOK
<1> QED BY <1>1, <1>1a, <1>2, <1>3, CoordinateType, CallType DEF Next

(* Every reachable state has the types that the coordinator and the        *)
(* service declare.                                                        *)
THEOREM TypeCorrect == Spec => []TypeOK
BY TypeInit, TypeStep, PTL DEF Spec

-----------------------------------------------------------------------------
(* Without crashes no temp file is left without a handle that deletes or   *)
(* renames it, whoever coordinates and whatever fails (lib.rs TempObject,  *)
(* service.rs pending_prepares).                                           *)
THEOREM TempsOwned == Spec => []TempOwned
<1>1. Init => TempOwned
  BY DEF Init, TempOwned
<1>2. ASSUME TypeOK, TempOwned, [Next]_vars PROVE TempOwned'
  <2> SUFFICES ASSUME crashes' = 0, NEW n \in Nodes, temp'[n] # NoFile, pending'[n] = {}
               PROVE  \E w \in Ops : /\ kind'[w] = "put" /\ coord'[w] = n
                                     /\ phase'[w] \in {"started", "preparing"}
    BY DEF TempOwned
  <2> USE <1>2 DEF TypeOK, TempOwned, opVars, fileVars, procVars
  <2>1. ASSUME NEW w \in Ops, Coordinate(w) \/ Cancel(w)
        PROVE  \E v \in Ops : /\ kind'[v] = "put" /\ coord'[v] = n
                              /\ phase'[v] \in {"started", "preparing"}
    <3>1. coord[w] \in Nodes
      BY CoordIsNode
    <3>2. CASE StartPut(w)
      BY <3>1, <3>2 DEF StartPut, CanStart
    <3>3. CASE StartDelete(w) \/ SendPrepares(w) \/ Ack(w)
      BY <3>1, <3>3 DEF StartDelete, SendPrepares, Ack, CanStart
    <3>4. CASE TempLost(w) \/ DeleteNotFound(w) \/ LocalDelete(w)
      BY <3>1, <3>4 DEF TempLost, DeleteNotFound, LocalDelete, Fail
    <3>5. CASE NoQuorum(w) \/ LocalCommit(w) \/ LocalCommitFails(w) \/ Cancel(w)
      BY <3>1, <3>5 DEF NoQuorum, LocalCommit, LocalCommitFails, Cancel, Fail,
                        Active, PreparesDone
    <3> QED BY <2>1, <3>2, <3>3, <3>4, <3>5 DEF Coordinate
  <2>2. ASSUME NEW m \in net,
               Execute(m) \/ PrepareFails(m) \/ CommitFails(m) \/ GiveUp(m)
        PROVE  temp[n] # NoFile /\ pending[n] = {} /\ crashes = 0
               /\ UNCHANGED <<kind, coord, phase>>
    <3>1. m.to \in Nodes
      BY DEF Call
    <3>2. CASE ExecPrepare(m)
      BY <3>1, <3>2 DEF ExecPrepare
    <3>3. CASE ExecCommit(m)
      BY <3>1, <3>3 DEF ExecCommit, PendingOf
    <3>4. CASE ExecAbort(m) \/ CommitFails(m)
      BY <3>1, <3>4 DEF ExecAbort, CommitFails, Dropped, PendingOf
    <3>5. CASE PrepareFails(m) \/ ExecDelete(m) \/ GiveUp(m)
      BY <3>1, <3>5 DEF PrepareFails, ExecDelete, GiveUp
    <3> QED BY <2>2, <3>2, <3>3, <3>4, <3>5 DEF Execute
  <2>3. ASSUME NEW k \in Nodes, CleanupStale(k)
        PROVE  \E w \in Ops : /\ kind'[w] = "put" /\ coord'[w] = n
                              /\ phase'[w] \in {"started", "preparing"}
    BY <2>3 DEF CleanupStale
  <2>3a. ASSUME NEW k \in Nodes, GcList(k) \/ GcRemove(k)
         PROVE  \E w \in Ops : /\ kind'[w] = "put" /\ coord'[w] = n
                               /\ phase'[w] \in {"started", "preparing"}
    BY <2>3a DEF GcList, GcRemove
  <2>4. ASSUME NEW k \in Nodes PROVE ~Crash(k)
    BY DEF Crash
  <2>5. CASE UNCHANGED vars
    BY <2>5 DEF vars
  <2> QED BY <2>1, <2>2, <2>3, <2>3a, <2>4, <2>5 DEF Next
<1> QED BY <1>1, <1>2, TypeInit, TypeStep, PTL DEF Spec

-----------------------------------------------------------------------------
(* The calls an operation adds go to the nodes it names.                   *)
LEMMA CallsTo ==
  ASSUME NEW type, NEW w, NEW to, NEW r, NEW data, NEW tries
  PROVE  \A m \in Calls(type, w, to, r, data, tries) : m.op = w /\ m.to \in to
BY DEF Calls

(* Operations do not overlap, for one step.                                *)
LEMMA InOrderStep ==
  ASSUME TypeOK, InOrder, [Next]_vars
  PROVE  InOrder'
<1> USE DEF InOrder, Over, TypeOK, opVars, procVars, Phase, Ops
<1>1. ASSUME NEW w \in Ops, Coordinate(w) \/ Cancel(w) PROVE InOrder'
  <2>1. CASE StartPut(w) \/ StartDelete(w)
    <3>1. /\ phase[w] = "idle" /\ phase' = [phase EXCEPT ![w] = "started"]
          /\ \A v \in 1..(w - 1) : Over(v)
      BY <2>1 DEF StartPut, StartDelete, CanStart
    <3>2. ASSUME NEW v \in Ops, v < w PROVE v \in 1..(w - 1) /\ v # w
      BY <3>2, BoundsAssumption
    <3> QED BY <3>1, <3>2
  <2>2. CASE \/ SendPrepares(w) \/ TempLost(w) \/ NoQuorum(w)
             \/ LocalCommit(w) \/ LocalCommitFails(w) \/ LocalDelete(w)
             \/ DeleteNotFound(w) \/ Ack(w) \/ Cancel(w)
    <3>1. phase[w] # "idle" /\ ~Over(w) /\ \E p \in Phase : phase' = [phase EXCEPT ![w] = p]
      BY <2>2 DEF SendPrepares, TempLost, NoQuorum, LocalCommit, LocalCommitFails,
                  LocalDelete, DeleteNotFound, Ack, Cancel, Fail, PreparesDone, Active
    <3> QED BY <3>1
  <2> QED BY <1>1, <2>1, <2>2 DEF Coordinate
<1>2. ASSUME NEW n \in Nodes, Crash(n) PROVE InOrder'
  BY <1>2 DEF Crash, Active
<1>3. CASE \/ UNCHANGED vars
           \/ \E m \in net : Execute(m) \/ PrepareFails(m) \/ CommitFails(m) \/ GiveUp(m)
           \/ \E n \in Nodes : CleanupStale(n) \/ GcList(n) \/ GcRemove(n)
  <2>1. phase' = phase
    BY <1>3 DEF vars, Execute, ExecPrepare, ExecCommit, ExecAbort, ExecDelete,
                PrepareFails, CommitFails, GiveUp, CleanupStale, GcList, GcRemove
  <2> QED BY <2>1
<1> QED BY <1>1, <1>2, <1>3 DEF Next

(* Coordinators call other nodes only, for one step.                       *)
LEMMA CallsElsewhereStep ==
  ASSUME TypeOK, CallsElsewhere, [Next]_vars
  PROVE  CallsElsewhere'
<1> USE DEF CallsElsewhere, TypeOK, opVars, procVars
<1>1. ASSUME NEW w \in Ops, Coordinate(w) \/ Cancel(w) PROVE CallsElsewhere'
  <2>1. CASE SendPrepares(w)
    <3>1. PICK S \in select_replica_nodes(coord[w]) :
            /\ waiting' = [waiting EXCEPT ![w] = S]
            /\ net' = net \cup Calls("prepare", w, S, counter[coord[w]], temp[coord[w]], 0)
      BY <2>1 DEF SendPrepares
    <3>2. coord[w] \notin S
      BY ReplicasElsewhere
    <3> QED BY <2>1, <3>1, <3>2, CallsTo DEF SendPrepares
  <2>2. CASE NoQuorum(w) \/ LocalCommitFails(w)
    BY <2>2, CallsTo DEF NoQuorum, LocalCommitFails, abort_all, Fail
  <2>3. CASE LocalCommit(w)
    BY <2>3, CallsTo DEF LocalCommit
  <2>4. CASE LocalDelete(w)
    BY <2>4, CallsTo DEF LocalDelete
  <2>5. CASE \/ StartPut(w) \/ StartDelete(w) \/ TempLost(w) \/ DeleteNotFound(w)
             \/ Ack(w) \/ Cancel(w)
    BY <2>5 DEF StartPut, StartDelete, TempLost, DeleteNotFound, Ack, Cancel, Fail
  <2> QED BY <1>1, <2>1, <2>2, <2>3, <2>4, <2>5 DEF Coordinate
<1>2. ASSUME NEW m \in net,
             Execute(m) \/ PrepareFails(m) \/ CommitFails(m) \/ GiveUp(m)
      PROVE  CallsElsewhere'
  <2>1. m.op \in Ops /\ m.to \in Nodes /\ m.to # coord[m.op] /\ m.tries \in 0..MaxRetries
    BY DEF Call
  <2>2. coord' = coord
    BY <1>2 DEF Execute, ExecPrepare, ExecCommit, ExecAbort, ExecDelete,
                PrepareFails, CommitFails, GiveUp
  <2>3. /\ \A k \in net' : \E j \in net : k.to = j.to /\ k.op = j.op
        /\ \A w \in Ops : waiting'[w] \subseteq waiting[w]
    <3>1. CASE Answered(m) \/ GiveUp(m)
      BY <2>1, <3>1 DEF Answered, GiveUp
    <3>2. CASE AnswerLost(m)
      <4>1. [m EXCEPT !.tries = @ - 1].to = m.to /\ [m EXCEPT !.tries = @ - 1].op = m.op
        BY DEF Call
      <4> QED BY <3>2, <4>1 DEF AnswerLost, retry_with_backoff
    <3> QED BY <1>2, <3>1, <3>2 DEF Execute, ExecPrepare, ExecCommit, ExecAbort,
                ExecDelete, PrepareFails, CommitFails
  <2>4. \A w \in Ops : prepared'[w] \subseteq prepared[w] \cup waiting[w]
    BY <1>2, <2>1 DEF Execute, ExecPrepare, ExecCommit, ExecAbort, ExecDelete,
                PrepareFails, CommitFails, GiveUp
  <2> QED BY <2>2, <2>3, <2>4
<1>3. ASSUME NEW n \in Nodes, Crash(n) PROVE CallsElsewhere'
  BY <1>3 DEF Crash
<1>4. CASE UNCHANGED vars \/ \E n \in Nodes : CleanupStale(n) \/ GcList(n) \/ GcRemove(n)
  BY <1>4 DEF vars, CleanupStale, GcList, GcRemove
<1> QED BY <1>1, <1>2, <1>3, <1>4 DEF Next

(* At most one operation is under way.                                     *)
LEMMA OneActive ==
  ASSUME TypeOK, InOrder, NEW v \in Ops, NEW w \in Ops, Active(v), Active(w)
  PROVE  v = w
BY BoundsAssumption DEF InOrder, Active, Over, Ops

(* The only coordinator is a node.                                         *)
LEMMA TheCoordinator ==
  ASSUME OneCoordinator, TypeOK
  PROVE  coord[1] \in Nodes /\ \A w \in Ops : coord[w] = coord[1]
<1>1. 1 \in Ops
  BY BoundsAssumption DEF Ops
<1> QED BY <1>1, CoordIsNode DEF OneCoordinator

(* No step changes what the operations are, who coordinates them and what  *)
(* may fail.                                                               *)
LEMMA OperationsFixed ==
  ASSUME [Next]_vars
  PROVE  kind' = kind /\ coord' = coord
BY DEF Next, vars, Coordinate, StartPut, StartDelete, SendPrepares,
   TempLost, NoQuorum, LocalCommit, LocalCommitFails, LocalDelete,
   DeleteNotFound, Ack, Cancel, Execute, ExecPrepare, ExecCommit, ExecAbort,
   ExecDelete, PrepareFails, CommitFails, GiveUp, CleanupStale, GcList, GcRemove,
   Crash, opVars, procVars

(* What the calls under way can change: nothing on the only coordinator.   *)
LEMMA CallsLeaveCoordinator ==
  ASSUME NEW c, c = coord[1], OneCoordinator, TypeOK, CallsElsewhere, NEW m \in net,
         Execute(m) \/ PrepareFails(m) \/ CommitFails(m) \/ GiveUp(m)
  PROVE  /\ c \in Nodes /\ \A w \in Ops : coord[w] = c
         /\ UNCHANGED <<kind, coord, phase, temp[c], final[c], pending[c]>>
<1>1. c \in Nodes /\ \A w \in Ops : coord[w] = c
  BY TheCoordinator
<1>2. m.op \in Ops /\ m.to \in Nodes /\ m.to # c
  BY <1>1 DEF TypeOK, Call, CallsElsewhere
<1>3. CASE ExecPrepare(m) \/ PrepareFails(m)
  BY <1>1, <1>2, <1>3 DEF ExecPrepare, PrepareFails, TypeOK, opVars, procVars
<1>4. CASE ExecCommit(m)
  BY <1>1, <1>2, <1>4 DEF ExecCommit, TypeOK, opVars, procVars
<1>5. CASE ExecAbort(m) \/ CommitFails(m)
  BY <1>1, <1>2, <1>5 DEF ExecAbort, CommitFails, Dropped, TypeOK, opVars, procVars
<1>6. CASE ExecDelete(m) \/ GiveUp(m)
  BY <1>1, <1>2, <1>6 DEF ExecDelete, GiveUp, TypeOK, opVars, fileVars, procVars
<1> QED BY <1>1, <1>3, <1>4, <1>5, <1>6 DEF Execute

(* The only coordinator's temp file stays its own, for one step.           *)
LEMMA TempUndisturbedStep ==
  ASSUME NEW c, c = coord[1], OneCoordinator, RegisterInv, [Next]_vars
  PROVE  TempUndisturbed'
<1> USE DEF RegisterInv
<1>1. c \in Nodes /\ \A w \in Ops : coord[w] = c
  BY TheCoordinator
<1>2. ASSUME NEW w \in Ops, Coordinate(w) \/ Cancel(w) PROVE TempUndisturbed'
  <2>1. UNCHANGED <<kind, coord, pending>> /\ \A v \in Ops : v # w => phase'[v] = phase[v]
    BY <1>2 DEF Coordinate, StartPut, StartDelete, SendPrepares, TempLost, NoQuorum,
       LocalCommit, LocalCommitFails, LocalDelete, DeleteNotFound, Ack, Cancel, Fail,
       TypeOK, opVars, fileVars, procVars
  <2>2. \A v \in Ops : v # w => phase[v] \notin {"started", "preparing"}
    <3>1. CASE phase[w] = "idle"
      <4>1. CanStart(w)
        BY <1>2, <3>1 DEF Coordinate, StartPut, StartDelete, SendPrepares, TempLost,
           NoQuorum, LocalCommit, LocalCommitFails, LocalDelete, DeleteNotFound, Ack,
           Cancel, PreparesDone, Active
      <4> QED BY <3>1, <4>1, BoundsAssumption DEF CanStart, InOrder, Over, Ops
    <3>2. CASE phase[w] # "idle"
      <4>1. Active(w)
        BY <1>2, <3>2 DEF Coordinate, StartPut, StartDelete, SendPrepares, TempLost,
           NoQuorum, LocalCommit, LocalCommitFails, LocalDelete, DeleteNotFound, Ack,
           Cancel, PreparesDone, Active, CanStart
      <4> QED BY <4>1, OneActive DEF Active
    <3> QED BY <3>1, <3>2
  <2>3. kind[w] = "put" /\ phase'[w] \in {"started", "preparing"} => temp'[c] \in {w, NoFile}
    <3>1. CASE StartPut(w)
      BY <1>1, <3>1 DEF StartPut, TypeOK
    <3>2. CASE SendPrepares(w)
      BY <1>1, <3>2 DEF SendPrepares, TypeOK, TempUndisturbed, fileVars, procVars
    <3>3. CASE StartDelete(w)
      BY <3>3 DEF StartDelete
    <3>4. CASE \/ TempLost(w) \/ NoQuorum(w) \/ LocalCommit(w) \/ LocalCommitFails(w)
               \/ LocalDelete(w) \/ DeleteNotFound(w) \/ Ack(w) \/ Cancel(w)
      BY <3>4 DEF TempLost, NoQuorum, LocalCommit, LocalCommitFails, LocalDelete,
                  DeleteNotFound, Ack, Cancel, Fail, TypeOK
    <3> QED BY <1>2, <3>1, <3>2, <3>3, <3>4 DEF Coordinate
  <2> QED BY <1>1, <2>1, <2>2, <2>3 DEF TempUndisturbed
<1>3. ASSUME NEW m \in net,
             Execute(m) \/ PrepareFails(m) \/ CommitFails(m) \/ GiveUp(m)
      PROVE  TempUndisturbed'
  BY <1>3, CallsLeaveCoordinator DEF TempUndisturbed
<1>4. ASSUME NEW n \in Nodes, CleanupStale(n) PROVE TempUndisturbed'
  <2>1. CASE Ops = {}
    BY <2>1 DEF TempUndisturbed
  <2>2. CASE Ops # {}
    <3>1. n # c
      BY <1>1, <1>4, <2>2 DEF CleanupStale, TempUndisturbed
    <3> QED BY <1>1, <1>4, <3>1 DEF CleanupStale, TempUndisturbed, TypeOK, opVars, procVars
  <2> QED BY <2>1, <2>2
<1>5. ASSUME NEW n \in Nodes, Crash(n) PROVE TempUndisturbed'
  BY <1>1, <1>5 DEF Crash, TempUndisturbed, TypeOK, opVars, procVars, Active
<1>6. ASSUME NEW n \in Nodes, GcList(n) \/ GcRemove(n) PROVE TempUndisturbed'
  BY <1>1, <1>6 DEF GcList, GcRemove, TempUndisturbed, TypeOK, opVars, fileVars
<1>7. CASE UNCHANGED vars
  BY <1>7 DEF vars, TempUndisturbed
<1> QED BY <1>2, <1>3, <1>4, <1>5, <1>6, <1>7 DEF Next

(* Operations do not overlap, coordinators call other nodes only, and the  *)
(* temp file of an only coordinator is its own (put.rs put_object's lock,  *)
(* coordinator.rs select_replica_nodes).                                   *)
THEOREM RegisterInvariant == Spec => []RegisterInv
<1>1. ASSUME Init PROVE RegisterInv
  <2>1. TypeOK /\ \A w \in Ops : coord[w] \in Nodes
    BY <1>1, TypeInit, CoordIsNode
  <2>2. InOrder
    BY <1>1 DEF Init, InOrder
  <2>3. CallsElsewhere
    BY <1>1 DEF Init, CallsElsewhere
  <2>4. TempUndisturbed
    BY <1>1, <2>1 DEF Init, TempUndisturbed
  <2> QED BY <2>1, <2>2, <2>3, <2>4 DEF RegisterInv
<1>2. ASSUME RegisterInv, [Next]_vars PROVE RegisterInv'
  <2>1. TypeOK' /\ InOrder' /\ CallsElsewhere'
    BY <1>2, TypeStep, InOrderStep, CallsElsewhereStep DEF RegisterInv
  <2>2. OneCoordinator' => OneCoordinator
    BY <1>2, OperationsFixed DEF OneCoordinator
  <2>3. OneCoordinator => TempUndisturbed'
    BY <1>2, TempUndisturbedStep
  <2> QED BY <2>1, <2>2, <2>3 DEF RegisterInv
<1> QED BY <1>1, <1>2, PTL DEF Spec

-----------------------------------------------------------------------------
(* If one node coordinates all operations, what its own final file shows   *)
(* is a register: an acknowledged operation has taken effect, and nothing  *)
(* but the operation under way changes the file, whatever calls fail, are  *)
(* repeated or arrive late and whatever crashes (coordinator.rs            *)
(* complete_2pc_write).                                                    *)
THEOREM CoordinatorIsRegister == Spec => ImplementsRegister
<1> DEFINE value   == IF OneCoordinator THEN final[coord[1]] ELSE NoFile
           status  == IF OneCoordinator THEN [w \in Ops |-> Status(w)]
                                        ELSE [w \in Ops |-> "idle"]
           outcome == [w \in Ops |-> Result(w)]
<1>1. ASSUME Init PROVE Register!Init
  <2>1. value \in Content
    <3>1. OneCoordinator => coord[1] \in Nodes
      BY <1>1, TypeInit, TheCoordinator
    <3> QED BY <1>1, <3>1 DEF Init, Content
  <2>2. status = [w \in Ops |-> "idle"]
    BY <1>1 DEF Init, Status
  <2>3. outcome \in [Ops -> Content]
    BY DEF Result, Content
  <2> QED BY <2>1, <2>2, <2>3 DEF Register!Init
<1>2. ASSUME RegisterInv, [Next]_vars, ~OneCoordinator
      PROVE  UNCHANGED <<value, status, outcome>>
  <2>1. kind' = kind /\ coord' = coord
    BY <1>2, OperationsFixed
  <2>2. ~OneCoordinator'
    BY <1>2, <2>1 DEF OneCoordinator
  <2> QED BY <1>2, <2>1, <2>2 DEF Result
<1>3. ASSUME RegisterInv, [Next]_vars, OneCoordinator
      PROVE  [Register!Next]_<<value, status, outcome>>
  <2> DEFINE c == coord[1]
  <2>0. c \in Nodes /\ c' = c /\ OneCoordinator /\ OneCoordinator'
    BY <1>3, TheCoordinator, OperationsFixed DEF RegisterInv, OneCoordinator
  <2>a. /\ value = final[c] /\ value' = final'[c]
        /\ status = [w \in Ops |-> Status(w)]
        /\ status' = [w \in Ops |-> Status(w)']
    BY <2>0
  <2>1. TypeOK /\ TempUndisturbed /\ \A w \in Ops : coord[w] = c
    BY <1>3, TheCoordinator DEF RegisterInv
  <2>2. kind' = kind /\ outcome' = outcome
    <3>1. kind' = kind
      BY <1>3, OperationsFixed
    <3> QED BY <3>1 DEF Result
  <2> HIDE DEF c
  <2> USE <2>0, <2>a
  <2>3. ASSUME phase' = phase, final'[c] = final[c]
        PROVE  UNCHANGED <<value, status, outcome>>
    BY <2>a, <2>2, <2>3 DEF Status
  <2>4. ASSUME NEW w \in Ops, NEW p \in Phase, phase' = [phase EXCEPT ![w] = p]
        PROVE  status' = [status EXCEPT ![w] =
                 IF p \in {"started", "preparing"} THEN "active"
                 ELSE IF p = "committing" THEN "effective" ELSE p]
    BY <2>1, <2>4 DEF Status, TypeOK
  <2>5. ASSUME NEW w \in Ops, StartPut(w) \/ StartDelete(w)
        PROVE  Register!Begin(w)
    <3>1. CanStart(w) /\ phase' = [phase EXCEPT ![w] = "started"] /\ final' = final
      BY <2>5 DEF StartPut, StartDelete, fileVars, procVars
    <3>2. status' = [status EXCEPT ![w] = "active"]
      BY <2>4, <3>1 DEF Phase
    <3>3. \A v \in Ops : phase[v] = "idle" \/ Over(v)
      BY <1>3, <3>1, BoundsAssumption DEF CanStart, RegisterInv, InOrder, Over, Ops
    <3>4. \A v \in Ops : status[v] = "idle" \/ status[v] \in {"acked", "failed"}
      BY <3>3 DEF Status, Over
    <3>5. status[w] = "idle"
      BY <3>1 DEF Status, CanStart
    <3> QED BY <2>2, <3>1, <3>2, <3>4, <3>5 DEF Register!Begin, Register!Over
  <2>6. ASSUME NEW w \in Ops, Active(w), phase' = [phase EXCEPT ![w] = "failed"],
               final'[c] = final[c] \/ final'[c] = Result(w)
        PROVE  Register!Fail(w)
    <3>1. status[w] \in {"active", "effective"}
      BY <2>1, <2>6 DEF Status, Active, TypeOK, Phase
    <3>2. status' = [status EXCEPT ![w] = "failed"]
      BY <2>4, <2>6 DEF Phase
    <3> QED BY <2>a, <2>2, <2>6, <3>1, <3>2 DEF Register!Fail
  <2>7. ASSUME NEW w \in Ops, LocalCommit(w) \/ LocalDelete(w)
        PROVE  Register!TakeEffect(w)
    <3>1. /\ phase[w] \in {"started", "preparing"}
          /\ phase' = [phase EXCEPT ![w] = "committing"]
      BY <2>7 DEF LocalCommit, LocalDelete, PreparesDone
    <3>2. final'[c] = Result(w)
      BY <1>3, <2>a, <2>1, <2>7 DEF LocalCommit, LocalDelete, PreparesDone,
         TempUndisturbed, Result, TypeOK
    <3>3. status[w] = "active" /\ status' = [status EXCEPT ![w] = "effective"]
      BY <2>4, <3>1 DEF Phase, Status
    <3> QED BY <2>a, <2>2, <3>2, <3>3 DEF Register!TakeEffect
  <2>8. ASSUME NEW w \in Ops, Ack(w) PROVE Register!Ack(w)
    <3>1. phase[w] = "committing" /\ phase' = [phase EXCEPT ![w] = "acked"] /\ final' = final
      BY <2>8 DEF Ack, fileVars, procVars
    <3>2. status[w] = "effective" /\ status' = [status EXCEPT ![w] = "acked"]
      BY <2>4, <3>1 DEF Phase, Status
    <3> QED BY <2>2, <3>1, <3>2 DEF Register!Ack
  <2>9. ASSUME NEW w \in Ops, \/ TempLost(w) \/ NoQuorum(w) \/ LocalCommitFails(w)
                              \/ DeleteNotFound(w) \/ Cancel(w)
        PROVE  Register!Fail(w)
    <3>1. Active(w) /\ phase' = [phase EXCEPT ![w] = "failed"]
      BY <2>9 DEF TempLost, NoQuorum, LocalCommitFails, DeleteNotFound, Cancel,
                  PreparesDone, Active, Fail
    <3>2. final'[c] = final[c] \/ final'[c] = Result(w)
      BY <1>3, <2>a, <2>1, <2>9 DEF TempLost, NoQuorum, LocalCommitFails,
         DeleteNotFound, Cancel, PreparesDone, TempUndisturbed, Result,
         TypeOK, fileVars, procVars
    <3> QED BY <2>6, <3>1, <3>2
  <2>10. ASSUME NEW n \in Nodes, Crash(n)
         PROVE  Register!Next \/ UNCHANGED <<value, status, outcome>>
    <3>1. CASE \E w \in Ops : coord[w] = n /\ Active(w)
      <4>1. PICK w \in Ops : coord[w] = n /\ Active(w)
        BY <3>1
      <4>2. \A v \in Ops : Active(v) => v = w
        BY <1>3, <4>1, OneActive DEF RegisterInv
      <4>3. phase' = [phase EXCEPT ![w] = "failed"]
        BY <2>1, <2>10, <4>1, <4>2 DEF Crash, TypeOK
      <4>4. final' = final
        BY <2>10 DEF Crash
      <4> QED BY <2>6, <4>1, <4>3, <4>4 DEF Register!Next
    <3>2. CASE ~\E w \in Ops : coord[w] = n /\ Active(w)
      <4>1. phase' = phase /\ final' = final
        BY <2>1, <2>10, <3>2 DEF Crash, TypeOK
      <4> QED BY <2>3, <4>1
    <3> QED BY <3>1, <3>2
  <2>11. ASSUME NEW w \in Ops, SendPrepares(w)
         PROVE  UNCHANGED <<value, status, outcome>>
    <3>1. /\ phase[w] = "started" /\ phase' = [phase EXCEPT ![w] = "preparing"]
          /\ final' = final
      BY <2>11 DEF SendPrepares, fileVars, procVars
    <3>2. status' = [status EXCEPT ![w] = "active"] /\ status[w] = "active"
      BY <2>4, <3>1 DEF Phase, Status
    <3>3. status' = status
      BY <3>2
    <3> QED BY <2>2, <3>1, <3>3
  <2>12. CASE \/ UNCHANGED vars
              \/ \E m \in net : Execute(m) \/ PrepareFails(m) \/ CommitFails(m) \/ GiveUp(m)
              \/ \E n \in Nodes : CleanupStale(n) \/ GcList(n) \/ GcRemove(n)
    <3>1. phase' = phase /\ final'[c] = final[c]
      BY <1>3, <2>1, <2>12, CallsLeaveCoordinator DEF vars, CleanupStale, GcList,
         GcRemove, RegisterInv, fileVars
    <3> QED BY <2>3, <3>1
  <2> HIDE DEF value, status, outcome
  <2> QED BY <1>3, <2>5, <2>7, <2>8, <2>9, <2>10, <2>11, <2>12
          DEF Next, Coordinate, Register!Next
<1>4. RegisterInv /\ [Next]_vars => [Register!Next]_<<value, status, outcome>>
  BY <1>2, <1>3
<1> QED BY <1>1, <1>4, RegisterInvariant, PTL
        DEF Spec, ImplementsRegister, Register!Spec
-----------------------------------------------------------------------------
(* The environments in which the coordinator learns of every failure       *)
(* before it commits.  Then the operation that started last is the only    *)
(* one that has calls, prepares or temp files.                             *)

Clean(n)    == temp[n] = NoFile /\ pending[n] = {}
Ready(w, n) == temp[n] = w /\ pending[n] = {[rid |-> rid[w], op |-> w]}
Called(n)   == \E m \in net : m.to = n

(* The calls of an operation, by its phase, and where they go.             *)
Sent(w) ==
  IF kind[w] = "delete" THEN "delete"
  ELSE IF phase[w] = "preparing" THEN "prepare"
  ELSE IF phase[w] = "committing" THEN "commit" ELSE "abort"
Targets(w) == IF phase[w] = "failed" THEN prepared[w] ELSE waiting[w]

(* One call to each node that the coordinator waits for.                   *)
CallsOf(w) ==
  /\ \A m \in net :
       /\ m.op = w /\ m.rid = rid[w] /\ m.type = Sent(w) /\ m.to \in Targets(w)
       /\ m.type = "prepare" => m.data = w
       /\ \A k \in net : k.to = m.to => k = m
  /\ \A n \in waiting[w] : Called(n)
  /\ phase[w] \notin {"preparing", "committing"} => waiting[w] = {}

(* A node has the temp file of the put under way and its handle, or        *)
(* nothing; a node that has prepared and nothing left has committed.       *)
FilesOf(w) ==
  LET c == coord[w]
      local == kind[w] = "put" /\ phase[w] \in {"started", "preparing"}
  IN  /\ pending[c] = {} /\ temp[c] = IF local THEN w ELSE NoFile
      /\ kind[w] = "delete" \/ phase[w] = "started" => prepared[w] = {}
      /\ \A n \in Nodes \ {c} :
           /\ n \notin prepared[w] => Clean(n)
           /\ n \in prepared[w] /\ phase[w] = "preparing" => Ready(w, n) /\ n \notin waiting[w]
           /\ n \in prepared[w] /\ phase[w] # "preparing" => Clean(n) \/ (Ready(w, n) /\ Called(n))

(* What has been committed or deleted where the coordinator had an answer. *)
EffectOf(w) ==
  phase[w] \in {"committing", "acked"} =>
    /\ kind[w] = "put" =>
         /\ QuorumAchieved(w) /\ final[coord[w]] = w
         /\ \A n \in prepared[w] : Clean(n) => final[n] = w
    /\ kind[w] = "delete" => \A n \in Nodes : n \notin waiting[w] => final[n] = NoFile

Working(w) == CallsOf(w) /\ FilesOf(w) /\ EffectOf(w)

(* Everything under way belongs to the operation that started last.        *)
OfLast ==
  /\ \A m \in net : Last(m.op)
  /\ \A n \in Nodes : /\ temp[n] # NoFile => Last(temp[n])
                      /\ \A p \in pending[n] : Last(p.op)

(* Nothing fails once it is visible, except a rename without its fsync.    *)
Visible ==
  \A n \in Nodes : final[n] # NoFile =>
    \/ phase[final[n]] \in {"committing", "acked"}
    \/ phase[final[n]] = "failed" /\ "fsync_error" \in faults

Untouched ==
  /\ \A n \in Nodes : ~listed[n]
  /\ \A w \in Ops : phase[w] = "idle" => prepared[w] = {} /\ waiting[w] = {}

QuietInv ==
  Reliable => OfLast /\ Visible /\ Untouched /\ \A w \in Ops : Last(w) => Working(w)

(* Only one operation is the last.                                         *)
LEMMA LastUnique ==
  ASSUME NEW v \in Ops, NEW w \in Ops, Last(v), Last(w)
  PROVE  v = w
BY BoundsAssumption DEF Last, Ops

(* An operation that is not over is the last.                              *)
LEMMA ActiveLast ==
  ASSUME InOrder, NEW w \in Ops, phase[w] # "idle", ~Over(w)
  PROVE  Last(w)
BY BoundsAssumption DEF InOrder, Last, Ops

(* The calls to a set of nodes: one for each.                              *)
LEMMA CallsOne ==
  ASSUME NEW type, NEW w, NEW to, NEW r, NEW data, NEW tries
  PROVE  LET calls == Calls(type, w, to, r, data, tries)
         IN  /\ \A m \in calls : /\ m.type = type /\ m.op = w /\ m.rid = r /\ m.data = data /\ m.to \in to
                                 /\ \A k \in calls : k.to = m.to => k = m
             /\ \A n \in to : \E m \in calls : m.to = n
<1> DEFINE Made(n) == [type |-> type, op |-> w, to |-> n, rid |-> r, data |-> data, tries |-> tries]
<1>1. Calls(type, w, to, r, data, tries) = {Made(n) : n \in to}
  BY DEF Calls
<1>2. \A n : /\ Made(n).type = type /\ Made(n).op = w /\ Made(n).rid = r /\ Made(n).data = data
             /\ Made(n).to = n
  OBVIOUS
<1> HIDE DEF Made
<1> QED BY <1>1, <1>2

(* Once nothing is under way everything is clean.                          *)
LEMMA QuietClean ==
  ASSUME TypeOK, QuietInv, Reliable, net = {}, \A w \in Ops : ~Active(w)
  PROVE  \A n \in Nodes : Clean(n)
<1> SUFFICES ASSUME NEW n \in Nodes PROVE Clean(n)
  OBVIOUS
<1>1. ASSUME NEW w \in Ops, Last(w) PROVE Clean(n)
  <2>1. Working(w) /\ phase[w] \in {"acked", "failed"}
    BY <1>1 DEF QuietInv, Active, Last
  <2>2. CASE n = coord[w]
    BY <2>1, <2>2 DEF Working, FilesOf, Clean
  <2>3. CASE n # coord[w]
    BY <2>1, <2>3 DEF Working, FilesOf, Called
  <2> QED BY <2>2, <2>3
<1>2. CASE temp[n] # NoFile
  <2>1. Last(temp[n]) /\ temp[n] \in Ops
    BY <1>2 DEF QuietInv, OfLast, TypeOK, Content
  <2> QED BY <1>1, <2>1
<1>3. CASE \E p \in pending[n] : TRUE
  <2>1. PICK p \in pending[n] : TRUE
    BY <1>3
  <2>2. Last(p.op) /\ p.op \in Ops
    BY <2>1 DEF QuietInv, OfLast, TypeOK
  <2> QED BY <1>1, <2>2
<1> QED BY <1>2, <1>3 DEF Clean

(* A step of the last operation that leaves it at work.                    *)
LEMMA WorkingStep ==
  ASSUME TypeOK, TypeOK', QuietInv, Reliable, NEW w \in Ops,
         phase'[w] # "idle" /\ \A v \in (w + 1) .. NumOps : phase[v] = "idle",
         \A v \in Ops : v # w => /\ phase'[v] = phase[v]
                                 /\ prepared'[v] = prepared[v] /\ waiting'[v] = waiting[v],
         UNCHANGED <<faults, listed>>, Working(w)', Visible'
  PROVE  QuietInv'
<1>1. Last(w)'
  <2>1. \A v \in (w + 1) .. NumOps : v \in Ops /\ v # w
    BY BoundsAssumption DEF Ops
  <2> QED BY <2>1 DEF Last
<1>2. ASSUME NEW v \in Ops, Last(v)' PROVE v = w
  BY <1>1, <1>2, BoundsAssumption DEF Last, Ops
<1>3. Untouched'
  BY DEF QuietInv, Untouched
<1>4. coord'[w] \in Nodes
  BY NodesAssumption DEF TypeOK
<1>5. ASSUME NEW n \in Nodes
      PROVE  temp'[n] \in {NoFile, w} /\ \A p \in pending'[n] : p.op = w
  <2>1. CASE n = coord'[w]
    BY <2>1 DEF Working, FilesOf
  <2>2. CASE n # coord'[w]
    <3>1. Clean(n)' \/ Ready(w, n)'
      BY <2>2 DEF Working, FilesOf
    <3> QED BY <3>1 DEF Clean, Ready
  <2> QED BY <2>1, <2>2
<1>6. OfLast'
  <2>1. \A m \in net' : m.op = w
    BY DEF Working, CallsOf
  <2>2. ASSUME NEW n \in Nodes
        PROVE  (temp'[n] # NoFile => temp'[n] = w) /\ \A p \in pending'[n] : p.op = w
    BY <1>5
  <2> QED BY <1>1, <2>1, <2>2 DEF OfLast
<1> QED BY <1>2, <1>3, <1>6 DEF QuietInv

(* An answered call is over.                                               *)
LEMMA CallAnswered ==
  ASSUME TypeOK, NEW w \in Ops, CallsOf(w), NEW m \in net, Answered(m),
         UNCHANGED <<kind, phase, rid>>, phase[w] = "failed" => prepared' = prepared
  PROVE  /\ CallsOf(w)' /\ waiting'[w] = waiting[w] \ {m.to}
         /\ \A k \in Nodes : k # m.to => (Called(k) => Called(k)')
         /\ \A v \in Ops : v # w => waiting'[v] = waiting[v]
<1>1. m.op = w /\ net' = net \ {m} /\ waiting' = [waiting EXCEPT ![w] = @ \ {m.to}]
  BY DEF CallsOf, Answered
<1>2. /\ waiting'[w] = waiting[w] \ {m.to}
      /\ \A v \in Ops : v # w => waiting'[v] = waiting[v]
  BY <1>1 DEF TypeOK
<1>3. \A k : k # m.to => (Called(k) => Called(k)')
  BY <1>1 DEF Called
<1>4. ASSUME NEW j \in net'
      PROVE  /\ j.op = w /\ j.rid = rid'[w] /\ j.type = Sent(w)' /\ j.to \in Targets(w)'
             /\ j.type = "prepare" => j.data = w
             /\ \A k \in net' : k.to = j.to => k = j
  <2>1. j \in net /\ j.to # m.to
    BY <1>1, <1>4 DEF CallsOf
  <2>2. Sent(w)' = Sent(w)
    BY DEF Sent
  <2>3. j.to \in Targets(w)'
    BY <1>2, <2>1 DEF CallsOf, Targets
  <2> QED BY <1>1, <2>1, <2>2, <2>3 DEF CallsOf
<1>5. /\ \A n \in waiting'[w] : Called(n)'
      /\ phase'[w] \notin {"preparing", "committing"} => waiting'[w] = {}
  BY <1>2, <1>3 DEF CallsOf
<1> QED BY <1>2, <1>3, <1>4, <1>5 DEF CallsOf

(* A call whose answer is lost is made again.                              *)
LEMMA CallRepeated ==
  ASSUME TypeOK, NEW w \in Ops, CallsOf(w), NEW m \in net, AnswerLost(m),
         UNCHANGED <<kind, phase, rid, prepared>>
  PROVE  /\ CallsOf(w)' /\ waiting' = waiting
         /\ \A k \in Nodes : Called(k) => Called(k)'
<1> DEFINE again == [m EXCEPT !.tries = @ - 1]
<1>1. m \in Call /\ net' = (net \ {m}) \cup {again} /\ waiting' = waiting
  BY DEF TypeOK, AnswerLost, retry_with_backoff
<1>2. /\ again.op = m.op /\ again.rid = m.rid /\ again.type = m.type /\ again.to = m.to
      /\ again.data = m.data
  BY <1>1 DEF Call
<1> HIDE DEF again
<1>3. \A k : Called(k) => Called(k)'
  BY <1>1, <1>2 DEF Called
<1>4. Sent(w)' = Sent(w) /\ Targets(w)' = Targets(w)
  BY <1>1 DEF Sent, Targets
<1>5. ASSUME NEW j \in net'
      PROVE  /\ j.op = w /\ j.rid = rid'[w] /\ j.type = Sent(w)' /\ j.to \in Targets(w)'
             /\ j.type = "prepare" => j.data = w
             /\ \A k \in net' : k.to = j.to => k = j
  BY <1>1, <1>2, <1>4 DEF CallsOf
<1>6. /\ \A n \in waiting'[w] : Called(n)'
      /\ phase'[w] \notin {"preparing", "committing"} => waiting'[w] = {}
  BY <1>1, <1>3 DEF CallsOf
<1> QED BY <1>1, <1>3, <1>5, <1>6 DEF CallsOf

(* The operation of a call, in the environments without lost calls.        *)
LEMMA CallOfLast ==
  ASSUME RegisterInv, QuietInv, Reliable, NEW m \in net
  PROVE  /\ m.op \in Ops /\ m.to \in Nodes /\ m.to # coord[m.op] /\ coord[m.op] \in Nodes
         /\ Last(m.op) /\ Working(m.op) /\ phase[m.op] # "idle"
         /\ \A v \in (m.op + 1) .. NumOps : phase[v] = "idle"
         /\ m.rid = rid[m.op] /\ m.type = Sent(m.op) /\ m.to \in Targets(m.op)
         /\ m.type = "prepare" => m.data = m.op
<1>1. TypeOK /\ m.op \in Ops /\ m.to \in Nodes /\ m.to # coord[m.op]
  BY DEF RegisterInv, TypeOK, Call, CallsElsewhere
<1>2. Last(m.op) /\ Working(m.op)
  BY <1>1 DEF QuietInv, OfLast
<1> QED BY <1>1, <1>2, CoordIsNode DEF Last, Working, CallsOf

(* The bytes of an operation before its commit are nowhere visible.        *)
LEMMA NotVisible ==
  ASSUME TypeOK, Visible, NEW w \in Ops, phase[w] \in {"idle", "started", "preparing"}, NEW n \in Nodes
  PROVE  final[n] # w
BY DEF Visible, Ops, NoFile

(* A prepare is executed or fails.                                         *)
LEMMA PrepareQuiet ==
  ASSUME RegisterInv, TypeOK', QuietInv, Reliable, NEW m \in net, ExecPrepare(m) \/ PrepareFails(m)
  PROVE  QuietInv'
<1> DEFINE w == m.op
           n == m.to
           c == coord[m.op]
<1>0. TypeOK /\ Visible
  BY DEF RegisterInv, QuietInv
<1>1. /\ w \in Ops /\ n \in Nodes /\ n # c /\ c \in Nodes /\ CallsOf(w) /\ FilesOf(w)
      /\ phase[w] # "idle" /\ \A v \in (w + 1) .. NumOps : phase[v] = "idle"
      /\ m.rid = rid[w] /\ m.type = Sent(w) /\ m.to \in Targets(w) /\ (m.type = "prepare" => m.data = w)
  BY CallOfLast DEF Working
<1>2. m.type = "prepare" /\ Answered(m) /\ UNCHANGED <<faults, kind, coord, phase, rid, final, listed>>
  BY DEF ExecPrepare, PrepareFails, opVars, procVars
<1>3. kind[w] = "put" /\ phase[w] = "preparing" /\ n \in waiting[w] /\ m.data = w
  BY <1>0, <1>1, <1>2 DEF Sent, Targets, TypeOK
<1>4. n \notin prepared[w] /\ Clean(n)
  BY <1>1, <1>3 DEF FilesOf
<1>5. PendingOf(m) = {}
  BY <1>4 DEF PendingOf, Clean
<1>6. /\ prepared'[w] \in {prepared[w], prepared[w] \cup {n}}
      /\ \A v \in Ops : v # w => prepared'[v] = prepared[v]
      /\ n \in prepared'[w] => temp'[n] = w /\ pending'[n] = {[rid |-> rid[w], op |-> w]}
      /\ n \notin prepared'[w] => temp'[n] = NoFile /\ pending'[n] = {}
      /\ \A k \in Nodes : k # n => temp'[k] = temp[k] /\ pending'[k] = pending[k]
  <2>1. CASE ExecPrepare(m)
    <3>1. /\ temp' = [temp EXCEPT ![n] = w]
          /\ pending' = [pending EXCEPT ![n] = @ \cup {[rid |-> m.rid, op |-> m.op]}]
          /\ prepared' = [prepared EXCEPT ![w] = @ \cup {n}]
      BY <1>3, <1>5, <2>1 DEF ExecPrepare
    <3>2. pending'[n] = {[rid |-> rid[w], op |-> w]}
      BY <1>0, <1>1, <1>4, <3>1 DEF Clean, TypeOK
    <3> QED BY <1>0, <1>1, <3>1, <3>2 DEF TypeOK
  <2>2. CASE PrepareFails(m)
    <3>1. UNCHANGED <<pending, prepared>> /\ temp' \in {temp, [temp EXCEPT ![n] = NoFile]}
      BY <2>2 DEF PrepareFails
    <3> QED BY <1>0, <1>1, <1>4, <3>1 DEF Clean, TypeOK
  <2> QED BY <2>1, <2>2
<1>7. /\ CallsOf(w)' /\ waiting'[w] = waiting[w] \ {n}
      /\ \A v \in Ops : v # w => waiting'[v] = waiting[v]
  BY <1>0, <1>1, <1>2, <1>3, CallAnswered
<1> HIDE DEF w, n, c
<1>8. FilesOf(w)'
  <2>1. pending[c] = {} /\ temp[c] = w
    BY <1>1, <1>3 DEF FilesOf, c, w
  <2>2. pending'[c] = {} /\ temp'[c] = w
    BY <1>1, <1>6, <2>1
  <2>3. ASSUME NEW k \in Nodes, k # c
        PROVE  /\ k \notin prepared'[w] => Clean(k)'
               /\ k \in prepared'[w] => Ready(w, k)' /\ k \notin waiting'[w]
    <3>1. CASE k = n
      BY <1>2, <1>6, <1>7, <3>1 DEF Clean, Ready
    <3>2. CASE k # n
      <4>1. /\ k \notin prepared[w] => Clean(k)
            /\ k \in prepared[w] => Ready(w, k) /\ k \notin waiting[w]
        BY <1>1, <1>3, <2>3 DEF FilesOf, c, w
      <4> QED BY <1>2, <1>6, <1>7, <3>2, <4>1 DEF Clean, Ready
    <3> QED BY <3>1, <3>2
  <2>4. coord'[w] = c /\ kind'[w] = "put" /\ phase'[w] = "preparing"
    BY <1>2, <1>3 DEF c, w
  <2> QED BY <2>2, <2>3, <2>4 DEF FilesOf
<1>9. EffectOf(w)'
  BY <1>2, <1>3 DEF EffectOf
<1>10. Visible'
  BY <1>0, <1>2 DEF Visible
<1> QED BY <1>0, <1>1, <1>2, <1>6, <1>7, <1>8, <1>9, <1>10, WorkingStep DEF Working

(* A commit or an abort is executed, once or again.                        *)
LEMMA CommitAbortQuiet ==
  ASSUME RegisterInv, TypeOK', QuietInv, Reliable, NEW m \in net, ExecCommit(m) \/ ExecAbort(m)
  PROVE  QuietInv'
<1> DEFINE w == m.op
           n == m.to
           c == coord[m.op]
<1>0. TypeOK /\ Visible
  BY DEF RegisterInv, QuietInv
<1>1. /\ w \in Ops /\ n \in Nodes /\ n # c /\ c \in Nodes /\ CallsOf(w) /\ FilesOf(w) /\ EffectOf(w)
      /\ phase[w] # "idle" /\ \A v \in (w + 1) .. NumOps : phase[v] = "idle"
      /\ m.rid = rid[w] /\ m.type = Sent(w) /\ m.to \in Targets(w)
  BY CallOfLast DEF Working
<1>2. /\ m.type \in {"commit", "abort"} /\ (Answered(m) \/ AnswerLost(m))
      /\ UNCHANGED <<faults, kind, coord, phase, rid, prepared, listed>>
  BY DEF ExecCommit, ExecAbort, opVars, procVars
<1>3. /\ kind[w] = "put" /\ phase[w] \in {"committing", "failed"}
      /\ m.type = "commit" <=> phase[w] = "committing"
  BY <1>0, <1>1, <1>2 DEF Sent, Targets, TypeOK, Phase, CallsOf
<1>4. /\ CallsOf(w)' /\ waiting'[w] \subseteq waiting[w]
      /\ \A v \in Ops : v # w => waiting'[v] = waiting[v]
      /\ \A k \in Nodes : k # n => (Called(k) => Called(k)')
  <2>1. CASE Answered(m)
    BY <1>0, <1>1, <1>2, <2>1, CallAnswered
  <2>2. CASE AnswerLost(m)
    BY <1>0, <1>1, <1>2, <2>2, CallRepeated
  <2> QED BY <1>2, <2>1, <2>2
<1>5. Clean(n) \/ Ready(w, n)
  BY <1>1, <1>3 DEF FilesOf
<1>6. /\ Clean(n) => PendingOf(m) = {}
      /\ Ready(w, n) => PendingOf(m) = pending[n] /\ pending[n] # {} /\ temp[n] # NoFile
  <2>1. Clean(n) => PendingOf(m) = {}
    BY DEF PendingOf, Clean
  <2>2. Ready(w, n) => PendingOf(m) = pending[n] /\ pending[n] # {}
    BY <1>1 DEF PendingOf, Ready
  <2>3. w # NoFile
    BY <1>1, BoundsAssumption DEF Ops, NoFile
  <2> QED BY <2>1, <2>2, <2>3 DEF Ready
<1>7. /\ temp'[n] = NoFile /\ pending'[n] = {}
      /\ \A k \in Nodes : k # n => temp'[k] = temp[k] /\ pending'[k] = pending[k] /\ final'[k] = final[k]
      /\ final'[n] = IF phase[w] = "committing" /\ Ready(w, n) THEN w ELSE final[n]
  <2>1. CASE ExecCommit(m)
    <3>0. phase[w] = "committing"
      BY <1>3, <2>1 DEF ExecCommit
    <3>1. CASE Clean(n)
      <4>1. temp' = temp /\ final' = final /\ pending' = [pending EXCEPT ![n] = @ \ {}]
        BY <1>6, <2>1, <3>1 DEF ExecCommit
      <4>2. ~Ready(w, n)
        BY <3>1 DEF Clean, Ready
      <4> QED BY <1>0, <1>1, <3>1, <4>1, <4>2 DEF Clean, TypeOK
    <3>2. CASE Ready(w, n)
      <4>1. /\ temp' = [temp EXCEPT ![n] = NoFile] /\ final' = [final EXCEPT ![n] = temp[n]]
            /\ pending' = [pending EXCEPT ![n] = @ \ pending[n]]
        BY <1>6, <2>1, <3>2 DEF ExecCommit
      <4> QED BY <1>0, <1>1, <3>0, <3>2, <4>1 DEF Ready, TypeOK
    <3> QED BY <1>5, <3>1, <3>2
  <2>2. CASE ExecAbort(m)
    <3>0. phase[w] # "committing" /\ final' = final
      BY <1>3, <2>2 DEF ExecAbort
    <3>1. CASE Clean(n)
      <4>1. temp' = temp /\ pending' = [pending EXCEPT ![n] = @ \ {}]
        BY <1>6, <2>2, <3>1 DEF ExecAbort, Dropped
      <4> QED BY <1>0, <1>1, <3>0, <3>1, <4>1 DEF Clean, TypeOK
    <3>2. CASE Ready(w, n)
      <4>1. temp' = [temp EXCEPT ![n] = NoFile] /\ pending' = [pending EXCEPT ![n] = @ \ pending[n]]
        BY <1>6, <2>2, <3>2 DEF ExecAbort, Dropped
      <4> QED BY <1>0, <1>1, <3>0, <3>2, <4>1 DEF Ready, TypeOK
    <3> QED BY <1>5, <3>1, <3>2
  <2> QED BY <2>1, <2>2
<1> HIDE DEF w, n, c
<1>8. FilesOf(w)'
  <2>1. pending[c] = {} /\ temp[c] = NoFile
    BY <1>1, <1>3 DEF FilesOf, c, w
  <2>2. pending'[c] = {} /\ temp'[c] = NoFile
    BY <1>1, <1>7, <2>1
  <2>3. ASSUME NEW k \in Nodes, k # c
        PROVE  /\ k \notin prepared'[w] => Clean(k)'
               /\ k \in prepared'[w] => Clean(k)' \/ (Ready(w, k)' /\ Called(k)')
    <3>1. CASE k = n
      BY <1>7, <3>1 DEF Clean
    <3>2. CASE k # n
      <4>1. /\ k \notin prepared[w] => Clean(k)
            /\ k \in prepared[w] => Clean(k) \/ (Ready(w, k) /\ Called(k))
        BY <1>1, <1>3, <2>3 DEF FilesOf, c, w
      <4> QED BY <1>2, <1>4, <1>7, <3>2, <4>1 DEF Clean, Ready
    <3> QED BY <3>1, <3>2
  <2>4. coord'[w] = c /\ kind'[w] = "put" /\ phase'[w] \in {"committing", "failed"}
    BY <1>2, <1>3 DEF c, w
  <2> QED BY <2>2, <2>3, <2>4 DEF FilesOf
<1>9. EffectOf(w)'
  <2> SUFFICES ASSUME phase[w] = "committing"
               PROVE  /\ QuorumAchieved(w)' /\ final'[coord'[w]] = w
                      /\ \A k \in prepared'[w] : Clean(k)' => final'[k] = w
    BY <1>2, <1>3 DEF EffectOf
  <2>1. /\ QuorumAchieved(w) /\ final[c] = w
        /\ \A k \in prepared[w] : Clean(k) => final[k] = w
    BY <1>1, <1>3 DEF EffectOf, c, w
  <2>2. QuorumAchieved(w)'
    BY <1>2, <2>1 DEF QuorumAchieved
  <2>3. final'[coord'[w]] = w
    BY <1>1, <1>2, <1>7, <2>1 DEF c, w
  <2>4. ASSUME NEW k \in prepared[w], Clean(k)' PROVE final'[k] = w
    <3>0. k \in Nodes
      BY <1>0, <1>1 DEF TypeOK
    <3>1. CASE k = n
      BY <1>5, <1>7, <2>1, <2>4, <3>1
    <3>2. CASE k # n
      BY <1>7, <2>1, <2>4, <3>0, <3>2 DEF Clean
    <3> QED BY <3>1, <3>2
  <2> QED BY <1>2, <2>2, <2>3, <2>4
<1>10. Visible'
  <2> SUFFICES ASSUME NEW k \in Nodes, final'[k] # NoFile
               PROVE  \/ phase[final'[k]] \in {"committing", "acked"}
                      \/ phase[final'[k]] = "failed" /\ "fsync_error" \in faults
    BY <1>2 DEF Visible
  <2>1. final'[k] = final[k] \/ (final'[k] = w /\ phase[w] = "committing")
    BY <1>7
  <2> QED BY <1>0, <2>1 DEF Visible
<1> QED BY <1>0, <1>1, <1>2, <1>4, <1>8, <1>9, <1>10, WorkingStep DEF Working

(* A delete is executed, once or again.                                    *)
LEMMA DeleteQuiet ==
  ASSUME RegisterInv, TypeOK', QuietInv, Reliable, NEW m \in net, ExecDelete(m)
  PROVE  QuietInv'
<1> DEFINE w == m.op
           n == m.to
<1>0. TypeOK /\ Visible
  BY DEF RegisterInv, QuietInv
<1>1. /\ w \in Ops /\ n \in Nodes /\ CallsOf(w) /\ FilesOf(w) /\ EffectOf(w)
      /\ phase[w] # "idle" /\ \A v \in (w + 1) .. NumOps : phase[v] = "idle"
      /\ m.type = Sent(w)
  BY CallOfLast DEF Working
<1>2. /\ m.type = "delete" /\ (Answered(m) \/ AnswerLost(m))
      /\ final' = [final EXCEPT ![n] = NoFile]
      /\ UNCHANGED <<faults, kind, coord, phase, rid, prepared, temp, pending, listed>>
  BY DEF ExecDelete, opVars, procVars
<1>3. kind[w] = "delete" /\ prepared[w] = {}
  BY <1>0, <1>1, <1>2 DEF Sent, TypeOK, FilesOf
<1>4. /\ CallsOf(w)' /\ waiting[w] \ {n} \subseteq waiting'[w]
      /\ \A v \in Ops : v # w => waiting'[v] = waiting[v]
  <2>1. CASE Answered(m)
    BY <1>0, <1>1, <1>2, <2>1, CallAnswered
  <2>2. CASE AnswerLost(m)
    BY <1>0, <1>1, <1>2, <2>2, CallRepeated
  <2> QED BY <1>2, <2>1, <2>2
<1> HIDE DEF w, n
<1>5. FilesOf(w)'
  BY <1>1, <1>2, <1>3 DEF FilesOf, Clean, Ready
<1>6. EffectOf(w)'
  BY <1>0, <1>1, <1>2, <1>3, <1>4 DEF EffectOf, TypeOK
<1>7. Visible'
  BY <1>0, <1>1, <1>2 DEF Visible, TypeOK
<1> QED BY <1>0, <1>1, <1>2, <1>4, <1>5, <1>6, <1>7, WorkingStep DEF Working

(* A step of a coordinator on its operation, in the terms of Working.      *)
Turns(w, p) ==
  /\ phase' = [phase EXCEPT ![w] = p]
  /\ UNCHANGED <<faults, kind, coord, pending, listed>>

(* An operation under way has no calls between its phases.                 *)
LEMMA NoCalls ==
  ASSUME TypeOK, NEW w \in Ops, CallsOf(w), phase[w] # "failed", waiting[w] = {}
  PROVE  net = {}
BY DEF CallsOf, Targets

(* A put or delete starts with nothing left from earlier operations.       *)
LEMMA StartQuiet ==
  ASSUME RegisterInv, TypeOK', QuietInv, Reliable, NEW w \in Ops, StartPut(w) \/ StartDelete(w)
  PROVE  QuietInv'
<1>0. TypeOK /\ Visible /\ Untouched /\ coord[w] \in Nodes /\ InOrder
  BY CoordIsNode DEF RegisterInv, QuietInv
<1>1. /\ CanStart(w) /\ UNCHANGED <<net, prepared, waiting, final>> /\ Turns(w, "started")
      /\ temp' = IF kind[w] = "put" THEN [temp EXCEPT ![coord[w]] = w] ELSE temp
  BY DEF StartPut, StartDelete, Turns, opVars, fileVars, procVars
<1>2. net = {} /\ phase[w] = "idle" /\ prepared[w] = {} /\ waiting[w] = {}
  BY <1>0, <1>1 DEF CanStart, Reliable, Untouched
<1>3. \A v \in Ops : ~Active(v) /\ (v > w => phase[v] = "idle")
  BY <1>0, <1>1, <1>2, BoundsAssumption DEF CanStart, InOrder, Over, Active, Ops
<1>4. \A n \in Nodes : Clean(n)
  BY <1>0, <1>2, <1>3, QuietClean
<1>5. phase'[w] = "started" /\ \A v \in Ops : v # w => phase'[v] = phase[v]
  BY <1>0, <1>1 DEF Turns, TypeOK
<1>6. CallsOf(w)'
  BY <1>1, <1>2, <1>5 DEF CallsOf
<1>7. FilesOf(w)'
  <2>1. \A n \in Nodes : pending'[n] = {} /\ (n # coord[w] => temp'[n] = NoFile)
    BY <1>0, <1>1, <1>4 DEF Clean, Turns, TypeOK
  <2>2. temp'[coord[w]] = IF kind[w] = "put" THEN w ELSE NoFile
    BY <1>0, <1>1, <1>4 DEF Clean, TypeOK
  <2> QED BY <1>0, <1>1, <1>2, <1>5, <2>1, <2>2 DEF FilesOf, Turns, Clean
<1>8. EffectOf(w)'
  BY <1>5 DEF EffectOf
<1>9. Visible'
  <2>1. \A n \in Nodes : final[n] # w
    BY <1>0, <1>2, NotVisible
  <2>2. \A n \in Nodes : final[n] # NoFile => final[n] \in Ops
    BY <1>0 DEF TypeOK, Content
  <2> QED BY <1>0, <1>1, <1>5, <2>1, <2>2 DEF Visible, Turns
<1>10. \A v \in (w + 1) .. NumOps : phase[v] = "idle"
  BY <1>3, BoundsAssumption DEF Ops
<1> QED BY <1>0, <1>1, <1>5, <1>6, <1>7, <1>8, <1>9, <1>10, WorkingStep DEF Turns, Working

(* An operation under way is the last one and at work.                     *)
LEMMA ActiveWorks ==
  ASSUME RegisterInv, QuietInv, Reliable, NEW w \in Ops, phase[w] # "idle", ~Over(w)
  PROVE  /\ CallsOf(w) /\ FilesOf(w) /\ EffectOf(w) /\ coord[w] \in Nodes
         /\ \A v \in (w + 1) .. NumOps : phase[v] = "idle"
<1>1. Last(w)
  BY ActiveLast DEF RegisterInv
<1> QED BY <1>1, CoordIsNode DEF RegisterInv, QuietInv, Working, Last

(* The prepares go out.                                                    *)
LEMMA SendQuiet ==
  ASSUME RegisterInv, TypeOK', QuietInv, Reliable, NEW w \in Ops, SendPrepares(w)
  PROVE  QuietInv'
<1> DEFINE c == coord[w]
<1>0. TypeOK /\ Visible
  BY DEF RegisterInv, QuietInv
<1>1. kind[w] = "put" /\ phase[w] = "started" /\ ~Over(w)
  BY DEF SendPrepares, Over
<1>2. /\ CallsOf(w) /\ FilesOf(w) /\ c \in Nodes
      /\ \A v \in (w + 1) .. NumOps : phase[v] = "idle"
  BY <1>1, ActiveWorks
<1>3. waiting[w] = {} /\ net = {} /\ prepared[w] = {} /\ temp[c] = w
  <2>1. waiting[w] = {}
    BY <1>1, <1>2 DEF CallsOf
  <2> QED BY <1>0, <1>1, <1>2, <2>1, NoCalls DEF FilesOf
<1>4. PICK S \in select_replica_nodes(c) :
        /\ waiting' = [waiting EXCEPT ![w] = S]
        /\ net' = net \cup Calls("prepare", w, S, counter[c], temp[c], 0)
  BY DEF SendPrepares
<1>5. /\ rid' = [rid EXCEPT ![w] = counter[c]] /\ Turns(w, "preparing") /\ UNCHANGED <<prepared, temp, final>>
  BY DEF SendPrepares, Turns, opVars, fileVars, procVars
<1>6. /\ phase'[w] = "preparing" /\ \A v \in Ops : v # w => phase'[v] = phase[v] /\ waiting'[v] = waiting[v]
      /\ waiting'[w] = S /\ rid'[w] = counter[c]
      /\ net' = Calls("prepare", w, S, counter[c], w, 0)
  BY <1>0, <1>3, <1>4, <1>5 DEF Turns, TypeOK
<1>7. CallsOf(w)'
  <2>1. Sent(w)' = "prepare" /\ Targets(w)' = S
    BY <1>1, <1>5, <1>6 DEF Sent, Targets, Turns
  <2>2. /\ \A m \in net' : /\ m.op = w /\ m.rid = rid'[w] /\ m.type = "prepare" /\ m.to \in S
                           /\ m.data = w /\ \A k \in net' : k.to = m.to => k = m
        /\ \A n \in S : \E m \in net' : m.to = n
    BY <1>6, CallsOne
  <2> QED BY <1>6, <2>1, <2>2 DEF CallsOf, Called
<1>8. FilesOf(w)'
  <2>1. \A n \in Nodes : n # c => Clean(n)
    BY <1>2, <1>3 DEF FilesOf
  <2>2. pending[c] = {}
    BY <1>2 DEF FilesOf
  <2> QED BY <1>1, <1>3, <1>5, <1>6, <2>1, <2>2 DEF FilesOf, Clean, Turns
<1>9. EffectOf(w)'
  BY <1>6 DEF EffectOf
<1>10. Visible'
  <2>1. \A n \in Nodes : final[n] # w
    BY <1>0, <1>1, NotVisible
  <2>2. \A n \in Nodes : final[n] # NoFile => final[n] \in Ops
    BY <1>0 DEF TypeOK, Content
  <2> QED BY <1>0, <1>5, <1>6, <2>1, <2>2 DEF Visible, Turns
<1> QED BY <1>0, <1>2, <1>5, <1>6, <1>7, <1>8, <1>9, <1>10, WorkingStep DEF Turns, Working

(* All prepares are answered: abort or commit.                             *)
LEMMA DecideQuiet ==
  ASSUME RegisterInv, TypeOK', QuietInv, Reliable, NEW w \in Ops,
         NoQuorum(w) \/ LocalCommit(w) \/ LocalCommitFails(w)
  PROVE  QuietInv'
<1> DEFINE c == coord[w]
           committed == LocalCommit(w)
           type == IF committed THEN "commit" ELSE "abort"
           next == IF committed THEN "committing" ELSE "failed"
<1>0. TypeOK /\ Visible /\ c \notin prepared[w]
  BY DEF RegisterInv, QuietInv, CallsElsewhere
<1>1. kind[w] = "put" /\ phase[w] = "preparing" /\ waiting[w] = {} /\ ~Over(w)
  BY DEF NoQuorum, LocalCommit, LocalCommitFails, PreparesDone, Over
<1>2. /\ CallsOf(w) /\ FilesOf(w) /\ c \in Nodes
      /\ \A v \in (w + 1) .. NumOps : phase[v] = "idle"
  BY <1>1, ActiveWorks
<1>3. net = {} /\ temp[c] = w /\ pending[c] = {} /\ prepared[w] \subseteq Nodes
  BY <1>0, <1>1, <1>2, NoCalls DEF FilesOf, TypeOK
<1>4. /\ Turns(w, next) /\ UNCHANGED <<rid, prepared>>
      /\ net' = net \cup Calls(type, w, prepared[w], rid[w], NoFile, MaxRetries)
      /\ waiting' = [waiting EXCEPT ![w] = IF committed THEN prepared[w] ELSE {}]
      /\ temp' = [temp EXCEPT ![c] = NoFile]
  <2>1. CASE committed
    BY <2>1 DEF LocalCommit, Turns, opVars, procVars
  <2>2. CASE ~committed
    BY <2>2 DEF NoQuorum, LocalCommitFails, Fail, abort_all, Turns, opVars, procVars
  <2> QED BY <2>1, <2>2
<1>5. /\ committed => final' = [final EXCEPT ![c] = w] /\ QuorumAchieved(w)
      /\ ~committed => final' = final \/ ("fsync_error" \in faults /\ final' = [final EXCEPT ![c] = w])
  BY <1>3 DEF NoQuorum, LocalCommit, LocalCommitFails
<1> HIDE DEF committed
<1>6. /\ phase'[w] = next /\ \A v \in Ops : v # w => phase'[v] = phase[v] /\ waiting'[v] = waiting[v]
      /\ waiting'[w] = IF committed THEN prepared[w] ELSE {}
      /\ net' = Calls(type, w, prepared[w], rid[w], NoFile, MaxRetries)
      /\ temp'[c] = NoFile /\ \A n \in Nodes : n # c => temp'[n] = temp[n]
      /\ kind'[w] = "put" /\ coord'[w] = c /\ pending' = pending
  BY <1>0, <1>1, <1>2, <1>3, <1>4 DEF Turns, TypeOK
<1>7. \A n \in prepared[w] : Called(n)'
  BY <1>6, CallsOne DEF Called
<1>8. CallsOf(w)'
  <2>1. Sent(w)' = type /\ Targets(w)' = prepared[w]
    BY <1>4, <1>6 DEF Sent, Targets
  <2>2. \A m \in net' : /\ m.op = w /\ m.rid = rid'[w] /\ m.type = type /\ m.to \in prepared[w]
                        /\ \A k \in net' : k.to = m.to => k = m
    BY <1>4, <1>6, CallsOne
  <2>3. type # "prepare"
    OBVIOUS
  <2>4. /\ \A n \in waiting'[w] : Called(n)'
        /\ phase'[w] \notin {"preparing", "committing"} => waiting'[w] = {}
    BY <1>6, <1>7
  <2> QED BY <2>1, <2>2, <2>3, <2>4 DEF CallsOf
<1>9. FilesOf(w)'
  <2>1. ASSUME NEW n \in Nodes, n # c
        PROVE  /\ n \notin prepared'[w] => Clean(n)'
               /\ n \in prepared'[w] => Ready(w, n)' /\ Called(n)'
    <3>1. /\ n \notin prepared[w] => Clean(n)
          /\ n \in prepared[w] => Ready(w, n)
      BY <1>1, <1>2, <2>1 DEF FilesOf
    <3> QED BY <1>4, <1>6, <1>7, <2>1, <3>1 DEF Clean, Ready
  <2>2. phase'[w] \notin {"started", "preparing"}
    BY <1>6
  <2> QED BY <1>3, <1>6, <2>1, <2>2 DEF FilesOf
<1>10. EffectOf(w)'
  <2> SUFFICES ASSUME committed
               PROVE  /\ QuorumAchieved(w)' /\ final'[c] = w
                      /\ \A n \in prepared'[w] : Clean(n)' => final'[n] = w
    BY <1>6 DEF EffectOf
  <2>1. QuorumAchieved(w)'
    BY <1>4, <1>5 DEF QuorumAchieved
  <2>2. final'[c] = w
    BY <1>0, <1>2, <1>5 DEF TypeOK
  <2>3. ASSUME NEW n \in prepared[w] PROVE ~Clean(n)'
    <3>1. Ready(w, n) /\ n # c /\ n \in Nodes
      BY <1>0, <1>1, <1>2, <1>3, <2>3 DEF FilesOf
    <3>2. w # NoFile
      BY BoundsAssumption DEF Ops, NoFile
    <3> QED BY <1>6, <3>1, <3>2 DEF Clean, Ready
  <2> QED BY <1>4, <2>1, <2>2, <2>3
<1>11. Visible'
  <2>1. \A n \in Nodes : final[n] # w
    BY <1>0, <1>1, NotVisible
  <2>2. \A n \in Nodes : final[n] # NoFile => final[n] \in Ops
    BY <1>0 DEF TypeOK, Content
  <2>3. ASSUME NEW n \in Nodes
        PROVE  final'[n] = final[n] \/ (final'[n] = w /\ (committed \/ "fsync_error" \in faults))
    BY <1>0, <1>5 DEF TypeOK
  <2>4. faults' = faults
    BY <1>4 DEF Turns
  <2>5. ASSUME NEW n \in Nodes, final'[n] # NoFile
        PROVE  \/ phase'[final'[n]] \in {"committing", "acked"}
               \/ phase'[final'[n]] = "failed" /\ "fsync_error" \in faults
    <3>1. CASE final'[n] = final[n]
      <4>1. final[n] \in Ops /\ final[n] # w
        BY <2>1, <2>2, <2>5, <3>1
      <4> QED BY <1>0, <1>6, <2>5, <3>1, <4>1 DEF Visible
    <3>2. CASE final'[n] = w /\ (committed \/ "fsync_error" \in faults)
      BY <1>6, <3>2
    <3> QED BY <2>3, <3>1, <3>2
  <2> QED BY <2>4, <2>5 DEF Visible
<1> QED BY <1>0, <1>2, <1>4, <1>6, <1>8, <1>9, <1>10, <1>11, WorkingStep DEF Turns, Working

(* A delete goes out, or finds nothing.                                    *)
LEMMA DeleteStartsQuiet ==
  ASSUME RegisterInv, TypeOK', QuietInv, Reliable, NEW w \in Ops,
         LocalDelete(w) \/ DeleteNotFound(w)
  PROVE  QuietInv'
<1> DEFINE c == coord[w]
           others == Nodes \ {c}
           done == LocalDelete(w)
           next == IF done THEN "committing" ELSE "failed"
<1>0. TypeOK /\ Visible
  BY DEF RegisterInv, QuietInv
<1>1. kind[w] = "delete" /\ phase[w] = "started" /\ ~Over(w)
  BY DEF LocalDelete, DeleteNotFound, Over
<1>2. /\ CallsOf(w) /\ FilesOf(w) /\ c \in Nodes
      /\ \A v \in (w + 1) .. NumOps : phase[v] = "idle"
  BY <1>1, ActiveWorks
<1>3. /\ waiting[w] = {} /\ net = {} /\ prepared[w] = {}
      /\ temp[c] = NoFile /\ pending[c] = {} /\ \A n \in others : Clean(n)
  <2>1. waiting[w] = {}
    BY <1>1, <1>2 DEF CallsOf
  <2> QED BY <1>0, <1>1, <1>2, <2>1, NoCalls DEF FilesOf
<1>4. /\ Turns(w, next) /\ UNCHANGED <<rid, prepared, temp>>
      /\ net' = IF done THEN Calls("delete", w, others, rid[w], NoFile, MaxRetries) ELSE {}
      /\ waiting' = [waiting EXCEPT ![w] = IF done THEN others ELSE {}]
      /\ final' = IF done THEN [final EXCEPT ![c] = NoFile] ELSE final
  <2>1. CASE done
    BY <1>3, <2>1 DEF LocalDelete, Turns, opVars, procVars
  <2>2. CASE ~done
    BY <1>3, <2>2 DEF DeleteNotFound, Fail, Turns, opVars, fileVars, procVars
  <2> QED BY <2>1, <2>2
<1> HIDE DEF done
<1>5. /\ phase'[w] = next /\ \A v \in Ops : v # w => phase'[v] = phase[v] /\ waiting'[v] = waiting[v]
      /\ waiting'[w] = IF done THEN others ELSE {}
      /\ kind'[w] = "delete" /\ coord'[w] = c /\ pending' = pending /\ faults' = faults
  BY <1>0, <1>1, <1>4 DEF Turns, TypeOK
<1>6. CallsOf(w)'
  <2>1. Sent(w)' = "delete" /\ (done => Targets(w)' = others)
    BY <1>5 DEF Sent, Targets
  <2>2. \A m \in net' : /\ done /\ m.op = w /\ m.rid = rid'[w] /\ m.type = "delete" /\ m.to \in others
                        /\ \A k \in net' : k.to = m.to => k = m
    <3>1. CASE done
      BY <1>4, <3>1, CallsOne
    <3>2. CASE ~done
      BY <1>4, <3>2
    <3> QED BY <3>1, <3>2
  <2>3. \A n \in waiting'[w] : Called(n)'
    <3>1. CASE done
      BY <1>4, <1>5, <3>1, CallsOne DEF Called
    <3>2. CASE ~done
      BY <1>5, <3>2
    <3> QED BY <3>1, <3>2
  <2>4. phase'[w] \notin {"preparing", "committing"} => waiting'[w] = {}
    BY <1>5
  <2> QED BY <2>1, <2>2, <2>3, <2>4 DEF CallsOf
<1>7. FilesOf(w)'
  BY <1>3, <1>4, <1>5 DEF FilesOf, Clean
<1>8. EffectOf(w)'
  BY <1>0, <1>2, <1>4, <1>5 DEF EffectOf, TypeOK
<1>9. Visible'
  <2>1. \A n \in Nodes : final[n] # w
    BY <1>0, <1>1, NotVisible
  <2>2. \A n \in Nodes : final[n] # NoFile => final[n] \in Ops
    BY <1>0 DEF TypeOK, Content
  <2>3. \A n \in Nodes : final'[n] \in {final[n], NoFile}
    BY <1>0, <1>4 DEF TypeOK
  <2> QED BY <1>0, <1>5, <2>1, <2>2, <2>3 DEF Visible
<1> QED BY <1>0, <1>2, <1>4, <1>5, <1>6, <1>7, <1>8, <1>9, WorkingStep DEF Turns, Working

(* The operation is acknowledged.                                          *)
LEMMA AckQuiet ==
  ASSUME RegisterInv, TypeOK', QuietInv, Reliable, NEW w \in Ops, Ack(w)
  PROVE  QuietInv'
<1>0. TypeOK /\ Visible
  BY DEF RegisterInv, QuietInv
<1>1. phase[w] = "committing" /\ waiting[w] = {} /\ ~Over(w)
  BY DEF Ack, Over
<1>2. /\ CallsOf(w) /\ FilesOf(w) /\ EffectOf(w)
      /\ \A v \in (w + 1) .. NumOps : phase[v] = "idle"
  BY <1>1, ActiveWorks
<1>3. net = {}
  BY <1>0, <1>1, <1>2, NoCalls
<1>4. /\ Turns(w, "acked") /\ UNCHANGED <<rid, prepared, waiting, net, temp, final>>
  BY DEF Ack, Turns, opVars, fileVars, procVars
<1>5. phase'[w] = "acked" /\ \A v \in Ops : v # w => phase'[v] = phase[v]
  BY <1>0, <1>4 DEF Turns, TypeOK
<1>6. CallsOf(w)'
  BY <1>1, <1>3, <1>4, <1>5 DEF CallsOf
<1>7. FilesOf(w)'
  <2>1. \A n \in Nodes : n # coord[w] =>
          /\ n \notin prepared[w] => Clean(n)
          /\ n \in prepared[w] => Clean(n) \/ (Ready(w, n) /\ Called(n))
    BY <1>1, <1>2 DEF FilesOf
  <2>2. /\ pending[coord[w]] = {} /\ temp[coord[w]] = NoFile
        /\ kind[w] = "delete" => prepared[w] = {}
    BY <1>1, <1>2 DEF FilesOf
  <2>3. \A n \in Nodes : (Clean(n)' <=> Clean(n)) /\ ~Called(n)
    BY <1>3, <1>4 DEF Clean, Called, Turns
  <2> QED BY <1>4, <1>5, <2>1, <2>2, <2>3 DEF FilesOf, Turns
<1>8. EffectOf(w)'
  BY <1>1, <1>2, <1>4, <1>5 DEF EffectOf, QuorumAchieved, Clean, Turns
<1>9. Visible'
  <2>1. \A n \in Nodes : final[n] # NoFile => final[n] \in Ops
    BY <1>0 DEF TypeOK, Content
  <2> QED BY <1>0, <1>4, <1>5, <2>1 DEF Visible, Turns
<1> QED BY <1>0, <1>2, <1>4, <1>5, <1>6, <1>7, <1>8, <1>9, WorkingStep DEF Turns, Working

(* An operation that is old has left nothing for the cleanups.             *)
LEMMA OldIsClean ==
  ASSUME TypeOK, QuietInv, Reliable, NEW w \in Ops, Last(w), Old(w), NEW n \in Nodes
  PROVE  Clean(n)
<1>1. Working(w) /\ phase[w] \in {"acked", "failed"}
  BY DEF QuietInv, Old, Over
<1>2. ~Called(n)
  BY <1>1 DEF Called, Old, Working, CallsOf
<1>3. CASE n = coord[w]
  BY <1>1, <1>3 DEF Working, FilesOf, Clean
<1>4. CASE n # coord[w]
  BY <1>1, <1>2, <1>4 DEF Working, FilesOf
<1> QED BY <1>3, <1>4

(* In a reliable environment the cleanups find nothing to do.              *)
LEMMA NothingToClean ==
  ASSUME TypeOK, QuietInv, Reliable, NEW n \in Nodes
  PROVE  ~CleanupStale(n) /\ ~GcList(n) /\ ~GcRemove(n)
<1>1. ASSUME NEW p \in pending[n], Old(p.op) PROVE FALSE
  <2>1. p.op \in Ops /\ Last(p.op)
    BY DEF TypeOK, QuietInv, OfLast
  <2> QED BY <1>1, <2>1, OldIsClean DEF Clean
<1>2. ASSUME temp[n] # NoFile, Old(temp[n]) PROVE FALSE
  <2>1. temp[n] \in Ops /\ Last(temp[n])
    BY <1>2 DEF TypeOK, Content, QuietInv, OfLast
  <2> QED BY <1>2, <2>1, OldIsClean DEF Clean
<1>3. ~listed[n]
  BY DEF QuietInv, Untouched
<1> QED BY <1>1, <1>2, <1>3 DEF CleanupStale, GcList, GcRemove

(* What belongs to the last operation, for one step.                       *)
LEMMA QuietStep ==
  ASSUME RegisterInv, TypeOK', QuietInv, [Next]_vars
  PROVE  QuietInv'
<1>0. TypeOK
  BY DEF RegisterInv
<1>1. Reliable' => Reliable
  BY DEF Reliable, Next, vars, Coordinate, StartPut, StartDelete, SendPrepares,
     TempLost, NoQuorum, LocalCommit, LocalCommitFails, LocalDelete,
     DeleteNotFound, Ack, Cancel, Execute, ExecPrepare, ExecCommit, ExecAbort,
     ExecDelete, PrepareFails, CommitFails, GiveUp, CleanupStale, GcList, GcRemove,
     Crash, opVars
<1>2. CASE ~Reliable
  BY <1>1, <1>2 DEF QuietInv
<1>3. CASE Reliable
  <2>1. /\ \A w \in Ops : ~Cancel(w)
        /\ \A m \in net : ~CommitFails(m) /\ ~GiveUp(m)
        /\ \A n \in Nodes : ~Crash(n)
    BY <1>3 DEF Reliable, Cancel, CommitFails, GiveUp, Crash
  <2>2. \A w \in Ops : ~TempLost(w)
    <3> SUFFICES ASSUME NEW w \in Ops, TempLost(w) PROVE FALSE
      OBVIOUS
    <3>1. kind[w] = "put" /\ phase[w] = "started" /\ temp[coord[w]] = NoFile /\ ~Over(w)
      BY DEF TempLost, Over
    <3>2. FilesOf(w)
      BY <1>3, <3>1, ActiveWorks
    <3>3. w # NoFile
      BY BoundsAssumption DEF Ops, NoFile
    <3> QED BY <3>1, <3>2, <3>3 DEF FilesOf
  <2>3. ASSUME NEW w \in Ops, Coordinate(w) PROVE QuietInv'
    BY <1>3, <2>2, <2>3, StartQuiet, SendQuiet, DecideQuiet, DeleteStartsQuiet, AckQuiet
       DEF Coordinate
  <2>4. ASSUME NEW m \in net, Execute(m) \/ PrepareFails(m) PROVE QuietInv'
    BY <1>3, <2>4, PrepareQuiet, CommitAbortQuiet, DeleteQuiet DEF Execute
  <2>5. CASE UNCHANGED vars
    BY <2>5 DEF vars, QuietInv, Reliable, OfLast, Visible, Untouched, Last, Working, CallsOf,
       FilesOf, EffectOf, Clean, Ready, Called, Sent, Targets, QuorumAchieved
  <2>6. \A n \in Nodes : ~CleanupStale(n) /\ ~GcList(n) /\ ~GcRemove(n)
    BY <1>0, <1>3, NothingToClean
  <2> QED BY <2>1, <2>3, <2>4, <2>5, <2>6 DEF Next
<1> QED BY <1>2, <1>3

(* If every failure is one the coordinator learns of before it commits,    *)
(* all calls, handles and temp files are those of the operation that       *)
(* started last, and a prepared replica that has nothing left has renamed  *)
(* its file.                                                               *)
THEOREM QuietInductive == Spec => [](RegisterInv /\ QuietInv)
<1>1. ASSUME Init PROVE QuietInv
  <2>1. \A w \in Ops : phase[w] = "idle"
    BY <1>1 DEF Init
  <2>2. OfLast /\ Visible /\ Untouched
    BY <1>1 DEF Init, OfLast, Visible, Untouched
  <2> QED BY <2>1, <2>2 DEF QuietInv, Last
<1>2. RegisterInv /\ RegisterInv' /\ QuietInv /\ [Next]_vars => QuietInv'
  BY QuietStep DEF RegisterInv
<1> QED BY <1>1, <1>2, RegisterInvariant, PTL DEF Spec

(* With no failure after the prepares that a retry does not repair and no  *)
(* fsync that fails after its rename, a put that the client was told has   *)
(* failed is never what a node serves (coordinator.rs complete_2pc_write,  *)
(* service.rs commit_object and abort_object).                             *)
THEOREM FailedNeverVisible == Spec => []FailedInvisible
<1>1. RegisterInv /\ QuietInv => FailedInvisible
  BY DEF QuietInv, Visible, FailedInvisible
<1> QED BY <1>1, QuietInductive, PTL

(* Then a finished operation leaves no temp file and no pending prepare on *)
(* any node: whatever was prepared has been committed or aborted           *)
(* (coordinator.rs commit_all and abort_all).                              *)
THEOREM NothingIsLeft == Spec => []NothingLeft
<1>1. RegisterInv /\ QuietInv => NothingLeft
  BY QuietClean DEF RegisterInv, NothingLeft, Clean
<1> QED BY <1>1, QuietInductive, PTL

(* Then an acknowledged put is in the final file of a write quorum and is  *)
(* what every prepared replica serves, and after an acknowledged delete no *)
(* node serves anything, until the next operation starts (coordinator.rs   *)
(* complete_2pc_write and replicate_delete).                               *)
THEOREM AckedIsEffective == Spec => []AckedTakesEffect
<1>1. ASSUME RegisterInv, QuietInv, Reliable, NEW w \in Ops, Last(w), phase[w] = "acked"
      PROVE  IF kind[w] = "put"
             THEN /\ Cardinality({n \in Nodes : final[n] = w}) >= write_quorum
                  /\ \A n \in prepared[w] : get_object(n) = {w}
             ELSE \A n \in Nodes : get_object(n) = {NoFile}
  <2>1. /\ TypeOK /\ CallsOf(w) /\ FilesOf(w) /\ EffectOf(w) /\ coord[w] \notin prepared[w]
        /\ coord[w] \in Nodes /\ prepared[w] \subseteq Nodes
    BY <1>1, CoordIsNode DEF RegisterInv, QuietInv, Working, CallsElsewhere, TypeOK
  <2>2. waiting[w] = {}
    BY <1>1, <2>1 DEF CallsOf
  <2>3. net = {}
    BY <1>1, <2>1, <2>2, NoCalls
  <2>4. CASE kind[w] = "put"
    <3>1. \A n \in prepared[w] : Clean(n)
      BY <1>1, <2>1, <2>3 DEF FilesOf, Called
    <3>2. final[coord[w]] = w /\ QuorumAchieved(w) /\ \A n \in prepared[w] : final[n] = w
      BY <1>1, <2>1, <2>4, <3>1 DEF EffectOf
    <3> DEFINE holders == {n \in Nodes : final[n] = w}
               counted == prepared[w] \cup {coord[w]}
    <3>3. IsFiniteSet(prepared[w]) /\ IsFiniteSet(holders)
      BY <2>1, NodesAssumption, FS_Subset
    <3>4. /\ Cardinality(counted) = Cardinality(prepared[w]) + 1
          /\ IsFiniteSet(counted)
      BY <2>1, <3>3, FS_AddElement
    <3>5. counted \subseteq holders
      BY <2>1, <3>2
    <3>6. Cardinality(counted) <= Cardinality(holders)
      BY <3>3, <3>5, FS_Subset
    <3>7. Cardinality(prepared[w]) \in Nat /\ Cardinality(holders) \in Nat /\ Cardinality(counted) \in Nat
      BY <3>3, <3>4, FS_CardinalityType
    <3>8. write_quorum \in Int
      BY BoundsAssumption DEF write_quorum
    <3>9. Cardinality(holders) >= write_quorum
      BY <3>2, <3>4, <3>6, <3>7, <3>8 DEF QuorumAchieved
    <3>10. w # NoFile
      BY BoundsAssumption DEF Ops, NoFile
    <3> QED BY <2>4, <3>2, <3>9, <3>10 DEF get_object
  <2>5. CASE kind[w] = "delete"
    <3>1. \A n \in Nodes : final[n] = NoFile
      BY <1>1, <2>1, <2>2, <2>5 DEF EffectOf
    <3>2. \A n \in Nodes : read_from_replica(n) = {}
      BY <3>1 DEF read_from_replica, read_object
    <3> QED BY <2>5, <3>1, <3>2 DEF get_object
  <2> QED BY <2>1, <2>4, <2>5 DEF TypeOK
<1>2. RegisterInv /\ QuietInv => AckedTakesEffect
  BY <1>1 DEF AckedTakesEffect
<1> QED BY <1>2, QuietInductive, PTL
=============================================================================
