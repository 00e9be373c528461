--------------------------- MODULE DistributedLock ---------------------------
(***************************************************************************)
(* The per-object read/write lock of save-metadata/src/lock.rs.            *)
(*                                                                         *)
(* The lock table lives in RocksDB and changes only when a replica applies *)
(* a committed AcquireLock or ReleaseLock command.  A request handler asks *)
(* the DistributedLockManager of its node for a guard: the manager checks  *)
(* the table of its own replica, submits an AcquireLock through Raft, and  *)
(* then reads its own replica again to learn whether it got the lock.      *)
(* Dropping a guard spawns a task that submits a ReleaseLock.              *)
(*                                                                         *)
(* Raft itself (openraft) is external: committed commands form one         *)
(* sequence that every replica applies in order.  history[i] is the table  *)
(* after the first i - 1 commands, so the table of a replica is            *)
(* history[applied[n]].                                                    *)
(***************************************************************************)
EXTENDS Integers, Sequences

CONSTANTS
  Nodes,        \* the cluster's nodes
  Keys,         \* the objects, one per (bucket, key)
  Requests,     \* handler invocations, each of which asks for one lock
  Faults,       \* the failures the environment may cause, see FaultKinds
  MaxRestarts,  \* bound: process crashes followed by a restart
  MaxLog        \* bound: committed lock commands

(* timeout:       the 30 s budget runs out, or the client goes away and its *)
(*                handler future is dropped                                *)
(* write_error:   RaftNode::write returns an error for an AcquireLock      *)
(* release_error: RaftNode::write returns an error for a ReleaseLock       *)
FaultKinds == {"timeout", "write_error", "release_error"}

ASSUME FaultsAssumption == Faults \subseteq FaultKinds
ASSUME BoundsAssumption == MaxRestarts \in Nat /\ MaxLog \in Nat

VARIABLES
  op,        \* what each request asks for: its node, key and lock type
  phase,     \* how far each request has got
  id,        \* the lock_id part of each request's LockHolder
  index,     \* the position at which a waiting request's command committed
  cmds,      \* commands submitted to Raft and not committed
  history,   \* the lock tables produced by the committed commands
  applied,   \* for each node, the table its replica has reached
  counter,   \* lock_counter of each node's DistributedLockManager
  restarts   \* crashes so far

vars == <<op, phase, id, index, cmds, history, applied, counter, restarts>>

LockType == {"Read", "Write"}
Op       == [node : Nodes, key : Keys, type : LockType]

(* idle: not yet started; trying: in the retry loop, nothing submitted;    *)
(* writing: awaiting its AcquireLock; held: has the guard; dropping: the   *)
(* guard is dropped, the release task has not submitted; done: it has;     *)
(* failed: returned an error, or died with its process.                    *)
Phase == {"idle", "trying", "writing", "held", "dropping", "done", "failed"}

LockHolder == [node : Nodes, id : Nat]

(* A table entry; a key that is absent from the database is NoLock.        *)
LockState == [type : LockType \cup {"none"}, holders : SUBSET LockHolder]
NoLock    == [type |-> "none", holders |-> {}]
LockTable == [Keys -> LockState]

Command == {"acquire", "release"} \X Requests

Holder(r) == [node |-> op[r].node, id |-> id[r]]

Newest        == history[Len(history)]
LocalTable(n) == history[applied[n]]

-----------------------------------------------------------------------------
(* The replicated state machine: lock.rs acquire_lock and release_lock.    *)

is_held_by(state, h) == h \in state.holders

(* Faulty variant: a reader joins whatever entry there is.                 *)
can_acquire_any_read(state, type, h) == is_held_by(state, h) \/ type = "Read"

can_acquire(state, type, h) ==
  \/ is_held_by(state, h)
  \/ state.type = "Read" /\ type = "Read"

acquire_lock(state, type, h) ==
  IF state = NoLock THEN [type |-> type, holders |-> {h}]
  ELSE IF is_held_by(state, h) \/ ~can_acquire(state, type, h) THEN state
  ELSE [type |-> state.type, holders |-> state.holders \cup {h}]

(* Faulty variants: the release ignores who holds the lock, or leaves the  *)
(* key in the database with an empty holder list.                          *)
release_lock_of_all(state, h) == NoLock
release_lock_keeps_key(state, h) == [state EXCEPT !.holders = @ \ {h}]

release_lock(state, h) ==
  IF state.holders \ {h} = {} THEN NoLock
  ELSE [type |-> state.type, holders |-> state.holders \ {h}]

apply_command(table, c) ==
  LET r == c[2]
  IN  [table EXCEPT ![op[r].key] =
         IF c[1] = "acquire" THEN acquire_lock(@, op[r].type, Holder(r))
                             ELSE release_lock(@, Holder(r))]

-----------------------------------------------------------------------------
Init ==
  /\ op \in [Requests -> Op]
  /\ phase = [r \in Requests |-> "idle"]
  /\ id = [r \in Requests |-> 0]
  /\ index = [r \in Requests |-> 0]
  /\ cmds = {}
  /\ history = <<[k \in Keys |-> NoLock]>>
  /\ applied = [n \in Nodes |-> 1]
  /\ counter = [n \in Nodes |-> 0]
  /\ restarts = 0

(* A handler calls acquire_read_lock or acquire_write_lock: next_holder    *)
(* takes a fresh lock_id from the process's counter.                       *)
Start(r) ==
  LET n == op[r].node
  IN  /\ phase[r] = "idle"
      /\ phase' = [phase EXCEPT ![r] = "trying"]
      /\ id' = [id EXCEPT ![r] = counter[n]]
      /\ counter' = [counter EXCEPT ![n] = @ + 1]
      /\ UNCHANGED <<op, index, cmds, history, applied, restarts>>

can_acquire_locally(r) ==
  LET state == LocalTable(op[r].node)[op[r].key]
  IN  state = NoLock \/ can_acquire(state, op[r].type, Holder(r))

(* One pass of the loop in acquire_lock_internal that gets past the local  *)
(* check and submits the command.  A pass that does not only sleeps.  When *)
(* Raft has lost its leader write_with_retry submits the command again,    *)
(* and the first copy may be committed as well.  Both copies come before   *)
(* the answer, and so before any release of this holder; the second finds  *)
(* the holder in the table and changes nothing.  One copy stands for both. *)
Propose(r) ==
  /\ phase[r] = "trying"
  /\ can_acquire_locally(r)
  /\ phase' = [phase EXCEPT ![r] = "writing"]
  /\ cmds' = cmds \cup {<<"acquire", r>>}
  /\ UNCHANGED <<op, id, index, history, applied, counter, restarts>>

(* Raft commits a submitted command.                                       *)
Commit(c) ==
  /\ c \in cmds
  /\ Len(history) <= MaxLog
  /\ cmds' = cmds \ {c}
  /\ history' = Append(history, apply_command(Newest, c))
  /\ index' = IF c[1] = "acquire" /\ phase[c[2]] = "writing"
              THEN [index EXCEPT ![c[2]] = Len(history) + 1]
              ELSE index
  /\ UNCHANGED <<op, phase, id, applied, counter, restarts>>

(* A replica applies the next committed command.                           *)
Apply(n) ==
  /\ applied[n] < Len(history)
  /\ applied' = [applied EXCEPT ![n] = @ + 1]
  /\ UNCHANGED <<op, phase, id, index, cmds, history, counter, restarts>>

(* Faulty variant: a guard is returned without reading the table again.    *)
Verify_trusting(r) ==
  /\ phase[r] = "writing"
  /\ 0 < index[r] /\ index[r] <= applied[op[r].node]
  /\ phase' = [phase EXCEPT ![r] = "held"]
  /\ index' = [index EXCEPT ![r] = 0]
  /\ UNCHANGED <<op, id, cmds, history, applied, counter, restarts>>

(* The AcquireLock has been applied by this node, so client_write returns  *)
(* and try_acquire_lock reads the local table: a guard, or another pass.   *)
Verify(r) ==
  LET n == op[r].node
  IN  /\ phase[r] = "writing"
      /\ 0 < index[r] /\ index[r] <= applied[n]
      /\ phase' = [phase EXCEPT ![r] =
                     IF is_held_by(LocalTable(n)[op[r].key], Holder(r))
                     THEN "held" ELSE "trying"]
      /\ index' = [index EXCEPT ![r] = 0]
      /\ UNCHANGED <<op, id, cmds, history, applied, counter, restarts>>

(* RaftNode::write gives up on the AcquireLock.  A NotLeader error means   *)
(* the command was not accepted; after any other error it may commit yet.  *)
WriteFails(r) ==
  /\ "write_error" \in Faults
  /\ phase[r] = "writing"
  /\ phase' = [phase EXCEPT ![r] = "failed"]
  /\ index' = [index EXCEPT ![r] = 0]
  /\ cmds' \in {cmds, cmds \ {<<"acquire", r>>}}
  /\ UNCHANGED <<op, id, history, applied, counter, restarts>>

(* The timeout drops the acquire future: the handler returns an error, and *)
(* a command it has submitted stays with Raft.                             *)
Timeout(r) ==
  /\ "timeout" \in Faults
  /\ phase[r] \in {"trying", "writing"}
  /\ phase' = [phase EXCEPT ![r] = "failed"]
  /\ index' = [index EXCEPT ![r] = 0]
  /\ UNCHANGED <<op, id, cmds, history, applied, counter, restarts>>

(* The handler returns, fails or is cancelled, and its guard is dropped.   *)
DropGuard(r) ==
  /\ phase[r] = "held"
  /\ phase' = [phase EXCEPT ![r] = "dropping"]
  /\ UNCHANGED <<op, id, index, cmds, history, applied, counter, restarts>>

(* Faulty variant: Drop does not submit the ReleaseLock.                   *)
SubmitRelease_never(r) ==
  /\ phase[r] = "dropping"
  /\ phase' = [phase EXCEPT ![r] = "done"]
  /\ UNCHANGED <<op, id, index, cmds, history, applied, counter, restarts>>

(* The task spawned by Drop submits the ReleaseLock.                       *)
SubmitRelease(r) ==
  /\ phase[r] = "dropping"
  /\ phase' = [phase EXCEPT ![r] = "done"]
  /\ cmds' = cmds \cup {<<"release", r>>}
  /\ UNCHANGED <<op, id, index, history, applied, counter, restarts>>

(* The write of the ReleaseLock fails: the task logs a warning and ends.   *)
ReleaseFails(r) ==
  /\ "release_error" \in Faults
  /\ phase[r] = "dropping"
  /\ phase' = [phase EXCEPT ![r] = "done"]
  /\ UNCHANGED <<op, id, index, cmds, history, applied, counter, restarts>>

(* The process dies and starts again: its handlers and release tasks are   *)
(* gone and DistributedLockManager::new starts lock_counter at 0, while    *)
(* the table is on disk and submitted commands may still commit.           *)
Restart(n) ==
  /\ restarts < MaxRestarts
  /\ restarts' = restarts + 1
  /\ counter' = [counter EXCEPT ![n] = 0]
  /\ phase' = [r \in Requests |->
                 IF op[r].node = n /\ phase[r] \notin {"idle", "done"}
                 THEN "failed" ELSE phase[r]]
  /\ UNCHANGED <<op, id, index, cmds, history, applied>>

Next ==
  \/ \E r \in Requests :
       \/ Start(r) \/ Propose(r) \/ Verify(r) \/ WriteFails(r) \/ Timeout(r)
       \/ DropGuard(r) \/ SubmitRelease(r) \/ ReleaseFails(r)
  \/ \E c \in cmds : Commit(c)
  \/ \E n \in Nodes : Apply(n) \/ Restart(n)

Spec == Init /\ [][Next]_vars

(* The runtime keeps polling a request's future and a spawned release      *)
(* task, a handler that holds a guard returns, and Raft with a leader      *)
(* commits what it accepted and brings every replica up to date.           *)
Fairness ==
  /\ \A r \in Requests :
       /\ WF_vars(Propose(r)) /\ WF_vars(Verify(r))
       /\ WF_vars(DropGuard(r)) /\ WF_vars(SubmitRelease(r))
  /\ \A c \in Command : WF_vars(Commit(c))
  /\ \A n \in Nodes : WF_vars(Apply(n))

FairSpec == Spec /\ Fairness

-----------------------------------------------------------------------------
TypeOK ==
  /\ op \in [Requests -> Op]
  /\ phase \in [Requests -> Phase]
  /\ id \in [Requests -> Nat]
  /\ index \in [Requests -> Nat]
  /\ cmds \subseteq Command
  /\ history \in Seq(LockTable) /\ Len(history) > 0
  /\ applied \in [Nodes -> Nat]
  /\ \A n \in Nodes : applied[n] \in 1..Len(history)
  /\ counter \in [Nodes -> Nat]
  /\ restarts \in Nat

(* Every entry of every table a replica may show has one holder if it is a *)
(* write entry and at least one if it exists, whatever times out, fails or *)
(* restarts: acquire_lock never adds to a write entry and release_lock     *)
(* deletes the key with its last holder.                                   *)
TableExclusive ==
  \A i \in 1..Len(history), k \in Keys :
    LET state == history[i][k]
    IN  /\ state.type = "none" <=> state.holders = {}
        /\ state.type = "Write" =>
             \A g, h \in state.holders : g = h

(* Handlers that hold guards on one object at the same time all hold read  *)
(* guards: no PUT or DELETE overlaps any other operation on its object.    *)
MutualExclusion ==
  \A q, r \in Requests :
    q # r /\ phase[q] = "held" /\ phase[r] = "held" /\ op[q].key = op[r].key
      => op[q].type = "Read" /\ op[r].type = "Read"

(* The lock managers gave different LockHolders to different requests.     *)
UniqueHolders ==
  \A q, r \in Requests :
    q # r /\ phase[q] # "idle" /\ phase[r] # "idle" => Holder(q) # Holder(r)

(* Whatever crashes, fails or times out, mutual exclusion can be lost only *)
(* by two requests having received the same LockHolder.                    *)
ExclusiveWhenUnique == UniqueHolders => MutualExclusion

(* As long as no LockHolder was reused, a guard is backed by the newest    *)
(* table, with its own lock type, although its owner only ever looked at   *)
(* its own, possibly old, replica.                                         *)
GuardInTable ==
  UniqueHolders =>
    \A r \in Requests :
      phase[r] = "held" =>
        LET state == Newest[op[r].key]
        IN  is_held_by(state, Holder(r)) /\ state.type = op[r].type

(* A step takes a started request's lock out of the newest table.          *)
LeavesTable(r) ==
  /\ phase[r] # "idle"
  /\ is_held_by(Newest[op[r].key], Holder(r))
  /\ ~is_held_by(Newest'[op[r].key], Holder(r))

(* As long as no LockHolder was reused, a holder leaves the newest table   *)
(* only after its guard was dropped: no other request's release, timeout,  *)
(* retry or restart ever takes a lock away.                                *)
ReleasedOnlyByOwner ==
  [][\A r \in Requests :
       LeavesTable(r) /\ UniqueHolders => phase[r] = "done"]_vars

(* Every holder in the newest table is a request that still has to drop    *)
(* its guard or whose release is on its way: no lock is left behind.       *)
NoOrphan ==
  \A k \in Keys : \A h \in Newest[k].holders :
    \E r \in Requests :
      /\ op[r].key = k /\ Holder(r) = h
      /\ phase[r] \in {"writing", "held", "dropping"} \/ <<"release", r>> \in cmds

(* A dropped guard's lock disappears from the table of every replica.      *)
GuardDropReleases ==
  \A r \in Requests :
    phase[r] = "dropping" ~>
      \A n \in Nodes : ~is_held_by(LocalTable(n)[op[r].key], Holder(r))

(* A request that waits for a contended lock gets it once the others have  *)
(* had their turn.                                                         *)
EventuallyGranted ==
  \A r \in Requests : phase[r] = "trying" ~> phase[r] = "held"

-----------------------------------------------------------------------------
(* The inductive invariant behind MutualExclusion.                         *)

(* Holders in tables are requests that have started and named that key.    *)
HoldersStarted ==
  \A i \in 1..Len(history), k \in Keys : \A h \in history[i][k].holders :
    \E r \in Requests :
      phase[r] # "idle" /\ op[r].key = k /\ Holder(r) = h

(* Only started requests have commands with Raft, and a release is with    *)
(* Raft only after the guard was dropped.                                  *)
CommandsOfStarted ==
  \A r \in Requests :
    /\ <<"acquire", r>> \in cmds => phase[r] # "idle"
    /\ <<"release", r>> \in cmds => phase[r] = "done"

InTable(r, i) == is_held_by(history[i][op[r].key], Holder(r))

(* A table entry that lists a request has the lock type it asked for.      *)
EntryHasType ==
  \A r \in Requests, i \in 1..Len(history) :
    phase[r] # "idle" /\ InTable(r, i)
      => history[i][op[r].key].type = op[r].type

(* Once in a table, a holder stays in all later ones until its release.    *)
StaysInTable ==
  \A r \in Requests, i, j \in 1..Len(history) :
    phase[r] \notin {"idle", "done"} /\ i <= j /\ InTable(r, i)
      => InTable(r, j)

HeldInNewest ==
  \A r \in Requests : phase[r] = "held" => InTable(r, Len(history))

(* The inductive invariant: the last three parts need distinct holders.    *)
LockInv ==
  /\ TypeOK
  /\ TableExclusive
  /\ HoldersStarted
  /\ CommandsOfStarted
  /\ UniqueHolders => EntryHasType /\ StaysInTable /\ HeldInNewest

-----------------------------------------------------------------------------
(* The guards handlers hold, up to the step (if there is one) that gives a *)
(* request the LockHolder of another: after that nothing is promised, and  *)
(* the mapping says that no guard is left.                                 *)
Guards ==
  IF UniqueHolders
  THEN {[req |-> r, key |-> op[r].key, type |-> op[r].type] :
          r \in {q \in Requests : phase[q] = "held"}}
  ELSE {}

RW == INSTANCE RWLock WITH guards <- Guards

(* Whatever fails, times out or restarts, the distributed lock implements  *)
(* the abstract read/write lock until a LockHolder is used twice.          *)
ImplementsRWLock == RW!Spec
=============================================================================
