------------------------ MODULE DistributedLockProofs ------------------------
(***************************************************************************)
(* Proofs about DistributedLock for any set of nodes, keys and requests,   *)
(* any faults and any bounds.                                              *)
(***************************************************************************)
EXTENDS DistributedLock, TLAPS

(* What a committed command does to the table: every entry stays a         *)
(* LockState (lock.rs acquire_lock, release_lock).                         *)
LEMMA ApplyType ==
  ASSUME op \in [Requests -> Op], id \in [Requests -> Nat],
         NEW t \in LockTable, NEW c \in Command
  PROVE  apply_command(t, c) \in LockTable
<1>1. PICK r \in Requests : c[2] = r
  BY DEF Command
<1>2. Holder(r) \in LockHolder /\ op[r].key \in Keys /\ op[r].type \in LockType
  BY DEF Holder, LockHolder, Op
<1>3. t[op[r].key] \in LockState
  BY <1>2 DEF LockTable
<1>4. acquire_lock(t[op[r].key], op[r].type, Holder(r)) \in LockState
  BY <1>2, <1>3 DEF acquire_lock, LockState
<1>5. release_lock(t[op[r].key], Holder(r)) \in LockState
  BY <1>3 DEF release_lock, LockState, NoLock
<1> QED
  BY <1>1, <1>2, <1>4, <1>5 DEF apply_command, LockTable

(* The type invariant, for one step.                                       *)
LEMMA TypeStep == TypeOK /\ [Next]_vars => TypeOK'
<1> SUFFICES ASSUME TypeOK, [Next]_vars PROVE TypeOK'
  OBVIOUS
<1> USE DEF TypeOK, Phase
<1>1. ASSUME NEW r \in Requests, Start(r) PROVE TypeOK'
  <2>1. op[r].node \in Nodes
    BY DEF Op
  <2> QED BY <1>1, <2>1 DEF Start
<1>2. ASSUME NEW r \in Requests, Propose(r) PROVE TypeOK'
  BY <1>2 DEF Propose, Command
<1>3. ASSUME NEW r \in Requests, Verify(r) PROVE TypeOK'
  BY <1>3 DEF Verify
<1>4. ASSUME NEW r \in Requests, WriteFails(r) PROVE TypeOK'
  BY <1>4 DEF WriteFails
<1>5. ASSUME NEW r \in Requests, Timeout(r) PROVE TypeOK'
  BY <1>5 DEF Timeout
<1>6. ASSUME NEW r \in Requests, DropGuard(r) PROVE TypeOK'
  BY <1>6 DEF DropGuard
<1>7. ASSUME NEW r \in Requests, SubmitRelease(r) PROVE TypeOK'
  BY <1>7 DEF SubmitRelease, Command
<1>8. ASSUME NEW r \in Requests, ReleaseFails(r) PROVE TypeOK'
  BY <1>8 DEF ReleaseFails
<1>9. ASSUME NEW c \in cmds, Commit(c) PROVE TypeOK'
  <2>1. c \in Command /\ c[2] \in Requests
    BY DEF Command
  <2>2. Newest \in LockTable
    BY DEF Newest
  <2>3. apply_command(Newest, c) \in LockTable
    BY <2>1, <2>2, ApplyType
  <2>4. history' \in Seq(LockTable) /\ Len(history') = Len(history) + 1
    BY <1>9, <2>3 DEF Commit
  <2>5. index' \in [Requests -> Nat]
    BY <1>9, <2>1 DEF Commit
  <2> QED BY <1>9, <2>4, <2>5 DEF Commit
<1>10. ASSUME NEW n \in Nodes, Apply(n) PROVE TypeOK'
  BY <1>10 DEF Apply
<1>11. ASSUME NEW n \in Nodes, Restart(n) PROVE TypeOK'
  BY <1>11 DEF Restart
<1>12. CASE UNCHANGED vars
  BY <1>12 DEF vars
<1> QED
  BY <1>1, <1>2, <1>3, <1>4, <1>5, <1>6, <1>7, <1>8, <1>9, <1>10, <1>11, <1>12
     DEF Next

(* The initial states have the right types.                                *)
LEMMA TypeInit == Init => TypeOK
BY BoundsAssumption DEF Init, TypeOK, Phase, LockTable, LockState, NoLock

(* Every reachable state has the types that lock.rs declares.              *)
THEOREM TypeCorrect == Spec => []TypeOK
BY TypeInit, TypeStep, PTL DEF Spec

-----------------------------------------------------------------------------
(* Started requests keep their holder, and requests never un-start, so a   *)
(* collision of holders is permanent.                                      *)
LEMMA StartedStep ==
  ASSUME TypeOK, [Next]_vars, NEW r \in Requests
  PROVE  /\ op' = op
         /\ phase[r] # "idle" => phase'[r] # "idle" /\ Holder(r)' = Holder(r)
<1> USE DEF TypeOK, Holder
<1>1. ASSUME NEW q \in Requests, Start(q)
      PROVE  /\ op' = op
             /\ phase[r] # "idle" => phase'[r] # "idle" /\ Holder(r)' = Holder(r)
  BY <1>1 DEF Start
<1>2. ASSUME NEW q \in Requests,
             Propose(q) \/ Verify(q) \/ WriteFails(q) \/ Timeout(q)
               \/ DropGuard(q) \/ SubmitRelease(q) \/ ReleaseFails(q)
      PROVE  /\ op' = op
             /\ phase[r] # "idle" => phase'[r] # "idle" /\ Holder(r)' = Holder(r)
  BY <1>2 DEF Propose, Verify, WriteFails, Timeout, DropGuard, SubmitRelease,
              ReleaseFails
<1>3. ASSUME NEW c \in cmds, Commit(c)
      PROVE  op' = op /\ phase' = phase /\ id' = id
  BY <1>3 DEF Commit
<1>4. ASSUME NEW n \in Nodes, Apply(n)
      PROVE  op' = op /\ phase' = phase /\ id' = id
  BY <1>4 DEF Apply
<1>5. ASSUME NEW n \in Nodes, Restart(n)
      PROVE  /\ op' = op
             /\ phase[r] # "idle" => phase'[r] # "idle" /\ Holder(r)' = Holder(r)
  BY <1>5 DEF Restart
<1>6. CASE UNCHANGED vars
  BY <1>6 DEF vars
<1> QED BY <1>1, <1>2, <1>3, <1>4, <1>5, <1>6 DEF Next

(* Distinct holders after a step were distinct before it.                  *)
LEMMA UniqueBackwards ==
  ASSUME TypeOK, [Next]_vars, UniqueHolders'
  PROVE  UniqueHolders
<1> SUFFICES ASSUME NEW q \in Requests, NEW r \in Requests,
                    phase[q] # "idle", phase[r] # "idle", Holder(q) = Holder(r)
             PROVE  q = r
  BY DEF UniqueHolders
<1>1. phase'[q] # "idle" /\ Holder(q)' = Holder(q)
  BY StartedStep
<1>2. phase'[r] # "idle" /\ Holder(r)' = Holder(r)
  BY StartedStep
<1> QED BY <1>1, <1>2 DEF UniqueHolders

(* The tables change only when a command commits, which appends one.       *)
LEMMA HistoryStep ==
  ASSUME TypeOK, [Next]_vars
  PROVE  \/ history' = history
         \/ \E c \in cmds : Commit(c)
BY DEF Next, vars, Start, Propose, Verify, WriteFails, Timeout, DropGuard,
       SubmitRelease, ReleaseFails, Apply, Restart

(* The tables after a commit: the old ones and the new last one.           *)
LEMMA CommitHistory ==
  ASSUME TypeOK, NEW c \in cmds, Commit(c)
  PROVE  /\ Len(history') = Len(history) + 1
         /\ \A i \in 1..Len(history) : history'[i] = history[i]
         /\ history'[Len(history) + 1] = apply_command(Newest, c)
         /\ Newest \in LockTable
         /\ c[2] \in Requests /\ c = <<c[1], c[2]>>
         /\ c[1] \in {"acquire", "release"}
BY DEF TypeOK, Commit, Newest, Command


(* What a command does to an entry, for both commands.                     *)
LEMMA EntryStep ==
  ASSUME TypeOK, NEW t \in LockTable, NEW c \in Command, NEW k \in Keys
  PROVE  LET r   == c[2]
             new == apply_command(t, c)[k]
             old == t[k]
         IN  /\ k # op[r].key => new = old
             /\ k = op[r].key /\ c[1] = "acquire" =>
                  new = acquire_lock(old, op[r].type, Holder(r))
             /\ k = op[r].key /\ c[1] = "release" =>
                  new = release_lock(old, Holder(r))
BY DEF apply_command, LockTable, Command, TypeOK, Op

(* acquire_lock and release_lock keep an entry well formed.                *)
WellFormed(state) ==
  /\ state.type = "none" <=> state.holders = {}
  /\ state.type = "Write" => \A g, h \in state.holders : g = h

(* Acquire and release keep an entry well formed.                          *)
LEMMA OperationsWellFormed ==
  ASSUME NEW state \in LockState, WellFormed(state),
         NEW type \in LockType, NEW h \in LockHolder
  PROVE  /\ WellFormed(acquire_lock(state, type, h))
         /\ WellFormed(release_lock(state, h))
BY DEF WellFormed, acquire_lock, release_lock, can_acquire, is_held_by,
       LockState, NoLock, LockType

(* acquire_lock adds at most its own holder, release_lock removes at most  *)
(* its own holder.                                                         *)
LEMMA OperationsHolders ==
  ASSUME NEW state \in LockState, NEW type, NEW h
  PROVE  /\ acquire_lock(state, type, h).holders \subseteq state.holders \cup {h}
         /\ release_lock(state, h).holders \subseteq state.holders
         /\ state.holders \subseteq acquire_lock(state, type, h).holders
         /\ state.holders \ {h} \subseteq release_lock(state, h).holders
<1>1. state # NoLock =>
        acquire_lock(state, type, h).holders \in {state.holders, state.holders \cup {h}}
  BY DEF acquire_lock
<1>2. state = NoLock => acquire_lock(state, type, h).holders = {h} /\ state.holders = {}
  BY DEF acquire_lock, NoLock
<1>3. release_lock(state, h).holders = state.holders \ {h}
  BY DEF release_lock, NoLock
<1> QED BY <1>1, <1>2, <1>3

(* A command adds at most its own request to an entry's holders, and only  *)
(* a release takes one away, its own.                                      *)
LEMMA ApplyHolders ==
  ASSUME TypeOK, NEW t \in LockTable, NEW c \in Command, NEW k \in Keys
  PROVE  /\ \A h \in apply_command(t, c)[k].holders :
              \/ h \in t[k].holders
              \/ c[1] = "acquire" /\ op[c[2]].key = k /\ h = Holder(c[2])
         /\ \A h \in t[k].holders :
              \/ h \in apply_command(t, c)[k].holders
              \/ c[1] = "release" /\ h = Holder(c[2])
<1>1. t[k] \in LockState /\ c[1] \in {"acquire", "release"}
  BY DEF LockTable, Command
<1>2. CASE k # op[c[2]].key
  BY <1>2, EntryStep
<1>3. CASE k = op[c[2]].key /\ c[1] = "acquire"
  <2>1. apply_command(t, c)[k] = acquire_lock(t[k], op[c[2]].type, Holder(c[2]))
    BY <1>3, EntryStep
  <2> QED BY <1>1, <1>3, <2>1, OperationsHolders
<1>4. CASE k = op[c[2]].key /\ c[1] = "release"
  <2>1. apply_command(t, c)[k] = release_lock(t[k], Holder(c[2]))
    BY <1>4, EntryStep
  <2> QED BY <1>1, <1>4, <2>1, OperationsHolders
<1> QED BY <1>1, <1>2, <1>3, <1>4

(* Every table stays well formed when a command commits.                   *)
LEMMA TableExclusiveStep ==
  ASSUME TypeOK, TableExclusive, [Next]_vars
  PROVE  TableExclusive'
<1>1. CASE history' = history
  BY <1>1 DEF TableExclusive
<1>2. ASSUME NEW c \in cmds, Commit(c) PROVE TableExclusive'
  <2> SUFFICES ASSUME NEW i \in 1..Len(history'), NEW k \in Keys
               PROVE  WellFormed(history'[i][k])
    BY DEF TableExclusive, WellFormed
  <2>1. Len(history) \in Nat /\ Len(history) > 0
    BY DEF TypeOK
  <2>2. CASE i \in 1..Len(history)
    BY <1>2, <2>2, CommitHistory DEF TableExclusive, WellFormed
  <2>3. CASE i = Len(history) + 1
    <3>1. WellFormed(Newest[k]) /\ Newest[k] \in LockState
      BY <1>2, <2>1, CommitHistory DEF TableExclusive, WellFormed, Newest, LockTable
    <3>2. c \in Command /\ op[c[2]].type \in LockType /\ Holder(c[2]) \in LockHolder
      BY DEF TypeOK, Command, Holder, Op, LockHolder
    <3>3. /\ WellFormed(acquire_lock(Newest[k], op[c[2]].type, Holder(c[2])))
          /\ WellFormed(release_lock(Newest[k], Holder(c[2])))
      BY <3>1, <3>2, OperationsWellFormed
    <3>4. history'[i] = apply_command(Newest, c) /\ Newest \in LockTable
          /\ c[1] \in {"acquire", "release"}
      BY <1>2, <2>3, CommitHistory
    <3> QED BY <3>1, <3>2, <3>3, <3>4, EntryStep
  <2> QED BY <1>2, <2>1, <2>2, <2>3, CommitHistory
<1> QED BY <1>1, <1>2, HistoryStep

(* Holders in tables are always started requests.                          *)
LEMMA HoldersStartedStep ==
  ASSUME TypeOK, HoldersStarted, CommandsOfStarted, [Next]_vars
  PROVE  HoldersStarted'
<1> DEFINE Owned(k, h) == \E r \in Requests :
                            phase[r] # "idle" /\ op[r].key = k /\ Holder(r) = h
<1>1. ASSUME NEW k, NEW h, Owned(k, h)
      PROVE  \E r \in Requests :
               (phase[r] # "idle")' /\ (op[r].key = k)' /\ Holder(r)' = h
  <2>1. PICK r \in Requests : phase[r] # "idle" /\ op[r].key = k /\ Holder(r) = h
    BY <1>1
  <2>2. op' = op /\ phase'[r] # "idle" /\ Holder(r)' = Holder(r)
    BY <2>1, StartedStep
  <2> QED BY <2>1, <2>2
<1>2. CASE history' = history
  BY <1>1, <1>2 DEF HoldersStarted
<1>3. ASSUME NEW c \in cmds, Commit(c) PROVE HoldersStarted'
  <2> SUFFICES ASSUME NEW i \in 1..Len(history'), NEW k \in Keys,
                      NEW h \in history'[i][k].holders
               PROVE  Owned(k, h)
    BY <1>1 DEF HoldersStarted
  <2>1. Len(history) \in Nat /\ Len(history) > 0
    BY DEF TypeOK
  <2>2. CASE i \in 1..Len(history)
    BY <1>3, <2>2, CommitHistory DEF HoldersStarted
  <2>3. CASE i = Len(history) + 1
    <3>1. \A g \in Newest[k].holders : Owned(k, g)
      BY <2>1 DEF HoldersStarted, Newest
    <3>2. c \in Command /\ c[2] \in Requests /\ phase[c[2]] # "idle"
      <4>1. c \in Command
        BY DEF TypeOK
      <4>2. c[2] \in Requests /\ c = <<c[1], c[2]>> /\ c[1] \in {"acquire", "release"}
        BY <1>3, CommitHistory
      <4>3. c = <<"acquire", c[2]>> \/ c = <<"release", c[2]>>
        BY <4>2
      <4> QED BY <4>1, <4>2, <4>3 DEF CommandsOfStarted
    <3>3. history'[i] = apply_command(Newest, c) /\ Newest \in LockTable
          /\ c[1] \in {"acquire", "release"}
      BY <1>3, <2>3, CommitHistory
    <3>4. Newest[k] \in LockState /\ h \in apply_command(Newest, c)[k].holders
      BY <3>3 DEF LockTable
    <3>5. h \in Newest[k].holders \/ (k = op[c[2]].key /\ h = Holder(c[2]))
      BY <3>2, <3>3, <3>4, ApplyHolders
    <3> QED BY <3>1, <3>2, <3>5
  <2> QED BY <1>3, <2>1, <2>2, <2>3, CommitHistory
<1> QED BY <1>2, <1>3, HistoryStep

(* Releases are with Raft only for dropped guards.                         *)
LEMMA CommandsStep ==
  ASSUME TypeOK, CommandsOfStarted, [Next]_vars
  PROVE  CommandsOfStarted'
<1> USE DEF TypeOK, CommandsOfStarted
<1>1. ASSUME NEW q \in Requests, Start(q) PROVE CommandsOfStarted'
  BY <1>1 DEF Start
<1>2. ASSUME NEW q \in Requests, Propose(q) PROVE CommandsOfStarted'
  BY <1>2 DEF Propose
<1>3. ASSUME NEW q \in Requests, Verify(q) PROVE CommandsOfStarted'
  BY <1>3 DEF Verify
<1>4. ASSUME NEW q \in Requests, WriteFails(q) PROVE CommandsOfStarted'
  BY <1>4 DEF WriteFails
<1>5. ASSUME NEW q \in Requests, Timeout(q) \/ DropGuard(q) \/ ReleaseFails(q)
      PROVE  CommandsOfStarted'
  BY <1>5 DEF Timeout, DropGuard, ReleaseFails
<1>6. ASSUME NEW q \in Requests, SubmitRelease(q) PROVE CommandsOfStarted'
  BY <1>6 DEF SubmitRelease
<1>7. ASSUME NEW c \in cmds, Commit(c) PROVE CommandsOfStarted'
  BY <1>7 DEF Commit
<1>8. ASSUME NEW n \in Nodes, Apply(n) PROVE CommandsOfStarted'
  BY <1>8 DEF Apply
<1>9. ASSUME NEW n \in Nodes, Restart(n) PROVE CommandsOfStarted'
  BY <1>9 DEF Restart
<1>10. CASE UNCHANGED vars
  BY <1>10 DEF vars
<1> QED BY <1>1, <1>2, <1>3, <1>4, <1>5, <1>6, <1>7, <1>8, <1>9, <1>10 DEF Next

(* An entry that lists a holder after a command has, if the holder was     *)
(* there before, the type it had, and otherwise the type asked for.        *)
LEMMA OperationsType ==
  ASSUME NEW state \in LockState, WellFormed(state),
         NEW type \in LockType, NEW h \in LockHolder, NEW g \in state.holders
  PROVE  /\ acquire_lock(state, type, h).type = state.type
         /\ g # h => release_lock(state, h).type = state.type
<1>1. state # NoLock
  BY DEF NoLock
<1> QED BY <1>1 DEF acquire_lock, release_lock

(* Who is let in has the lock with the type asked for.                     *)
LEMMA AcquireOwnType ==
  ASSUME NEW state \in LockState, NEW type \in LockType, NEW h \in LockHolder,
         h \notin state.holders, h \in acquire_lock(state, type, h).holders
  PROVE  acquire_lock(state, type, h).type = type
BY DEF acquire_lock, can_acquire, is_held_by

-----------------------------------------------------------------------------
(* The part of the invariant that rests on distinct holders.               *)
Distinct == UniqueHolders => EntryHasType /\ StaysInTable /\ HeldInNewest

(* Starting a request changes no table, and its fresh holder is in none.   *)
LEMMA DistinctStart ==
  ASSUME LockInv, NEW q \in Requests, Start(q), UniqueHolders'
  PROVE  EntryHasType' /\ StaysInTable' /\ HeldInNewest'
<1> USE DEF LockInv
<1>1. [Next]_vars
  BY DEF Next
<1>2. UniqueHolders
  BY <1>1, UniqueBackwards
<1>3. history' = history /\ op' = op
  BY DEF Start
<1>4. ASSUME NEW r \in Requests, r # q
      PROVE  phase'[r] = phase[r] /\ Holder(r)' = Holder(r)
  BY <1>4 DEF Start, Holder, TypeOK
<1>5. phase'[q] = "trying"
  BY DEF Start, TypeOK
<1>6. ASSUME NEW i \in 1..Len(history) PROVE ~InTable(q, i)'
  <2> SUFFICES ASSUME Holder(q)' \in history[i][op[q].key].holders PROVE FALSE
    BY <1>3 DEF InTable, is_held_by
  <2>1. op[q].key \in Keys
    BY DEF TypeOK, Op
  <2>2. PICK r \in Requests : phase[r] # "idle" /\ Holder(r) = Holder(q)'
    BY <2>1 DEF HoldersStarted
  <2>3. r # q
    BY <2>2 DEF Start
  <2>4. phase'[r] # "idle" /\ Holder(r)' = Holder(q)'
    BY <2>2, <2>3, <1>4
  <2> QED BY <2>3, <2>4, <1>5 DEF UniqueHolders
<1>7. ASSUME NEW r \in Requests, r # q, NEW i \in 1..Len(history)
      PROVE  InTable(r, i)' <=> InTable(r, i)
  BY <1>3, <1>4, <1>7 DEF InTable
<1>8. EntryHasType'
  BY <1>2, <1>3, <1>4, <1>6, <1>7 DEF EntryHasType
<1>9. StaysInTable'
  BY <1>2, <1>3, <1>4, <1>6, <1>7 DEF StaysInTable
<1>10. HeldInNewest'
  <2> SUFFICES ASSUME NEW r \in Requests, phase'[r] = "held"
               PROVE  InTable(r, Len(history))'
    BY DEF HeldInNewest
  <2>1. r # q /\ phase[r] = "held"
    BY <1>4, <1>5
  <2>2. Len(history) \in 1..Len(history)
    BY DEF TypeOK
  <2>3. InTable(r, Len(history))
    BY <1>2, <2>1 DEF HeldInNewest
  <2> QED BY <1>3, <1>4, <2>1, <2>3 DEF InTable
<1> QED BY <1>8, <1>9, <1>10

(* A commit appends a table in which every started request that has not    *)
(* dropped its guard is still listed if it was.                            *)
LEMMA DistinctCommit ==
  ASSUME LockInv, NEW c \in cmds, Commit(c), UniqueHolders'
  PROVE  EntryHasType' /\ StaysInTable' /\ HeldInNewest'
<1> USE DEF LockInv
<1>1. [Next]_vars
  BY DEF Next
<1>2. UniqueHolders
  BY <1>1, UniqueBackwards
<1>3. PICK L \in Nat : L = Len(history) /\ L > 0
  BY DEF TypeOK
<1> DEFINE q == c[2]
<1>4. op' = op /\ phase' = phase /\ id' = id
  BY DEF Commit
<1>5. /\ Len(history') = L + 1
      /\ \A i \in 1..L : history'[i] = history[i]
      /\ history'[L + 1] = apply_command(Newest, c)
      /\ Newest \in LockTable
      /\ q \in Requests /\ c = <<c[1], q>> /\ c[1] \in {"acquire", "release"}
  BY <1>3, CommitHistory
<1>6. c \in Command /\ phase[q] # "idle" /\ (c[1] = "release" => phase[q] = "done")
  BY <1>5 DEF CommandsOfStarted, TypeOK
<1>7. ASSUME NEW r \in Requests, NEW i \in 1..L
      PROVE  InTable(r, i)' <=> InTable(r, i)
  BY <1>4, <1>5 DEF InTable, Holder
<1>8. Newest = history[L]
  BY <1>3 DEF Newest
<1>9. ASSUME NEW r \in Requests
      PROVE  /\ op[r].key \in Keys /\ op[r].type \in LockType
             /\ Holder(r) \in LockHolder
             /\ Newest[op[r].key] \in LockState
             /\ WellFormed(Newest[op[r].key])
  <2>1. op[r].key \in Keys /\ op[r].type \in LockType /\ Holder(r) \in LockHolder
    BY DEF TypeOK, Op, Holder, LockHolder
  <2>2. Newest[op[r].key] \in LockState
    BY <2>1, <1>5 DEF LockTable
  <2> QED BY <2>1, <2>2, <1>3, <1>8 DEF TableExclusive, WellFormed
<1> DEFINE new(r) == apply_command(Newest, c)[op[r].key]
           old(r) == Newest[op[r].key]
<1>10. ASSUME NEW r \in Requests, phase[r] \notin {"idle", "done"}, InTable(r, L)
       PROVE  Holder(r) \in new(r).holders
  <2>1. Holder(r) \in old(r).holders
    BY <1>8, <1>10 DEF InTable, is_held_by
  <2>2. c[1] = "release" => Holder(r) # Holder(q)
    BY <1>2, <1>5, <1>6, <1>10 DEF UniqueHolders
  <2> QED BY <2>1, <2>2, <1>5, <1>6, <1>9, ApplyHolders
<1>11. ASSUME NEW r \in Requests, phase[r] # "idle", Holder(r) \in new(r).holders
       PROVE  new(r).type = op[r].type
  <2>1. CASE Holder(r) \in old(r).holders
    <3>1. old(r).type = op[r].type
      BY <2>1, <1>2, <1>3, <1>8, <1>11 DEF EntryHasType, InTable, is_held_by
    <3>2. CASE c[1] = "acquire" \/ Holder(r) # Holder(q)
      BY <2>1, <3>1, <3>2, <1>5, <1>6, <1>9, EntryStep, OperationsType
    <3>3. CASE c[1] = "release" /\ Holder(r) = Holder(q)
      <4>1. r = q
        BY <3>3, <1>2, <1>5, <1>6, <1>11 DEF UniqueHolders
      <4>2. new(r) = release_lock(old(r), Holder(r))
        BY <4>1, <3>3, <1>5, <1>6, <1>9, EntryStep
      <4>3. Holder(r) \notin release_lock(old(r), Holder(r)).holders
        BY DEF release_lock, NoLock
      <4> QED BY <4>2, <4>3, <1>11
    <3> QED BY <3>2, <3>3, <1>5
  <2>2. CASE Holder(r) \notin old(r).holders
    <3>1. c[1] = "acquire" /\ op[q].key = op[r].key /\ Holder(r) = Holder(q)
      BY <2>2, <1>5, <1>6, <1>9, <1>11, ApplyHolders
    <3>2. r = q
      BY <3>1, <1>2, <1>5, <1>6, <1>11 DEF UniqueHolders
    <3>3. new(r) = acquire_lock(old(r), op[r].type, Holder(r))
      BY <3>1, <3>2, <1>5, <1>6, <1>9, EntryStep
    <3> QED BY <2>2, <3>3, <1>9, <1>11, AcquireOwnType
  <2> QED BY <2>1, <2>2
<1>12. ASSUME NEW r \in Requests
       PROVE  /\ InTable(r, L + 1)' <=> Holder(r) \in new(r).holders
              /\ (history[L + 1][op[r].key])' = new(r)
  BY <1>4, <1>5 DEF InTable, Holder, is_held_by
<1>13. EntryHasType'
  <2> SUFFICES ASSUME NEW r \in Requests, NEW i \in 1..L + 1,
                      phase[r] # "idle", InTable(r, i)'
               PROVE  history'[i][op[r].key].type = op[r].type
    BY <1>4, <1>5 DEF EntryHasType
  <2>1. CASE i \in 1..L
    BY <2>1, <1>2, <1>3, <1>5, <1>7 DEF EntryHasType
  <2>2. CASE i = L + 1
    BY <2>2, <1>4, <1>11, <1>12
  <2> QED BY <2>1, <2>2, <1>3
<1>14. StaysInTable'
  <2> SUFFICES ASSUME NEW r \in Requests, NEW i \in 1..L + 1, NEW j \in 1..L + 1,
                      phase[r] \notin {"idle", "done"}, i <= j, InTable(r, i)'
               PROVE  InTable(r, j)'
    BY <1>4, <1>5 DEF StaysInTable
  <2>1. CASE j \in 1..L
    <3>1. i \in 1..L
      BY <2>1, <1>3
    <3> QED BY <2>1, <3>1, <1>2, <1>3, <1>7 DEF StaysInTable
  <2>2. CASE j = L + 1 /\ i \in 1..L
    <3>1. InTable(r, L)
      BY <2>2, <1>2, <1>3, <1>7 DEF StaysInTable
    <3> QED BY <2>2, <3>1, <1>10, <1>12
  <2>3. CASE i = L + 1 /\ j = L + 1
    BY <2>3
  <2> QED BY <2>1, <2>2, <2>3, <1>3
<1>15. HeldInNewest'
  <2> SUFFICES ASSUME NEW r \in Requests, phase[r] = "held"
               PROVE  InTable(r, L + 1)'
    BY <1>4, <1>5 DEF HeldInNewest
  <2>1. InTable(r, L)
    BY <1>2, <1>3 DEF HeldInNewest
  <2> QED BY <2>1, <1>10, <1>12
<1> QED BY <1>13, <1>14, <1>15

(* Steps that change neither tables nor holders: the phases they reach are *)
(* covered by what the tables already show.                                *)
LEMMA DistinctQuiet ==
  ASSUME LockInv, UniqueHolders,
         UNCHANGED <<op, id, history>>,
         \A r \in Requests : phase[r] = "idle" <=> phase'[r] = "idle",
         \A r \in Requests : phase[r] = "done" => phase'[r] = "done",
         \A r \in Requests : phase'[r] = "held" =>
             \/ phase[r] = "held"
             \/ /\ phase[r] = "writing"
                /\ \E i \in 1..Len(history) : InTable(r, i)
  PROVE  EntryHasType' /\ StaysInTable' /\ HeldInNewest'
<1>1. \A r \in Requests, i \in 1..Len(history) : InTable(r, i)' <=> InTable(r, i)
  BY DEF InTable, Holder
<1>2. EntryHasType'
  BY <1>1 DEF EntryHasType, LockInv
<1>3. StaysInTable'
  BY <1>1 DEF StaysInTable, LockInv
<1>4. HeldInNewest'
  <2> SUFFICES ASSUME NEW r \in Requests, phase'[r] = "held"
               PROVE  InTable(r, Len(history))
    BY DEF HeldInNewest, InTable, Holder
  <2>1. Len(history) \in 1..Len(history)
    BY DEF LockInv, TypeOK
  <2>2. CASE phase[r] = "held"
    BY <2>2 DEF LockInv, HeldInNewest
  <2>3. CASE phase[r] = "writing" /\ \E i \in 1..Len(history) : InTable(r, i)
    BY <2>1, <2>3 DEF LockInv, StaysInTable
  <2> QED BY <2>2, <2>3
<1> QED BY <1>2, <1>3, <1>4

(* Every step preserves what distinct holders guarantee.                   *)
LEMMA DistinctStep ==
  ASSUME LockInv, [Next]_vars
  PROVE  Distinct'
<1> SUFFICES ASSUME UniqueHolders'
             PROVE  EntryHasType' /\ StaysInTable' /\ HeldInNewest'
  BY DEF Distinct
<1>1. UniqueHolders
  BY UniqueBackwards DEF LockInv
<1>2. ASSUME NEW r \in Requests, Start(r)
      PROVE  EntryHasType' /\ StaysInTable' /\ HeldInNewest'
  BY <1>2, DistinctStart
<1>3. ASSUME NEW c \in cmds, Commit(c)
      PROVE  EntryHasType' /\ StaysInTable' /\ HeldInNewest'
  BY <1>3, DistinctCommit
<1>4. ASSUME NEW q \in Requests, Verify(q)
      PROVE  EntryHasType' /\ StaysInTable' /\ HeldInNewest'
  <2>1. UNCHANGED <<op, id, history>>
    BY <1>4 DEF Verify
  <2>2. applied[op[q].node] \in 1..Len(history)
    BY DEF LockInv, TypeOK, Op
  <2>3. phase[q] = "writing" /\ phase'[q] \in {"held", "trying"}
        /\ \A r \in Requests : r # q => phase'[r] = phase[r]
    BY <1>4 DEF Verify, LockInv, TypeOK
  <2>4. phase'[q] = "held" => InTable(q, applied[op[q].node])
    BY <1>4 DEF Verify, LockInv, TypeOK, InTable, LocalTable
  <2> QED BY <1>1, <2>1, <2>2, <2>3, <2>4, DistinctQuiet
<1>5. ASSUME NEW q \in Requests,
             Propose(q) \/ WriteFails(q) \/ Timeout(q)
               \/ DropGuard(q) \/ SubmitRelease(q) \/ ReleaseFails(q)
      PROVE  EntryHasType' /\ StaysInTable' /\ HeldInNewest'
  <2>1. UNCHANGED <<op, id, history>>
    BY <1>5 DEF Propose, WriteFails, Timeout, DropGuard, SubmitRelease, ReleaseFails
  <2>2. /\ phase[q] \notin {"idle", "done"} /\ phase'[q] \notin {"idle", "held"}
        /\ \A r \in Requests : r # q => phase'[r] = phase[r]
    BY <1>5 DEF Propose, WriteFails, Timeout, DropGuard, SubmitRelease,
                ReleaseFails, LockInv, TypeOK
  <2> QED BY <1>1, <2>1, <2>2, DistinctQuiet
<1>6. ASSUME NEW n \in Nodes, Apply(n) \/ Restart(n)
      PROVE  EntryHasType' /\ StaysInTable' /\ HeldInNewest'
  <2>1. UNCHANGED <<op, id, history>>
    BY <1>6 DEF Apply, Restart
  <2>2. \A r \in Requests :
          \/ phase'[r] = phase[r]
          \/ phase[r] \notin {"idle", "done"} /\ phase'[r] = "failed"
    BY <1>6 DEF Apply, Restart, LockInv, TypeOK
  <2> QED BY <1>1, <2>1, <2>2, DistinctQuiet
<1>7. CASE UNCHANGED vars
  BY <1>1, <1>7, DistinctQuiet DEF vars
<1> QED BY <1>2, <1>3, <1>4, <1>5, <1>6, <1>7 DEF Next

(* LockInv holds initially.                                                *)
LEMMA LockInvInit == Init => LockInv
<1> SUFFICES ASSUME Init PROVE LockInv
  OBVIOUS
<1>1. TypeOK
  BY TypeInit
<1>2. Len(history) = 1 /\ history[1] = [k \in Keys |-> NoLock]
  BY DEF Init
<1>3. TableExclusive
  BY <1>2 DEF TableExclusive, NoLock
<1>4. HoldersStarted
  BY <1>2 DEF HoldersStarted, NoLock
<1>5. CommandsOfStarted
  BY DEF Init, CommandsOfStarted
<1>6. EntryHasType /\ StaysInTable /\ HeldInNewest
  BY DEF Init, EntryHasType, StaysInTable, HeldInNewest
<1> QED BY <1>1, <1>3, <1>4, <1>5, <1>6 DEF LockInv

(* LockInv is inductive.                                                   *)
LEMMA LockInvStep == LockInv /\ [Next]_vars => LockInv'
<1> SUFFICES ASSUME LockInv, [Next]_vars PROVE LockInv'
  OBVIOUS
<1>1. TypeOK'
  BY TypeStep DEF LockInv
<1>2. TableExclusive'
  BY TableExclusiveStep DEF LockInv
<1>3. HoldersStarted'
  BY HoldersStartedStep DEF LockInv
<1>4. CommandsOfStarted'
  BY CommandsStep DEF LockInv
<1>5. Distinct'
  BY DistinctStep
<1> QED BY <1>1, <1>2, <1>3, <1>4, <1>5 DEF LockInv, Distinct

(* The inductive invariant excludes conflicting guards.                    *)
LEMMA LockInvExcludes ==
  LockInv => ExclusiveWhenUnique /\ GuardInTable
<1> SUFFICES ASSUME LockInv, UniqueHolders PROVE MutualExclusion /\ GuardInTable
  BY DEF ExclusiveWhenUnique, GuardInTable
<1>1. Len(history) \in 1..Len(history)
  BY DEF LockInv, TypeOK
<1>2. ASSUME NEW r \in Requests, phase[r] = "held"
      PROVE  /\ Holder(r) \in Newest[op[r].key].holders
             /\ Newest[op[r].key].type = op[r].type
  <2>1. InTable(r, Len(history))
    BY <1>2 DEF LockInv, HeldInNewest
  <2> QED BY <1>1, <1>2, <2>1 DEF LockInv, EntryHasType, InTable, is_held_by, Newest
<1>3. GuardInTable
  BY <1>2 DEF GuardInTable, is_held_by
<1>4. MutualExclusion
  <2> SUFFICES ASSUME NEW q \in Requests, NEW r \in Requests, q # r,
                      phase[q] = "held", phase[r] = "held", op[q].key = op[r].key
               PROVE  op[q].type = "Read" /\ op[r].type = "Read"
    BY DEF MutualExclusion
  <2>1. Holder(q) # Holder(r)
    BY DEF UniqueHolders
  <2>2. op[q].key \in Keys /\ op[q].type \in LockType
    BY DEF LockInv, TypeOK, Op
  <2>3. Newest[op[q].key].type # "Write"
    BY <1>1, <1>2, <2>1, <2>2 DEF LockInv, TableExclusive, Newest
  <2> QED BY <1>2, <2>2, <2>3 DEF LockType
<1> QED BY <1>3, <1>4

(* Whatever times out, fails or restarts, every table the replicas ever    *)
(* show lists a single holder for a write lock and none of its locks is    *)
(* an empty entry (lock.rs acquire_lock, release_lock).                    *)
THEOREM TablesExclusive == Spec => []TableExclusive
<1>1. LockInv => TableExclusive
  BY DEF LockInv
<1> QED BY <1>1, LockInvInit, LockInvStep, PTL DEF Spec

(* Mutual exclusion of guards can be lost only through a reused LockHolder *)
(* (lock.rs next_holder), for any number of nodes, requests and restarts.  *)
THEOREM ExclusionFromUniqueness == Spec => []ExclusiveWhenUnique
BY LockInvInit, LockInvStep, LockInvExcludes, PTL DEF Spec

-----------------------------------------------------------------------------
(* Until a process restarts, next_holder never repeats a lock_id.          *)
IdsBelowCounter ==
  /\ restarts <= MaxRestarts
  /\ restarts = 0 =>
       /\ \A r \in Requests : phase[r] # "idle" => id[r] < counter[op[r].node]
       /\ UniqueHolders

(* No id is used at the start.                                             *)
LEMMA IdsInit == Init => IdsBelowCounter
BY BoundsAssumption DEF Init, IdsBelowCounter, UniqueHolders

(* Without restarts a new id is a fresh one.                               *)
LEMMA IdsStep == TypeOK /\ IdsBelowCounter /\ [Next]_vars => IdsBelowCounter'
<1> SUFFICES ASSUME TypeOK, IdsBelowCounter, [Next]_vars PROVE IdsBelowCounter'
  OBVIOUS
<1> USE BoundsAssumption DEF TypeOK, IdsBelowCounter
<1>1. ASSUME NEW q \in Requests, Start(q) PROVE IdsBelowCounter'
  <2>1. restarts' = restarts /\ op' = op
    BY <1>1 DEF Start
  <2>2. op[q].node \in Nodes
    BY DEF Op
  <2>3. /\ id'[q] = counter[op[q].node]
        /\ \A r \in Requests : r # q => id'[r] = id[r] /\ phase'[r] = phase[r]
        /\ counter' = [counter EXCEPT ![op[q].node] = @ + 1]
    BY <1>1 DEF Start
  <2>4. restarts = 0 => \A r \in Requests : phase'[r] # "idle" => id'[r] < counter'[op[r].node]
    <3> SUFFICES ASSUME restarts = 0, NEW r \in Requests, phase'[r] # "idle"
                 PROVE  id'[r] < counter'[op[r].node]
      OBVIOUS
    <3>1. op[r].node \in Nodes /\ counter[op[r].node] \in Nat /\ id[r] \in Nat
      BY DEF Op
    <3>2. CASE r = q
      BY <2>2, <2>3, <3>1, <3>2
    <3>3. CASE r # q
      BY <2>2, <2>3, <3>1, <3>3
    <3> QED BY <3>2, <3>3
  <2>5. restarts = 0 => UniqueHolders'
    <3> SUFFICES ASSUME restarts = 0, NEW p \in Requests, NEW r \in Requests,
                        phase'[p] # "idle", phase'[r] # "idle", Holder(p)' = Holder(r)'
                 PROVE  p = r
      BY DEF UniqueHolders
    <3>1. op[p].node = op[r].node /\ id'[p] = id'[r]
      BY <2>1 DEF Holder
    <3>2. CASE p # q /\ r # q
      <4>1. Holder(p) = Holder(r)
        BY <2>3, <3>1, <3>2 DEF Holder
      <4> QED BY <2>3, <3>2, <4>1 DEF UniqueHolders
    <3>3. CASE p = q /\ r # q
      BY <2>3, <3>1, <3>3
    <3>4. CASE p # q /\ r = q
      BY <2>3, <3>1, <3>4
    <3> QED BY <3>2, <3>3, <3>4
  <2> QED BY <2>1, <2>4, <2>5
<1>2. ASSUME NEW n \in Nodes, Restart(n) PROVE IdsBelowCounter'
  BY <1>2 DEF Restart
<1>3. ASSUME UNCHANGED <<op, id, counter, restarts>>,
             \A r \in Requests : phase'[r] # "idle" => phase[r] # "idle"
      PROVE  IdsBelowCounter'
  BY <1>3 DEF UniqueHolders, Holder
<1>4. ASSUME NEW q \in Requests,
             Propose(q) \/ Verify(q) \/ WriteFails(q) \/ Timeout(q)
               \/ DropGuard(q) \/ SubmitRelease(q) \/ ReleaseFails(q)
      PROVE  IdsBelowCounter'
  BY <1>3, <1>4 DEF Propose, Verify, WriteFails, Timeout, DropGuard,
                    SubmitRelease, ReleaseFails
<1>5. ASSUME NEW c \in cmds, Commit(c) PROVE IdsBelowCounter'
  BY <1>3, <1>5 DEF Commit
<1>6. ASSUME NEW n \in Nodes, Apply(n) PROVE IdsBelowCounter'
  BY <1>3, <1>6 DEF Apply
<1>7. CASE UNCHANGED vars
  BY <1>3, <1>7 DEF vars
<1> QED BY <1>1, <1>2, <1>4, <1>5, <1>6, <1>7 DEF Next

(* Without restarts all holders differ.                                    *)
LEMMA UniqueWithoutRestarts ==
  ASSUME MaxRestarts = 0, TypeOK, IdsBelowCounter
  PROVE  UniqueHolders
BY DEF TypeOK, IdsBelowCounter

(* As long as no process restarts, handlers that hold guards on one object *)
(* at the same time are all readers, whatever times out or fails           *)
(* (lock.rs try_acquire_lock, Drop).                                       *)
THEOREM GuardsExclusive ==
  ASSUME MaxRestarts = 0
  PROVE  Spec => []MutualExclusion
<1>1. TypeOK /\ IdsBelowCounter /\ LockInv => MutualExclusion
  BY UniqueWithoutRestarts, LockInvExcludes DEF ExclusiveWhenUnique
<1> QED BY <1>1, TypeInit, TypeStep, IdsInit, IdsStep, LockInvInit, LockInvStep,
           PTL DEF Spec

-----------------------------------------------------------------------------
(* Until a LockHolder is reused, a guard is backed by the newest table     *)
(* with its own type, whatever fails or restarts (lock.rs                  *)
(* try_acquire_lock's second read).                                        *)
THEOREM GuardsInTable == Spec => []GuardInTable
BY LockInvInit, LockInvStep, LockInvExcludes, PTL DEF Spec

(* Until a LockHolder is reused, a lock leaves the table only when its own *)
(* release commits, whatever fails or restarts (lock.rs release_lock).     *)
THEOREM OnlyOwnerReleases == Spec => ReleasedOnlyByOwner
<1>1. ASSUME LockInv, UniqueHolders, [Next]_vars, NEW r \in Requests, LeavesTable(r)
      PROVE  phase[r] = "done"
  <2>1. PICK c \in cmds : Commit(c)
    BY <1>1, HistoryStep DEF LockInv, Newest, LeavesTable
  <2>2. /\ Newest' = apply_command(Newest, c) /\ Newest \in LockTable
        /\ c \in Command /\ c[2] \in Requests /\ c = <<c[1], c[2]>>
    BY <1>1, <2>1, CommitHistory DEF LockInv, TypeOK, Newest
  <2>3. op[r].key \in Keys
    BY <1>1 DEF LockInv, TypeOK, Op
  <2>4. c[1] = "release" /\ Holder(r) = Holder(c[2])
    BY <1>1, <2>2, <2>3, ApplyHolders DEF LockInv, is_held_by, LeavesTable
  <2>5. phase[c[2]] = "done"
    BY <1>1, <2>2, <2>4 DEF LockInv, CommandsOfStarted
  <2> QED BY <1>1, <2>2, <2>4, <2>5 DEF UniqueHolders, LeavesTable
<1>2. LockInv /\ [Next]_vars =>
        [\A r \in Requests : LeavesTable(r) /\ UniqueHolders => phase[r] = "done"]_vars
  BY <1>1
<1> QED BY <1>2, LockInvInit, LockInvStep, PTL DEF Spec, ReleasedOnlyByOwner

-----------------------------------------------------------------------------
(* While holders are distinct, a step that takes guards away is a release. *)
LEMMA FewerGuards ==
  ASSUME NEW S \in SUBSET Guards, Guards' = Guards \ S
  PROVE  RW!Next
BY DEF RW!Next, RW!Release

(* Whatever fails or restarts, the guards the handlers hold behave as the  *)
(* abstract read/write lock of ADR-003 until a LockHolder is reused.       *)
THEOREM Refinement == Spec => ImplementsRWLock
<1>1. Init => RW!Init
  BY DEF Init, RW!Init, Guards
<1>2. ASSUME LockInv, LockInv', ExclusiveWhenUnique', [Next]_vars
      PROVE  [RW!Next]_Guards
  <2> DEFINE g(r) == [req |-> r, key |-> op[r].key, type |-> op[r].type]
  <2>1. CASE ~UniqueHolders'
    <3>1. Guards' = Guards \ Guards
      BY <2>1 DEF Guards
    <3> QED BY <3>1, FewerGuards
  <2>2. CASE UniqueHolders'
    <3>1. TypeOK /\ TypeOK' /\ UniqueHolders /\ MutualExclusion'
      BY <1>2, <2>2, UniqueBackwards DEF LockInv, ExclusiveWhenUnique
    <3>2. op' = op
      BY <1>2, <3>1 DEF Next, vars, Start, Propose, Verify, WriteFails, Timeout,
         DropGuard, SubmitRelease, ReleaseFails, Commit, Apply, Restart
    <3>3. /\ Guards = {g(r) : r \in {q \in Requests : phase[q] = "held"}}
          /\ Guards' = {g(r) : r \in {q \in Requests : phase'[q] = "held"}}
      BY <2>2, <3>1, <3>2 DEF Guards
    <3>4. ASSUME \A r \in Requests : phase'[r] = "held" => phase[r] = "held"
          PROVE  [RW!Next]_Guards
      <4>1. Guards' = Guards \ (Guards \ Guards')
        BY <3>3, <3>4
      <4> QED BY <4>1, FewerGuards
    <3>5. ASSUME NEW q \in Requests, Verify(q), phase'[q] = "held"
          PROVE  [RW!Next]_Guards
      <4>1. phase[q] # "held" /\ \A r \in Requests : r # q => phase'[r] = phase[r]
        BY <3>1, <3>5 DEF Verify, TypeOK
      <4>2. Guards' = Guards \cup {g(q)}
        BY <3>3, <3>5, <4>1
      <4>3. g(q) \in RW!Guard
        BY <3>1 DEF TypeOK, Op, LockType, RW!Guard, RW!LockType
      <4>4. \A h \in Guards : h.req # g(q).req /\ RW!Compatible(g(q), h)
        <5> SUFFICES ASSUME NEW h \in Guards
                     PROVE  h.req # q /\ RW!Compatible(g(q), h)
          OBVIOUS
        <5>1. PICK r \in Requests : phase[r] = "held" /\ h = g(r)
          BY <3>3
        <5>2. r # q /\ phase'[r] = "held"
          BY <4>1, <5>1
        <5> QED BY <3>1, <3>2, <3>5, <5>1, <5>2 DEF MutualExclusion, RW!Compatible
      <4> QED BY <4>2, <4>3, <4>4 DEF RW!Next, RW!Acquire
    <3>6. \/ \E q \in Requests : Verify(q) /\ phase'[q] = "held"
          \/ \A r \in Requests : phase'[r] = "held" => phase[r] = "held"
      <4>1. ASSUME NEW q \in Requests, Verify(q), phase'[q] # "held",
                   NEW r \in Requests, phase'[r] = "held"
            PROVE  phase[r] = "held"
        BY <3>1, <4>1 DEF Verify, TypeOK
      <4>2. ASSUME NEW q \in Requests,
                   Start(q) \/ Propose(q) \/ WriteFails(q) \/ Timeout(q)
                     \/ DropGuard(q) \/ SubmitRelease(q) \/ ReleaseFails(q),
                   NEW r \in Requests, phase'[r] = "held"
            PROVE  phase[r] = "held"
        BY <3>1, <4>2 DEF Start, Propose, WriteFails, Timeout, DropGuard,
                          SubmitRelease, ReleaseFails, TypeOK
      <4>3. ASSUME NEW n \in Nodes, Apply(n) \/ Restart(n),
                   NEW r \in Requests, phase'[r] = "held"
            PROVE  phase[r] = "held"
        BY <4>3 DEF Apply, Restart
      <4>4. ASSUME UNCHANGED vars \/ \E c \in cmds : Commit(c) PROVE phase' = phase
        BY <4>4 DEF vars, Commit
      <4> QED BY <1>2, <4>1, <4>2, <4>3, <4>4 DEF Next
    <3> QED BY <3>4, <3>5, <3>6
  <2> QED BY <2>1, <2>2
<1> QED BY <1>1, <1>2, LockInvInit, LockInvStep, LockInvExcludes, PTL
        DEF Spec, ImplementsRWLock, RW!Spec
-----------------------------------------------------------------------------
(* Without failures no lock is left behind.                                *)

(* Raft has the AcquireLock of a request only while it waits for it; what  *)
(* is committed is granted where it was committed or not at all.           *)
AcquiresAwaited ==
  \A r \in Requests :
    /\ <<"acquire", r>> \in cmds => phase[r] = "writing" /\ index[r] = 0
    /\ index[r] <= Len(history) /\ (index[r] > 0 => phase[r] = "writing")
    /\ index[r] > 0 /\ InTable(r, Len(history)) => InTable(r, index[r])

OrphanInv == LockInv /\ UniqueHolders /\ AcquiresAwaited /\ NoOrphan

(* Steps that neither commit a command nor give out a holder.              *)
LEMMA OrphanQuiet ==
  ASSUME OrphanInv, LockInv', UniqueHolders', UNCHANGED <<op, id, history>>, NEW q \in Requests,
         \A r \in Requests : r # q => phase'[r] = phase[r] /\ index'[r] = index[r],
         \A r \in Requests : r # q => (<<"acquire", r>> \in cmds' => <<"acquire", r>> \in cmds),
         \A r \in Requests : r # q => (<<"release", r>> \in cmds => <<"release", r>> \in cmds'),
         /\ <<"acquire", q>> \in cmds' => phase'[q] = "writing" /\ index'[q] = 0
         /\ index'[q] \in {0, index[q]} /\ (index'[q] > 0 => phase'[q] = "writing"),
         \/ phase'[q] \in {"writing", "held", "dropping"} \/ <<"release", q>> \in cmds'
         \/ phase[q] # "idle" /\ ~InTable(q, Len(history))
         \/ phase'[q] = phase[q] /\ (<<"release", q>> \in cmds => <<"release", q>> \in cmds')
  PROVE  OrphanInv'
<1>1. \A r \in Requests : Holder(r)' = Holder(r) /\ \A i : InTable(r, i)' = InTable(r, i)
  BY DEF Holder, InTable, is_held_by
<1>2. AcquiresAwaited'
  <2> SUFFICES ASSUME NEW r \in Requests
               PROVE  /\ <<"acquire", r>> \in cmds' => phase'[r] = "writing" /\ index'[r] = 0
                      /\ index'[r] <= Len(history') /\ (index'[r] > 0 => phase'[r] = "writing")
                      /\ index'[r] > 0 /\ InTable(r, Len(history))' => InTable(r, index[r])'
    BY DEF AcquiresAwaited
  <2>0. index[r] \in Nat /\ Len(history) \in Nat
    BY DEF OrphanInv, LockInv, TypeOK
  <2>1. CASE r # q
    BY <1>1, <2>1 DEF OrphanInv, AcquiresAwaited, InTable, Holder, is_held_by
  <2>2. CASE r = q
    <3>1. index'[q] <= Len(history)
      BY <2>0, <2>2 DEF OrphanInv, AcquiresAwaited
    <3>2. CASE index'[q] = 0
      BY <2>0, <2>2, <3>1, <3>2
    <3>3. CASE index'[q] = index[q]
      BY <2>2, <3>1, <3>3 DEF OrphanInv, AcquiresAwaited, InTable, Holder, is_held_by
    <3> QED BY <3>2, <3>3
  <2> QED BY <2>1, <2>2
<1>3. NoOrphan'
  <2> SUFFICES ASSUME NEW k \in Keys, NEW h \in Newest[k].holders
               PROVE  \E r \in Requests :
                        /\ op[r].key = k /\ Holder(r) = h
                        /\ phase'[r] \in {"writing", "held", "dropping"} \/ <<"release", r>> \in cmds'
    BY <1>1 DEF NoOrphan, Newest
  <2>1. PICK r \in Requests :
          /\ op[r].key = k /\ Holder(r) = h
          /\ phase[r] \in {"writing", "held", "dropping"} \/ <<"release", r>> \in cmds
    BY DEF OrphanInv, NoOrphan
  <2>2. CASE r # q
    BY <2>1, <2>2
  <2>3. CASE r = q
    <3>1. InTable(q, Len(history))
      BY <2>1, <2>3 DEF InTable, is_held_by, Newest
    <3> QED BY <2>1, <2>3, <3>1
  <2> QED BY <2>2, <2>3
<1> QED BY <1>2, <1>3 DEF OrphanInv

(* A committed command keeps track of who has to release.                  *)
LEMMA OrphanCommit ==
  ASSUME OrphanInv, LockInv', UniqueHolders', NEW c \in cmds, Commit(c)
  PROVE  OrphanInv'
<1>0. TypeOK /\ LockInv /\ UniqueHolders /\ AcquiresAwaited
  BY DEF OrphanInv, LockInv
<1>1. /\ Len(history') = Len(history) + 1
      /\ \A i \in 1..Len(history) : history'[i] = history[i]
      /\ Newest' = apply_command(Newest, c) /\ Newest \in LockTable
      /\ c[2] \in Requests /\ c = <<c[1], c[2]>> /\ c[1] \in {"acquire", "release"}
      /\ c \in Command
  BY <1>0, CommitHistory DEF Newest, TypeOK
<1>2. /\ UNCHANGED <<op, phase, id>> /\ cmds' = cmds \ {c}
      /\ index' = IF c[1] = "acquire" /\ phase[c[2]] = "writing"
                  THEN [index EXCEPT ![c[2]] = Len(history) + 1] ELSE index
  BY DEF Commit
<1>3. \A r \in Requests : Holder(r)' = Holder(r) /\ op[r].key \in Keys /\ index[r] \in Nat
  BY <1>0, <1>2 DEF Holder, TypeOK, Op
<1>n. Len(history) \in Nat /\ Len(history) > 0
  BY <1>0 DEF TypeOK
<1>4. ASSUME NEW r \in Requests
      PROVE  /\ <<"acquire", r>> \in cmds' => phase'[r] = "writing" /\ index'[r] = 0
             /\ index'[r] <= Len(history') /\ (index'[r] > 0 => phase'[r] = "writing")
             /\ index'[r] > 0 /\ InTable(r, Len(history))' => InTable(r, index[r])'
  <2>1. CASE c = <<"acquire", r>>
    <3>1. index'[r] = Len(history) + 1 /\ phase'[r] = "writing"
      BY <1>0, <1>2, <2>1 DEF AcquiresAwaited, TypeOK
    <3>2. <<"acquire", r>> \notin cmds'
      BY <1>2, <2>1
    <3>3. InTable(r, Len(history))' => InTable(r, index[r])'
      BY <1>1, <3>1 DEF InTable
    <3> QED BY <1>1, <1>n, <3>1, <3>2, <3>3
  <2>2. CASE c # <<"acquire", r>>
    <3>1. index'[r] = index[r] /\ index[r] <= Len(history)
      BY <1>0, <1>1, <1>2, <2>2 DEF AcquiresAwaited, TypeOK
    <3>2. <<"acquire", r>> \in cmds' => phase'[r] = "writing" /\ index'[r] = 0
      BY <1>0, <1>2, <3>1 DEF AcquiresAwaited
    <3>3. ASSUME index[r] > 0, InTable(r, Len(history))'
          PROVE  InTable(r, index[r])'
      <4>1. Holder(r) \in apply_command(Newest, c)[op[r].key].holders
        BY <1>1, <1>2, <1>3, <3>3 DEF InTable, is_held_by, Newest
      <4>2. \/ Holder(r) \in Newest[op[r].key].holders
            \/ c[1] = "acquire" /\ op[c[2]].key = op[r].key /\ Holder(r) = Holder(c[2])
        BY <1>0, <1>1, <1>3, <4>1, ApplyHolders
      <4>3. CASE Holder(r) \in Newest[op[r].key].holders
        <5>1. InTable(r, index[r])
          BY <1>0, <3>3, <4>3 DEF AcquiresAwaited, InTable, is_held_by, Newest
        <5>2. history'[index[r]] = history[index[r]]
          BY <1>1, <1>3, <1>n, <3>1, <3>3
        <5> QED BY <1>2, <1>3, <3>1, <5>1, <5>2 DEF InTable, is_held_by
      <4>4. CASE c[1] = "acquire" /\ op[c[2]].key = op[r].key /\ Holder(r) = Holder(c[2])
        <5>1. c[2] # r
          BY <1>1, <2>2, <4>4
        <5>2. phase[c[2]] # "idle"
          BY <1>0, <1>1, <4>4 DEF AcquiresAwaited
        <5>3. phase[r] = "idle"
          BY <1>0, <1>1, <4>4, <5>1, <5>2 DEF UniqueHolders
        <5> QED BY <1>0, <3>3, <5>3 DEF AcquiresAwaited
      <4> QED BY <4>2, <4>3, <4>4
    <3>4. index'[r] > 0 /\ InTable(r, Len(history))' => InTable(r, index[r])'
      BY <3>1, <3>3
    <3>5. index'[r] <= Len(history') /\ (index'[r] > 0 => phase'[r] = "writing")
      <4>1. index[r] > 0 => phase[r] = "writing"
        BY <1>0 DEF AcquiresAwaited
      <4> QED BY <1>1, <1>2, <1>3, <1>n, <3>1, <4>1
    <3> QED BY <3>2, <3>4, <3>5
  <2> QED BY <2>1, <2>2
<1>5. AcquiresAwaited'
  BY <1>4 DEF AcquiresAwaited
<1>6. NoOrphan'
  <2> SUFFICES ASSUME NEW k \in Keys, NEW h \in apply_command(Newest, c)[k].holders
               PROVE  \E r \in Requests :
                        /\ op[r].key = k /\ Holder(r) = h
                        /\ phase[r] \in {"writing", "held", "dropping"} \/ <<"release", r>> \in cmds'
    BY <1>1, <1>2, <1>3 DEF NoOrphan
  <2>1. \/ h \in Newest[k].holders
        \/ c[1] = "acquire" /\ op[c[2]].key = k /\ h = Holder(c[2])
    BY <1>0, <1>1, ApplyHolders
  <2>2. CASE c[1] = "acquire" /\ op[c[2]].key = k /\ h = Holder(c[2])
    BY <1>0, <1>1, <2>2 DEF AcquiresAwaited
  <2>3. CASE h \in Newest[k].holders
    <3>1. PICK r \in Requests :
            /\ op[r].key = k /\ Holder(r) = h
            /\ phase[r] \in {"writing", "held", "dropping"} \/ <<"release", r>> \in cmds
      BY <2>3 DEF OrphanInv, NoOrphan
    <3>2. CASE c # <<"release", r>>
      BY <1>2, <3>1, <3>2
    <3>3. CASE c = <<"release", r>>
      <4>1. apply_command(Newest, c)[k] = release_lock(Newest[k], h)
        BY <1>0, <1>1, <3>1, <3>3, EntryStep
      <4>2. h \notin release_lock(Newest[k], h).holders
        BY DEF release_lock, NoLock
      <4> QED BY <4>1, <4>2
    <3> QED BY <3>2, <3>3
  <2> QED BY <2>1, <2>2, <2>3
<1> QED BY <1>5, <1>6 DEF OrphanInv

(* A request that starts has nothing in the table and no command.          *)
LEMMA OrphanStart ==
  ASSUME OrphanInv, LockInv', UniqueHolders', NEW q \in Requests, Start(q)
  PROVE  OrphanInv'
<1>0. TypeOK /\ LockInv /\ AcquiresAwaited /\ NoOrphan
  BY DEF OrphanInv, LockInv
<1>1. /\ phase[q] = "idle" /\ phase'[q] = "trying" /\ UNCHANGED <<op, index, cmds, history>>
      /\ \A r \in Requests : r # q => phase'[r] = phase[r] /\ id'[r] = id[r]
  BY <1>0 DEF Start, TypeOK
<1>2. <<"acquire", q>> \notin cmds /\ <<"release", q>> \notin cmds
  BY <1>0, <1>1 DEF LockInv, CommandsOfStarted
<1>3. \A r \in Requests : r # q => Holder(r)' = Holder(r) /\ \A i : InTable(r, i)' = InTable(r, i)
  BY <1>1 DEF Holder, InTable, is_held_by
<1>4. AcquiresAwaited'
  <2> SUFFICES ASSUME NEW r \in Requests
               PROVE  /\ <<"acquire", r>> \in cmds => phase'[r] = "writing" /\ index[r] = 0
                      /\ index[r] <= Len(history) /\ (index[r] > 0 => phase'[r] = "writing")
                      /\ index[r] > 0 /\ InTable(r, Len(history))' => InTable(r, index[r])'
    BY <1>1 DEF AcquiresAwaited
  <2>1. CASE r # q
    <3>1. InTable(r, Len(history))' = InTable(r, Len(history)) /\ InTable(r, index[r])' = InTable(r, index[r])
      BY <1>1, <2>1 DEF Holder, InTable, is_held_by
    <3> QED BY <1>0, <1>1, <2>1, <3>1 DEF AcquiresAwaited
  <2>2. CASE r = q
    BY <1>0, <1>1, <1>2, <2>2 DEF AcquiresAwaited
  <2> QED BY <2>1, <2>2
<1>5. NoOrphan'
  <2> SUFFICES ASSUME NEW k \in Keys, NEW h \in Newest[k].holders
               PROVE  \E r \in Requests :
                        /\ op[r].key = k /\ Holder(r)' = h
                        /\ phase'[r] \in {"writing", "held", "dropping"} \/ <<"release", r>> \in cmds
    BY <1>1 DEF NoOrphan, Newest
  <2>1. PICK r \in Requests :
          /\ op[r].key = k /\ Holder(r) = h
          /\ phase[r] \in {"writing", "held", "dropping"} \/ <<"release", r>> \in cmds
    BY <1>0 DEF NoOrphan
  <2>2. r # q
    BY <1>1, <1>2, <2>1
  <2> QED BY <1>1, <1>3, <2>1, <2>2
<1> QED BY <1>4, <1>5 DEF OrphanInv

(* A request that did not get the lock is not in the newest table.         *)
LEMMA OrphanVerify ==
  ASSUME OrphanInv, LockInv', UniqueHolders', NEW q \in Requests, Verify(q)
  PROVE  OrphanInv'
<1> DEFINE n == op[q].node
<1>0. TypeOK /\ LockInv /\ UniqueHolders /\ AcquiresAwaited
  BY DEF OrphanInv, LockInv
<1>1. /\ phase[q] = "writing" /\ 0 < index[q] /\ index[q] <= applied[n] /\ UNCHANGED <<op, id, cmds, history>>
      /\ phase'[q] = IF InTable(q, applied[n]) THEN "held" ELSE "trying"
      /\ index'[q] = 0
      /\ \A r \in Requests : r # q => phase'[r] = phase[r] /\ index'[r] = index[r]
  BY <1>0 DEF Verify, TypeOK, LocalTable, InTable
<1>2. <<"acquire", q>> \notin cmds
  BY <1>0, <1>1 DEF AcquiresAwaited
<1>3. n \in Nodes /\ applied[n] \in 1 .. Len(history) /\ index[q] \in 1 .. Len(history)
  BY <1>0, <1>1 DEF TypeOK, Op, AcquiresAwaited
<1>4. phase'[q] = "held" \/ ~InTable(q, Len(history))
  <2> SUFFICES ASSUME InTable(q, Len(history)) PROVE InTable(q, applied[n])
    BY <1>1
  <2>1. InTable(q, index[q])
    BY <1>0, <1>1 DEF AcquiresAwaited
  <2> QED BY <1>0, <1>1, <1>3, <2>1 DEF LockInv, StaysInTable
<1>5. <<"acquire", q>> \notin cmds' /\ ~(index'[q] > 0)
  BY <1>1, <1>2
<1> QED BY <1>1, <1>4, <1>5, OrphanQuiet

(* Without failures and restarts the invariant is inductive.               *)
LEMMA OrphanStep ==
  ASSUME MaxRestarts = 0, Faults = {}, OrphanInv, LockInv', UniqueHolders', [Next]_vars
  PROVE  OrphanInv'
<1>0. TypeOK /\ LockInv /\ UniqueHolders /\ AcquiresAwaited
  BY DEF OrphanInv, LockInv
<1>a. \A r \in Requests : index[r] \in Nat
  BY <1>0 DEF TypeOK
<1>b. ASSUME NEW r \in Requests, phase[r] # "writing"
      PROVE  index[r] = 0 /\ <<"acquire", r>> \notin cmds
  <2>1. ~(index[r] > 0) /\ <<"acquire", r>> \notin cmds
    BY <1>0, <1>b DEF AcquiresAwaited
  <2> QED BY <1>a, <2>1
<1>1. ASSUME NEW q \in Requests, Start(q) PROVE OrphanInv'
  BY <1>1, OrphanStart
<1>2. ASSUME NEW q \in Requests, Verify(q) PROVE OrphanInv'
  BY <1>2, OrphanVerify
<1>3. ASSUME NEW q \in Requests, Propose(q) PROVE OrphanInv'
  <2>1. /\ phase[q] = "trying" /\ phase'[q] = "writing" /\ cmds' = cmds \cup {<<"acquire", q>>}
        /\ UNCHANGED <<op, id, index, history>>
        /\ \A r \in Requests : r # q => phase'[r] = phase[r]
    BY <1>0, <1>3 DEF Propose, TypeOK
  <2>2. index[q] = 0
    BY <1>b, <2>1
  <2> QED BY <2>1, <2>2, OrphanQuiet
<1>4. ASSUME NEW q \in Requests, DropGuard(q) PROVE OrphanInv'
  <2>1. /\ phase[q] = "held" /\ phase'[q] = "dropping" /\ UNCHANGED <<op, id, index, cmds, history>>
        /\ \A r \in Requests : r # q => phase'[r] = phase[r]
    BY <1>0, <1>4 DEF DropGuard, TypeOK
  <2>2. index[q] = 0 /\ <<"acquire", q>> \notin cmds
    BY <1>b, <2>1
  <2>3. /\ <<"acquire", q>> \notin cmds' /\ index'[q] = 0 /\ ~(index'[q] > 0)
        /\ UNCHANGED <<op, id, history>>
        /\ \A r \in Requests : r # q => phase'[r] = phase[r] /\ index'[r] = index[r]
        /\ phase'[q] \in {"writing", "held", "dropping"}
    BY <2>1, <2>2
  <2> QED BY <2>1, <2>3, OrphanQuiet
<1>5. ASSUME NEW q \in Requests, SubmitRelease(q) PROVE OrphanInv'
  <2>1. /\ phase[q] = "dropping" /\ phase'[q] = "done" /\ cmds' = cmds \cup {<<"release", q>>}
        /\ UNCHANGED <<op, id, index, history>>
        /\ \A r \in Requests : r # q => phase'[r] = phase[r]
    BY <1>0, <1>5 DEF SubmitRelease, TypeOK
  <2>2. index[q] = 0 /\ <<"acquire", q>> \notin cmds'
    BY <1>b, <2>1
  <2>3. index'[q] = 0 /\ ~(index'[q] > 0) /\ <<"release", q>> \in cmds'
    BY <2>1, <2>2
  <2> QED BY <2>1, <2>2, <2>3, OrphanQuiet
<1>6. ASSUME NEW c \in cmds, Commit(c) PROVE OrphanInv'
  BY <1>6, OrphanCommit
<1>7. ASSUME UNCHANGED <<op, phase, id, index, cmds, history>> PROVE OrphanInv'
  BY <1>7 DEF OrphanInv, AcquiresAwaited, NoOrphan, InTable, Holder, Newest
<1>8. ASSUME NEW n \in Nodes, Apply(n) PROVE OrphanInv'
  BY <1>7, <1>8 DEF Apply
<1>9. \A q \in Requests : ~(WriteFails(q) \/ Timeout(q) \/ ReleaseFails(q))
  BY DEF WriteFails, Timeout, ReleaseFails
<1>10. \A n \in Nodes : ~Restart(n)
  BY <1>0 DEF Restart, TypeOK
<1>11. CASE UNCHANGED vars
  BY <1>7, <1>11 DEF vars
<1> QED BY <1>1, <1>2, <1>3, <1>4, <1>5, <1>6, <1>8, <1>9, <1>10, <1>11 DEF Next

(* As long as nothing fails, times out or restarts, every holder in the    *)
(* newest table has a request that will release it: Drop submits the       *)
(* release of every guard, and an acquire that lost the race left nothing  *)
(* in the table (lock.rs try_acquire_lock, Drop), for any number of nodes, *)
(* objects and requests.                                                   *)
THEOREM NothingOrphaned ==
  ASSUME MaxRestarts = 0, Faults = {}
  PROVE  Spec => []NoOrphan
<1>1. Init => OrphanInv
  <2> SUFFICES ASSUME Init PROVE OrphanInv
    OBVIOUS
  <2>1. LockInv /\ UniqueHolders
    BY LockInvInit DEF Init, UniqueHolders
  <2>2. Len(history) = 1 /\ \A k \in Keys : Newest[k].holders = {}
    BY DEF Init, Newest, NoLock
  <2>3. AcquiresAwaited /\ NoOrphan
    BY <2>2 DEF Init, AcquiresAwaited, NoOrphan
  <2> QED BY <2>1, <2>3 DEF OrphanInv
<1>2. TypeOK /\ IdsBelowCounter => UniqueHolders
  BY UniqueWithoutRestarts
<1>3. OrphanInv /\ LockInv' /\ UniqueHolders' /\ [Next]_vars => OrphanInv'
  BY OrphanStep
<1>4. OrphanInv => NoOrphan
  BY DEF OrphanInv
<1> QED BY <1>1, <1>2, <1>3, <1>4, TypeInit, TypeStep, IdsInit, IdsStep, LockInvInit, LockInvStep,
           PTL DEF Spec
=============================================================================
