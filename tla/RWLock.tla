------------------------------- MODULE RWLock -------------------------------
(***************************************************************************)
(* What the distributed lock promises to the object handlers: at any time  *)
(* the guards that handlers hold on one object are any number of read      *)
(* guards or a single write guard (docs/adrs/003-per-object-locking.md).   *)
(***************************************************************************)
CONSTANTS Requests,   \* the handler invocations that may want a lock
          Keys        \* the objects, one per (bucket, key)

VARIABLE guards       \* the guards handlers hold now

LockType == {"Read", "Write"}

Guard == [req : Requests, key : Keys, type : LockType]

(* Two guards may coexist if they are on different objects or both read.   *)
Compatible(g, h) ==
  g.key = h.key => g.type = "Read" /\ h.type = "Read"

Init == guards = {}

Acquire(g) ==
  /\ \A h \in guards : h.req # g.req /\ Compatible(g, h)
  /\ guards' = guards \cup {g}

(* A handler drops its guard, or a process dies with all of its handlers.  *)
Release(S) == guards' = guards \ S

Next ==
  \/ \E g \in Guard : Acquire(g)
  \/ \E S \in SUBSET guards : Release(S)

Spec == Init /\ [][Next]_guards
=============================================================================
