--------------------------- MODULE ObjectRegister ---------------------------
(***************************************************************************)
(* What the only coordinator of a replicated object promises about its own *)
(* copy: a register.  Operations come one at a time, a successful one has  *)
(* taken effect before its reply, and a failed one may or may not have.    *)
(***************************************************************************)
CONSTANTS Ops,           \* the operations
          Outcomes       \* the values the register can have

VARIABLES value,         \* the coordinator's own copy
          status,        \* how far each operation has got
          outcome        \* the value each operation writes

Status == {"idle", "active", "effective", "acked", "failed"}

Over(w) == status[w] \in {"acked", "failed"}

Init ==
  /\ value \in Outcomes
  /\ status = [w \in Ops |-> "idle"]
  /\ outcome \in [Ops -> Outcomes]

Begin(w) ==
  /\ status[w] = "idle"
  /\ \A v \in Ops : status[v] = "idle" \/ Over(v)
  /\ status' = [status EXCEPT ![w] = "active"]
  /\ UNCHANGED <<value, outcome>>

(* It never gets its turn.                                                 *)
Refuse(w) ==
  /\ status[w] = "idle"
  /\ status' = [status EXCEPT ![w] = "failed"]
  /\ UNCHANGED <<value, outcome>>

TakeEffect(w) ==
  /\ status[w] = "active"
  /\ status' = [status EXCEPT ![w] = "effective"]
  /\ value' = outcome[w]
  /\ UNCHANGED outcome

Ack(w) ==
  /\ status[w] = "effective"
  /\ status' = [status EXCEPT ![w] = "acked"]
  /\ UNCHANGED <<value, outcome>>

Fail(w) ==
  /\ status[w] \in {"active", "effective"}
  /\ status' = [status EXCEPT ![w] = "failed"]
  /\ value' \in {value, outcome[w]}
  /\ UNCHANGED outcome

Next == \E w \in Ops : Begin(w) \/ Refuse(w) \/ TakeEffect(w) \/ Ack(w) \/ Fail(w)

Spec == Init /\ [][Next]_<<value, status, outcome>>
=============================================================================
