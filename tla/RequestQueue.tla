---------------------------- MODULE RequestQueue ----------------------------
(***************************************************************************)
(* The contract of internal/queue/queue.go: what a RequestQueue promises   *)
(* its caller, whatever the order in which it serves the waiting requests. *)
(* A request goes through Acquire once; if it is admitted it holds a slot  *)
(* until its Release, which either frees the slot or passes it straight to *)
(* a waiting request.                                                      *)
(***************************************************************************)
EXTENDS Integers, FiniteSets

CONSTANTS Requests,     \* the HTTP requests that call Acquire
          MaxInflight   \* config.QueueConfig.MaxInflight

VARIABLE status         \* what the caller of each request can observe

vars == <<status>>

Admitted == {r \in Requests : status[r] = "admitted"}
Waiting  == {r \in Requests : status[r] = "waiting"}

Init == status = [r \in Requests |-> "idle"]

\* Acquire finds a slot and returns true at once.
Admit(r) ==
  /\ status[r] = "idle"
  /\ Cardinality(Admitted) < MaxInflight
  /\ status' = [status EXCEPT ![r] = "admitted"]

\* Acquire finds no slot and waits.
Wait(r) ==
  /\ status[r] = "idle"
  /\ Cardinality(Admitted) = MaxInflight
  /\ status' = [status EXCEPT ![r] = "waiting"]

\* The timeout passes, or the context of the request is cancelled.
Refuse(r) ==
  /\ status[r] = "waiting"
  /\ status' = [status EXCEPT ![r] = "refused"]

\* Release gives the slot back.
Release(r) ==
  /\ status[r] = "admitted"
  /\ status' = [status EXCEPT ![r] = "released"]

\* Release passes the slot to a waiting request.
HandOver(r, w) ==
  /\ status[r] = "admitted"
  /\ status[w] = "waiting"
  /\ status' = [status EXCEPT ![r] = "released", ![w] = "admitted"]

\* Every request has had its answer and returned its slot.
AllServed ==
  /\ \A r \in Requests : status[r] \in {"refused", "released"}
  /\ UNCHANGED status

Next ==
  \/ \E r \in Requests : Admit(r) \/ Wait(r) \/ Refuse(r) \/ Release(r)
  \/ \E r, w \in Requests : HandOver(r, w)
  \/ AllServed

Spec == Init /\ [][Next]_vars

-----------------------------------------------------------------------------
Statuses == {"idle", "waiting", "admitted", "refused", "released"}

\* The status of every request is one of the five the contract knows.
TypeOK == status \in [Requests -> Statuses]

\* Never more than MaxInflight requests are past Acquire and not yet past
\* Release: the reason the queue exists (QueueMiddleware, "limits the number
\* of requests processed at once").
InflightBound == Cardinality(Admitted) <= MaxInflight

=============================================================================
