------------------------------- MODULE LogSink -------------------------------
(***************************************************************************)
(* What a handler may expect of internal/log/service/log_publisher.go: a   *)
(* place for logs that never makes it wait.  A log is stored or lost, once *)
(* and for good, and never turned away while there is room for it.         *)
(***************************************************************************)
EXTENDS Integers, FiniteSets

CONSTANTS Logs,     \* the logs
          Capacity  \* as many wait for sure

VARIABLES pending, stored, lost

vars == <<pending, stored, lost>>

Init == pending = {} /\ stored = {} /\ lost = {}

Fresh(l) == l \notin pending \cup stored \cup lost

\* publish takes the log.
Accept(l) ==
  /\ Fresh(l)
  /\ pending' = pending \cup {l}
  /\ UNCHANGED <<stored, lost>>

\* publish drops it.
TurnAway(l) ==
  /\ Fresh(l)
  /\ Cardinality(pending) >= Capacity
  /\ lost' = lost \cup {l}
  /\ UNCHANGED <<pending, stored>>

\* Save returns.
Settle(l) ==
  /\ l \in pending
  /\ pending' = pending \ {l}
  /\ \/ stored' = stored \cup {l} /\ UNCHANGED lost
     \/ lost' = lost \cup {l} /\ UNCHANGED stored

Next == \E l \in Logs : Accept(l) \/ TurnAway(l) \/ Settle(l)

Spec == Init /\ [][Next]_vars

=============================================================================
