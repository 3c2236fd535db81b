--------------------------- MODULE SemaphoreQueue ---------------------------
(***************************************************************************)
(* internal/queue/semaphore_queue.go: the other implementation of the      *)
(* contract RequestQueue, first come first served (main.go builds          *)
(* HRNQueue).  Its goroutines are those of HRNQueue, its line is a slice,  *)
(* and a waiter does not know whether it is still in it.                   *)
(*                                                                         *)
(* The order of the line does not depend on time, so time is left out: a   *)
(* timeout is a step that the timer of a waiter may take at any moment,    *)
(* and the cancellation of a context is that same step.                    *)
(***************************************************************************)
EXTENDS Integers, Sequences, FiniteSets

CONSTANTS Requests,     \* the requests that call Acquire, each once
          MaxInflight,  \* capacity of q.sem (queue.max_inflight)
          NoWaiter      \* sentinel: this goroutine has taken no waiter

ASSUME SemaphoreQueueAssumption ==
  /\ IsFiniteSet(Requests)
  /\ MaxInflight \in Nat
  /\ NoWaiter \notin Requests

VARIABLES
  sem,      \* tokens in the channel q.sem
  waiters,  \* the slice q.waiters, of requests
  pc,       \* where the goroutine of each request is
  answer,   \* what complete sent; "none" while simpleWaiter.done is false
  timer,    \* where the timeout goroutine of each waiter is
  popped,   \* the waiter a Release has taken out and not yet completed
  entered   \* history: the waiters in the order in which they joined the line

vars == <<sem, waiters, pc, answer, timer, popped, entered>>

Line == {waiters[i] : i \in 1..Len(waiters)}

-----------------------------------------------------------------------------
\* The channel is filled with MaxInflight tokens; nobody waits.
Init ==
  /\ sem = MaxInflight
  /\ waiters = <<>>
  /\ pc = [r \in Requests |-> "new"]
  /\ answer = [r \in Requests |-> "none"]
  /\ timer = [r \in Requests |-> "off"]
  /\ popped = [r \in Requests |-> NoWaiter]
  /\ entered = <<>>

Goto(r, l) == pc' = [pc EXCEPT ![r] = l]

\* Mutant of Complete: done is set without a compare-and-swap.
CompleteUnguarded(w, result) == answer' = [answer EXCEPT ![w] = result]

\* complete(result): only the first caller sends its answer.
Complete(w, result) ==
  /\ answer[w] = "none"
  /\ answer' = [answer EXCEPT ![w] = result]

-----------------------------------------------------------------------------
\* Acquire.

\* The first select takes a token without blocking.
AcquireNow(r) ==
  /\ pc[r] = "new"
  /\ sem > 0
  /\ sem' = sem - 1
  /\ Goto(r, "holding")
  /\ UNCHANGED <<waiters, answer, timer, popped, entered>>

\* The first select takes its default branch; the waiter is created.
CreateWaiter(r) ==
  /\ pc[r] = "new"
  /\ sem = 0
  /\ Goto(r, "enqueue")
  /\ UNCHANGED <<sem, waiters, answer, timer, popped, entered>>

\* Mutant of JoinLine: the waiter is put in front of the line.
JumpLine(r) ==
  /\ pc[r] = "enqueue"
  /\ waiters' = <<r>> \o waiters
  /\ entered' = Append(entered, r)
  /\ timer' = [timer EXCEPT ![r] = "armed"]
  /\ Goto(r, "waiting")
  /\ UNCHANGED <<sem, answer, popped>>

\* append under the lock; then the timeout goroutine starts.
JoinLine(r) ==
  /\ pc[r] = "enqueue"
  /\ waiters' = Append(waiters, r)
  /\ entered' = Append(entered, r)
  /\ timer' = [timer EXCEPT ![r] = "armed"]
  /\ Goto(r, "waiting")
  /\ UNCHANGED <<sem, answer, popped>>

\* return <-w.ch
Receive(r) ==
  /\ pc[r] = "waiting"
  /\ \/ answer[r] = "granted" /\ Goto(r, "holding")
     \/ answer[r] = "refused" /\ Goto(r, "refused")
  /\ UNCHANGED <<sem, waiters, answer, timer, popped, entered>>

-----------------------------------------------------------------------------
\* The timeout goroutine of a waiter.

\* Its select wakes up, and complete(false) succeeds or comes too late.
GiveUp(r) ==
  /\ timer[r] = "armed"
  /\ \/ /\ Complete(r, "refused")
        /\ timer' = [timer EXCEPT ![r] = "removing"]
     \/ /\ answer[r] # "none"
        /\ timer' = [timer EXCEPT ![r] = "stopped"]
        /\ UNCHANGED answer
  /\ UNCHANGED <<sem, waiters, pc, popped, entered>>

\* Mutant of RemoveWaiter: the code takes out the first waiter, whoever it is.
RemoveFirst(r) ==
  /\ timer[r] = "removing"
  /\ waiters' = IF waiters = <<>> THEN <<>> ELSE Tail(waiters)
  /\ timer' = [timer EXCEPT ![r] = "stopped"]
  /\ UNCHANGED <<sem, pc, answer, popped, entered>>

\* Under the lock: removeWaiter, which finds nobody if a Release was faster.
RemoveWaiter(r) ==
  /\ timer[r] = "removing"
  /\ \/ \E i \in 1..Len(waiters) :
          /\ waiters[i] = r
          /\ waiters' = SubSeq(waiters, 1, i - 1) \o SubSeq(waiters, i + 1, Len(waiters))
     \/ r \notin Line /\ UNCHANGED waiters
  /\ timer' = [timer EXCEPT ![r] = "stopped"]
  /\ UNCHANGED <<sem, pc, answer, popped, entered>>

-----------------------------------------------------------------------------
\* Release.

\* The handler chain has returned or panicked: the deferred Release starts.
Finish(r) ==
  /\ pc[r] = "holding"
  /\ Goto(r, "releasing")
  /\ UNCHANGED <<sem, waiters, answer, timer, popped, entered>>

\* Under the lock: nobody waits, so the slot goes back to the channel.
FindEmpty(r) ==
  /\ pc[r] = "releasing"
  /\ waiters = <<>>
  /\ Goto(r, "returning")
  /\ UNCHANGED <<sem, waiters, answer, timer, popped, entered>>

\* q.sem <- struct{}{}, after the lock is released; blocks on a full channel.
ReturnSlot(r) ==
  /\ pc[r] = "returning"
  /\ sem < MaxInflight
  /\ sem' = sem + 1
  /\ Goto(r, "done")
  /\ UNCHANGED <<waiters, answer, timer, popped, entered>>

\* Under the lock: the first waiter is taken out of the slice.
PopWaiter(r) ==
  /\ pc[r] = "releasing"
  /\ waiters # <<>>
  /\ popped' = [popped EXCEPT ![r] = Head(waiters)]
  /\ waiters' = Tail(waiters)
  /\ Goto(r, "granting")
  /\ UNCHANGED <<sem, answer, timer, entered>>

\* complete(true) succeeds: the slot now belongs to the popped waiter.
Grant(r) ==
  /\ pc[r] = "granting"
  /\ Complete(popped[r], "granted")
  /\ popped' = [popped EXCEPT ![r] = NoWaiter]
  /\ Goto(r, "done")
  /\ UNCHANGED <<sem, waiters, timer, entered>>

\* complete(true) fails, the waiter has given up: try the next one.
TryNext(r) ==
  /\ pc[r] = "granting"
  /\ answer[popped[r]] # "none"
  /\ popped' = [popped EXCEPT ![r] = NoWaiter]
  /\ Goto(r, "releasing")
  /\ UNCHANGED <<sem, waiters, answer, timer, entered>>

\* Every request is answered and every goroutine has ended.
AllServed ==
  /\ \A r \in Requests : /\ pc[r] \in {"refused", "done"}
                         /\ timer[r] \in {"off", "stopped"}
  /\ UNCHANGED vars

Acquire(r) == AcquireNow(r) \/ CreateWaiter(r) \/ JoinLine(r) \/ Receive(r)
TimerStep(r) == GiveUp(r) \/ RemoveWaiter(r)
Release(r) == Finish(r) \/ FindEmpty(r) \/ ReturnSlot(r) \/ PopWaiter(r) \/ Grant(r) \/ TryNext(r)

Next ==
  \/ \E r \in Requests : Acquire(r) \/ TimerStep(r) \/ Release(r)
  \/ AllServed

Spec == Init /\ [][Next]_vars

-----------------------------------------------------------------------------
(***************************************************************************)
(* What the queue guarantees, and what it does not.                        *)
(***************************************************************************)

\* The requests that own a slot.
Owns(r) ==
  \/ pc[r] \in {"holding", "releasing", "granting", "returning"}
  \/ pc[r] = "waiting" /\ answer[r] = "granted"

SlotOwners == {r \in Requests : Owns(r)}

\* Types; in particular no waiter is in the line twice.
TypeOK ==
  /\ sem \in 0..MaxInflight
  /\ waiters \in Seq(Requests) /\ Cardinality(Line) = Len(waiters)
  /\ pc \in [Requests -> {"new", "enqueue", "waiting", "holding", "refused",
                          "releasing", "returning", "granting", "done"}]
  /\ answer \in [Requests -> {"none", "granted", "refused"}]
  /\ timer \in [Requests -> {"off", "armed", "removing", "stopped"}]
  /\ popped \in [Requests -> Requests \cup {NoWaiter}]
  /\ entered \in Seq(Requests)

\* The tokens in the channel and the requests that own a slot always add up,
\* whatever race between timeouts and Releases there was.
SlotConservation == sem + Cardinality(SlotOwners) = MaxInflight

\* In a line, first come is first served: when a waiter is granted a slot,
\* whoever joined before it has been answered or is in the hands of a Release.
\* Removals from the middle of the slice, while others take its head, keep
\* the order.
ServedInLine ==
  [][\A i \in 1..Len(entered) : answer[entered[i]] = "none" /\ answer'[entered[i]] = "granted" =>
       \A j \in 1..(i-1) : \/ answer[entered[j]] # "none"
                           \/ \E r \in Requests : popped[r] = entered[j]]_vars

\* A waiter without an answer can still be given a slot: it is in the line, or
\* a Release has it in hand.
NobodyLost ==
  \A w \in Requests : pc[w] = "waiting" /\ answer[w] = "none" =>
    w \in Line \/ \E r \in Requests : popped[r] = w

-----------------------------------------------------------------------------
\* What the caller of each request can observe: the state of the contract.
StatusOf(r) ==
  IF pc[r] = "new" THEN "idle"
  ELSE IF Owns(r) THEN "admitted"
  ELSE IF pc[r] = "done" THEN "released"
  ELSE IF pc[r] = "refused" \/ answer[r] = "refused" THEN "refused"
  ELSE "waiting"

Contract == INSTANCE RequestQueue WITH status <- [r \in Requests |-> StatusOf(r)]

\* This queue keeps the same contract as HRNQueue, so that either can stand
\* behind QueueMiddleware.
ImplementsRequestQueue == Contract!Spec

=============================================================================
