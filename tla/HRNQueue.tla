------------------------------ MODULE HRNQueue ------------------------------
(***************************************************************************)
(* internal/queue/hrn_queue.go: the priority queue in front of the proxy.  *)
(*                                                                         *)
(* Each request runs in a goroutine of its own: Acquire, the rest of the   *)
(* handler chain, and the deferred Release of QueueMiddleware.  A request  *)
(* that finds no token in the channel q.sem creates a waiter, pushes it    *)
(* under q.mu and starts a second goroutine that gives up for it after the *)
(* timeout or when its context is cancelled.  The steps of these           *)
(* goroutines interleave freely; what happens under q.mu, and the          *)
(* compare-and-swap of complete with the send that follows it, is one step *)
(* (the channel of a waiter has room for the only answer ever sent).       *)
(*                                                                         *)
(* The heap is the set of enqueued waiters: an index >= 0 in the code is   *)
(* membership here, and Pop takes a waiter of highest effective priority.  *)
(* Time is the age of each waiter, counted in ticks from its enqueuedAt    *)
(* and saturating at MaxAge, beyond the timeout.                           *)
(***************************************************************************)
EXTENDS Integers, FiniteSets

CONSTANTS Requests,        \* the requests that call Acquire, each once
          MaxInflight,     \* capacity of q.sem (queue.max_inflight)
          Priorities,      \* the values the priority argument may have
          AgingRate,       \* what one tick of waiting adds to a priority
          AcquireTimeout,  \* q.timeout in ticks (queue.acquire_timeout)
          MaxAge,          \* bound: ages are counted up to this many ticks
          NoWaiter         \* sentinel: this goroutine has popped no waiter

ASSUME HRNQueueAssumption ==
  /\ IsFiniteSet(Requests)
  /\ MaxInflight \in Nat
  /\ Priorities \subseteq Int
  /\ Priorities # {}
  /\ AgingRate \in Nat
  /\ AcquireTimeout \in Nat
  /\ MaxAge \in Nat
  /\ AcquireTimeout <= MaxAge
  /\ NoWaiter \notin Requests

VARIABLES
  sem,        \* tokens in the channel q.sem
  heap,       \* waiters in q.heap, named by their requests
  pc,         \* where the goroutine of each request is
  priority,   \* waiter.priority, the argument of Acquire
  age,        \* ticks since waiter.enqueuedAt
  answer,     \* what complete sent; "none" while waiter.done is false
  timer,      \* where the timeout goroutine of each waiter is
  popped,     \* the waiter a Release has popped and not yet completed
  cancelled   \* requests whose context is cancelled

vars == <<sem, heap, pc, priority, age, answer, timer, popped, cancelled>>

-----------------------------------------------------------------------------
\* The channel is filled with MaxInflight tokens; no waiter exists yet (nothing
\* reads the priority of a request before its waiter is created).
Init ==
  /\ sem = MaxInflight
  /\ heap = {}
  /\ pc = [r \in Requests |-> "new"]
  /\ priority = [r \in Requests |-> CHOOSE p \in Priorities : TRUE]
  /\ age = [r \in Requests |-> 0]
  /\ answer = [r \in Requests |-> "none"]
  /\ timer = [r \in Requests |-> "off"]
  /\ popped = [r \in Requests |-> NoWaiter]
  /\ cancelled = {}

Goto(r, l) == pc' = [pc EXCEPT ![r] = l]

\* Mutant of Complete: done is set without a compare-and-swap.
CompleteUnguarded(w, result) == answer' = [answer EXCEPT ![w] = result]

\* complete(result): only the first caller sends its answer.
Complete(w, result) ==
  /\ answer[w] = "none"
  /\ answer' = [answer EXCEPT ![w] = result]

\* Mutant of EffectivePriority: the waiting time ages ten times as fast.
FastAgeing(w) == priority[w] + 10 * AgingRate * age[w]

EffectivePriority(w) == priority[w] + AgingRate * age[w]

\* What heap.Pop may return: nobody in the heap has a higher priority.
Highest(w) == \A v \in heap : EffectivePriority(v) <= EffectivePriority(w)

-----------------------------------------------------------------------------
\* Acquire, by the goroutine of the request.

\* The first select takes a token without blocking.
AcquireNow(r) ==
  /\ pc[r] = "new"
  /\ sem > 0
  /\ sem' = sem - 1
  /\ Goto(r, "holding")
  /\ UNCHANGED <<heap, priority, age, answer, timer, popped, cancelled>>

\* The first select takes its default branch; the waiter is created, with the
\* priority Acquire was called with.
CreateWaiter(r) ==
  /\ pc[r] = "new"
  /\ sem = 0
  /\ \E p \in Priorities : priority' = [priority EXCEPT ![r] = p]
  /\ Goto(r, "enqueue")
  /\ UNCHANGED <<sem, heap, age, answer, timer, popped, cancelled>>

\* Mutant of Enqueue: the timeout goroutine is never started.
EnqueueUntimed(r) ==
  /\ pc[r] = "enqueue"
  /\ heap' = heap \cup {r}
  /\ Goto(r, "waiting")
  /\ UNCHANGED <<sem, priority, age, answer, timer, popped, cancelled>>

\* heap.Push under the lock; then the timeout goroutine starts.
Enqueue(r) ==
  /\ pc[r] = "enqueue"
  /\ heap' = heap \cup {r}
  /\ timer' = [timer EXCEPT ![r] = "armed"]
  /\ Goto(r, "waiting")
  /\ UNCHANGED <<sem, priority, age, answer, popped, cancelled>>

\* Mutant of Receive: the Release is deferred before the answer is looked at.
ReceiveThenRelease(r) ==
  /\ pc[r] = "waiting"
  /\ \/ answer[r] = "granted" /\ Goto(r, "holding")
     \/ answer[r] = "refused" /\ Goto(r, "releasing")
  /\ UNCHANGED <<sem, heap, priority, age, answer, timer, popped, cancelled>>

\* result := <-w.ch
Receive(r) ==
  /\ pc[r] = "waiting"
  /\ \/ answer[r] = "granted" /\ Goto(r, "holding")
     \/ answer[r] = "refused" /\ Goto(r, "refused")
  /\ UNCHANGED <<sem, heap, priority, age, answer, timer, popped, cancelled>>

-----------------------------------------------------------------------------
\* The timeout goroutine of a waiter.

\* Mutant of GiveUp: the waiter is answered and left in the heap.
GiveUpInPlace(r) ==
  /\ timer[r] = "armed"
  /\ age[r] >= AcquireTimeout \/ r \in cancelled
  /\ Complete(r, "refused") \/ (answer[r] # "none" /\ UNCHANGED answer)
  /\ timer' = [timer EXCEPT ![r] = "stopped"]
  /\ UNCHANGED <<sem, heap, pc, priority, age, popped, cancelled>>

\* Mutant of GiveUp: the select has no case for the timer.
GiveUpOnCancel(r) ==
  /\ timer[r] = "armed"
  /\ r \in cancelled
  /\ \/ /\ Complete(r, "refused")
        /\ timer' = [timer EXCEPT ![r] = "removing"]
     \/ /\ answer[r] # "none"
        /\ timer' = [timer EXCEPT ![r] = "stopped"]
        /\ UNCHANGED answer
  /\ UNCHANGED <<sem, heap, pc, priority, age, popped, cancelled>>

\* Its select wakes up, and complete(false) succeeds or comes too late.
GiveUp(r) ==
  /\ timer[r] = "armed"
  /\ age[r] >= AcquireTimeout \/ r \in cancelled
  /\ \/ /\ Complete(r, "refused")
        /\ timer' = [timer EXCEPT ![r] = "removing"]
     \/ /\ answer[r] # "none"
        /\ timer' = [timer EXCEPT ![r] = "stopped"]
        /\ UNCHANGED answer
  /\ UNCHANGED <<sem, heap, pc, priority, age, popped, cancelled>>

\* Under the lock: heap.Remove if a Release has not popped the waiter.
RemoveWaiter(r) ==
  /\ timer[r] = "removing"
  /\ heap' = heap \ {r}
  /\ timer' = [timer EXCEPT ![r] = "stopped"]
  /\ UNCHANGED <<sem, pc, priority, age, answer, popped, cancelled>>

-----------------------------------------------------------------------------
\* Release, by the goroutine of a request that holds a slot.

\* The handler chain has returned or panicked: the deferred Release starts.
Finish(r) ==
  /\ pc[r] = "holding"
  /\ Goto(r, "releasing")
  /\ UNCHANGED <<sem, heap, priority, age, answer, timer, popped, cancelled>>

\* Under the lock: the heap is empty, so the slot goes back to the channel.
FindEmpty(r) ==
  /\ pc[r] = "releasing"
  /\ heap = {}
  /\ Goto(r, "returning")
  /\ UNCHANGED <<sem, heap, priority, age, answer, timer, popped, cancelled>>

\* q.sem <- struct{}{}, after the lock is released; blocks on a full channel.
ReturnSlot(r) ==
  /\ pc[r] = "returning"
  /\ sem < MaxInflight
  /\ sem' = sem + 1
  /\ Goto(r, "done")
  /\ UNCHANGED <<heap, priority, age, answer, timer, popped, cancelled>>

\* Under the lock: heap.Pop.
PopWaiter(r) ==
  /\ pc[r] = "releasing"
  /\ \E w \in heap :
       /\ Highest(w)
       /\ heap' = heap \ {w}
       /\ popped' = [popped EXCEPT ![r] = w]
  /\ Goto(r, "granting")
  /\ UNCHANGED <<sem, priority, age, answer, timer, cancelled>>

\* complete(true) succeeds: the slot now belongs to the popped waiter.
Grant(r) ==
  /\ pc[r] = "granting"
  /\ Complete(popped[r], "granted")
  /\ popped' = [popped EXCEPT ![r] = NoWaiter]
  /\ Goto(r, "done")
  /\ UNCHANGED <<sem, heap, priority, age, timer, cancelled>>

\* Mutant of TryNext: Release returns although nobody took the slot.
DropSlot(r) ==
  /\ pc[r] = "granting"
  /\ answer[popped[r]] # "none"
  /\ popped' = [popped EXCEPT ![r] = NoWaiter]
  /\ Goto(r, "done")
  /\ UNCHANGED <<sem, heap, priority, age, answer, timer, cancelled>>

\* complete(true) fails, the waiter has given up: try the next one.
TryNext(r) ==
  /\ pc[r] = "granting"
  /\ answer[popped[r]] # "none"
  /\ popped' = [popped EXCEPT ![r] = NoWaiter]
  /\ Goto(r, "releasing")
  /\ UNCHANGED <<sem, heap, priority, age, answer, timer, cancelled>>

-----------------------------------------------------------------------------
\* The context of a request is cancelled: its client disconnects, or net/http
\* cancels it after the handler has returned.  Only the timeout goroutine looks
\* at the context, so a cancellation before its waiter exists or after its end
\* is left out.
Cancel(r) ==
  /\ pc[r] = "enqueue" \/ timer[r] = "armed"
  /\ r \notin cancelled
  /\ cancelled' = cancelled \cup {r}
  /\ UNCHANGED <<sem, heap, pc, priority, age, answer, timer, popped>>

\* Ages that still matter: those of waiters in the heap or with a live timer.
Ageing(r) == r \in heap \/ pc[r] = "enqueue" \/ timer[r] = "armed"

\* Time passes for all of them alike.
Tick ==
  /\ \E r \in Requests : Ageing(r) /\ age[r] < MaxAge
  /\ age' = [r \in Requests |->
               IF Ageing(r) /\ age[r] < MaxAge THEN age[r] + 1 ELSE age[r]]
  /\ UNCHANGED <<sem, heap, pc, priority, answer, timer, popped, cancelled>>

\* Every request is answered and every goroutine has ended.
AllServed ==
  /\ \A r \in Requests : /\ pc[r] \in {"refused", "done"}
                         /\ timer[r] \in {"off", "stopped"}
  /\ UNCHANGED vars

Arrive(r) == AcquireNow(r) \/ CreateWaiter(r)

RequestStep(r) ==
  \/ Enqueue(r) \/ Receive(r) \/ Finish(r)
  \/ FindEmpty(r) \/ ReturnSlot(r)
  \/ PopWaiter(r) \/ Grant(r) \/ TryNext(r)

TimerStep(r) == GiveUp(r) \/ RemoveWaiter(r)

Next ==
  \/ \E r \in Requests : Arrive(r) \/ RequestStep(r) \/ TimerStep(r) \/ Cancel(r)
  \/ Tick
  \/ AllServed

Spec == Init /\ [][Next]_vars

\* The scheduler runs every goroutine that can run, clocks advance, and a
\* handler ends (the upstream call has a timeout of 30 s).  Nothing forces a
\* request to arrive or a context to be cancelled.
Fairness ==
  /\ \A r \in Requests : WF_vars(RequestStep(r))
  /\ \A r \in Requests : WF_vars(TimerStep(r))
  /\ WF_vars(Tick)

FairSpec == Spec /\ Fairness

-----------------------------------------------------------------------------
(***************************************************************************)
(* What the queue guarantees.                                              *)
(***************************************************************************)

\* The requests that own a slot: past Acquire and not yet through Release, or
\* granted a slot they have not yet heard of.
Owns(r) ==
  \/ pc[r] \in {"holding", "releasing", "granting", "returning"}
  \/ pc[r] = "waiting" /\ answer[r] = "granted"

SlotOwners == {r \in Requests : Owns(r)}

\* Types; in particular the tokens never outnumber the channel's capacity.
TypeOK ==
  /\ sem \in 0..MaxInflight
  /\ heap \in SUBSET Requests
  /\ pc \in [Requests -> {"new", "enqueue", "waiting", "holding", "refused",
                          "releasing", "returning", "granting", "done"}]
  /\ priority \in [Requests -> Priorities]
  /\ age \in [Requests -> 0..MaxAge]
  /\ answer \in [Requests -> {"none", "granted", "refused"}]
  /\ timer \in [Requests -> {"off", "armed", "removing", "stopped"}]
  /\ popped \in [Requests -> Requests \cup {NoWaiter}]
  /\ cancelled \in SUBSET Requests

\* No race between a timeout, a cancellation and a Release loses a slot or
\* makes one: the tokens in the channel and the owners always add up.
SlotConservation == sem + Cardinality(SlotOwners) = MaxInflight

\* The send q.sem <- struct{}{} at the end of Release never blocks, so the
\* deferred Release cannot hang the goroutine of a finished request.
ReleaseNeverBlocks == \A r \in Requests : pc[r] = "returning" => sem < MaxInflight

\* A waiter that has been answered stays in the heap only while its timeout
\* goroutine is on the way to remove it: the heap does not fill with the dead.
NoStaleWaiter == \A w \in heap : answer[w] # "none" => timer[w] = "removing"

\* A waiter without an answer is still reachable by both sides that can answer
\* it: its timeout goroutine is alive, and a Release can find it in the heap
\* or has it in hand.
NoForgottenWaiter ==
  \A w \in Requests : pc[w] = "waiting" /\ answer[w] = "none" =>
    /\ timer[w] = "armed"
    /\ w \in heap \/ \E r \in Requests : popped[r] = w

\* With the default configuration, what a waiter gains by ageing until its
\* timeout is less than the penalty of one failure: a Release never passes
\* over a waiter with a better priority for one that is not yet overdue.
PriorityBeatsAgeing ==
  [][\A r \in Requests : popped'[r] \notin {NoWaiter, popped[r]} =>
       LET w == popped'[r]
       IN age[w] <= AcquireTimeout => \A v \in heap : priority[v] <= priority[w]]_vars

\* Acquire returns, even when no slot is ever released to the waiter.
AcquireReturns ==
  \A r \in Requests :
    pc[r] \in {"enqueue", "waiting"} ~> pc[r] \in {"holding", "refused"}

\* Once the requests that arrived are served, every slot is back in the
\* channel, nothing is left in the heap and no timeout goroutine lives on.
QueueComesToRest ==
  <>[](sem = MaxInflight /\ heap = {} /\ \A r \in Requests : timer[r] \in {"off", "stopped"})

\* "If there is no slot it waits" (queue.go): nobody waits in the heap while
\* a token lies in the channel.
NoIdleSlotWhileWaiting == (\E w \in heap : answer[w] = "none") => sem = 0

-----------------------------------------------------------------------------
\* What the caller of each request can observe: the state of the contract.
StatusOf(r) ==
  IF pc[r] = "new" THEN "idle"
  ELSE IF Owns(r) THEN "admitted"
  ELSE IF pc[r] = "done" THEN "released"
  ELSE IF pc[r] = "refused" \/ answer[r] = "refused" THEN "refused"
  ELSE "waiting"

Contract == INSTANCE RequestQueue WITH status <- [r \in Requests |-> StatusOf(r)]

\* The heap, the channel and the timeout goroutines together keep the contract
\* of queue.go: at most MaxInflight admitted, only waiting requests refused,
\* each request answered once.
ImplementsRequestQueue == Contract!Spec

=============================================================================
