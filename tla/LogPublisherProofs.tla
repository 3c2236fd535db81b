-------------------------- MODULE LogPublisherProofs --------------------------
(***************************************************************************)
(* Theorems about LogPublisher, for every number of logs and workers and   *)
(* every size of the buffer.                                               *)
(*                                                                         *)
(* The channel is a sequence and the hands of the workers are a function;  *)
(* the first lemmas say what each action does to the sets Buffered and     *)
(* Held, and the rest of the proof is about these sets.                    *)
(***************************************************************************)
EXTENDS LogPublisher, FiniteSetTheorems, SequenceTheorems, TLAPS

\* No log is in the channel twice, or in the hands of two workers.
Distinct == \A i, j \in 1..Len(ch) : ch[i] = ch[j] => i = j

Alone == \A w1, w2 \in Workers : holding[w1] = holding[w2] /\ holding[w1] # NoLog => w1 = w2

\* The places of EveryLogInOnePlace; the handler of a log knows whether it has one.
PlaceLink ==
  /\ Distinct
  /\ Alone
  /\ Buffered \cap Held = {}
  /\ (Buffered \cup Held) \cap Settled = {}
  /\ saved \cap failed = {} /\ (saved \cup failed) \cap dropped = {}
  /\ Buffered \cup Held \cup Settled = {l \in Logs : handler[l] = "logged"}

\* DrainedWhenStopped needs to know that a worker stops with empty hands, and
\* that what it has drained stays empty: no handler is left when the shutdown is
\* graceful, and no request is accepted any more.
StopLink ==
  /\ \A w \in Workers : mode[w] # "running" => Cancelled
  /\ \A w \in Workers : mode[w] = "stopped" => holding[w] = NoLog /\ (graceful => ch = <<>>)
  /\ graceful => Cancelled /\ \A l \in Logs : handler[l] # "active"

\* The exchange of a log is known for as long as the log is on its way.
ExchangeLink == \A l \in Buffered \cup Held : exchange[l] \in Exchanges

IInv == TypeOK /\ PlaceLink /\ StopLink /\ ExchangeLink

-----------------------------------------------------------------------------
\* The channel and the hands.

LEMMA Appended ==
  ASSUME ch \in Seq(Logs), NEW l \in Logs, l \notin Buffered, ch' = Append(ch, l), Distinct
  PROVE  ch' \in Seq(Logs) /\ Len(ch') = Len(ch) + 1 /\ Buffered' = Buffered \cup {l} /\ Distinct'
<1>1. /\ ch' \in Seq(Logs) /\ Len(ch') = Len(ch) + 1 /\ Len(ch) \in Nat
      /\ \A i \in 1..Len(ch) : ch'[i] = ch[i]
      /\ ch'[Len(ch) + 1] = l
  OBVIOUS
<1>2. Buffered' = Buffered \cup {l}
  BY <1>1 DEF Buffered
<1>3. Distinct'
  BY <1>1 DEF Buffered, Distinct
<1> QED
  BY <1>1, <1>2, <1>3

LEMMA Shifted ==
  ASSUME ch \in Seq(Logs), ch # <<>>, ch' = Tail(ch), Distinct
  PROVE  /\ ch' \in Seq(Logs) /\ Len(ch') = Len(ch) - 1 /\ Head(ch) \in Buffered
         /\ Buffered' = Buffered \ {Head(ch)} /\ Distinct'
<1>1. /\ ch' \in Seq(Logs) /\ Len(ch') = Len(ch) - 1 /\ Len(ch) \in Nat \ {0}
      /\ Head(ch) = ch[1]
      /\ \A i \in 1..Len(ch') : ch'[i] = ch[i + 1]
  OBVIOUS
<1>2. \A i \in 1..Len(ch) : i # 1 => i - 1 \in 1..Len(ch') /\ ch[i] = ch'[i - 1]
  BY <1>1
<1>3. Buffered' \subseteq Buffered \ {Head(ch)}
  BY <1>1 DEF Buffered, Distinct
<1>4. Buffered \ {Head(ch)} \subseteq Buffered'
  BY <1>1, <1>2 DEF Buffered
<1>5. Distinct'
  BY <1>1 DEF Distinct
<1> QED
  BY <1>1, <1>3, <1>4, <1>5 DEF Buffered

LEMMA PickedUp ==
  ASSUME holding \in [Workers -> Logs \cup {NoLog}], NEW w \in Workers, holding[w] = NoLog,
         NEW l \in Logs, l \notin Held, Alone, holding' = [holding EXCEPT ![w] = l]
  PROVE  Held' = Held \cup {l} /\ Alone'
<1>1. l # NoLog
  BY LogPublisherAssumption
<1>2. \A v \in Workers : holding'[v] = IF v = w THEN l ELSE holding[v]
  OBVIOUS
<1>3. Alone'
  BY <1>1, <1>2 DEF Alone, Held
<1>4. Held' = Held \cup {l}
  BY <1>1, <1>2 DEF Held
<1> QED
  BY <1>3, <1>4

LEMMA LaidDown ==
  ASSUME holding \in [Workers -> Logs \cup {NoLog}], NEW w \in Workers, holding[w] # NoLog,
         Alone, holding' = [holding EXCEPT ![w] = NoLog]
  PROVE  holding[w] \in Held /\ Held' = Held \ {holding[w]} /\ Alone'
<1>1. \A v \in Workers : holding'[v] = IF v = w THEN NoLog ELSE holding[v]
  OBVIOUS
<1>2. Alone'
  BY <1>1 DEF Alone
<1>3. holding[w] \in Held
  BY DEF Held
<1>4. Held' = Held \ {holding[w]}
  BY <1>1 DEF Held, Alone
<1> QED
  BY <1>2, <1>3, <1>4

-----------------------------------------------------------------------------
\* Types.
LEMMA TypeStep == TypeOK /\ PlaceLink /\ [Next]_vars => TypeOK'
<1> SUFFICES ASSUME TypeOK, PlaceLink, [Next]_vars PROVE TypeOK'
  OBVIOUS
<1>0. Len(ch) \in Nat /\ BufferSize \in Nat
  BY LogPublisherAssumption DEF TypeOK
<1> USE <1>0 DEF TypeOK, process, workers, fates
<1>1. ASSUME NEW l \in Logs, Serve(l) \/ FinishUnlogged(l) PROVE TypeOK'
  BY <1>1 DEF Serve, FinishUnlogged
<1>2. ASSUME NEW l \in Logs, Publish(l) PROVE TypeOK'
  <2>1. CASE ch' = Append(ch, l) /\ Len(ch) < BufferSize
    <3>1. ch' \in Seq(Logs) /\ Len(ch') <= BufferSize
      BY <2>1
    <3>2. exchange' \in [Logs -> Exchanges \cup {NoExchange}]
      BY <1>2, <2>1 DEF Publish
    <3> QED
      BY <1>2, <3>1, <3>2 DEF Publish
  <2>2. CASE UNCHANGED <<ch, exchange>>
    BY <1>2, <2>2 DEF Publish
  <2> QED
    BY <1>2, <2>1, <2>2 DEF Publish
<1>3. ASSUME NEW w \in Workers, Take(w) PROVE TypeOK'
  <2>1. /\ ch' \in Seq(Logs) /\ Len(ch') = Len(ch) - 1 /\ Head(ch) \in Logs
    BY <1>3 DEF Take
  <2> QED
    BY <1>3, <2>1 DEF Take
<1>4. ASSUME NEW w \in Workers, Save(w) PROVE TypeOK'
  BY <1>4 DEF Save
<1>5. ASSUME NEW w \in Workers, StartDraining(w) \/ StopWorker(w) PROVE TypeOK'
  BY <1>5 DEF StartDraining, StopWorker
<1>6. CASE Signal \/ ShutdownReturns \/ Exit \/ ListenFails \/ Exited \/ UNCHANGED vars
  BY <1>6 DEF Signal, ShutdownReturns, Exit, ListenFails, Exited, vars
<1> HIDE DEF TypeOK
<1> QED
  BY <1>1, <1>2, <1>3, <1>4, <1>5, <1>6 DEF Next, WorkerStep

-----------------------------------------------------------------------------
\* What each action does to the places of the logs.
LEMMA PlaceStep == TypeOK /\ PlaceLink /\ [Next]_vars => PlaceLink'
<1> SUFFICES ASSUME TypeOK, PlaceLink, [Next]_vars PROVE PlaceLink'
  OBVIOUS
<1>1. /\ ch \in Seq(Logs) /\ holding \in [Workers -> Logs \cup {NoLog}]
      /\ handler = [l \in Logs |-> handler[l]]
  BY DEF TypeOK
<1>2. ASSUME UNCHANGED <<ch, holding, saved, failed, dropped>>,
             {l \in Logs : handler[l] = "logged"} = {l \in Logs : handler'[l] = "logged"}
      PROVE  PlaceLink'
  BY <1>2 DEF PlaceLink, Distinct, Alone, Buffered, Held, Settled
<1>3. ASSUME NEW l \in Logs, Serve(l) \/ FinishUnlogged(l) PROVE PlaceLink'
  <2>1. /\ UNCHANGED <<ch, holding, saved, failed, dropped>> /\ handler[l] \in {"new", "active"}
        /\ \E h \in {"active", "done"} : handler' = [handler EXCEPT ![l] = h]
    BY <1>3 DEF Serve, FinishUnlogged, workers, fates
  <2> QED
    BY <1>1, <1>2, <2>1
<1>4. ASSUME NEW l \in Logs, Publish(l) PROVE PlaceLink'
  <2>1. /\ UNCHANGED <<holding, saved, failed>>
        /\ handler[l] = "active" /\ handler' = [handler EXCEPT ![l] = "logged"]
    BY <1>4 DEF Publish, workers
  <2>2. l \notin Buffered \cup Held \cup Settled
    BY <2>1 DEF PlaceLink
  <2>3. {k \in Logs : handler'[k] = "logged"} = {k \in Logs : handler[k] = "logged"} \cup {l}
    BY <1>1, <2>1
  <2>4. UNCHANGED Held /\ Alone'
    BY <2>1 DEF Held, Alone, PlaceLink
  <2>5. CASE ch' = Append(ch, l) /\ UNCHANGED dropped
    <3>1. Buffered' = Buffered \cup {l} /\ Distinct'
      BY <1>1, <2>2, <2>5, Appended DEF PlaceLink
    <3> QED
      BY <2>1, <2>2, <2>3, <2>4, <2>5, <3>1 DEF PlaceLink, Settled
  <2>6. CASE UNCHANGED ch /\ dropped' = dropped \cup {l}
    <3>1. UNCHANGED Buffered /\ Distinct'
      BY <2>6 DEF Buffered, Distinct, PlaceLink
    <3> QED
      BY <2>1, <2>2, <2>3, <2>4, <2>6, <3>1 DEF PlaceLink, Settled
  <2> QED
    BY <1>4, <2>5, <2>6 DEF Publish
<1>5. ASSUME NEW w \in Workers, Take(w) PROVE PlaceLink'
  <2> DEFINE l == Head(ch)
  <2>1. /\ ch # <<>> /\ ch' = Tail(ch) /\ holding[w] = NoLog
        /\ holding' = [holding EXCEPT ![w] = l] /\ UNCHANGED <<handler, saved, failed, dropped>>
    BY <1>5 DEF Take, fates
  <2>2. l \in Logs
    BY <1>1, <2>1
  <2>3. l \in Buffered /\ Buffered' = Buffered \ {l} /\ Distinct'
    BY <1>1, <2>1, Shifted DEF PlaceLink
  <2> HIDE DEF l
  <2>4. Held' = Held \cup {l} /\ Alone'
    BY <1>1, <2>1, <2>2, <2>3, PickedUp DEF PlaceLink
  <2> QED
    BY <2>1, <2>3, <2>4 DEF PlaceLink, Settled
<1>6. ASSUME NEW w \in Workers, Save(w) PROVE PlaceLink'
  <2>1. /\ holding[w] # NoLog /\ holding' = [holding EXCEPT ![w] = NoLog]
        /\ UNCHANGED <<handler, ch, dropped>>
        /\ \/ saved' = saved \cup {holding[w]} /\ UNCHANGED failed
           \/ failed' = failed \cup {holding[w]} /\ UNCHANGED saved
    BY <1>6 DEF Save, process
  <2>2. holding[w] \in Held /\ Held' = Held \ {holding[w]} /\ Alone'
    BY <1>1, <2>1, LaidDown DEF PlaceLink
  <2>3. UNCHANGED Buffered /\ Distinct'
    BY <2>1 DEF Buffered, Distinct, PlaceLink
  <2> QED
    BY <2>1, <2>2, <2>3 DEF PlaceLink, Settled
<1>7. ASSUME NEW w \in Workers, StartDraining(w) \/ StopWorker(w) PROVE PlaceLink'
  BY <1>2, <1>7 DEF StartDraining, StopWorker, fates
<1>8. CASE Signal \/ ShutdownReturns \/ Exit \/ ListenFails \/ Exited \/ UNCHANGED vars
  BY <1>2, <1>8 DEF Signal, ShutdownReturns, Exit, ListenFails, Exited, vars, workers, fates
<1> QED
  BY <1>3, <1>4, <1>5, <1>6, <1>7, <1>8 DEF Next, WorkerStep

-----------------------------------------------------------------------------
\* Workers stop only after the cancellation, with empty hands, and after a
\* graceful shutdown nobody fills the channel they have drained.
LEMMA StopStep == TypeOK /\ StopLink /\ [Next]_vars => StopLink'
<1> SUFFICES ASSUME TypeOK, StopLink, [Next]_vars PROVE StopLink'
  OBVIOUS
<1>1. /\ handler = [l \in Logs |-> handler[l]] /\ mode = [w \in Workers |-> mode[w]]
      /\ holding = [w \in Workers |-> holding[w]]
      /\ graceful \in BOOLEAN
  BY DEF TypeOK
<1> USE <1>1 DEF StopLink, Cancelled
<1>2. ASSUME NEW l \in Logs, Serve(l) PROVE StopLink'
  BY <1>2 DEF Serve, process, workers
<1>3. ASSUME NEW l \in Logs, Publish(l) PROVE StopLink'
  <2>1. ~graceful /\ UNCHANGED <<main, graceful, mode, holding>>
    BY <1>3 DEF Publish, process, workers
  <2> QED
    BY <2>1
<1>4. ASSUME NEW l \in Logs, FinishUnlogged(l) PROVE StopLink'
  BY <1>4 DEF FinishUnlogged, process, workers
<1>5. ASSUME NEW w \in Workers, Take(w) PROVE StopLink'
  <2>1. /\ mode[w] # "stopped" /\ ch # <<>> /\ UNCHANGED <<main, graceful, handler, mode>>
        /\ holding' = [holding EXCEPT ![w] = Head(ch)]
    BY <1>5 DEF Take, process
  <2> QED
    BY <2>1
<1>6. ASSUME NEW w \in Workers, Save(w) PROVE StopLink'
  <2>1. /\ mode[w] # "stopped" /\ UNCHANGED <<main, graceful, handler, ch, mode>>
        /\ holding' = [holding EXCEPT ![w] = NoLog]
    BY <1>6 DEF Save, process
  <2> QED
    BY <2>1
<1>7. ASSUME NEW w \in Workers, StartDraining(w) \/ StopWorker(w) PROVE StopLink'
  BY <1>7 DEF StartDraining, StopWorker, process
<1>8. CASE ShutdownReturns
  BY <1>8 DEF ShutdownReturns, workers
<1>9. CASE Signal \/ Exit \/ ListenFails \/ Exited \/ UNCHANGED vars
  BY <1>9 DEF Signal, Exit, ListenFails, Exited, vars, process, workers
<1> HIDE DEF StopLink
<1> QED
  BY <1>2, <1>3, <1>4, <1>5, <1>6, <1>7, <1>8, <1>9 DEF Next, WorkerStep

\* Save forgets the exchange of the log it has settled, and of no other log.
LEMMA ExchangeStep == TypeOK /\ PlaceLink /\ ExchangeLink /\ [Next]_vars => ExchangeLink'
<1> SUFFICES ASSUME TypeOK, PlaceLink, ExchangeLink, [Next]_vars PROVE ExchangeLink'
  OBVIOUS
<1>1. /\ ch \in Seq(Logs) /\ holding \in [Workers -> Logs \cup {NoLog}]
      /\ exchange = [l \in Logs |-> exchange[l]]
  BY DEF TypeOK
<1>2. Buffered \subseteq Logs /\ Held \subseteq Logs
  BY DEF PlaceLink
<1>3. ASSUME UNCHANGED exchange, (Buffered \cup Held)' \subseteq Buffered \cup Held
      PROVE  ExchangeLink'
  BY <1>3 DEF ExchangeLink
<1>4. ASSUME UNCHANGED <<ch, holding, exchange>> PROVE ExchangeLink'
  BY <1>3, <1>4 DEF Buffered, Held
<1>5. ASSUME NEW l \in Logs, Publish(l) PROVE ExchangeLink'
  <2>1. UNCHANGED holding /\ handler[l] = "active"
    BY <1>5 DEF Publish, workers
  <2>2. UNCHANGED Held
    BY <2>1 DEF Held
  <2>3. CASE /\ ch' = Append(ch, l)
             /\ \E e \in Exchanges : exchange' = [exchange EXCEPT ![l] = e]
    <3>1. l \notin Buffered
      BY <2>1 DEF PlaceLink
    <3>2. Buffered' = Buffered \cup {l}
      BY <1>1, <2>3, <3>1, Appended DEF PlaceLink
    <3>3. \E e \in Exchanges : \A k \in Logs : exchange'[k] = IF k = l THEN e ELSE exchange[k]
      BY <1>1, <2>3
    <3> QED
      BY <1>2, <2>2, <3>2, <3>3 DEF ExchangeLink
  <2>4. CASE UNCHANGED <<ch, exchange>>
    BY <1>4, <2>1, <2>4
  <2> QED
    BY <1>5, <2>3, <2>4 DEF Publish
<1>6. ASSUME NEW w \in Workers, Take(w) PROVE ExchangeLink'
  <2> DEFINE l == Head(ch)
  <2>1. /\ ch # <<>> /\ ch' = Tail(ch) /\ holding[w] = NoLog
        /\ holding' = [holding EXCEPT ![w] = l] /\ UNCHANGED exchange
    BY <1>6 DEF Take, fates
  <2>2. l \in Logs
    BY <1>1, <2>1
  <2>3. l \in Buffered /\ Buffered' = Buffered \ {l}
    BY <1>1, <2>1, Shifted DEF PlaceLink
  <2> HIDE DEF l
  <2>4. Held' = Held \cup {l}
    BY <1>1, <2>1, <2>2, <2>3, PickedUp DEF PlaceLink
  <2> QED
    BY <1>3, <2>1, <2>3, <2>4
<1>7. ASSUME NEW w \in Workers, Save(w) PROVE ExchangeLink'
  <2>1. /\ holding[w] # NoLog /\ holding' = [holding EXCEPT ![w] = NoLog] /\ UNCHANGED ch
        /\ exchange' = [exchange EXCEPT ![holding[w]] = NoExchange]
    BY <1>7 DEF Save
  <2>2. holding[w] \in Held /\ Held' = Held \ {holding[w]}
    BY <1>1, <2>1, LaidDown DEF PlaceLink
  <2>3. UNCHANGED Buffered /\ holding[w] \notin Buffered
    BY <2>1, <2>2 DEF Buffered, PlaceLink
  <2>4. \A k \in Logs : k # holding[w] => exchange'[k] = exchange[k]
    BY <1>1, <2>1
  <2> QED
    BY <1>2, <2>2, <2>3, <2>4 DEF ExchangeLink
<1>8. ASSUME NEW l \in Logs, Serve(l) \/ FinishUnlogged(l) PROVE ExchangeLink'
  BY <1>4, <1>8 DEF Serve, FinishUnlogged, workers, fates
<1>9. ASSUME NEW w \in Workers, StartDraining(w) \/ StopWorker(w) PROVE ExchangeLink'
  BY <1>4, <1>9 DEF StartDraining, StopWorker, fates
<1>10. CASE Signal \/ ShutdownReturns \/ Exit \/ ListenFails \/ Exited \/ UNCHANGED vars
  BY <1>4, <1>10 DEF Signal, ShutdownReturns, Exit, ListenFails, Exited, vars, workers, fates
<1> QED
  BY <1>5, <1>6, <1>7, <1>8, <1>9, <1>10 DEF Next, WorkerStep

-----------------------------------------------------------------------------
\* The inductive invariant, and what it says.
THEOREM Invariance == Spec => []IInv
<1>1. Init => IInv
  <2> SUFFICES ASSUME Init PROVE IInv
    OBVIOUS
  <2>1. Buffered = {} /\ Held = {} /\ Settled = {}
    BY DEF Init, Buffered, Held, Settled
  <2>2. TypeOK
    <3>1. ch \in Seq(Logs) /\ Len(ch) <= BufferSize
      BY LogPublisherAssumption DEF Init
    <3>2. saved \in SUBSET Logs /\ failed \in SUBSET Logs /\ dropped \in SUBSET Logs
      BY DEF Init
    <3> QED
      BY <3>1, <3>2 DEF Init, TypeOK
  <2>3. Distinct /\ Alone
    BY DEF Init, Distinct, Alone
  <2>4. PlaceLink
    BY <2>1, <2>3 DEF Init, PlaceLink
  <2>5. StopLink
    BY DEF Init, StopLink
  <2>6. ExchangeLink
    BY <2>1 DEF ExchangeLink
  <2> QED
    BY <2>2, <2>4, <2>5, <2>6 DEF IInv
<1>2. IInv /\ [Next]_vars => IInv'
  BY TypeStep, PlaceStep, StopStep, ExchangeStep DEF IInv
<1> QED
  BY <1>1, <1>2, PTL DEF Spec

\* A sequence without repetitions has as many elements as it is long.
LEMMA BufferedCount ==
  ASSUME ch \in Seq(Logs), Distinct
  PROVE  IsFiniteSet(Buffered) /\ Cardinality(Buffered) = Len(ch)
<1>1. Len(ch) \in Nat /\ ch \in [1..Len(ch) -> Logs]
  OBVIOUS
<1>2. ch \in Surjection(1..Len(ch), Buffered)
  BY <1>1 DEF Surjection, Buffered
<1>3. ch \in Injection(1..Len(ch), Buffered)
  BY <1>1, <1>2 DEF Surjection, Injection, IsInjective, Distinct
<1>4. IsFiniteSet(1..Len(ch)) /\ Cardinality(1..Len(ch)) = Len(ch)
  BY <1>1, FS_Interval
<1> QED
  BY <1>2, <1>3, <1>4, FS_Surjection

\* No log vanishes, is saved twice or is in two hands, for any number of logs,
\* of workers and of places in the buffer.
THEOREM OnePlaceForEachLog == Spec => []EveryLogInOnePlace
<1>1. IInv => EveryLogInOnePlace
  <2> SUFFICES ASSUME IInv PROVE EveryLogInOnePlace
    OBVIOUS
  <2>1. Cardinality(Buffered) = Len(ch)
    BY BufferedCount DEF IInv, TypeOK, PlaceLink
  <2>2. Alone
    BY DEF IInv, PlaceLink
  <2>3. \A i, j \in 1..5 : i # j => Places[i] \cap Places[j] = {}
    BY DEF IInv, PlaceLink, Settled, Places
  <2>4. UNION {Places[i] : i \in 1..5} = {l \in Logs : handler[l] = "logged"}
    <3>1. UNION {Places[i] : i \in 1..5} = Buffered \cup Held \cup Settled
      BY DEF Places, Settled
    <3> QED
      BY <3>1 DEF IInv, PlaceLink
  <2> QED
    BY <2>1, <2>2, <2>3, <2>4 DEF EveryLogInOnePlace, Alone
<1> QED
  BY <1>1, Invariance, PTL

\* After a graceful shutdown, once every worker has stopped no log is left in the
\* channel or in a hand, however many workers drain the channel at a time.
THEOREM StoppedAreDrained == Spec => []DrainedWhenStopped
<1>1. IInv => DrainedWhenStopped
  BY DEF IInv, StopLink, DrainedWhenStopped, Held
<1> QED
  BY <1>1, Invariance, PTL

\* Every variable of the publisher keeps its type; in particular the channel
\* never holds more than its capacity.
THEOREM TypeCorrect == Spec => []TypeOK
<1>1. IInv => TypeOK
  BY DEF IInv
<1> QED
  BY <1>1, Invariance, PTL

-----------------------------------------------------------------------------
\* The sink's copy of Cardinality is the publisher's.
LEMMA SameCardinality == \A S : Sink!Cardinality(S) = Cardinality(S)
BY DEF Sink!Cardinality, Cardinality, Sink!IsFiniteSet, IsFiniteSet

\* The publisher as a place for logs.  A log that moves from the channel to a
\* worker stays where it is; only a full channel turns a log away.
LEMMA SinkStep == IInv /\ [Next]_vars => [Sink!Next]_Sink!vars
<1> SUFFICES ASSUME IInv, [Next]_vars PROVE [Sink!Next]_Sink!vars
  OBVIOUS
<1>1. /\ ch \in Seq(Logs) /\ holding \in [Workers -> Logs \cup {NoLog}]
      /\ PlaceLink /\ Distinct /\ Alone
  BY DEF IInv, TypeOK, PlaceLink
<1>2. ASSUME UNCHANGED <<ch, holding, saved, failed, dropped>> PROVE UNCHANGED Sink!vars
  BY <1>2 DEF Sink!vars, Buffered, Held
<1>3. ASSUME NEW l \in Logs, Publish(l) PROVE Sink!Next
  <2>1. UNCHANGED <<holding, saved, failed>> /\ handler[l] = "active"
    BY <1>3 DEF Publish, workers
  <2>2. l \notin Buffered \cup Held \cup Settled
    BY <1>1, <2>1 DEF PlaceLink
  <2>3. UNCHANGED Held /\ Sink!Fresh(l)
    BY <2>1, <2>2 DEF Held, Sink!Fresh, Settled
  <2>4. CASE ch' = Append(ch, l) /\ UNCHANGED dropped
    <3>1. Buffered' = Buffered \cup {l}
      BY <1>1, <2>2, <2>4, Appended
    <3>2. Sink!Accept(l)
      BY <2>1, <2>3, <2>4, <3>1 DEF Sink!Accept
    <3> QED
      BY <3>2 DEF Sink!Next
  <2>5. CASE Len(ch) >= BufferSize /\ UNCHANGED ch /\ dropped' = dropped \cup {l}
    <3>1. IsFiniteSet(Buffered \cup Held)
      BY <1>1, FS_Subset, LogPublisherAssumption DEF PlaceLink
    <3>2. Cardinality(Buffered) <= Cardinality(Buffered \cup Held)
      BY <3>1, FS_Subset
    <3>3. Cardinality(Buffered) = Len(ch)
      BY <1>1, BufferedCount
    <3>4. Cardinality(Buffered \cup Held) \in Nat /\ Len(ch) \in Nat /\ BufferSize \in Nat
      BY <1>1, <3>1, FS_CardinalityType, LogPublisherAssumption
    <3>5. Cardinality(Buffered \cup Held) >= BufferSize
      BY <2>5, <3>2, <3>3, <3>4
    <3>6. UNCHANGED Buffered
      BY <2>5 DEF Buffered
    <3>7. Sink!TurnAway(l)
      <4>1. UNCHANGED (Buffered \cup Held) /\ (failed \cup dropped)' = failed \cup dropped \cup {l}
        BY <2>1, <2>3, <2>5, <3>6
      <4>2. Sink!Cardinality(Buffered \cup Held) >= BufferSize
        BY <3>5, SameCardinality
      <4> QED
        BY <2>1, <2>3, <4>1, <4>2 DEF Sink!TurnAway
    <3> QED
      BY <3>7 DEF Sink!Next
  <2> QED
    BY <1>3, <2>4, <2>5 DEF Publish
<1>4. ASSUME NEW w \in Workers, Take(w) PROVE UNCHANGED Sink!vars
  <2> DEFINE l == Head(ch)
  <2>1. /\ ch # <<>> /\ ch' = Tail(ch) /\ holding[w] = NoLog
        /\ holding' = [holding EXCEPT ![w] = l] /\ UNCHANGED <<saved, failed, dropped>>
    BY <1>4 DEF Take, fates
  <2>2. l \in Logs
    BY <1>1, <2>1
  <2>3. l \in Buffered /\ Buffered' = Buffered \ {l}
    BY <1>1, <2>1, Shifted
  <2> HIDE DEF l
  <2>4. Held' = Held \cup {l}
    BY <1>1, <2>1, <2>2, <2>3, PickedUp DEF PlaceLink
  <2>5. UNCHANGED (Buffered \cup Held)
    BY <2>3, <2>4
  <2> QED
    BY <2>1, <2>5 DEF Sink!vars
<1>5. ASSUME NEW w \in Workers, Save(w) PROVE Sink!Next
  <2> DEFINE l == holding[w]
  <2>1. /\ l # NoLog /\ holding' = [holding EXCEPT ![w] = NoLog] /\ UNCHANGED <<ch, dropped>>
        /\ \/ saved' = saved \cup {l} /\ UNCHANGED failed
           \/ failed' = failed \cup {l} /\ UNCHANGED saved
    BY <1>5 DEF Save
  <2>2. l \in Held /\ Held' = Held \ {l}
    BY <1>1, <2>1, LaidDown
  <2>3. l \notin Buffered /\ UNCHANGED Buffered
    BY <1>1, <2>1, <2>2 DEF PlaceLink, Buffered
  <2>4. l \in Logs
    BY <1>1, <2>1
  <2> HIDE DEF l
  <2>5. Sink!Settle(l)
    <3>1. l \in Buffered \cup Held /\ (Buffered \cup Held)' = (Buffered \cup Held) \ {l}
      BY <2>2, <2>3
    <3>2. \/ saved' = saved \cup {l} /\ UNCHANGED (failed \cup dropped)
          \/ (failed \cup dropped)' = failed \cup dropped \cup {l} /\ UNCHANGED saved
      BY <2>1
    <3> QED
      BY <3>1, <3>2 DEF Sink!Settle
  <2> QED
    BY <2>4, <2>5 DEF Sink!Next
<1>6. ASSUME NEW l \in Logs, Serve(l) \/ FinishUnlogged(l) PROVE UNCHANGED Sink!vars
  BY <1>2, <1>6 DEF Serve, FinishUnlogged, workers, fates
<1>7. ASSUME NEW w \in Workers, StartDraining(w) \/ StopWorker(w) PROVE UNCHANGED Sink!vars
  BY <1>2, <1>7 DEF StartDraining, StopWorker, fates
<1>8. CASE Signal \/ ShutdownReturns \/ Exit \/ ListenFails \/ Exited \/ UNCHANGED vars
  BY <1>2, <1>8 DEF Signal, ShutdownReturns, Exit, ListenFails, Exited, vars, workers, fates
<1> QED
  BY <1>3, <1>4, <1>5, <1>6, <1>7, <1>8 DEF Next, WorkerStep

\* Channel and workers implement the place for logs that a handler sees: a log
\* is settled once and for good, and refused only when as many others as the
\* buffer has places are pending, in the channel or in the hand of a worker.
THEOREM PublisherIsSink == Spec => ImplementsLogSink
<1>1. Init => Sink!Init
  BY DEF Init, Sink!Init, Buffered, Held
<1> QED
  BY <1>1, SinkStep, Invariance, PTL DEF Spec, ImplementsLogSink, Sink!Spec

-----------------------------------------------------------------------------
(***************************************************************************)
(* What a log says, of every exchange that ContentAssumption admits.       *)
(***************************************************************************)

\* A bounded set of numbers has a largest one: the upper intervals of its members
\* are finite sets, and one of them contains no smaller one.
LEMMA LargestExists ==
  ASSUME NEW M \in Nat, NEW T \in SUBSET (0..M), T # {}
  PROVE  \E n \in T : \A m \in T : m <= n
<1> DEFINE Above == {m..M : m \in T}
<1>1. Above \subseteq FiniteSubsetsOf(Nat) /\ Above # {}
  <2>1. \A m \in T : IsFiniteSet(m..M) /\ m..M \in SUBSET Nat
    BY FS_Interval
  <2> QED
    BY <2>1 DEF FiniteSubsetsOf
<1>2. PICK x \in Above : \A y \in Above : ~ (<<y, x>> \in StrictSubsetOrdering(Nat))
  <2> HIDE DEF Above
  <2> QED
    BY <1>1, FS_StrictSubsetOrderingWellFounded, WFMin
<1>3. PICK n \in T : x = n..M
  OBVIOUS
<1>4. ASSUME NEW m \in T PROVE m <= n
  <2> SUFFICES ASSUME m > n PROVE FALSE
    OBVIOUS
  <2>1. m..M \in Above /\ m..M \subseteq x /\ n \in x /\ n \notin m..M
    BY <1>3
  <2>2. m..M \in SUBSET Nat /\ x \in SUBSET Nat
    BY <1>3
  <2> HIDE DEF Above
  <2> QED
    BY <1>2, <2>1, <2>2 DEF StrictSubsetOrdering
<1> QED
  BY <1>4

\* The first bytes of a body.
LEMMA Prefix ==
  ASSUME NEW S, NEW b \in Seq(S), NEW n \in 0..Len(b)
  PROVE  /\ SubSeq(b, 1, n) \in Seq(S) /\ Len(SubSeq(b, 1, n)) = n
         /\ \A i \in 1..n : SubSeq(b, 1, n)[i] = b[i]
  OBVIOUS

\* A rune has at most four bytes, so a body that is text can be cut between two
\* runes at most three bytes before any place inside it.
LEMMA RuneBoundary ==
  ASSUME NEW b \in Seq(0..4), Valid(b), NEW M \in Nat, Len(b) > M
  PROVE  \E n \in 0..M : n >= M - 3 /\ Valid(SubSeq(b, 1, n))
<1>1. Len(b) \in Nat /\ M + 1 \in 1..Len(b) /\ DOMAIN b = 1..Len(b)
      /\ \A i \in 1..Len(b) : b[i] \in 0..4
  OBVIOUS
<1>2. PICK i \in 1..(M + 1) : RuneAt(b, i) /\ M + 1 < i + b[i]
  BY <1>1 DEF Valid
<1>3. i - 1 \in 0..M /\ i - 1 >= M - 3 /\ b[i] # 0 /\ i - 1 \in 0..Len(b)
  BY <1>1, <1>2 DEF RuneAt
<1> DEFINE n == i - 1
           s == SubSeq(b, 1, n)
<1>4. Len(s) = n /\ DOMAIN s = 1..n /\ \A j \in 1..n : s[j] = b[j]
  BY <1>3, Prefix
<1>5. ASSUME NEW j \in 1..n PROVE \E k \in 1..j : RuneAt(s, k) /\ j < k + s[k]
  <2>1. j \in DOMAIN b
    BY <1>1, <1>3
  <2>2. PICK k \in 1..j : RuneAt(b, k) /\ j < k + b[k]
    BY <2>1 DEF Valid
  <2>3. b[k] \in 0..4
    BY <1>1, <1>3, <2>2
  <2>4. k + b[k] - 1 <= n
    <3>1. CASE k + b[k] - 1 >= i
      <4>1. i \in k + 1..k + b[k] - 1
        BY <1>3, <2>2, <2>3, <3>1
      <4>2. b[i] = 0
        BY <2>2, <4>1 DEF RuneAt
      <4> QED
        BY <1>3, <4>2
    <3> QED
      BY <1>3, <2>3, <3>1
  <2>5. s[k] = b[k] /\ \A m \in k + 1..k + b[k] - 1 : s[m] = b[m]
    BY <1>3, <1>4, <2>2, <2>3, <2>4
  <2>6. RuneAt(s, k)
    BY <1>4, <2>2, <2>4, <2>5 DEF RuneAt
  <2> QED
    BY <2>2, <2>5, <2>6
<1>6. Valid(s)
  BY <1>4, <1>5 DEF Valid
<1> QED
  BY <1>3, <1>6

\* TruncateBody keeps all of a text that is short enough, and of a longer one as
\* much as the limit and the last rune allow.
LEMMA TruncateTells == ASSUME NEW b \in Seq(0..4) PROVE Tells(TruncateBody(b), b)
<1>1. MaxBodyBytes \in Nat /\ Len(b) \in Nat
  BY ExchangeAssumption
<1>2. CASE ~Valid(b)
  <2>1. TruncateBody(b) = [body |-> Binary, truncated |-> FALSE, contentLength |-> Len(b)]
    BY <1>2 DEF TruncateBody
  <2> QED
    BY <1>2, <2>1 DEF Tells
<1>3. CASE Valid(b) /\ Len(b) <= MaxBodyBytes
  <2>1. TruncateBody(b) = [body |-> b, truncated |-> FALSE, contentLength |-> Len(b)]
    <3>1. (Valid(b) /\ Len(b) > MaxBodyBytes) = FALSE
      BY <1>1, <1>3
    <3> QED
      BY <1>3, <3>1 DEF TruncateBody
  <2> QED
    BY <1>3, <2>1 DEF Tells
<1>4. CASE Valid(b) /\ Len(b) > MaxBodyBytes
  <2> DEFINE whole == {n \in 0..MaxBodyBytes : Valid(SubSeq(b, 1, n))}
             Best(n) == \A m \in whole : m <= n
             cut == CHOOSE n \in whole : Best(n)
  <2>1. PICK n \in whole : n >= MaxBodyBytes - 3
    BY <1>1, <1>4, RuneBoundary
  <2>2. \E k \in whole : Best(k)
    BY <1>1, <2>1, LargestExists
  <2>3. cut \in whole /\ Best(cut)
    <3> HIDE DEF whole, Best
    <3> QED
      BY <2>2
  <2>4. cut \in 0..MaxBodyBytes /\ cut >= n /\ Valid(SubSeq(b, 1, cut)) /\ cut \in 0..Len(b)
    <3> HIDE DEF cut
    <3>1. cut \in 0..MaxBodyBytes /\ Valid(SubSeq(b, 1, cut)) /\ cut >= n
      BY <2>3
    <3> QED
      BY <1>1, <1>4, <3>1
  <2>5. TruncateAtRuneBoundary(b) = SubSeq(b, 1, cut)
    BY DEF TruncateAtRuneBoundary
  <2>6. /\ TruncateBody(b).body = SubSeq(b, 1, cut) /\ TruncateBody(b).truncated
        /\ TruncateBody(b).contentLength = Len(b)
    BY <1>4, <2>5 DEF TruncateBody
  <2> HIDE DEF cut
  <2>7. Len(SubSeq(b, 1, cut)) = cut
    BY <2>4, Prefix
  <2>8. cut \in MaxBodyBytes - 3..MaxBodyBytes
    BY <1>1, <2>1, <2>4
  <2> QED
    BY <2>4, <2>6, <2>7, <2>8 DEF Tells
<1> QED
  BY <1>1, <1>2, <1>3, <1>4

\* What Request makes of a reply: one that is passed on, with a status below 400,
\* or an error that is answered with 400 or 502 and no larger than what is read.
PassedOn(reply) ==
  /\ Result(reply).ok = TRUE
  /\ Result(reply).status = reply.status /\ ~(reply.status >= 400)
  /\ Result(reply).body \in Seq(0..4)
  /\ Result(reply).headers = [n \in DOMAIN reply.headers \ RemovedHeaders |-> reply.headers[n]]

Failed(reply) ==
  /\ Result(reply).ok = FALSE
  /\ Result(reply).code \in {400, 502}
  /\ Len(Result(reply).body) <= MaxBodySize

LEMMA ResultCases ==
  ASSUME NEW reply,
         reply.body \in Seq(0..4), reply.status \in Nat,
         reply.kind \in {"whole", "broken", "unreachable", "refused"}
  PROVE  PassedOn(reply) \/ Failed(reply)
<1>1. /\ MaxBodySize \in Nat /\ 1 <= MaxBodySize
      /\ Len(Message) = 1 /\ Len(<<>>) = 0
  BY ExchangeAssumption DEF Message
<1>2. /\ UpTo(reply.body, MaxBodySize) \in Seq(0..4)
      /\ Len(UpTo(reply.body, MaxBodySize)) <= MaxBodySize
  <2> DEFINE n == IF Len(reply.body) < MaxBodySize THEN Len(reply.body) ELSE MaxBodySize
  <2>1. n \in 0..Len(reply.body) /\ n <= MaxBodySize
    BY <1>1
  <2> HIDE DEF n
  <2>2. SubSeq(reply.body, 1, n) \in Seq(0..4) /\ Len(SubSeq(reply.body, 1, n)) = n
    BY <2>1, Prefix
  <2>3. UpTo(reply.body, MaxBodySize) = SubSeq(reply.body, 1, n)
    BY DEF UpTo, n
  <2> QED
    BY <2>1, <2>2, <2>3
<1>3. ASSUME NEW code \in {400, 502}, Result(reply) = ProxyError(code) PROVE Failed(reply)
  <2>1. Result(reply).ok = FALSE /\ Result(reply).code = code /\ Result(reply).body = <<>>
    BY <1>3 DEF ProxyError
  <2> QED
    BY <1>1, <2>1 DEF Failed
<1>4. ASSUME NEW status, NEW body, Len(body) <= MaxBodySize,
             Result(reply) = ExternalAPIError(status, body)
      PROVE  Failed(reply)
  <2>1. Result(reply).ok = FALSE /\ Result(reply).code = 502 /\ Result(reply).body = body
    BY <1>4 DEF ExternalAPIError
  <2> QED
    BY <1>4, <2>1 DEF Failed
<1>5. CASE reply.kind = "refused"
  <2>1. Result(reply) = ProxyError(400)
    BY <1>5 DEF Result
  <2> QED
    BY <1>3, <2>1
<1>6. CASE reply.kind = "unreachable"
  <2>1. Result(reply) = ExternalAPIError(0, Message)
    BY <1>6 DEF Result
  <2> QED
    BY <1>1, <1>4, <2>1
<1>7. CASE reply.kind = "broken"
  <2>1. Result(reply) = ExternalAPIError(reply.status, Message)
    BY <1>7 DEF Result
  <2> QED
    BY <1>1, <1>4, <2>1
<1>8. CASE reply.kind = "whole" /\ reply.status >= 400
  <2>1. ~(reply.status < 400)
    BY <1>8
  <2>2. Result(reply) = ExternalAPIError(reply.status, UpTo(reply.body, MaxBodySize))
    BY <1>8, <2>1 DEF Result
  <2> QED
    BY <1>2, <1>4, <2>2
<1>9. CASE reply.kind = "whole" /\ reply.status < 400
  <2>1. ~(reply.status >= 400)
    BY <1>9
  <2>2. Result(reply) = Sanitize(reply)
    BY <1>9, <2>1 DEF Result
  <2>3. CASE ValidateContentType(reply)
    <3>1. /\ Result(reply).ok = TRUE /\ Result(reply).status = reply.status
          /\ Result(reply).body = UpTo(reply.body, MaxBodySize)
          /\ Result(reply).headers = [n \in DOMAIN reply.headers \ RemovedHeaders |-> reply.headers[n]]
      BY <2>2, <2>3 DEF Sanitize
    <3> QED
      BY <1>2, <2>1, <3>1 DEF PassedOn
  <2>4. CASE ~ValidateContentType(reply)
    <3>1. Result(reply) = ProxyError(502)
      BY <2>2, <2>4 DEF Sanitize
    <3> QED
      BY <1>3, <3>1
  <2> QED
    BY <2>3, <2>4
<1> QED
  BY <1>5, <1>6, <1>7, <1>8, <1>9

\* A header that has values has a first and a last one.
LEMMA SomeValues ==
  ASSUME NEW values \in Seq(Seq(Nat)), values # <<>>
  PROVE  /\ 1 \in DOMAIN values /\ Len(values) \in DOMAIN values
         /\ Len(values) = 1 \/ Len(values) > 1
<1>1. Len(values) \in Nat /\ DOMAIN values = 1..Len(values) /\ Len(values) # 0
  OBVIOUS
<1> QED
  BY <1>1

\* The first value of a header, which is logged, and what is answered for it: the
\* last value, or for an empty one nothing, or the type that c.Data adds.
LEMMA EveryHeaderAgrees ==
  ASSUME NEW sent, NEW n,
         \A m \in DOMAIN sent : sent[m] \in Seq(Seq(Nat)) /\ sent[m] # <<>>,
         NEW kept, kept = [m \in DOMAIN sent \ RemovedHeaders |-> sent[m]]
  PROVE  HeaderAgrees(n, [m \in DOMAIN kept |-> Head(kept[m])], PassedHeaders(kept), sent)
<1> DEFINE logged == [m \in DOMAIN kept |-> Head(kept[m])]
           given == PassedHeaders(kept)
           last(m) == kept[m][Len(kept[m])]
           passed == {m \in DOMAIN kept : last(m) # <<>>}
           type == Get(kept, ContentType)
<1>1. given = [m \in passed \cup {ContentType} |->
                 IF m \in passed THEN last(m) ELSE IF type = <<>> THEN OctetStream ELSE type]
  BY DEF PassedHeaders
<1>2. DOMAIN kept = DOMAIN sent \ RemovedHeaders /\ DOMAIN logged = DOMAIN kept
  OBVIOUS
<1>3. \A m \in DOMAIN kept : kept[m] = sent[m] /\ logged[m] = Head(kept[m])
  OBVIOUS
<1>4. type = HeaderOf(logged, ContentType)
  BY <1>2, <1>3 DEF Get, HeaderOf
<1>5. /\ n \in passed => HeaderOf(given, n) = last(n)
      /\ n \notin passed /\ n # ContentType => HeaderOf(given, n) = <<>>
      /\ n \notin passed /\ n = ContentType =>
           HeaderOf(given, n) = IF type = <<>> THEN OctetStream ELSE type
  BY <1>1 DEF HeaderOf
<1>6. n \in passed <=> n \in DOMAIN kept /\ last(n) # <<>>
  OBVIOUS
<1>7. CASE n \in DOMAIN kept
  <2>1. n \in DOMAIN sent /\ kept[n] = sent[n] /\ sent[n] \in Seq(Seq(Nat)) /\ sent[n] # <<>>
    BY <1>2, <1>3, <1>7
  <2>2. HeaderOf(logged, n) = sent[n][1] /\ last(n) = sent[n][Len(sent[n])]
    BY <1>2, <1>3, <1>7, <2>1 DEF HeaderOf
  <2>3. /\ 1 \in DOMAIN sent[n] /\ Len(sent[n]) \in DOMAIN sent[n]
        /\ Len(sent[n]) = 1 \/ Len(sent[n]) > 1
    BY <2>1, SomeValues
  <2> HIDE DEF logged, given, last, passed, type
  <2>4. CASE HeaderOf(given, n) = last(n)
    <3>1. CASE Len(sent[n]) = 1
      BY <2>2, <2>4, <3>1 DEF HeaderAgrees, logged, given
    <3>2. CASE Len(sent[n]) > 1
      BY <2>1, <2>2, <2>3, <2>4, <3>2 DEF HeaderAgrees, logged, given
    <3> QED
      BY <2>3, <3>1, <3>2
  <2>5. CASE n = ContentType /\ n \notin passed
    BY <1>4, <1>5, <2>5 DEF HeaderAgrees, logged, given
  <2>6. HeaderOf(given, n) = last(n) \/ (n = ContentType /\ n \notin passed)
    BY <1>5, <1>6, <1>7
  <2> QED
    BY <2>4, <2>5, <2>6
<1>8. CASE n \notin DOMAIN kept
  <2>1. HeaderOf(logged, n) = <<>> /\ n \notin passed
    BY <1>2, <1>6, <1>8 DEF HeaderOf
  <2> HIDE DEF logged, given, last, passed, type
  <2> QED
    BY <1>4, <1>5, <2>1 DEF HeaderAgrees, logged, given
<1> QED
  BY <1>7, <1>8

\* The log of every exchange tells the truth.
LEMMA EveryLogTells == Exchanges \subseteq Truthful
<1> SUFFICES ASSUME NEW e \in Exchanges PROVE e \in Truthful
  OBVIOUS
<1> DEFINE log == Log[e]
           reply == Content(e).reply
           r == Result(reply)
           answer == Answer(reply)
<1>1. log = BuildLog(Content(e))
  BY DEF Log
<1>2. Tells(log.request.content, Content(e).body)
  <2>1. log.request.content = TruncateBody(Content(e).body)
    BY <1>1 DEF BuildLog, RequestLog
  <2>2. Content(e).body \in Seq(0..4)
    BY ContentAssumption
  <2> QED
    BY <2>1, <2>2, TruncateTells
<1>3. CASE PassedOn(reply)
  <2> DEFINE sent == reply.headers
             kept == [m \in DOMAIN sent \ RemovedHeaders |-> sent[m]]
  <2>0. /\ r.ok = TRUE /\ r.status = reply.status /\ ~(reply.status >= 400) /\ r.body \in Seq(0..4)
        /\ r.headers = kept
    BY <1>3 DEF PassedOn
  <2>1. /\ log.result = "SUCCESS" /\ log.response.status = r.status
        /\ log.response.headers = [n \in DOMAIN r.headers |-> Head(r.headers[n])]
        /\ log.response.content = TruncateBody(r.body)
    BY <1>1, <2>0 DEF BuildLog, ResponseLog
  <2>2. /\ answer.status = r.status /\ answer.headers = PassedHeaders(r.headers)
        /\ BodyAllowed(r.status) => answer.body = r.body
    BY <2>0 DEF Answer
  <2>3. BodyAllowed(answer.status) => Tells(log.response.content, answer.body)
    BY <2>0, <2>1, <2>2, TruncateTells
  <2>4. \A n : HeaderAgrees(n, log.response.headers, answer.headers, sent)
    <3>1. \A m \in DOMAIN sent : sent[m] \in Seq(Seq(Nat)) /\ sent[m] # <<>>
      BY ContentAssumption
    <3>2. /\ log.response.headers = [m \in DOMAIN kept |-> Head(kept[m])]
          /\ answer.headers = PassedHeaders(kept)
      BY <2>0, <2>1, <2>2
    <3>3. kept = [m \in DOMAIN sent \ RemovedHeaders |-> sent[m]]
      OBVIOUS
    <3> HIDE DEF log, answer, r, reply, sent, kept
    <3>4. \A n : HeaderAgrees(n, [m \in DOMAIN kept |-> Head(kept[m])], PassedHeaders(kept), sent)
      BY <3>1, <3>3, EveryHeaderAgrees
    <3> QED
      BY <3>2, <3>4
  <2> HIDE DEF log, answer, r, reply
  <2>5. /\ log.result = "ERROR" <=> answer.status >= 400
        /\ log.response.status = answer.status
        /\ log.result = "ERROR" => Len(log.response.content.body) <= MaxBodySize
    BY <2>0, <2>1, <2>2
  <2> QED
    BY <1>2, <2>3, <2>4, <2>5 DEF Truthful, log, answer, reply, sent
<1>4. CASE Failed(reply)
  <2>0. r.ok = FALSE /\ r.code \in {400, 502} /\ Len(r.body) <= MaxBodySize
    BY <1>4 DEF Failed
  <2>1. log.result = "ERROR" /\ log.response.content.body = r.body
    BY <1>1, <2>0 DEF BuildLog, ResponseLog
  <2>2. answer.status >= 400
    BY <2>0 DEF Answer
  <2> HIDE DEF log, answer, r, reply
  <2>3. /\ log.result = "ERROR" <=> answer.status >= 400
        /\ log.result # "SUCCESS"
        /\ log.result = "ERROR" => Len(log.response.content.body) <= MaxBodySize
    BY <2>0, <2>1, <2>2
  <2> QED
    BY <1>2, <2>3 DEF Truthful, log, answer, reply
<1> QED
  BY <1>3, <1>4, ResultCases, ContentAssumption

\* What stands in a concatenation stands in one of its parts.
LEMMA ConcatMembers ==
  ASSUME NEW S, NEW s \in Seq(S), NEW t \in Seq(S)
  PROVE  /\ s \o t \in Seq(S)
         /\ \A i \in DOMAIN (s \o t) : \/ i \in DOMAIN s /\ (s \o t)[i] = s[i]
                                       \/ i - Len(s) \in DOMAIN t /\ (s \o t)[i] = t[i - Len(s)]
         /\ DOMAIN s = 1..Len(s) /\ DOMAIN t = 1..Len(t)
<1>1. /\ s \o t \in Seq(S) /\ Len(s \o t) = Len(s) + Len(t)
      /\ \A i \in 1..Len(s) + Len(t) :
           (s \o t)[i] = IF i <= Len(s) THEN s[i] ELSE t[i - Len(s)]
  BY ConcatProperties
<1>2. /\ Len(s) \in Nat /\ Len(t) \in Nat /\ DOMAIN (s \o t) = 1..Len(s \o t)
      /\ DOMAIN s = 1..Len(s) /\ DOMAIN t = 1..Len(t)
  BY <1>1, LenProperties
<1> QED
  BY <1>1, <1>2

\* The letters of a masked value are its first and last three, at most, and three
\* stars: of a value of seven letters or more, the fourth does not show.
LEMMA MaskHides ==
  ASSUME NEW v \in Seq(Nat), v # <<>>, \A i, j \in DOMAIN v : v[i] = v[j] => i = j
  PROVE  \E i \in DOMAIN v : \A j \in DOMAIN MaskToken(v) : MaskToken(v)[j] # v[i]
<1>1. Len(v) \in Nat \ {0} /\ DOMAIN v = 1..Len(v) /\ \A i \in 1..Len(v) : v[i] \in Nat
  OBVIOUS
<1>2. Stars \notin Nat
  BY ExchangeAssumption
<1>3. CASE Len(v) <= 6
  <2>1. MaskToken(v) = <<Stars>>
    BY <1>3 DEF MaskToken
  <2>2. 1 \in DOMAIN v /\ v[1] # Stars
    BY <1>1, <1>2
  <2> QED
    BY <2>1, <2>2
<1>4. CASE Len(v) > 6
  <2> DEFINE S == Nat \cup {Stars}
             front == SubSeq(v, 1, 3)
             back == SubSeq(v, Len(v) - 2, Len(v))
             head == front \o <<Stars>>
             Shown(x) == \E k \in 1..Len(v) : k # 4 /\ x = v[k]
  <2>1. front \in Seq(S) /\ Len(front) = 3 /\ \A i \in 1..3 : front[i] = v[i]
    BY <1>1, <1>4
  <2>2. back \in Seq(S) /\ Len(back) = 3 /\ \A i \in 1..3 : back[i] = v[Len(v) - 3 + i]
    BY <1>1, <1>4
  <2>3. MaskToken(v) = head \o back
    BY <1>1, <1>4 DEF MaskToken
  <2>4. ASSUME NEW i \in 1..3 PROVE Shown(front[i]) /\ Shown(back[i])
    <3>1. i \in 1..Len(v) /\ i # 4 /\ Len(v) - 3 + i \in 1..Len(v) /\ Len(v) - 3 + i # 4
      BY <1>1, <1>4
    <3> HIDE DEF front, back
    <3> QED
      BY <2>1, <2>2, <3>1
  <2>5. /\ <<Stars>> \in Seq(S) /\ Len(<<Stars>>) = 1 /\ <<Stars>>[1] = Stars
    OBVIOUS
  <2> HIDE DEF S, front, back, Shown
  <2>6. head \in Seq(S) /\ \A i \in DOMAIN head : head[i] = Stars \/ Shown(head[i])
    <3> DEFINE stars == <<Stars>>
    <3> HIDE DEF stars
    <3>1. stars \in Seq(S) /\ DOMAIN stars = 1..1 /\ stars[1] = Stars /\ head = front \o stars
      BY <2>5 DEF stars
    <3> HIDE DEF head
    <3>2. /\ head \in Seq(S) /\ DOMAIN front = 1..Len(front)
          /\ \A i \in DOMAIN head : \/ i \in DOMAIN front /\ head[i] = front[i]
                                    \/ i - Len(front) \in DOMAIN stars /\ head[i] = stars[i - Len(front)]
      <4>1. front \in Seq(S) /\ stars \in Seq(S)
        BY <2>1, <3>1
      <4> HIDE DEF stars
      <4> QED
        BY <3>1, <4>1, ConcatMembers
    <3>3. ASSUME NEW i \in DOMAIN head PROVE head[i] = Stars \/ Shown(head[i])
      <4>1. CASE i \in DOMAIN front /\ head[i] = front[i]
        BY <2>1, <2>4, <3>2, <4>1
      <4>2. CASE i - Len(front) \in DOMAIN stars /\ head[i] = stars[i - Len(front)]
        BY <3>1, <4>2
      <4> QED
        BY <3>2, <4>1, <4>2
    <3> QED
      BY <3>2, <3>3
  <2> HIDE DEF head
  <2>7. \A i \in DOMAIN (head \o back) : \/ \E j \in DOMAIN head : (head \o back)[i] = head[j]
                                         \/ \E j \in 1..3 : (head \o back)[i] = back[j]
    <3>1. /\ DOMAIN back = 1..3
          /\ \A i \in DOMAIN (head \o back) :
               \/ i \in DOMAIN head /\ (head \o back)[i] = head[i]
               \/ i - Len(head) \in DOMAIN back /\ (head \o back)[i] = back[i - Len(head)]
      BY <2>2, <2>6, ConcatMembers
    <3> QED
      BY <3>1
  <2>8. \A i \in DOMAIN MaskToken(v) : MaskToken(v)[i] = Stars \/ Shown(MaskToken(v)[i])
    BY <2>3, <2>4, <2>6, <2>7
  <2>9. 4 \in DOMAIN v /\ v[4] # Stars
    BY <1>1, <1>2, <1>4
  <2>10. ~Shown(v[4])
    BY <1>1, <2>9 DEF Shown
  <2> QED
    BY <2>8, <2>9, <2>10
<1> QED
  BY <1>1, <1>3, <1>4

\* The log of every exchange hides the credentials.
LEMMA EveryLogMasks == Exchanges \subseteq Masked
<1> SUFFICES ASSUME NEW e \in Exchanges PROVE e \in Masked
  OBVIOUS
<1> DEFINE sent == Content(e).headers
           logged == Log[e].request.headers
<1>1. logged = SanitizeHeaders(ExtractHeaders(sent))
  BY DEF Log, BuildLog, RequestLog
<1>2. /\ DOMAIN logged = DOMAIN sent \ FilteredHeaders
      /\ \A n \in DOMAIN logged \cap SensitiveNames : logged[n] = MaskToken(Head(sent[n]))
  BY <1>1 DEF SanitizeHeaders, ExtractHeaders
<1>3. ASSUME NEW n \in DOMAIN logged \cap SensitiveNames, sent[n][1] # <<>>
      PROVE  \E i \in DOMAIN sent[n][1] : \A j \in DOMAIN logged[n] : logged[n][j] # sent[n][1][i]
  <2>1. /\ sent[n] \in Seq(Seq(Nat)) /\ sent[n] # <<>>
        /\ \A i, j \in DOMAIN sent[n][1] : sent[n][1][i] = sent[n][1][j] => i = j
    BY <1>2, ContentAssumption
  <2>2. Head(sent[n]) = sent[n][1] /\ sent[n][1] \in Seq(Nat)
    BY <2>1
  <2>3. logged[n] = MaskToken(sent[n][1])
    BY <1>2, <2>2
  <2> HIDE DEF logged, sent
  <2> QED
    BY <1>3, <2>1, <2>2, <2>3, MaskHides
<1> QED
  BY <1>2, <1>3 DEF Masked

\* A log on its way tells what its client sent and was answered, for every body,
\* limit and reply: the values of headers that came once, and a body that is cut
\* between two runes when it is cut.
THEOREM LogsTellTruth == Spec => []LogTellsTruth
<1>1. IInv => LogTellsTruth
  BY EveryLogTells DEF IInv, ExchangeLink, LogTellsTruth
<1> QED
  BY <1>1, Invariance, PTL

\* No log on its way shows a header of the proxy, or every letter of another
\* credential, whatever its length.
THEOREM LogsHideCredentials == Spec => []CredentialsAreMasked
<1>1. IInv => CredentialsAreMasked
  BY EveryLogMasks DEF IInv, ExchangeLink, CredentialsAreMasked
<1> QED
  BY <1>1, Invariance, PTL

=============================================================================
