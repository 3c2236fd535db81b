---------------------------- MODULE LogPublisher ----------------------------
(***************************************************************************)
(* The log publisher and the end of the process that hosts it:             *)
(* internal/log/service/log_publisher.go and the shutdown of cmd/main.go.  *)
(*                                                                         *)
(* Handlers put the log of their request into a buffered channel without   *)
(* ever waiting; workers take logs out and save each in MongoDB.  On a     *)
(* signal main waits for the handlers, 30 s at most, then its deferred     *)
(* calls run: cancel() tells the workers to drain the channel, and the     *)
(* process ends.  The end of the process stops every goroutine where it    *)
(* is, so each action of a handler or worker needs a process that runs.    *)
(***************************************************************************)
EXTENDS Exchange, FiniteSets

CONSTANTS Logs,        \* the logs, one for each request
          Exchanges,   \* names of what these requests and their replies may be
          Content(_),  \* the request and the reply of each
          Workers,     \* the goroutines of Start (log.workers)
          BufferSize,  \* logBufferSize
          NoLog,       \* sentinel: a worker holds no log
          NoExchange   \* sentinel: no log is made, or it is no longer needed

ASSUME LogPublisherAssumption ==
  /\ IsFiniteSet(Logs) /\ IsFiniteSet(Workers)
  /\ BufferSize \in Nat \ {0}
  /\ NoLog \notin Logs
  /\ NoExchange \notin Exchanges

\* What a request and its reply may be made of.  Headers have a value, and its
\* letters are named by numbers that tell them apart, to see which of them show.
ASSUME ContentAssumption ==
  \A e \in Exchanges :
    LET content == Content(e)
    IN /\ content.body \in Seq(0..4)
       /\ content.reply.body \in Seq(0..4)
       /\ content.reply.status \in Nat
       /\ content.reply.kind \in {"whole", "broken", "unreachable", "refused"}
       /\ \A n \in DOMAIN content.reply.headers :
            LET values == content.reply.headers[n]
            IN values \in Seq(Seq(Nat)) /\ values # <<>>
       /\ \A n \in DOMAIN content.headers :
            LET values == content.headers[n]
            IN /\ values \in Seq(Seq(Nat)) /\ values # <<>>
               /\ \A i, j \in DOMAIN values[1] : values[1][i] = values[1][j] => i = j

VARIABLES
  main,       \* where main is; "exited" when the process has ended
  graceful,   \* whether Shutdown returned because no handler was left
  handler,    \* where the handler of the request of each log is
  ch,         \* the channel p.ch
  mode,       \* which of its two loops each worker is in
  holding,    \* the log each worker is saving
  exchange,   \* what each log that is on its way is the log of
  saved, failed, dropped   \* what became of the logs

process == <<main, graceful>>
fates   == <<exchange, saved, failed, dropped>>
workers == <<mode, holding>>
vars    == <<process, handler, ch, workers, fates>>

\* The documents.
Log == [e \in Exchanges |-> BuildLog(Content(e))]

Running == main # "exited"

\* The context that Start was given is done.
Cancelled == main \in {"cancelled", "exited"}

Buffered == {ch[i] : i \in 1..Len(ch)}
Held     == {holding[w] : w \in Workers} \ {NoLog}
Settled  == saved \cup failed \cup dropped

-----------------------------------------------------------------------------
Init ==
  /\ main = "serving"
  /\ graceful = FALSE
  /\ handler = [l \in Logs |-> "new"]
  /\ ch = <<>>
  /\ mode = [w \in Workers |-> "running"]
  /\ holding = [w \in Workers |-> NoLog]
  /\ exchange = [l \in Logs |-> NoExchange]
  /\ saved = {} /\ failed = {} /\ dropped = {}

\* The server accepts a request until Shutdown closes its listener.
Serve(l) ==
  /\ main = "serving"
  /\ handler[l] = "new"
  /\ handler' = [handler EXCEPT ![l] = "active"]
  /\ UNCHANGED <<process, ch, workers, fates>>

\* Mutant of Publish: the last place of the buffer is never used.
PublishIfRoomy(l) ==
  /\ Running
  /\ handler[l] = "active"
  /\ handler' = [handler EXCEPT ![l] = "logged"]
  /\ \/ /\ Len(ch) < BufferSize - 1
        /\ ch' = Append(ch, l)
        /\ \E e \in Exchanges : exchange' = [exchange EXCEPT ![l] = e]
        /\ UNCHANGED dropped
     \/ /\ Len(ch) >= BufferSize - 1
        /\ dropped' = dropped \cup {l}
        /\ UNCHANGED <<ch, exchange>>
  /\ UNCHANGED <<process, workers, saved, failed>>

\* publish: the channel has room, or the log is dropped; never a wait.
Publish(l) ==
  /\ Running
  /\ handler[l] = "active"
  /\ handler' = [handler EXCEPT ![l] = "logged"]
  /\ \/ /\ Len(ch) < BufferSize
        /\ ch' = Append(ch, l)
        /\ \E e \in Exchanges : exchange' = [exchange EXCEPT ![l] = e]
        /\ UNCHANGED dropped
     \/ /\ Len(ch) >= BufferSize
        /\ dropped' = dropped \cup {l}
        /\ UNCHANGED <<ch, exchange>>
  /\ UNCHANGED <<process, workers, saved, failed>>

\* The request is refused before the upstream call, and not logged.
FinishUnlogged(l) ==
  /\ Running
  /\ handler[l] = "active"
  /\ handler' = [handler EXCEPT ![l] = "done"]
  /\ UNCHANGED <<process, ch, workers, fates>>

-----------------------------------------------------------------------------
\* runWorker.

\* Mutant of Take: the log is looked at and left in the channel.
Peek(w) ==
  /\ Running
  /\ mode[w] \in {"running", "draining"}
  /\ holding[w] = NoLog
  /\ ch # <<>>
  /\ holding' = [holding EXCEPT ![w] = Head(ch)]
  /\ UNCHANGED <<process, handler, ch, mode, fates>>

\* case log := <-p.ch, in the main loop or in the drain loop.
Take(w) ==
  /\ Running
  /\ mode[w] \in {"running", "draining"}
  /\ holding[w] = NoLog
  /\ ch # <<>>
  /\ holding' = [holding EXCEPT ![w] = Head(ch)]
  /\ ch' = Tail(ch)
  /\ UNCHANGED <<process, handler, mode, fates>>

\* MongoDB takes no document of 16 MB, which is what is read of a reply.
TooLarge(log) ==
  log.result = "ERROR" /\ Len(log.response.content.body) >= MaxBodySize

\* Mutant of Save: the worker returns when its first save fails.
SaveOrQuit(w) ==
  /\ Running
  /\ holding[w] # NoLog
  /\ holding' = [holding EXCEPT ![w] = NoLog]
  /\ exchange' = [exchange EXCEPT ![holding[w]] = NoExchange]
  /\ \/ saved' = saved \cup {holding[w]} /\ UNCHANGED <<failed, mode>>
     \/ /\ failed' = failed \cup {holding[w]}
        /\ mode' = [mode EXCEPT ![w] = "stopped"]
        /\ UNCHANGED saved
  /\ UNCHANGED <<process, handler, ch, dropped>>

\* repo.Save returns; its error is at most logged, the log is not retried.
Save(w) ==
  /\ Running
  /\ holding[w] # NoLog
  /\ holding' = [holding EXCEPT ![w] = NoLog]
  /\ exchange' = [exchange EXCEPT ![holding[w]] = NoExchange]
  /\ \/ /\ ~TooLarge(Log[exchange[holding[w]]])
        /\ saved' = saved \cup {holding[w]}
        /\ UNCHANGED failed
     \/ /\ failed' = failed \cup {holding[w]}
        /\ UNCHANGED saved
  /\ UNCHANGED <<process, handler, ch, mode, dropped>>

\* case <-ctx.Done(), which select may choose as soon as it is ready.
StartDraining(w) ==
  /\ Running /\ Cancelled
  /\ mode[w] = "running"
  /\ holding[w] = NoLog
  /\ mode' = [mode EXCEPT ![w] = "draining"]
  /\ UNCHANGED <<process, handler, ch, holding, fates>>

\* Mutant of StopWorker: the worker returns without draining the channel.
StopAtOnce(w) ==
  /\ Running
  /\ mode[w] = "draining"
  /\ holding[w] = NoLog
  /\ mode' = [mode EXCEPT ![w] = "stopped"]
  /\ UNCHANGED <<process, handler, ch, holding, fates>>

\* The default case of the drain loop: the channel is empty.
StopWorker(w) ==
  /\ Running
  /\ mode[w] = "draining"
  /\ holding[w] = NoLog
  /\ ch = <<>>
  /\ mode' = [mode EXCEPT ![w] = "stopped"]
  /\ UNCHANGED <<process, handler, ch, holding, fates>>

-----------------------------------------------------------------------------
\* main.

\* SIGINT or SIGTERM arrives: srv.Shutdown closes the listener.
Signal ==
  /\ main = "serving"
  /\ main' = "stopping"
  /\ UNCHANGED <<graceful, handler, ch, workers, fates>>

\* Mutant of ShutdownReturns: Shutdown has no deadline.
ShutdownUnlimited ==
  /\ main = "stopping"
  /\ \A l \in Logs : handler[l] # "active"
  /\ main' = "cancelled"
  /\ graceful' = TRUE
  /\ UNCHANGED <<handler, ch, workers, fates>>

\* srv.Shutdown returns: no handler is active, or the 30 s are over.  Then the
\* deferred cancel() runs.
ShutdownReturns ==
  /\ main = "stopping"
  /\ main' = "cancelled"
  /\ graceful' \in {FALSE, \A l \in Logs : handler[l] # "active"}
  /\ UNCHANGED <<handler, ch, workers, fates>>

\* logger.Sync, and main returns: the process ends without waiting for anyone.
Exit ==
  /\ main = "cancelled"
  /\ main' = "exited"
  /\ UNCHANGED <<graceful, handler, ch, workers, fates>>

\* ListenAndServe fails: logger.Fatal ends the process, no deferred call runs.
ListenFails ==
  /\ main = "serving"
  /\ main' = "exited"
  /\ UNCHANGED <<graceful, handler, ch, workers, fates>>

\* The process is gone.
Exited == main = "exited" /\ UNCHANGED vars

-----------------------------------------------------------------------------
WorkerStep(w) == Take(w) \/ Save(w) \/ StartDraining(w) \/ StopWorker(w)

Next ==
  \/ \E l \in Logs : Serve(l) \/ Publish(l) \/ FinishUnlogged(l)
  \/ \E w \in Workers : WorkerStep(w)
  \/ Signal \/ ShutdownReturns \/ Exit \/ ListenFails
  \/ Exited

Spec == Init /\ [][Next]_vars

\* The scheduler runs the workers and main, saves return, and the 30 s of the
\* shutdown pass.  Nothing is assumed of handlers, nor that a signal arrives.
Fairness ==
  /\ \A w \in Workers : WF_vars(WorkerStep(w))
  /\ WF_vars(ShutdownReturns) /\ WF_vars(Exit)

FairSpec == Spec /\ Fairness

-----------------------------------------------------------------------------
(***************************************************************************)
(* What the publisher guarantees, and what the shutdown does not.          *)
(***************************************************************************)
TypeOK ==
  /\ main \in {"serving", "stopping", "cancelled", "exited"}
  /\ graceful \in BOOLEAN
  /\ handler \in [Logs -> {"new", "active", "logged", "done"}]
  /\ ch \in Seq(Logs) /\ Len(ch) <= BufferSize
  /\ mode \in [Workers -> {"running", "draining", "stopped"}]
  /\ holding \in [Workers -> Logs \cup {NoLog}]
  /\ exchange \in [Logs -> Exchanges \cup {NoExchange}]
  /\ saved \in SUBSET Logs /\ failed \in SUBSET Logs /\ dropped \in SUBSET Logs

\* A log that was published is in exactly one place, once in the channel, with
\* one worker, or settled in one way, and any other log is in none.  So no log
\* vanishes or is saved twice, whichever workers race for it in either loop.
Places == <<Buffered, Held, saved, failed, dropped>>

EveryLogInOnePlace ==
  /\ Cardinality(Buffered) = Len(ch)
  /\ \A w1, w2 \in Workers :
       holding[w1] = holding[w2] /\ holding[w1] # NoLog => w1 = w2
  /\ \A i, j \in 1..5 : i # j => Places[i] \cap Places[j] = {}
  /\ UNION {Places[i] : i \in 1..5} = {l \in Logs : handler[l] = "logged"}

\* What a log says of a body: all of it, a note that it is no text, or so much
\* of it as the limit and its last rune allow, marked as cut; and its length.
Tells(content, body) ==
  /\ content.contentLength = Len(body)
  /\ \/ content.body = body /\ ~content.truncated /\ Len(body) <= MaxBodyBytes
     \/ content.body = Binary /\ ~content.truncated /\ ~Valid(body)
     \/ /\ content.truncated
        /\ Len(content.body) \in MaxBodyBytes - 3..MaxBodyBytes
        /\ content.body = SubSeq(body, 1, Len(content.body))
        /\ Valid(content.body)

\* What a log says of the header n of an answer is what the client was given, and
\* nothing when it was given nothing or an empty value.  There are two exceptions:
\* a type that the proxy has added, and a header that the upstream API sent
\* several times, of which log and client each have one of the values sent.
HeaderOf(headers, n) == IF n \in DOMAIN headers THEN headers[n] ELSE <<>>

HeaderAgrees(n, logged, given, sent) ==
  LET values == IF n \in DOMAIN sent THEN sent[n] ELSE <<>>
      inLog == HeaderOf(logged, n)
      answered == HeaderOf(given, n)
  IN \/ answered = inLog
     \/ n = ContentType /\ inLog = <<>> /\ answered = OctetStream
     \/ /\ Len(values) > 1
        /\ \E i, j \in DOMAIN values : inLog = values[i] /\ answered = values[j]

\* A log that waits to be saved tells what its client sent and was answered:
\* SUCCESS when that was the reply of the upstream API, then with its status, the
\* headers of the answer and, where the status allows one, its body, and ERROR
\* when it was an error.  A log of an error is not cut, but is no larger than what
\* is read of a reply.
Truthful ==
  {e \in Exchanges :
     LET log == Log[e]
         reply == Content(e).reply
         answer == Answer(reply)
         logged == log.response.headers
     IN /\ Tells(log.request.content, Content(e).body)
        /\ log.result = "ERROR" <=> answer.status >= 400
        /\ log.result = "SUCCESS" =>
             /\ log.response.status = answer.status
             /\ \A n \in DOMAIN logged \cup DOMAIN answer.headers :
                  HeaderAgrees(n, logged, answer.headers, reply.headers)
             /\ BodyAllowed(answer.status) => Tells(log.response.content, answer.body)
        /\ log.result = "ERROR" => Len(log.response.content.body) <= MaxBodySize}

LogTellsTruth == \A l \in Buffered \cup Held : exchange[l] \in Truthful

\* The credentials of a request: those of the proxy are in no log, and of any
\* other (that is not empty) no log shows every letter.
Masked ==
  {e \in Exchanges :
     LET logged == Log[e].request.headers
         sent == Content(e).headers
     IN /\ DOMAIN logged \cap FilteredHeaders = {}
        /\ \A n \in DOMAIN logged \cap SensitiveNames : sent[n][1] # <<>> =>
             \E i \in DOMAIN sent[n][1] : \A j \in DOMAIN logged[n] :
               logged[n][j] # sent[n][1][i]}

CredentialsAreMasked == \A l \in Buffered \cup Held : exchange[l] \in Masked

\* A worker stops only when its share of the work is done: if the handlers were
\* over before the workers were told to stop, then once the last worker has
\* stopped no log is left in the channel or in anyone's hand.
DrainedWhenStopped ==
  graceful /\ (\A w \in Workers : mode[w] = "stopped") /\ Workers # {} =>
    ch = <<>> /\ Held = {}

\* While the process serves, every log that entered the channel is settled.
BufferedIsSettled ==
  \A l \in Logs : l \in Buffered ~> (l \in Settled \/ main # "serving")

\* A signal ends the process, also when a handler never returns.
SignalEndsProcess == main = "stopping" ~> main = "exited"

\* The publisher seen from outside, without channel and workers: a log is
\* settled once, and refused only when Capacity others are pending, in the
\* channel or in the hand of a worker.
Sink == INSTANCE LogSink
  WITH Capacity <- BufferSize,
       pending <- Buffered \cup Held,
       stored <- saved,
       lost <- failed \cup dropped

ImplementsLogSink == Sink!Spec

\* "When ctx is cancelled each worker drains the channel and ends": after a
\* graceful shutdown, no log is left behind.
NothingLeftBehind ==
  main = "exited" /\ graceful => ch = <<>> /\ Held = {}

=============================================================================
