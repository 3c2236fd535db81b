----------------------------- MODULE RequestPath -----------------------------
(***************************************************************************)
(* The path of a request through the proxy: the middleware chain that      *)
(* cmd/main.go builds (ErrorMiddleware around QueueMiddleware), the        *)
(* handlers of internal/domain/api/handler, and Execute of                 *)
(* internal/domain/api/service/pipeline.go, composed with the contract     *)
(* RequestQueue of the queue and with Requester.                           *)
(*                                                                         *)
(* Handler code may panic at any point.  Its deferred functions then run   *)
(* from the inside out: Release of QueueMiddleware first, the recover of   *)
(* ErrorMiddleware after it.  A lookup may fail for any reason, among them *)
(* that the client has gone and the context is done; an answer to it is    *)
(* written all the same, and the write fails.                              *)
(*                                                                         *)
(* The goroutines that Execute starts are modelled in TokenTracking; here  *)
(* is recorded that they were started.  The log it publishes is modelled   *)
(* in LogPublisher.  "4xx" is any of the errors 400, 401, 403 and 404 of   *)
(* apperrors, which the properties do not tell apart.                      *)
(***************************************************************************)
EXTENDS Requester

CONSTANTS MaxInflight,  \* queue.max_inflight
          Inputs        \* the kinds of requests: route, token and domain

ASSUME RequestPathAssumption ==
  /\ IsFiniteSet(Requests)
  /\ MaxInflight \in Nat
  /\ Inputs \subseteq [route: {"proxy", "health"}, token: BOOLEAN, domain: Domains]

VARIABLES
  input,      \* what each request is
  status,     \* its status in the queue
  stage,      \* where it is on its path
  answer,     \* the status written for it; "none" while Written() is false
  errors,     \* the requests with an entry in c.Errors
  tracking    \* "started" with trackRequest, "ended" with releaseRequest

path == <<input, status, stage, answer, errors, tracking>>
vars == <<upstream, path>>

Queue == INSTANCE RequestQueue

Init ==
  /\ RequesterInit
  /\ input \in [Requests -> Inputs]
  /\ domain = [r \in Requests |-> input[r].domain]
  /\ Queue!Init
  /\ stage = [r \in Requests |-> "arrived"]
  /\ answer = [r \in Requests |-> "none"]
  /\ errors = {}
  /\ tracking = [r \in Requests |-> "no"]

Goto(r, l) == stage' = [stage EXCEPT ![r] = l]

\* c.JSON and c.Data, with which a handler ends.  Written() is true from then
\* on, whether the write succeeds, leaves an error in c.Errors, or panics.
Write(r, code) ==
  /\ answer' = [answer EXCEPT ![r] = code]
  /\ \/ Goto(r, "handled") /\ errors' \in {errors, errors \cup {r}}
     \/ Goto(r, "panicking") /\ UNCHANGED errors

\* The caller has done with Validate or Request.
Hangup(r) ==
  /\ call' = [call EXCEPT ![r] = "idle"]
  /\ verdict' = [verdict EXCEPT ![r] = "none"]
  /\ client' = [client EXCEPT ![r] = NoClient]
  /\ UNCHANGED <<network, pool, domain>>

-----------------------------------------------------------------------------
\* QueueMiddleware.Handle.

\* Without a token the queue is not asked.
Bypass(r) ==
  /\ stage[r] = "arrived"
  /\ ~input[r].token
  /\ Goto(r, "handling")
  /\ UNCHANGED <<upstream, input, status, answer, errors, tracking>>

\* Acquire finds a slot, or waits for one.
Acquire(r) ==
  /\ stage[r] = "arrived"
  /\ input[r].token
  /\ \/ Queue!Admit(r) /\ Goto(r, "handling")
     \/ Queue!Wait(r) /\ Goto(r, "queued")
  /\ UNCHANGED <<upstream, input, answer, errors, tracking>>

\* The timeout of a waiting request passes, or its context is done.
GiveUp(r) ==
  /\ stage[r] = "queued"
  /\ Queue!Refuse(r)
  /\ UNCHANGED <<upstream, input, stage, answer, errors, tracking>>

\* Acquire returns true.
EnterHandler(r) ==
  /\ stage[r] = "queued"
  /\ status[r] = "admitted"
  /\ Goto(r, "handling")
  /\ UNCHANGED <<upstream, input, status, answer, errors, tracking>>

\* Mutant of TooManyRequests: what Acquire returned is not looked at.
HandleAnyway(r) ==
  /\ stage[r] = "queued"
  /\ status[r] = "refused"
  /\ Goto(r, "handling")
  /\ UNCHANGED <<upstream, input, status, answer, errors, tracking>>

\* Acquire returns false.
TooManyRequests(r) ==
  /\ stage[r] = "queued"
  /\ status[r] = "refused"
  /\ Write(r, "429")
  /\ UNCHANGED <<upstream, input, status, tracking>>

\* Mutant of ReleaseSlot: Release is a call at the end, not a deferred one.
ReleaseUndeferred(r) ==
  /\ \/ stage[r] = "handled" /\ Goto(r, "returned")
     \/ stage[r] = "panicking" /\ Goto(r, "recovering")
  /\ IF status[r] = "admitted" /\ stage[r] = "handled"
     THEN Queue!Release(r) \/ \E w \in Requests : Queue!HandOver(r, w)
     ELSE UNCHANGED status
  /\ UNCHANGED <<upstream, input, answer, errors, tracking>>

\* The deferred Release of those that hold a slot, and the way out.
ReleaseSlot(r) ==
  /\ \/ stage[r] = "handled" /\ Goto(r, "returned")
     \/ stage[r] = "panicking" /\ Goto(r, "recovering")
  /\ IF status[r] = "admitted"
     THEN Queue!Release(r) \/ \E w \in Requests : Queue!HandOver(r, w)
     ELSE UNCHANGED status
  /\ UNCHANGED <<upstream, input, answer, errors, tracking>>

-----------------------------------------------------------------------------
\* ProxyHandler.Handle and Pipeline.Execute.

\* No token; the body cannot be read; the token is not found, its access is
\* refused or it is blocked; a lookup fails.
Deny(r) ==
  /\ stage[r] = "handling"
  /\ input[r].route = "proxy"
  /\ \E code \in IF input[r].token THEN {"4xx", "500"} ELSE {"4xx"} : Write(r, code)
  /\ UNCHANGED <<upstream, input, status, tracking>>

\* The token is accepted: go p.trackRequest.
Accept(r) ==
  /\ stage[r] = "handling"
  /\ input[r].route = "proxy" /\ input[r].token
  /\ tracking' = [tracking EXCEPT ![r] = "started"]
  /\ Goto(r, "lookup")
  /\ UNCHANGED <<upstream, input, status, answer, errors>>

\* No usage matches the endpoint, or the lookup fails.
UsageMissing(r) ==
  /\ stage[r] = "lookup"
  /\ \E code \in {"4xx", "500"} : Write(r, code)
  /\ UNCHANGED <<upstream, input, status, tracking>>

\* Mutant of CallUpstream: releaseRequest is started along with the call.
CallAndRelease(r) ==
  /\ stage[r] = "lookup"
  /\ tracking' = [tracking EXCEPT ![r] = "ended"]
  /\ Goto(r, "calling")
  /\ CallGoto(r, "validate")
  /\ UNCHANGED <<network, pool, domain, verdict, client, input, status, answer, errors>>

\* A usage names the domain: p.httpReq.Request is called.
CallUpstream(r) ==
  /\ stage[r] = "lookup"
  /\ Goto(r, "calling")
  /\ CallGoto(r, "validate")
  /\ UNCHANGED <<network, pool, domain, verdict, client,
                 input, status, answer, errors, tracking>>

\* Request has returned: go p.releaseRequest.
ReturnFromCall(r) ==
  /\ stage[r] = "calling"
  /\ input[r].route = "proxy"
  /\ call[r] \in {"refused", "error", "response"}
  /\ tracking' = [tracking EXCEPT ![r] = "ended"]
  /\ Goto(r, "publishing")
  /\ UNCHANGED <<upstream, input, status, answer, errors>>

\* Mutant of AnswerCode: the status of the upstream API, 0 when there is none.
UpstreamStatus(result) == IF result = "response" THEN "200" ELSE "0"

\* The status a result of Request is answered with: writeProxyResponse for a
\* response (its own status, below 400), writeError for the errors.
AnswerCode(result) ==
  CASE result = "response" -> "200"
    [] result = "refused"  -> "4xx"
    [] result = "error"    -> "502"

\* The log is published; the response or the error is the answer.
PublishAndAnswer(r) ==
  /\ stage[r] = "publishing"
  /\ Write(r, AnswerCode(call[r]))
  /\ Hangup(r)
  /\ UNCHANGED <<input, status, tracking>>

-----------------------------------------------------------------------------
\* HealthHandler.Check and HealthService.Check.

\* The body cannot be read.
HealthUnread(r) ==
  /\ stage[r] = "handling"
  /\ input[r].route = "health"
  /\ Write(r, "500")
  /\ UNCHANGED <<upstream, input, status, tracking>>

\* The service first calls Validate itself.
HealthValidate(r) ==
  /\ stage[r] = "handling"
  /\ input[r].route = "health"
  /\ Goto(r, "checking")
  /\ CallGoto(r, "validate")
  /\ UNCHANGED <<network, pool, domain, verdict, client,
                 input, status, answer, errors, tracking>>

\* It returns an error.
HealthRefuse(r) ==
  /\ stage[r] = "checking"
  /\ call[r] = "validated" /\ verdict[r] = "bad"
  /\ Write(r, "4xx")
  /\ Hangup(r)
  /\ UNCHANGED <<input, status, tracking>>

\* It does not: Request is called, and validates once more.
HealthCall(r) ==
  /\ stage[r] = "checking"
  /\ call[r] = "validated" /\ verdict[r] = "good"
  /\ Goto(r, "calling")
  /\ CallGoto(r, "validate")
  /\ verdict' = [verdict EXCEPT ![r] = "none"]
  /\ UNCHANGED <<network, pool, domain, client,
                 input, status, answer, errors, tracking>>

\* Whatever came of it is a health report.
HealthAnswer(r) ==
  /\ stage[r] = "calling"
  /\ input[r].route = "health"
  /\ call[r] \in {"refused", "error", "response"}
  /\ Write(r, "200")
  /\ Hangup(r)
  /\ UNCHANGED <<input, status, tracking>>

-----------------------------------------------------------------------------
\* Panics, and ErrorMiddleware.Handle.

\* Code of a handler, or of what it calls, panics.
Panic(r) ==
  /\ stage[r] \in {"handling", "lookup", "checking", "calling", "publishing"}
  /\ Goto(r, "panicking")
  /\ Hangup(r)
  /\ UNCHANGED <<input, status, answer, errors, tracking>>

\* Mutant of Recover: the error is answered whatever was written before.
RecoverBlindly(r) ==
  /\ stage[r] = "recovering"
  /\ answer' = [answer EXCEPT ![r] = "500"]
  /\ Goto(r, "done")
  /\ UNCHANGED <<upstream, input, status, errors, tracking>>

\* recover: an answer is written unless there is one.
Recover(r) ==
  /\ stage[r] = "recovering"
  /\ answer' = [answer EXCEPT ![r] = IF @ = "none" THEN "500" ELSE @]
  /\ Goto(r, "done")
  /\ UNCHANGED <<upstream, input, status, errors, tracking>>

\* After c.Next: the last of c.Errors is answered, unless there is an answer.
\* (All errors of c.Errors come from writes.)  The context is then reset.
HandleErrors(r) ==
  /\ stage[r] = "returned"
  /\ answer' = [answer EXCEPT ![r] = IF r \in errors /\ @ = "none" THEN "500" ELSE @]
  /\ Goto(r, "done")
  /\ errors' = errors \ {r}
  /\ UNCHANGED <<upstream, input, status, tracking>>

\* Every request is over.
AllDone ==
  /\ \A r \in Requests : stage[r] = "done"
  /\ UNCHANGED vars

-----------------------------------------------------------------------------
\* A step of Validate, or of Request while it is called.
UpstreamStep(r) ==
  /\ ValidateStep(r) \/ (stage[r] = "calling" /\ RequestStep(r))
  /\ UNCHANGED path

Arrive(r) == Bypass(r) \/ Acquire(r)

Handle(r) ==
  \/ EnterHandler(r) \/ TooManyRequests(r) \/ ReleaseSlot(r)
  \/ Deny(r) \/ Accept(r) \/ UsageMissing(r) \/ CallUpstream(r)
  \/ ReturnFromCall(r) \/ PublishAndAnswer(r)
  \/ HealthUnread(r) \/ HealthValidate(r) \/ HealthRefuse(r)
  \/ HealthCall(r) \/ HealthAnswer(r)
  \/ Recover(r) \/ HandleErrors(r)

Environment(d) == (DnsChanges(d) \/ VerdictExpires(d)) /\ UNCHANGED path

Next ==
  \/ \E r \in Requests : \/ Arrive(r) \/ Handle(r) \/ GiveUp(r)
                         \/ UpstreamStep(r) \/ Panic(r)
  \/ \E d \in WellFormed : Environment(d)
  \/ AllDone

Spec == Init /\ [][Next]_vars

\* Goroutines are scheduled, Acquire has a timeout, and so has an upstream
\* call; entries of the cache expire.  Nothing forces a request to arrive.
FairSpec ==
  /\ Spec
  /\ \A r \in Requests :
       /\ WF_vars(Handle(r))
       /\ WF_vars(GiveUp(r))
       /\ WF_vars(UpstreamStep(r))
  /\ \A d \in WellFormed : WF_vars(VerdictExpires(d) /\ UNCHANGED path)

-----------------------------------------------------------------------------
Codes == {"200", "4xx", "429", "500", "502"}

TypeOK ==
  /\ RequesterTypeOK
  /\ input \in [Requests -> Inputs]
  /\ Queue!TypeOK
  /\ stage \in [Requests -> {"arrived", "queued", "handling", "checking", "lookup",
                             "calling", "publishing", "handled", "returned",
                             "panicking", "recovering", "done"}]
  /\ answer \in [Requests -> Codes \cup {"none"}]
  /\ errors \in SUBSET Requests
  /\ tracking \in [Requests -> {"no", "started", "ended"}]

\* The queue limits what the upstream APIs see: there are never more calls in
\* flight for requests with a token than there are slots, whichever of them
\* wait, give up, panic or end.  (Health checks without a token come on top.)
UpstreamBounded ==
  Cardinality({r \in Requests : input[r].token /\ InCall(r)}) <= MaxInflight

\* A request with an upstream call in flight is counted as concurrent: its
\* trackRequest was started before the call, its releaseRequest is not before
\* the call has returned.
CallsAreCounted ==
  \A r \in Requests :
    input[r].route = "proxy" /\ InCall(r) => tracking[r] = "started"

\* A request is answered once: neither a write that fails nor a panic, before
\* or after the handler has written, leads to a second answer.
AnsweredOnce ==
  [][\A r \in Requests : answer[r] # "none" => answer'[r] = answer[r]]_vars

\* Every request that arrives comes to its end with an answer and without a
\* slot, also when a handler panics or all slots are taken.
EveryRequestEnds ==
  \A r \in Requests :
    stage[r] # "arrived" ~>
      /\ stage[r] = "done"
      /\ answer[r] # "none"
      /\ status[r] # "admitted"

\* A lookup that failed is not held against a domain for good: once the domain
\* is good and stays so, its bad verdict goes, though a slow lookup may bring
\* it back after the domain has recovered.
DomainRecovers ==
  \A d \in WellFormed : <>[](dns[d] = "good") => <>[](verdicts[d] # "bad")

=============================================================================
