-------------------------- MODULE RequestPathProofs --------------------------
(***************************************************************************)
(* Proofs about RequestPath for any requests, slots and domains.           *)
(*                                                                         *)
(* What a request shares with the others is tied to where it is by the     *)
(* links below: with its slot (SlotLink), with the requester (CallLink,    *)
(* LookupLink, PoolLink), with its answer (AnswerLink) and with the        *)
(* goroutines that count it (CountLink).  Together with the types and the  *)
(* bound of the queue they are inductive, and the invariants that the runs *)
(* check follow from them.                                                 *)
(***************************************************************************)
EXTENDS RequestPath, FiniteSetTheorems, TLAPS

\* The stages in which handler code runs.
InHandler(r) == stage[r] \in {"handling", "checking", "lookup", "calling", "publishing"}

\* A request with a token is in a handler only while it holds a slot.
SlotLink == \A r \in Requests : InHandler(r) /\ input[r].token => status[r] = "admitted"

\* The requester works for a request only while its handler waits for it, and
\* has a result when it has ended.
CallLink ==
  \A r \in Requests :
    /\ InCall(r) => stage[r] = "calling"
    /\ stage[r] = "publishing" => call[r] \in {"refused", "error", "response"}

\* Good verdicts, in the cache or in hand, are verdicts of some lookup; names
\* that are refused for their form are never looked up.
LookupLink ==
  /\ \A d \in WellFormed : verdicts[d] = "good" => d \in vouched
  /\ \A r \in Requests : verdict[r] = "good" => domain[r] \in vouched
  /\ \A r \in Requests : call[r] \in {"resolve", "cache"} => domain[r] \in WellFormed

\* A caller that makes its call has a client, the one of the pool.
PoolLink ==
  \A r \in Requests : call[r] = "do" =>
    client[r] # NoClient /\ client[r] = pool[domain[r]]

\* A handler that has not ended has not written yet.
AnswerLink ==
  \A r \in Requests :
    stage[r] \in {"arrived", "queued"} \/ InHandler(r) => answer[r] = "none"

\* A proxied request is counted from before its upstream call until after it;
\* those in the health check are not proxied.
CountLink ==
  \A r \in Requests :
    /\ stage[r] = "lookup" \/ (stage[r] = "calling" /\ input[r].route = "proxy")
         => tracking[r] = "started"
    /\ stage[r] = "checking" => input[r].route = "health"

UpstreamLinks == LookupLink /\ PoolLink /\ CallsRestOnLookup

PathLinks == SlotLink /\ CallLink /\ AnswerLink /\ CountLink

IInv == TypeOK /\ Queue!InflightBound /\ UpstreamLinks /\ PathLinks

USE DEF Queue!TypeOK, Queue!Statuses

-----------------------------------------------------------------------------
\* Steps of the requester keep its types.
LEMMA RequesterTypeStep ==
  ASSUME RequesterTypeOK, LookupLink, NEW r \in Requests, ValidateStep(r) \/ RequestStep(r)
  PROVE  RequesterTypeOK'
<1> USE RequesterAssumption DEF RequesterTypeOK, CallGoto, network, WellFormed
<1>1. CASE RejectForm(r) BY <1>1 DEF RejectForm, Verdicts
<1>2. CASE UseVerdict(r) BY <1>2 DEF UseVerdict
<1>3. CASE MissVerdict(r) BY <1>3 DEF MissVerdict
<1>4. CASE LookUpHost(r) BY <1>4 DEF LookUpHost, LookupLink
<1>5. CASE StoreVerdict(r) BY <1>5 DEF StoreVerdict
<1>6. CASE ReturnRefusal(r) BY <1>6 DEF ReturnRefusal
<1>7. CASE BuildRequest(r) BY <1>7 DEF BuildRequest
<1>8. CASE LoadClient(r) BY <1>8 DEF LoadClient
<1>9. CASE NewClient(r) BY <1>9 DEF NewClient
<1>10. CASE LoadOrStore(r) BY <1>10 DEF LoadOrStore
<1>11. CASE Do(r) BY <1>11 DEF Do
<1> QED
  BY <1>1, <1>2, <1>3, <1>4, <1>5, <1>6, <1>7, <1>8, <1>9, <1>10, <1>11
     DEF ValidateStep, RequestStep

\* They keep the links between verdicts, clients and calls.
LEMMA RequesterLinkStep ==
  ASSUME RequesterTypeOK, UpstreamLinks, NEW r \in Requests,
         ValidateStep(r) \/ RequestStep(r)
  PROVE  UpstreamLinks'
<1> USE RequesterAssumption
    DEF RequesterTypeOK, UpstreamLinks, LookupLink, PoolLink, CallsRestOnLookup,
        InCall, CallGoto, network, WellFormed
<1>1. CASE RejectForm(r) BY <1>1 DEF RejectForm
<1>2. CASE UseVerdict(r) BY <1>2 DEF UseVerdict
<1>3. CASE MissVerdict(r) BY <1>3 DEF MissVerdict
<1>4. CASE LookUpHost(r) BY <1>4 DEF LookUpHost
<1>5. CASE StoreVerdict(r) BY <1>5 DEF StoreVerdict
<1>6. CASE ReturnRefusal(r) BY <1>6 DEF ReturnRefusal
<1>7. CASE BuildRequest(r) BY <1>7 DEF BuildRequest
<1>8. CASE LoadClient(r) BY <1>8 DEF LoadClient
<1>9. CASE NewClient(r) BY <1>9 DEF NewClient
<1>10. CASE LoadOrStore(r) BY <1>10 DEF LoadOrStore
<1>11. CASE Do(r) BY <1>11 DEF Do
<1> QED
  BY <1>1, <1>2, <1>3, <1>4, <1>5, <1>6, <1>7, <1>8, <1>9, <1>10, <1>11
     DEF ValidateStep, RequestStep

-----------------------------------------------------------------------------
\* The types are inductive together with LookupLink, by which only names
\* that may be looked up are, and CallLink, by which every answer is one of
\* the codes.
LEMMA TypeStep == TypeOK /\ LookupLink /\ CallLink /\ [Next]_vars => TypeOK'
<1> SUFFICES ASSUME TypeOK, LookupLink, CallLink, [Next]_vars PROVE TypeOK'
  OBVIOUS
<1> USE RequestPathAssumption, RequesterAssumption DEF TypeOK, Codes
<1>1. ASSUME NEW r \in Requests, Arrive(r) PROVE TypeOK'
  <2>1. CASE Bypass(r)
    BY <2>1 DEF Bypass, Goto, upstream, network, RequesterTypeOK
  <2>2. CASE Acquire(r)
    <3>1. status' \in [Requests -> Queue!Statuses]
      BY <2>2 DEF Acquire, Queue!Admit, Queue!Wait
    <3>2. stage' \in [Requests -> {"arrived", "queued", "handling", "checking", "lookup",
                                  "calling", "publishing", "handled", "returned",
                                  "panicking", "recovering", "done"}]
      BY <2>2 DEF Acquire, Goto
    <3>3. UNCHANGED <<dns, verdicts, vouched, pool, domain, call, verdict, client, input, answer,
                      errors, tracking>>
      BY <2>2 DEF Acquire, upstream, network
    <3> QED BY <3>1, <3>2, <3>3 DEF RequesterTypeOK
  <2> QED BY <1>1, <2>1, <2>2 DEF Arrive
<1>2. ASSUME NEW r \in Requests, Handle(r) PROVE TypeOK'
  <2> USE DEF RequesterTypeOK, upstream, network, Goto, CallGoto, Write, Hangup
  <2>1. CASE EnterHandler(r) BY <2>1 DEF EnterHandler
  <2>2. CASE TooManyRequests(r) BY <2>2 DEF TooManyRequests
  <2>3. CASE ReleaseSlot(r)
    <3>1. status' \in [Requests -> Queue!Statuses]
      BY <2>3 DEF ReleaseSlot, Queue!Release, Queue!HandOver
    <3>2. stage' \in [Requests -> {"arrived", "queued", "handling", "checking", "lookup",
                                  "calling", "publishing", "handled", "returned",
                                  "panicking", "recovering", "done"}]
      BY <2>3 DEF ReleaseSlot
    <3> QED BY <2>3, <3>1, <3>2 DEF ReleaseSlot
  <2>4. CASE Deny(r) BY <2>4 DEF Deny
  <2>5. CASE Accept(r) BY <2>5 DEF Accept
  <2>6. CASE UsageMissing(r)
    <3>1. PICK code \in {"4xx", "500"} : Write(r, code)
      BY <2>6 DEF UsageMissing
    <3>2. answer' \in [Requests -> Codes \cup {"none"}] /\ errors' \in SUBSET Requests
      BY <3>1
    <3> QED BY <2>6, <3>1, <3>2 DEF UsageMissing
  <2>7. CASE CallUpstream(r) BY <2>7 DEF CallUpstream
  <2>8. CASE ReturnFromCall(r) BY <2>8 DEF ReturnFromCall
  <2>9. CASE PublishAndAnswer(r)
    <3>1. AnswerCode(call[r]) \in Codes
      BY <2>9 DEF PublishAndAnswer, AnswerCode, CallLink
    <3> HIDE DEF Codes
    <3>2. answer' \in [Requests -> Codes \cup {"none"}] /\ errors' \in SUBSET Requests
      BY <2>9, <3>1 DEF PublishAndAnswer
    <3> QED BY <2>9, <3>2 DEF PublishAndAnswer
  <2>10. CASE HealthUnread(r) BY <2>10 DEF HealthUnread
  <2>11. CASE HealthValidate(r) BY <2>11 DEF HealthValidate
  <2>12. CASE HealthRefuse(r) BY <2>12 DEF HealthRefuse
  <2>13. CASE HealthCall(r) BY <2>13 DEF HealthCall
  <2>14. CASE HealthAnswer(r) BY <2>14 DEF HealthAnswer
  <2>15. CASE Recover(r) BY <2>15 DEF Recover
  <2>16. CASE HandleErrors(r) BY <2>16 DEF HandleErrors
  <2> QED
    BY <1>2, <2>1, <2>2, <2>3, <2>4, <2>5, <2>6, <2>7, <2>8,
       <2>9, <2>10, <2>11, <2>12, <2>13, <2>14, <2>15, <2>16
       DEF Handle
<1>3. ASSUME NEW r \in Requests, GiveUp(r) PROVE TypeOK'
  BY <1>3 DEF GiveUp, Queue!Refuse, upstream, network, RequesterTypeOK
<1>4. ASSUME NEW r \in Requests, UpstreamStep(r) PROVE TypeOK'
  <2>1. RequesterTypeOK'
    BY <1>4, RequesterTypeStep DEF UpstreamStep
  <2> QED BY <1>4, <2>1 DEF UpstreamStep, path
<1>5. ASSUME NEW r \in Requests, Panic(r) PROVE TypeOK'
  BY <1>5 DEF Panic, Goto, Hangup, network, RequesterTypeOK
<1>6. ASSUME NEW d \in WellFormed, Environment(d) PROVE TypeOK'
  BY <1>6 DEF Environment, DnsChanges, VerdictExpires, path, RequesterTypeOK, Verdicts
<1>7. CASE UNCHANGED vars
  BY <1>7 DEF vars, path, upstream, network, RequesterTypeOK
<1> QED BY <1>1, <1>2, <1>3, <1>4, <1>5, <1>6, <1>7 DEF Next, AllDone

-----------------------------------------------------------------------------
\* The steps of the path that end a call take its verdict and its client with
\* them; the others leave the requester alone or only send it to Validate.
LEMMA UpstreamLinkStep ==
  TypeOK /\ UpstreamLinks /\ [Next]_vars => UpstreamLinks'
<1> SUFFICES ASSUME TypeOK, UpstreamLinks, [Next]_vars PROVE UpstreamLinks'
  OBVIOUS
<1> USE RequesterAssumption
    DEF TypeOK, RequesterTypeOK, UpstreamLinks, LookupLink, PoolLink, CallsRestOnLookup,
        InCall
<1>1. ASSUME NEW r \in Requests, Arrive(r) PROVE UpstreamLinks'
  BY <1>1 DEF Arrive, Bypass, Acquire, upstream, network
<1>2. ASSUME NEW r \in Requests, Handle(r) PROVE UpstreamLinks'
  <2> USE DEF upstream, network, CallGoto, Hangup
  <2>1. CASE EnterHandler(r) BY <2>1 DEF EnterHandler
  <2>2. CASE TooManyRequests(r) BY <2>2 DEF TooManyRequests
  <2>3. CASE ReleaseSlot(r) BY <2>3 DEF ReleaseSlot
  <2>4. CASE Deny(r) BY <2>4 DEF Deny
  <2>5. CASE Accept(r) BY <2>5 DEF Accept
  <2>6. CASE UsageMissing(r) BY <2>6 DEF UsageMissing
  <2>7. CASE CallUpstream(r) BY <2>7 DEF CallUpstream
  <2>8. CASE ReturnFromCall(r) BY <2>8 DEF ReturnFromCall
  <2>9. CASE PublishAndAnswer(r) BY <2>9 DEF PublishAndAnswer
  <2>10. CASE HealthUnread(r) BY <2>10 DEF HealthUnread
  <2>11. CASE HealthValidate(r) BY <2>11 DEF HealthValidate
  <2>12. CASE HealthRefuse(r) BY <2>12 DEF HealthRefuse
  <2>13. CASE HealthCall(r) BY <2>13 DEF HealthCall
  <2>14. CASE HealthAnswer(r) BY <2>14 DEF HealthAnswer
  <2>15. CASE Recover(r) BY <2>15 DEF Recover
  <2>16. CASE HandleErrors(r) BY <2>16 DEF HandleErrors
  <2> QED
    BY <1>2, <2>1, <2>2, <2>3, <2>4, <2>5, <2>6, <2>7, <2>8,
       <2>9, <2>10, <2>11, <2>12, <2>13, <2>14, <2>15, <2>16
       DEF Handle
<1>3. ASSUME NEW r \in Requests, GiveUp(r) PROVE UpstreamLinks'
  BY <1>3 DEF GiveUp, upstream, network
<1>4. ASSUME NEW r \in Requests, UpstreamStep(r) PROVE UpstreamLinks'
  BY <1>4, RequesterLinkStep DEF UpstreamStep
<1>5. ASSUME NEW r \in Requests, Panic(r) PROVE UpstreamLinks'
  BY <1>5 DEF Panic, Hangup, network
<1>6. ASSUME NEW d \in WellFormed, Environment(d) PROVE UpstreamLinks'
  BY <1>6 DEF Environment, DnsChanges, VerdictExpires
<1>7. CASE UNCHANGED vars
  BY <1>7 DEF vars, upstream, network
<1> QED BY <1>1, <1>2, <1>3, <1>4, <1>5, <1>6, <1>7 DEF Next, AllDone

\* Steps of the requester are taken for a request whose handler waits.
LEMMA RequesterCallStep ==
  ASSUME TypeOK, CallLink, NEW r \in Requests, UpstreamStep(r)
  PROVE  CallLink'
<1> USE DEF TypeOK, RequesterTypeOK, CallLink, InCall, CallGoto, path
<1>1. CASE ValidateStep(r)
  BY <1>1 DEF UpstreamStep, ValidateStep, RejectForm, UseVerdict, MissVerdict,
              LookUpHost, StoreVerdict
<1>2. CASE stage[r] = "calling" /\ RequestStep(r)
  BY <1>2 DEF UpstreamStep, RequestStep, ReturnRefusal, BuildRequest, LoadClient,
              NewClient, LoadOrStore, Do
<1> QED BY <1>1, <1>2 DEF UpstreamStep

\* Each step of a handler is taken at one stage and leads to another; a slot is
\* given back only after the handler, and is passed only to one that waits.
LEMMA PathLinkStep ==
  TypeOK /\ PathLinks /\ [Next]_vars => PathLinks'
<1> SUFFICES ASSUME TypeOK, PathLinks, [Next]_vars PROVE PathLinks'
  OBVIOUS
<1> USE DEF TypeOK, RequesterTypeOK, PathLinks, SlotLink, CallLink, AnswerLink, CountLink,
            InHandler, InCall
<1>1. ASSUME NEW r \in Requests, Arrive(r) PROVE PathLinks'
  <2>1. CASE Bypass(r)
    BY <2>1 DEF Bypass, Goto, upstream, network
  <2>2. CASE Acquire(r)
    BY <2>2 DEF Acquire, Queue!Admit, Queue!Wait, Goto, upstream, network
  <2> QED BY <1>1, <2>1, <2>2 DEF Arrive
<1>2. ASSUME NEW r \in Requests, Handle(r) PROVE PathLinks'
  <2> USE DEF upstream, network, Goto, CallGoto, Write, Hangup
  <2>1. CASE EnterHandler(r) BY <2>1 DEF EnterHandler
  <2>2. CASE TooManyRequests(r) BY <2>2 DEF TooManyRequests
  <2>3. CASE ReleaseSlot(r) BY <2>3 DEF ReleaseSlot, Queue!Release, Queue!HandOver
  <2>4. CASE Deny(r) BY <2>4 DEF Deny
  <2>5. CASE Accept(r) BY <2>5 DEF Accept
  <2>6. CASE UsageMissing(r) BY <2>6 DEF UsageMissing
  <2>7. CASE CallUpstream(r) BY <2>7 DEF CallUpstream
  <2>8. CASE ReturnFromCall(r) BY <2>8 DEF ReturnFromCall
  <2>9. CASE PublishAndAnswer(r) BY <2>9 DEF PublishAndAnswer
  <2>10. CASE HealthUnread(r) BY <2>10 DEF HealthUnread
  <2>11. CASE HealthValidate(r) BY <2>11 DEF HealthValidate
  <2>12. CASE HealthRefuse(r) BY <2>12 DEF HealthRefuse
  <2>13. CASE HealthCall(r)
    <3>1. SlotLink' BY <2>13 DEF HealthCall
    <3>2. CallLink' BY <2>13 DEF HealthCall
    <3>3. AnswerLink' BY <2>13 DEF HealthCall
    <3>4. CountLink' BY <2>13 DEF HealthCall
    <3> QED BY <3>1, <3>2, <3>3, <3>4
  <2>14. CASE HealthAnswer(r) BY <2>14 DEF HealthAnswer
  <2>15. CASE Recover(r) BY <2>15 DEF Recover
  <2>16. CASE HandleErrors(r) BY <2>16 DEF HandleErrors
  <2> QED
    BY <1>2, <2>1, <2>2, <2>3, <2>4, <2>5, <2>6, <2>7, <2>8,
       <2>9, <2>10, <2>11, <2>12, <2>13, <2>14, <2>15, <2>16
       DEF Handle
<1>3. ASSUME NEW r \in Requests, GiveUp(r) PROVE PathLinks'
  BY <1>3 DEF GiveUp, Queue!Refuse, upstream, network
<1>4. ASSUME NEW r \in Requests, UpstreamStep(r) PROVE PathLinks'
  <2>1. CallLink'
    BY <1>4, RequesterCallStep
  <2> QED BY <1>4, <2>1 DEF UpstreamStep, path
<1>5. ASSUME NEW r \in Requests, Panic(r) PROVE PathLinks'
  BY <1>5 DEF Panic, Goto, Hangup, network
<1>6. ASSUME NEW d \in WellFormed, Environment(d) PROVE PathLinks'
  BY <1>6 DEF Environment, DnsChanges, VerdictExpires, path
<1>7. CASE UNCHANGED vars
  BY <1>7 DEF vars, path, upstream, network
<1> QED BY <1>1, <1>2, <1>3, <1>4, <1>5, <1>6, <1>7 DEF Next, AllDone

-----------------------------------------------------------------------------
\* The queue counts with the same Cardinality.
LEMMA SameCardinality == ASSUME NEW S PROVE Queue!Cardinality(S) = Cardinality(S)
BY DEF Queue!Cardinality, Cardinality

\* The admitted requests are finitely many.
LEMMA AdmittedFinite ==
  IsFiniteSet(Queue!Admitted) /\ Cardinality(Queue!Admitted) \in Nat
<1>1. Queue!Admitted \subseteq Requests
  BY DEF Queue!Admitted
<1> QED BY <1>1, FS_Subset, FS_CardinalityType, RequestPathAssumption

\* The contract keeps its bound: Admit adds one request while there is room,
\* HandOver replaces one by another, no other step admits any.
LEMMA QueueBoundStep ==
  ASSUME Queue!TypeOK, Queue!InflightBound, [Queue!Next]_status
  PROVE  Queue!InflightBound'
<1> USE RequestPathAssumption, SameCardinality DEF Queue!InflightBound
<1>1. ASSUME Queue!Admitted' \subseteq Queue!Admitted PROVE Queue!InflightBound'
  <2>1. Cardinality(Queue!Admitted') <= Cardinality(Queue!Admitted)
    BY <1>1, AdmittedFinite, FS_Subset
  <2>2. IsFiniteSet(Queue!Admitted') /\ Cardinality(Queue!Admitted') \in Nat
    BY <1>1, AdmittedFinite, FS_Subset, FS_CardinalityType
  <2> QED BY <2>1, <2>2, AdmittedFinite
<1>2. ASSUME NEW r \in Requests, Queue!Admit(r) PROVE Queue!InflightBound'
  <2>1. Queue!Admitted' = Queue!Admitted \cup {r} /\ r \notin Queue!Admitted
    BY <1>2 DEF Queue!Admit, Queue!Admitted
  <2>2. Cardinality(Queue!Admitted \cup {r}) = Cardinality(Queue!Admitted) + 1
    BY <2>1, AdmittedFinite, FS_AddElement
  <2>3. Cardinality(Queue!Admitted) < MaxInflight
    BY <1>2 DEF Queue!Admit
  <2> QED BY <2>1, <2>2, <2>3, AdmittedFinite
<1>3. ASSUME NEW r \in Requests, Queue!Wait(r) \/ Queue!Refuse(r) \/ Queue!Release(r)
      PROVE Queue!InflightBound'
  <2>1. Queue!Admitted' \subseteq Queue!Admitted
    BY <1>3 DEF Queue!Wait, Queue!Refuse, Queue!Release, Queue!Admitted
  <2> QED BY <1>1, <2>1
<1>4. ASSUME NEW r \in Requests, NEW w \in Requests, Queue!HandOver(r, w)
      PROVE Queue!InflightBound'
  <2>1. /\ Queue!Admitted' = (Queue!Admitted \ {r}) \cup {w}
        /\ r \in Queue!Admitted /\ w \notin Queue!Admitted
    BY <1>4 DEF Queue!HandOver, Queue!Admitted
  <2>2. /\ IsFiniteSet(Queue!Admitted \ {r})
        /\ Cardinality(Queue!Admitted \ {r}) = Cardinality(Queue!Admitted) - 1
    BY <2>1, AdmittedFinite, FS_RemoveElement
  <2>3. Cardinality((Queue!Admitted \ {r}) \cup {w}) = Cardinality(Queue!Admitted \ {r}) + 1
    BY <2>1, <2>2, FS_AddElement
  <2> QED BY <2>1, <2>2, <2>3, AdmittedFinite
<1>5. CASE UNCHANGED status
  BY <1>5 DEF Queue!Admitted
<1> QED BY <1>2, <1>3, <1>4, <1>5 DEF Queue!Next, Queue!AllServed

\* The path asks the queue only what its contract offers.
LEMMA QueueStep == [Next]_vars => [Queue!Next]_status
<1> SUFFICES ASSUME [Next]_vars PROVE [Queue!Next]_status
  OBVIOUS
<1>1. ASSUME NEW r \in Requests, Arrive(r) \/ GiveUp(r) PROVE [Queue!Next]_status
  BY <1>1 DEF Arrive, Bypass, Acquire, GiveUp, Queue!Next
<1>2. ASSUME NEW r \in Requests, Handle(r) PROVE [Queue!Next]_status
  <2>1. CASE ReleaseSlot(r)
    BY <2>1 DEF ReleaseSlot, Queue!Next
  <2>2. CASE ~ReleaseSlot(r)
    BY <1>2, <2>2
       DEF Handle, EnterHandler, TooManyRequests, Deny, Accept, UsageMissing,
           CallUpstream, ReturnFromCall, PublishAndAnswer, HealthUnread,
           HealthValidate, HealthRefuse, HealthCall, HealthAnswer, Recover,
           HandleErrors
  <2> QED BY <2>1, <2>2
<1>3. ASSUME NEW r \in Requests, UpstreamStep(r) \/ Panic(r) PROVE [Queue!Next]_status
  BY <1>3 DEF UpstreamStep, Panic, path
<1>4. ASSUME NEW d \in WellFormed, Environment(d) PROVE [Queue!Next]_status
  BY <1>4 DEF Environment, path
<1>5. CASE UNCHANGED vars
  BY <1>5 DEF vars, path
<1> QED BY <1>1, <1>2, <1>3, <1>4, <1>5 DEF Next, AllDone

-----------------------------------------------------------------------------
\* Whatever the requests, slots and domains, the requests keep to their path:
\* the links between the chain, the queue and the requester always hold.
THEOREM Invariance == Spec => []IInv
<1>1. Init => IInv
  <2> SUFFICES ASSUME Init PROVE IInv
    OBVIOUS
  <2> USE RequestPathAssumption, RequesterAssumption
      DEF Init, RequesterInit, Queue!Init
  <2>1. TypeOK
    <3>1. domain \in [Requests -> Domains]
      <4>1. \A r \in Requests : input[r].domain \in Domains
        OBVIOUS
      <4> QED BY <4>1
    <3> QED BY <3>1 DEF TypeOK, RequesterTypeOK, WellFormed, Codes
  <2>2. Queue!InflightBound
    <3>1. Queue!Admitted = {}
      BY DEF Queue!Admitted
    <3> QED BY <3>1, FS_EmptySet, SameCardinality DEF Queue!InflightBound
  <2>3. UpstreamLinks
    BY DEF UpstreamLinks, LookupLink, PoolLink, CallsRestOnLookup, InCall
  <2>4. PathLinks
    BY DEF PathLinks, SlotLink, CallLink, AnswerLink, CountLink, InHandler, InCall
  <2> QED BY <2>1, <2>2, <2>3, <2>4 DEF IInv
<1>2. IInv /\ [Next]_vars => IInv'
  <2> SUFFICES ASSUME IInv, [Next]_vars PROVE IInv'
    OBVIOUS
  <2>1. TypeOK'
    BY TypeStep DEF IInv, UpstreamLinks, PathLinks
  <2>2. Queue!InflightBound'
    BY QueueStep, QueueBoundStep DEF IInv, TypeOK
  <2>3. UpstreamLinks'
    BY UpstreamLinkStep DEF IInv
  <2>4. PathLinks'
    BY PathLinkStep DEF IInv
  <2> QED BY <2>1, <2>2, <2>3, <2>4 DEF IInv
<1> QED BY <1>1, <1>2, PTL DEF Spec

\* Requests, the queue and the requester stay in the states the code knows.
THEOREM TypeCorrect == Spec => []TypeOK
BY Invariance, PTL DEF IInv

\* The calls in flight for requests with a token are among the slots taken, in
\* number: the upstream APIs see no more than max_inflight of them.
THEOREM UpstreamLimited == Spec => []UpstreamBounded
<1>1. IInv => UpstreamBounded
  <2> SUFFICES ASSUME IInv PROVE UpstreamBounded
    OBVIOUS
  <2> DEFINE Calls == {r \in Requests : input[r].token /\ InCall(r)}
  <2>1. Calls \subseteq Queue!Admitted
    BY DEF IInv, PathLinks, SlotLink, CallLink, InHandler, Queue!Admitted
  <2>2. Cardinality(Queue!Admitted) <= MaxInflight
    BY SameCardinality DEF IInv, Queue!InflightBound
  <2> HIDE DEF Calls
  <2>3. IsFiniteSet(Calls) /\ Cardinality(Calls) <= Cardinality(Queue!Admitted)
    BY <2>1, AdmittedFinite, FS_Subset
  <2>4. Cardinality(Calls) <= MaxInflight
    BY <2>2, <2>3, AdmittedFinite, FS_CardinalityType, RequestPathAssumption
  <2> QED BY <2>4 DEF UpstreamBounded, Calls
<1> QED BY <1>1, Invariance, PTL

\* The concurrency count of a token covers every proxied upstream call.
THEOREM NoUncountedCall == Spec => []CallsAreCounted
<1>1. IInv => CallsAreCounted
  BY DEF IInv, PathLinks, CallLink, CountLink, CallsAreCounted
<1> QED BY <1>1, Invariance, PTL

\* However many callers make a client for a domain at once, one is used.
THEOREM ClientsAreShared == Spec => []OneClientPerDomain
<1>1. IInv => OneClientPerDomain
  BY DEF IInv, UpstreamLinks, PoolLink, OneClientPerDomain
<1> QED BY <1>1, Invariance, PTL

\* No order of lookups, cached verdicts and expiries sends a request to a
\* domain that was never found good.
THEOREM CallsAreVouched == Spec => []CallsRestOnLookup
BY Invariance, PTL DEF IInv, UpstreamLinks

\* Nothing a handler or the error middleware does writes a second answer.
THEOREM NoSecondAnswer == Spec => AnsweredOnce
<1>1. IInv /\ [Next]_vars => [\A r \in Requests : answer[r] # "none" => answer'[r] = answer[r]]_vars
  <2> SUFFICES ASSUME IInv, [Next]_vars, NEW q \in Requests, answer[q] # "none"
               PROVE  answer'[q] = answer[q]
    OBVIOUS
  <2> USE DEF IInv, TypeOK, PathLinks, AnswerLink, InHandler
  <2>1. ASSUME NEW r \in Requests, Handle(r) PROVE answer'[q] = answer[q]
    <3>1. CASE TooManyRequests(r)
      BY <3>1 DEF TooManyRequests, Write
    <3>2. CASE Deny(r) \/ UsageMissing(r) \/ PublishAndAnswer(r)
      BY <3>2 DEF Deny, UsageMissing, PublishAndAnswer, Write
    <3>3. CASE HealthUnread(r) \/ HealthRefuse(r) \/ HealthAnswer(r)
      BY <3>3 DEF HealthUnread, HealthRefuse, HealthAnswer, Write
    <3>4. CASE Recover(r) \/ HandleErrors(r)
      BY <3>4 DEF Recover, HandleErrors
    <3>5. CASE EnterHandler(r) \/ ReleaseSlot(r) \/ Accept(r) \/ CallUpstream(r)
               \/ ReturnFromCall(r) \/ HealthValidate(r) \/ HealthCall(r)
      BY <3>5 DEF EnterHandler, ReleaseSlot, Accept, CallUpstream, ReturnFromCall,
                  HealthValidate, HealthCall
    <3> QED BY <2>1, <3>1, <3>2, <3>3, <3>4, <3>5 DEF Handle
  <2>2. ASSUME NEW r \in Requests, Arrive(r) \/ GiveUp(r) \/ UpstreamStep(r) \/ Panic(r)
        PROVE  answer'[q] = answer[q]
    BY <2>2 DEF Arrive, Bypass, Acquire, GiveUp, UpstreamStep, Panic, path
  <2>3. ASSUME NEW d \in WellFormed, Environment(d) PROVE answer'[q] = answer[q]
    BY <2>3 DEF Environment, path
  <2>4. CASE UNCHANGED vars
    BY <2>4 DEF vars, path
  <2> QED BY <2>1, <2>2, <2>3, <2>4 DEF Next, AllDone
<1> QED BY <1>1, Invariance, PTL DEF Spec, AnsweredOnce

=============================================================================
