------------------------------ MODULE Requester ------------------------------
(***************************************************************************)
(* internal/requester/http_requester.go with the cache of verdicts of      *)
(* internal/validator/domain_validator.go: the calls of upstream APIs.     *)
(*                                                                         *)
(* Callers run in goroutines of their own and share two structures without *)
(* a lock around their steps: the verdicts, an expiring cache filled after *)
(* a DNS lookup, and clientPool, a sync.Map with one http.Client for each  *)
(* domain.  A lookup is good when the name resolves to public addresses    *)
(* only; that it fails, or names an internal address, is one verdict, "bad"*)
(* (both end the request with 400).  A client has the name of the caller   *)
(* that made it.                                                           *)
(***************************************************************************)
EXTENDS Naturals, FiniteSets

CONSTANTS Requests,   \* the callers
          Domains,    \* the domains that usages and health checks name
          Malformed,  \* those refused for their form, without a lookup
          NoClient    \* sentinel: no http.Client

ASSUME RequesterAssumption ==
  /\ Malformed \subseteq Domains
  /\ NoClient \notin Requests

VARIABLES
  dns,       \* what a lookup of each domain would find now
  verdicts,  \* the cache of the DomainValidator, "none" for no entry
  vouched,   \* history: the domains some lookup has found good
  pool,      \* clientPool
  domain,    \* the domain each caller is given
  call,      \* where Validate or Request of each caller is
  verdict,   \* the verdict a caller has in hand
  client     \* the http.Client of a caller

network == <<dns, verdicts, vouched>>
upstream == <<network, pool, domain, call, verdict, client>>

Verdicts == {"good", "bad"}
WellFormed == Domains \ Malformed

RequesterInit ==
  /\ dns \in [WellFormed -> Verdicts]
  /\ verdicts = [d \in WellFormed |-> "none"]
  /\ vouched = {}
  /\ pool = [d \in Domains |-> NoClient]
  /\ call = [r \in Requests |-> "idle"]
  /\ verdict = [r \in Requests |-> "none"]
  /\ client = [r \in Requests |-> NoClient]

CallGoto(r, l) == call' = [call EXCEPT ![r] = l]

-----------------------------------------------------------------------------
\* Validate.

\* The URL or the host name is not one of a public https API.
RejectForm(r) ==
  /\ call[r] = "validate"
  /\ domain[r] \in Malformed
  /\ verdict' = [verdict EXCEPT ![r] = "bad"]
  /\ CallGoto(r, "validated")
  /\ UNCHANGED <<network, pool, domain, client>>

\* v.cache.Get finds a verdict.
UseVerdict(r) ==
  /\ call[r] = "validate"
  /\ domain[r] \notin Malformed
  /\ verdicts[domain[r]] # "none"
  /\ verdict' = [verdict EXCEPT ![r] = verdicts[domain[r]]]
  /\ CallGoto(r, "validated")
  /\ UNCHANGED <<network, pool, domain, client>>

\* Mutant of MissVerdict: the domain counts as good while it is looked up.
MissOptimistically(r) ==
  /\ call[r] = "validate"
  /\ domain[r] \notin Malformed
  /\ verdicts[domain[r]] = "none"
  /\ verdicts' = [verdicts EXCEPT ![domain[r]] = "good"]
  /\ CallGoto(r, "resolve")
  /\ UNCHANGED <<dns, vouched, pool, domain, verdict, client>>

\* It finds none: the name is looked up.
MissVerdict(r) ==
  /\ call[r] = "validate"
  /\ domain[r] \notin Malformed
  /\ verdicts[domain[r]] = "none"
  /\ CallGoto(r, "resolve")
  /\ UNCHANGED <<network, pool, domain, verdict, client>>

\* net.LookupHost returns what it saw at some moment.
LookUpHost(r) ==
  /\ call[r] = "resolve"
  /\ verdict' = [verdict EXCEPT ![r] = dns[domain[r]]]
  /\ vouched' = IF dns[domain[r]] = "good" THEN vouched \cup {domain[r]} ELSE vouched
  /\ CallGoto(r, "cache")
  /\ UNCHANGED <<dns, verdicts, pool, domain, client>>

\* v.cache.Set; a verdict found earlier may overwrite one found later.
StoreVerdict(r) ==
  /\ call[r] = "cache"
  /\ verdicts' = [verdicts EXCEPT ![domain[r]] = verdict[r]]
  /\ CallGoto(r, "validated")
  /\ UNCHANGED <<dns, vouched, pool, domain, verdict, client>>

-----------------------------------------------------------------------------
\* Request, after Validate.

\* Validate returned an error, which Request returns.
ReturnRefusal(r) ==
  /\ call[r] = "validated"
  /\ verdict[r] = "bad"
  /\ verdict' = [verdict EXCEPT ![r] = "none"]
  /\ CallGoto(r, "refused")
  /\ UNCHANGED <<network, pool, domain, client>>

\* The request is built, or cannot be.
BuildRequest(r) ==
  /\ call[r] = "validated"
  /\ verdict[r] = "good"
  /\ verdict' = [verdict EXCEPT ![r] = "none"]
  /\ \E l \in {"getClient", "error"} : CallGoto(r, l)
  /\ UNCHANGED <<network, pool, domain, client>>

\* getOrCreateClient: Load finds the client of the domain.
LoadClient(r) ==
  /\ call[r] = "getClient"
  /\ pool[domain[r]] # NoClient
  /\ client' = [client EXCEPT ![r] = pool[domain[r]]]
  /\ CallGoto(r, "do")
  /\ UNCHANGED <<network, pool, domain, verdict>>

\* Load finds none: a client is made.
NewClient(r) ==
  /\ call[r] = "getClient"
  /\ pool[domain[r]] = NoClient
  /\ CallGoto(r, "store")
  /\ UNCHANGED <<network, pool, domain, verdict, client>>

\* Mutant of LoadOrStore: Store, whatever others have stored by now.
StoreClient(r) ==
  /\ call[r] = "store"
  /\ pool' = [pool EXCEPT ![domain[r]] = r]
  /\ client' = [client EXCEPT ![r] = r]
  /\ CallGoto(r, "do")
  /\ UNCHANGED <<network, domain, verdict>>

\* LoadOrStore: the first of several new clients is the one they all use.
LoadOrStore(r) ==
  /\ call[r] = "store"
  /\ pool' = [pool EXCEPT ![domain[r]] = IF @ = NoClient THEN r ELSE @]
  /\ client' = [client EXCEPT ![r] = pool'[domain[r]]]
  /\ CallGoto(r, "do")
  /\ UNCHANGED <<network, domain, verdict>>

\* client.Do, the body, its status and its Content-Type: a response that may be
\* passed on, or an error (also when the context is cancelled or times out).
Do(r) ==
  /\ call[r] = "do"
  /\ client' = [client EXCEPT ![r] = NoClient]
  /\ \E l \in {"response", "error"} : CallGoto(r, l)
  /\ UNCHANGED <<network, pool, domain, verdict>>

-----------------------------------------------------------------------------
\* The world outside.

\* The name resolves to something else, or no longer, or again.
DnsChanges(d) ==
  /\ dns' = [dns EXCEPT ![d] = IF @ = "good" THEN "bad" ELSE "good"]
  /\ UNCHANGED <<verdicts, vouched, pool, domain, call, verdict, client>>

\* Mutant of VerdictExpires: bad verdicts are kept for good.
BadVerdictStays(d) ==
  /\ verdicts[d] = "good"
  /\ verdicts' = [verdicts EXCEPT ![d] = "none"]
  /\ UNCHANGED <<dns, vouched, pool, domain, call, verdict, client>>

\* The entry's five minutes are over.
VerdictExpires(d) ==
  /\ verdicts[d] # "none"
  /\ verdicts' = [verdicts EXCEPT ![d] = "none"]
  /\ UNCHANGED <<dns, vouched, pool, domain, call, verdict, client>>

ValidateStep(r) ==
  \/ RejectForm(r) \/ UseVerdict(r) \/ MissVerdict(r)
  \/ LookUpHost(r) \/ StoreVerdict(r)

RequestStep(r) ==
  \/ ReturnRefusal(r) \/ BuildRequest(r)
  \/ LoadClient(r) \/ NewClient(r) \/ LoadOrStore(r) \/ Do(r)

-----------------------------------------------------------------------------
InCall(r) == call[r] \in {"getClient", "store", "do"}

RequesterTypeOK ==
  /\ dns \in [WellFormed -> Verdicts]
  /\ verdicts \in [WellFormed -> Verdicts \cup {"none"}]
  /\ vouched \in SUBSET WellFormed
  /\ pool \in [Domains -> Requests \cup {NoClient}]
  /\ domain \in [Requests -> Domains]
  /\ call \in [Requests -> {"idle", "validate", "resolve", "cache", "validated",
                            "getClient", "store", "do",
                            "refused", "error", "response"}]
  /\ verdict \in [Requests -> Verdicts \cup {"none"}]
  /\ client \in [Requests -> Requests \cup {NoClient}]

\* All calls of a domain go through one client, with its connections, although
\* several callers may find the pool empty and each make one: clientPool exists
\* "to reuse the http.Client of each domain".
OneClientPerDomain ==
  \A r \in Requests : call[r] = "do" => client[r] = pool[domain[r]]

\* No call is made to a domain that no lookup has ever found good, in whatever
\* order the lookups of several callers end and store their verdicts.
CallsRestOnLookup == \A r \in Requests : InCall(r) => domain[r] \in vouched

=============================================================================
