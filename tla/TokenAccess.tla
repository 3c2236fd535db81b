----------------------------- MODULE TokenAccess -----------------------------
(***************************************************************************)
(* Who may call what: ProxyHandler.Handle, the browser and server services *)
(* of internal/domain/api/service with the checks Execute makes before it  *)
(* calls an upstream API, and the lookups of internal/domain/api/query     *)
(* behind them.                                                            *)
(*                                                                         *)
(* The row of the token is read through TwoLevelCache, while the platform  *)
(* and TransitionState, which loads and saves the whole row, change it.    *)
(* The lists of origins and usages go through the same cache under keys of *)
(* their own; a lookup of one returns any list it may hold.                *)
(*                                                                         *)
(* A path is the sequence of what stands between its slashes; an origin is *)
(* what normalize makes of it; a secret stands for its hash.               *)
(***************************************************************************)
EXTENDS TwoLevelCache, Sequences

CONSTANTS Secrets,   \* the secrets a token may have
          Origins,   \* the normalized origins that may be allowed
          Usages,    \* records [template, domain] a token may have
          Requests,  \* records [secret, origin, path]; "" is a missing header
          NoRow,     \* sentinel: the token is deleted
          Nothing,   \* sentinel: no request, no call, no check under way
          Param      \* sentinel: a {param} of a template

Rows == [state : {"NORMAL", "WARNING", "BLOCKED"}, secret : Secrets]

ASSUME TokenAccessAssumption ==
  /\ Secrets # {}
  /\ NoRow \notin Rows
  /\ Nothing \notin Requests \cup Rows

VARIABLES
  rows,   \* what each version of the row says
  call,   \* the request whose upstream call each reader makes
  check   \* the row TransitionState is about to save

allVars == <<vars, rows, call, check>>

AccessInit ==
  /\ Init
  /\ rows = [v \in Versions |-> [state |-> "NORMAL", secret |-> CHOOSE s \in Secrets : TRUE]]
  /\ call = [r \in Readers |-> Nothing]
  /\ check = Nothing

-----------------------------------------------------------------------------
\* The checks, as operators on what was looked up.

\* extractEndpoint: the path without its base and without empty parts in front.
Endpoint(path) ==
  LET first == CHOOSE i \in 2..Len(path) :
                 /\ path[i] # "" \/ i = Len(path)
                 /\ \A j \in 2..i - 1 : path[j] = ""
  IN SubSeq(path, first, Len(path))

\* matchesTemplate: a {param} is any non-empty part.
MatchesTemplate(template, endpoint) ==
  /\ Len(template) = Len(endpoint)
  /\ \A i \in DOMAIN template :
       template[i] = endpoint[i] \/ (template[i] = Param /\ endpoint[i] # "")

\* The validators of the two services: a request with a secret is a server's,
\* any other a browser's, whose origin must be one of the list looked up.
ValidateServerAccess(row, req) == req.secret = row.secret
ValidateBrowserAccess(origins, req) == req.origin # "" /\ req.origin \in origins

Validate(row, origins, req) ==
  IF req.secret # "" THEN ValidateServerAccess(row, req)
                     ELSE ValidateBrowserAccess(origins, req)

\* Mutant of ValidateNotBlocked: only the first escalation is looked for.
ValidateNotWarned(row) == row.state # "WARNING"

ValidateNotBlocked(row) == row.state # "BLOCKED"

\* FindByTokenAndEndpoint: the first of a list that matches.  The query orders
\* nothing, so of several usages it may be any, and which one is not recorded.
Matching(list, req) ==
  {u \in list : MatchesTemplate(u.template, Endpoint(req.path))}

-----------------------------------------------------------------------------
\* Execute.  What follows the lookup of the token is local to the goroutine but
\* for the two lists, so it is one step.

\* FindByClientID; the query finds no row of a token that is deleted.
FindByClientID(r) ==
  /\ GetOrFetch(r)
  /\ pc[r] = "fetch" /\ pc'[r] = "store" => rows[version] # NoRow
  /\ UNCHANGED <<rows, call, check>>

Admits(row, origins, list, req) ==
  /\ Validate(row, origins, req)
  /\ ValidateNotBlocked(row)
  /\ Matching(list, req) # {}

\* The requests that pass the checks with some lists the lookups may return,
\* and those that fail one with some lists.
Admitted(row) ==
  {req \in Requests :
     \E origins \in SUBSET Origins, list \in SUBSET Usages : Admits(row, origins, list, req)}
Refused(row) ==
  {req \in Requests :
     \E origins \in SUBSET Origins, list \in SUBSET Usages : ~Admits(row, origins, list, req)}

\* Every check is passed: the domain of a usage that matches is called.
CallUpstream(r) ==
  /\ pc[r] = "returned"
  /\ call[r] = Nothing
  /\ \E req \in Admitted(rows[value[r]]) : call' = [call EXCEPT ![r] = req]
  /\ UNCHANGED <<vars, rows, check>>

\* A check fails, or GetOrFetch has: the error is the answer.
Deny(r) ==
  /\ \/ pc[r] = "failed"
     \/ pc[r] = "returned" /\ call[r] = Nothing /\ Refused(rows[value[r]]) # {}
  /\ ReadAgain(r)
  /\ UNCHANGED <<rows, call, check>>

\* The call has returned; the goroutine takes the next request.
Answer(r) ==
  /\ call[r] # Nothing
  /\ ReadAgain(r)
  /\ call' = [call EXCEPT ![r] = Nothing]
  /\ UNCHANGED <<rows, check>>

-----------------------------------------------------------------------------
\* The row changes.

Change(row) == Update /\ rows' = [rows EXCEPT ![version + 1] = row]

\* The platform gives the token a new secret, releases it, or deletes it.
PlatformChanges ==
  /\ rows[version] # NoRow
  /\ \E row \in {[rows[version] EXCEPT !.secret = s] : s \in Secrets}
                \cup {[rows[version] EXCEPT !.state = "NORMAL"], NoRow} :
       row # rows[version] /\ Change(row)
  /\ UNCHANGED <<call, check>>

NextState(state) == IF state = "NORMAL" THEN "WARNING" ELSE "BLOCKED"

\* TransitionState: FindByID, past the cache; then Save, which fails or writes
\* all of the row as it was found, a deleted one too.
LoadRow ==
  /\ check = Nothing
  /\ rows[version] # NoRow /\ rows[version].state # "BLOCKED"
  /\ check' = [rows[version] EXCEPT !.state = NextState(@)]
  /\ UNCHANGED <<vars, rows, call>>

SaveRow ==
  /\ check # Nothing
  /\ Change(check) \/ UNCHANGED <<vars, rows>>
  /\ check' = Nothing
  /\ UNCHANGED call

-----------------------------------------------------------------------------
\* The rest of the cache.  Time passes between requests.
Background ==
  /\ \/ \E r \in Readers : WriteRedis(r)
     \/ EvictLocal \/ EvictRedis
     \/ Tick /\ \A r \in Readers : pc[r] # "returned"
  /\ UNCHANGED <<rows, call, check>>

Execute(r) == FindByClientID(r) \/ CallUpstream(r) \/ Deny(r) \/ Answer(r)

AccessNext ==
  \/ \E r \in Readers : Execute(r)
  \/ PlatformChanges \/ LoadRow \/ SaveRow
  \/ Background

AccessSpec == AccessInit /\ [][AccessNext]_allVars

-----------------------------------------------------------------------------
TypeOK ==
  /\ CacheTypeOK
  /\ rows \in [Versions -> Rows \cup {NoRow}]
  /\ call \in [Readers -> Requests \cup {Nothing}]
  /\ check \in Rows \cup {Nothing}

\* A call rests on a row that is or was, not longer than the two TTLs ago,
\* that of a token which exists, is not blocked and has the secret presented:
\* what the platform and the rate limiter decide takes effect by then, however
\* the requests race with the changes, the fills and the expiries.
AccessFollowsRow ==
  [][\A r \in Readers : call[r] = Nothing /\ call'[r] # Nothing =>
       \E v \in Versions :
         /\ FreshEnough(v)
         /\ rows[v] # NoRow
         /\ rows[v].state # "BLOCKED"
         /\ call'[r].secret \in {"", rows[v].secret}]_allVars

=============================================================================
