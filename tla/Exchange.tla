------------------------------ MODULE Exchange ------------------------------
(***************************************************************************)
(* What becomes of the content of one request and of the reply to it: what *)
(* is sent upstream (model/request_info.go), what is made of the reply     *)
(* (http_requester.go, response_sanitizer.go), what the client is answered *)
(* (proxy_handler.go) and what the log says (log_publisher.go with         *)
(* body_truncator.go and header_sanitizer.go).                             *)
(*                                                                         *)
(* A body is a sequence of bytes: a number 1..4 is the first byte of a     *)
(* rune of so many bytes, 0 a byte that continues one.  Headers map names  *)
(* to the sequences of their values, a value is a sequence of letters.     *)
(* The other fields of a log are copies, and left out.                     *)
(***************************************************************************)
EXTENDS Integers, Sequences

CONSTANTS
  MaxBodyBytes,    \* how much of a body is logged (2048)
  MaxBodySize,     \* how much of a reply is read (16 MB)
  FilteredHeaders, \* the names of filteredRequestHeaders
  SensitiveNames,  \* the names that contain a word of sensitiveHeaderKeywords
  RemovedHeaders,  \* the names of hopByHopHeaders and excludedResponseHeaders
  AllowedTypes,    \* allowedContentTypes
  OctetStream,     \* sentinel: "application/octet-stream"
  JSON,            \* sentinel: the type of an answer that c.JSON writes
  Binary,          \* sentinel: "[binary data]"
  Stars            \* sentinel: "***"

ASSUME ExchangeAssumption ==
  /\ MaxBodyBytes \in Nat
  /\ MaxBodySize \in Nat \ {0}
  /\ Stars \notin Nat

\* The first n bytes, or all there are.
UpTo(b, n) == SubSeq(b, 1, IF Len(b) < n THEN Len(b) ELSE n)

-----------------------------------------------------------------------------
\* The request as it is sent on: the first value of each header, without the
\* headers that are the proxy's own.
ExtractHeaders(headers) ==
  [n \in DOMAIN headers \ FilteredHeaders |-> Head(headers[n])]

\* The errors, with the status the client is answered and, of the log, the code
\* of its ErrorLog and the status and body of its ResponseLog.
ProxyError(code) ==
  [ok |-> FALSE, code |-> code, errorCode |-> code, status |-> 500, body |-> <<>>]

ExternalAPIError(status, body) ==
  [ok |-> FALSE, code |-> 502, errorCode |-> status, status |-> status, body |-> body]

Message == <<1>>   \* the text of an error, which is no longer than a log allows

ContentType == "content-type"

\* http.Header.Get: the first value, empty when there is none.
Get(headers, n) == IF n \in DOMAIN headers THEN Head(headers[n]) ELSE <<>>

\* Parameters of the type and its case do not matter.
ValidateContentType(reply) ==
  LET type == Get(reply.headers, ContentType)
  IN type = <<>> \/ type \in AllowedTypes

Sanitize(reply) ==
  IF ~ValidateContentType(reply) THEN ProxyError(502)
  ELSE [ok      |-> TRUE,
        status  |-> reply.status,
        headers |-> [n \in DOMAIN reply.headers \ RemovedHeaders |-> reply.headers[n]],
        body    |-> UpTo(reply.body, MaxBodySize)]

\* HTTPRequester.Request.  Instead of a "whole" reply of the upstream API there
\* may be one that breaks off, one that never comes, or a refused domain.
Result(reply) ==
  CASE reply.kind = "refused"     -> ProxyError(400)
    [] reply.kind = "unreachable" -> ExternalAPIError(0, Message)
    [] reply.kind = "broken"      -> ExternalAPIError(reply.status, Message)
    [] reply.kind = "whole" /\ reply.status >= 400 ->
         ExternalAPIError(reply.status, UpTo(reply.body, MaxBodySize))
    [] reply.kind = "whole" /\ reply.status < 400 -> Sanitize(reply)

\* gin's bodyAllowedForStatus.
BodyAllowed(status) == status \notin 100..199 \cup {204, 304}

\* c.Header replaces what it has set for the value before, and takes the header
\* away when the value is empty; c.Data adds the type if there is none by then.
PassedHeaders(headers) ==
  LET Last(n) == headers[n][Len(headers[n])]
      passed  == {n \in DOMAIN headers : Last(n) # <<>>}
      type    == Get(headers, ContentType)
  IN [n \in passed \cup {ContentType} |->
        IF n \in passed THEN Last(n) ELSE IF type = <<>> THEN OctetStream ELSE type]

\* What writeProxyResponse or writeError gives net/http to send.
Answer(reply) ==
  LET r == Result(reply)
  IN IF r.ok
     THEN [status  |-> r.status,
           headers |-> PassedHeaders(r.headers),
           body    |-> IF BodyAllowed(r.status) THEN r.body ELSE <<>>]
     ELSE [status |-> r.code, headers |-> [n \in {ContentType} |-> JSON], body |-> Message]

-----------------------------------------------------------------------------
\* TruncateBody.

RuneAt(b, i) ==
  /\ b[i] # 0
  /\ i + b[i] - 1 <= Len(b)
  /\ \A j \in i + 1..i + b[i] - 1 : b[j] = 0

\* utf8.Valid: every byte belongs to a rune.
Valid(b) == \A j \in DOMAIN b : \E i \in 1..j : RuneAt(b, i) /\ j < i + b[i]

\* Mutant of TruncateAtRuneBoundary: the cut is made between any two bytes.
TruncateAtByte(b) == SubSeq(b, 1, MaxBodyBytes)

\* The cut at maxLen; ToValidUTF8 then drops the rune that was cut through.
TruncateAtRuneBoundary(b) ==
  LET whole == {n \in 0..MaxBodyBytes : Valid(SubSeq(b, 1, n))}
  IN SubSeq(b, 1, CHOOSE n \in whole : \A m \in whole : m <= n)

TruncateBody(b) ==
  LET truncated == Valid(b) /\ Len(b) > MaxBodyBytes
  IN [body          |-> IF ~Valid(b) THEN Binary
                        ELSE IF truncated THEN TruncateAtRuneBoundary(b) ELSE b,
      truncated     |-> truncated,
      contentLength |-> Len(b)]

-----------------------------------------------------------------------------
\* SanitizeHeaders.

\* Mutant of MaskToken: off by one in the length that is hidden altogether.
MaskTokenFromSix(v) ==
  IF Len(v) < 6 THEN <<Stars>>
  ELSE SubSeq(v, 1, 3) \o <<Stars>> \o SubSeq(v, Len(v) - 2, Len(v))

MaskToken(v) ==
  IF Len(v) <= 6 THEN <<Stars>>
  ELSE SubSeq(v, 1, 3) \o <<Stars>> \o SubSeq(v, Len(v) - 2, Len(v))

SanitizeHeaders(headers) ==
  [n \in DOMAIN headers |->
     IF n \in SensitiveNames THEN MaskToken(headers[n]) ELSE headers[n]]

-----------------------------------------------------------------------------
\* The log of an exchange.

\* buildRequestLog.
RequestLog(e) ==
  [headers |-> SanitizeHeaders(ExtractHeaders(e.headers)),
   content |-> TruncateBody(e.body)]

\* buildResponseLog takes the first value of each header; PublishError takes
\* the body of the error as it is.
ResponseLog(e) ==
  LET r == Result(e.reply)
  IN IF r.ok
     THEN [status  |-> r.status,
           headers |-> [n \in DOMAIN r.headers |-> Head(r.headers[n])],
           content |-> TruncateBody(r.body)]
     ELSE [status  |-> r.status,
           headers |-> <<>>,
           content |-> [body |-> r.body, truncated |-> FALSE, contentLength |-> 0]]

\* PublishSuccess or PublishError, as Execute does; the latter with an ErrorLog.
BuildLog(e) ==
  LET r == Result(e.reply)
  IN [result   |-> IF r.ok THEN "SUCCESS" ELSE "ERROR",
      request  |-> RequestLog(e),
      response |-> ResponseLog(e),
      error    |-> IF r.ok THEN 0 ELSE r.errorCode]

=============================================================================
