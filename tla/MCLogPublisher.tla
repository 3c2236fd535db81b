--------------------------- MODULE MCLogPublisher ---------------------------
(***************************************************************************)
(* A small instance of LogPublisher.  Four bytes of a body are logged, six *)
(* of a reply are read.  The exchanges are one of each kind: bodies that   *)
(* fit, that must be cut between and inside runes, and that are no text;   *)
(* credentials of six and of seven letters; replies that are passed on,    *)
(* with headers that come once, twice and empty, refused for their type or *)
(* status, as large as can be, without a type or a body, broken off, and   *)
(* missing.                                                                *)
(***************************************************************************)
EXTENDS LogPublisher, TLC

Word(n) == [i \in 1..n |-> i]

Empty == Word(0)
Json  == Word(3)
Image == Word(4)
MCAllowedTypes == {Json}

\* The headers of a reply, with these types.
ReplyHeaders(types) ==
  [n \in {"etag", "x-api", "x-end", "vary"} |->
     CASE n = "etag"   -> <<Empty>>
       [] n = "x-api"  -> <<Word(2), Word(1)>>
       [] n = "x-end" -> <<Word(2), Empty>>
       [] n = "vary"   -> <<Word(1)>>]
  @@ [n \in IF types = <<>> THEN {} ELSE {ContentType} |-> types]

Reply(kind, status, types, body) ==
  [kind |-> kind, status |-> status, headers |-> ReplyHeaders(types), body |-> body]

RequestHeaders(n) ==
  [name \in {"bssm-dev-token", "authorization", "accept"} |-> <<Word(n)>>]

MCExchange(n, body, reply) ==
  [headers |-> RequestHeaders(n), body |-> body, reply |-> reply]

\* The names are numbers.
MCContent(e) ==
  << MCExchange(6, <<1, 1, 3, 0, 0>>, Reply("whole", 200, <<Json>>, <<2, 0, 2, 0, 1, 1, 1>>)),
     MCExchange(7, <<2, 1>>,          Reply("whole", 404, <<Json>>, <<1, 1, 1, 1, 1, 1, 1>>)),
     MCExchange(7, <<4, 0, 0, 0, 1>>, Reply("whole", 200, <<Image>>, <<1>>)),
     MCExchange(1, <<>>,              Reply("whole", 302, <<>>, <<0, 1>>)),
     MCExchange(6, <<1, 1, 1, 1>>,    Reply("broken", 200, <<Json>>, <<>>)),
     MCExchange(6, <<1, 0>>,          Reply("unreachable", 0, <<>>, <<>>)),
     MCExchange(7, <<1, 4, 0, 0, 0>>, Reply("refused", 0, <<>>, <<>>)),
     MCExchange(1, <<1>>,             Reply("whole", 204, <<Json, Empty>>, <<>>)) >>[e]

=============================================================================
