---------------------------- MODULE GatewayHeaders ----------------------------
(***************************************************************************)
(* What the startup gateway does to the headers of one request on its way  *)
(* to the backend, and of the response on its way back: proxy_request_kind *)
(* classifies, forward_http and forward_websocket rewrite, and             *)
(* validate_websocket_upgrade_response decides on the switch.              *)
(* A message is its header names, the tokens of Connection, the values of  *)
(* the framing headers, and for each handshake header whether it occurs    *)
(* once with the expected value, with another value, or twice.             *)
(***************************************************************************)
EXTENDS Naturals, Sequences, FiniteSets

VARIABLES at, request, kind, response

vars == <<at, request, kind, response>>

HopByHop == {"connection", "keep-alive", "upgrade", "te"}
Protected == {"host", "origin", "cookie", "set-cookie", "ws-key", "ws-accept"}

\* Deviations from a plain request, from a handshake and from an answer to each.
Single == {"none", "expected", "other", "twice"}
Tokens == {{}, {"upgrade"}, {"keep-alive"}, {"upgrade", "private"}, {"private", "te"},
           {"upgrade", "ws-key"}, {"upgrade", "cookie"}, {"upgrade", "invalid"}, {"invalid"}}
Lengths == {<<>>, <<"0">>, <<"1">>, <<"1", "1">>, <<"0", "1">>, <<"bad">>}
Codings == {<<>>, <<"chunked">>, <<"chunked", "chunked">>, <<"gzip">>}
Framing == ({"tokens"} \X Tokens) \cup ({"lengths"} \X Lengths) \cup ({"codings"} \X Codings)
RequestNames == {"host", "te", "private", "cookie", "session"}
ResponseNames == {"te", "private", "set-cookie", "backend-session"}

Plain == [tokens |-> {}, lengths |-> <<>>, codings |-> <<>>, names |-> RequestNames,
          upgrade |-> "none", key |-> "none", version |-> "none", origin |-> "none",
          socket |-> FALSE, offers |-> {}]
Hello == [Plain EXCEPT !.tokens = {"upgrade"}, !.upgrade = "expected", !.key = "expected",
          !.version = "expected", !.origin = "expected", !.socket = TRUE, !.offers = {"chat"}]
RequestChanges ==
    Framing \cup ({"upgrade", "key", "version", "origin"} \X Single)
            \cup ({"socket"} \X BOOLEAN) \cup ({"offers"} \X {{}, {"chat"}})

Answer == [tokens |-> {}, lengths |-> <<"1">>, codings |-> <<>>, names |-> ResponseNames,
           upgrade |-> "none", accept |-> "none", selected |-> "none", switching |-> FALSE,
           extensions |-> FALSE]
Switch == [Answer EXCEPT !.tokens = {"upgrade"}, !.lengths = <<>>, !.upgrade = "expected",
           !.accept = "expected", !.selected = "chat", !.switching = TRUE]
ResponseChanges ==
    Framing \cup ({"upgrade", "accept"} \X Single) \cup ({"switching", "extensions"} \X BOOLEAN)
            \cup ({"selected"} \X {"none", "chat", "other", "twice"})

TypeOK ==
    /\ at \in {"start", "received", "rejected", "forwarded", "answered", "failed", "done"}
    /\ kind \in {"none", "http", "websocket"}
    /\ request.names \subseteq RequestNames \cup HopByHop \cup Protected
    /\ response.names \subseteq ResponseNames \cup HopByHop

Init == at = "start" /\ kind = "none" /\ request = Plain /\ response = Answer
-----------------------------------------------------------------------------
(* Parsing *)

\* connection_header_tokens
ConnectionIsValid(m) == "invalid" \notin m.tokens

\* validated_content_length: every occurrence parses and all agree;
\* validate_plain_chunked_transfer_encoding: at most one coding, and it is chunked.
FramingPerHeader(m) ==
    /\ \A i, j \in 1..Len(m.lengths) : m.lengths[i] # "bad" /\ m.lengths[i] = m.lengths[j]
    /\ m.codings \in {<<>>, <<"chunked">>}
FramingIsValid(m) == FramingPerHeader(m) /\ (m.lengths = <<>> \/ m.codings = <<>>)

\* normalize_message_framing and strip_hop_by_hop_headers: the nominated headers go too.
Stripped(m) == m.names \ (m.tokens \cup HopByHop)
Normalized(m, names) == [m EXCEPT !.lengths = <<>>, !.codings = <<>>, !.names = names]
Restored(names) == names \cup {"connection", "upgrade"}
-----------------------------------------------------------------------------
(* The request *)

NominatesNoHandshake(r) == r.tokens \cap Protected = {}

\* The upgrade asked for in Connection: the handshake is whole, for Socket.IO, without a
\* body, from the gateway's own origin.
HandshakeIsValid(r) ==
    /\ NominatesNoHandshake(r) /\ r.socket /\ r.lengths = <<>> /\ r.codings = <<>>
    /\ r.upgrade = "expected" /\ r.origin = "expected"
    /\ r.key = "expected" /\ r.version = "expected"

\* Without it no header of a handshake may occur.
Kind(r) ==
    CASE ~ConnectionIsValid(r) -> "none"
      [] ConnectionIsValid(r) /\ "upgrade" \in r.tokens ->
           IF HandshakeIsValid(r) THEN "websocket" ELSE "none"
      [] OTHER ->
           IF r.upgrade = "expected" \/ r.key # "none" \/ r.version # "none"
           THEN "none" ELSE "http"

Occurs(r, field, name) == IF r[field] = "none" THEN {} ELSE {name}
WithNames(r) ==
    [r EXCEPT !.names = @ \cup Occurs(r, "key", "ws-key") \cup Occurs(r, "upgrade", "upgrade")
                          \cup Occurs(r, "origin", "origin")]

Receives ==
    /\ at = "start" /\ at' = "received"
    /\ \E base \in {Plain, Hello}, c, d \in RequestChanges :
         request' = WithNames([base EXCEPT ![c[1]] = c[2], ![d[1]] = d[2]])
    /\ UNCHANGED <<kind, response>>

IsForwarded(r) == Kind(r) # "none" /\ FramingIsValid(r)

Rejects ==
    /\ at = "received" /\ ~IsForwarded(request) /\ at' = "rejected"
    /\ UNCHANGED <<request, kind, response>>

\* The cookie of the gateway's session stays with the gateway.
Forwards ==
    /\ at = "received" /\ IsForwarded(request) /\ at' = "forwarded"
    /\ kind' = Kind(request)
    /\ LET names == Stripped(request) \ {"session"}
       IN  request' = Normalized(request,
                        IF kind' = "websocket" THEN Restored(names) ELSE names)
    /\ UNCHANGED response
-----------------------------------------------------------------------------
(* The response *)

Answers ==
    /\ at = "forwarded" /\ at' = "answered"
    /\ \E base \in {Answer, Switch}, c \in ResponseChanges :
         response' = [base EXCEPT ![c[1]] = c[2]]
    /\ UNCHANGED <<request, kind>>

\* validate_backend_websocket_protocol: at most one protocol, and an offered one.
SelectsOffered(p) == p.selected = "none" \/ p.selected \in request.offers

\* validate_websocket_upgrade_response
SwitchIsValid(p) ==
    /\ p.switching /\ ConnectionIsValid(p) /\ "upgrade" \in p.tokens
    /\ p.tokens \cap Protected = {}
    /\ p.upgrade = "expected" /\ p.accept = "expected" /\ ~p.extensions /\ SelectsOffered(p)

IsReturned(p) ==
    /\ ConnectionIsValid(p) /\ FramingIsValid(p)
    /\ kind = "websocket" => SwitchIsValid(p)

Fails ==
    /\ at = "answered" /\ ~IsReturned(response) /\ at' = "failed"
    /\ UNCHANGED <<request, kind, response>>

\* A cookie of the backend that has the session's name goes.
Returns ==
    /\ at = "answered" /\ IsReturned(response) /\ at' = "done"
    /\ LET names == Stripped(response) \ {"backend-session"}
       IN  response' = Normalized(response,
                         IF kind = "websocket" THEN Restored(names) ELSE names)
    /\ UNCHANGED <<request, kind>>

Next == Receives \/ Rejects \/ Forwards \/ Answers \/ Fails \/ Returns
Spec == Init /\ [][Next]_vars
-----------------------------------------------------------------------------
\* The backend sees one framing, none of the headers that a Connection names, and not the
\* session; a handshake reaches it whole, whatever the client nominated; and the
\* connection switches only when both sides speak of the same handshake, without extensions.
HeadersAreNormal ==
    /\ at \in {"forwarded", "answered", "failed", "done"} =>
         /\ request.lengths = <<>> /\ request.codings = <<>> /\ "session" \notin request.names
         /\ "te" \notin request.names /\ (request.tokens \cap request.names \subseteq HopByHop)
         /\ kind = "http" => {"connection", "upgrade"} \cap request.names = {}
         /\ kind = "websocket" =>
              {"connection", "upgrade", "ws-key", "origin", "host"} \subseteq request.names
    /\ at = "done" /\ kind = "websocket" =>
         response.switching /\ response.accept = "expected" /\ ~response.extensions
           /\ response.selected \in request.offers \cup {"none"}
    /\ at = "done" /\ kind = "http" =>
         {"connection", "upgrade", "te", "backend-session"} \cap response.names = {}
=============================================================================
