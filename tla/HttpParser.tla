----------------------------- MODULE HttpParser -----------------------------
(***************************************************************************)
(* net/http/HttpParser.hpp and, as far as it decides where a message ends  *)
(* and what follows it, net/http/http_parser.h, as functions of a record.  *)
(*                                                                         *)
(* The bytes of a peer are units that segments may separate: the start of  *)
(* a message, a piece of a field or of a value, the end of a header line,  *)
(* the end of the headers, a byte of a body, the line of a chunk's size,   *)
(* the end of a chunk.                                                     *)
(***************************************************************************)
EXTENDS Integers, SequencesExt

Unit(kind, v) == [kind |-> kind, v |-> v]

NoLength == -1      \* ULLONG_MAX: no Content-Length

\* http_parser: at, error, stopped, request, status, http11, flags, length,
\* upgrade; HTTPParser: the members with its names.
NewParser ==
    [at |-> "start", error |-> FALSE, stopped |-> FALSE, request |-> TRUE, status |-> 0,
     http11 |-> TRUE, flags |-> {}, length |-> NoLength, upgrade |-> FALSE,
     mISCompleted |-> FALSE, mIsUpgrade |-> FALSE, mIsWebSocket |-> FALSE,
     mLastWasValue |-> TRUE, mCurrentField |-> <<>>, mHeadValues |-> <<>>,
     mUrl |-> "none", mBody |-> <<>>]

-----------------------------------------------------------------------------
(* The callbacks of HTTPParser. *)

\* Mutant: the headers of the message before are kept.
ClearParseKeepsHeaders(p) ==
    [p EXCEPT !.mISCompleted = FALSE, !.mIsUpgrade = FALSE, !.mIsWebSocket = FALSE,
              !.mLastWasValue = TRUE, !.mCurrentField = <<>>, !.mUrl = "none", !.mBody = <<>>]

\* clearParse
ClearParse(p) ==
    [p EXCEPT !.mISCompleted = FALSE, !.mIsUpgrade = FALSE, !.mIsWebSocket = FALSE,
              !.mLastWasValue = TRUE, !.mCurrentField = <<>>, !.mUrl = "none", !.mBody = <<>>,
              !.mHeadValues = <<>>]

\* std::map: the value of a field, empty if there is none.
ValueOf(headers, field) == IF field \in DOMAIN headers THEN headers[field] ELSE <<>>
With(headers, field, value) ==
    [f \in {field} \cup DOMAIN headers |-> IF f = field THEN value ELSE headers[f]]

\* sHeadField
HeadField(p, piece) ==
    [p EXCEPT !.mCurrentField = IF p.mLastWasValue THEN <<piece>> ELSE Append(@, piece),
              !.mLastWasValue = FALSE]

\* sHeadValue; of an empty value there is no piece.
HeadValue(p, pieces) ==
    LET value == ValueOf(p.mHeadValues, p.mCurrentField) \o pieces IN
    [p EXCEPT !.mHeadValues = With(@, p.mCurrentField, value), !.mLastWasValue = TRUE]

\* sMessageEnd
MessageEnd(p) == [p EXCEPT !.mISCompleted = TRUE]

-----------------------------------------------------------------------------
(* http_parser_execute. *)

Failed(p) == [p EXCEPT !.error = TRUE]

\* http_message_needs_eof
NeedsEof(p) ==
    ~p.request /\ p.status \div 100 # 1 /\ p.status \notin {204, 304}
    /\ "chunked" \notin p.flags /\ p.length = NoLength

\* http_should_keep_alive
KeepsAlive(p) ==
    (IF p.http11 THEN "close" \notin p.flags ELSE "keepAlive" \in p.flags) /\ ~NeedsEof(p)

\* Behind an upgrade http_parser stops; behind a message that is not to be kept
\* alive it accepts no other.
Complete(p) ==
    [MessageEnd(p) EXCEPT !.stopped = p.upgrade, !.at = IF KeepsAlive(p) THEN "start" ELSE "dead"]

\* The start line up to the target, in state s_start_req_or_res.
Start(p, v) ==
    [ClearParse(p) EXCEPT !.at = "head", !.flags = {}, !.length = NoLength,
                          !.request = v.request, !.status = v.status, !.http11 = v.http11]

\* The end of a header line [flags, length]: what it says of the message.  An
\* empty value is reported here.
Line(p, v) ==
    LET q == IF p.mLastWasValue THEN p ELSE HeadValue(p, <<>>) IN
    IF "length" \in v.flags \cap p.flags THEN Failed(q)
    ELSE [q EXCEPT !.flags = @ \cup v.flags,
                   !.length = IF "length" \in v.flags THEN v.length ELSE @]

\* s_headers_almost_done
Upgrades(p) ==
    {"upgrade", "connectionUpgrade"} \subseteq p.flags /\ (p.request \/ p.status = 101)

\* s_headers_done: what is expected of the body.
BodyStarts(p) ==
    CASE "chunked" \in p.flags -> [p EXCEPT !.at = "chunkSize"]
      [] "chunked" \notin p.flags /\ p.length \notin {NoLength, 0} -> [p EXCEPT !.at = "identity"]
      [] ~p.upgrade /\ NeedsEof(p) -> [p EXCEPT !.at = "eof"]
      [] OTHER -> Complete(p)

\* The end of the headers, or of the trailer of a chunked message.  sHeadComplete
\* refuses a target that has no path, such as that of a CONNECT request.
HeadersEnd(p) ==
    IF "trailing" \in p.flags THEN Complete(p)
    ELSE IF {"chunked", "length"} \subseteq p.flags \/ p.mUrl = "noPath" THEN Failed(p)
    ELSE BodyStarts([p EXCEPT !.upgrade = Upgrades(p)])

\* Mutant: a body of known length ends one byte late.
LastByteLate(p) == p.length = 0

\* s_body_identity, s_chunk_data: whether the next byte is the last one.
LastByte(p) == p.length = 1

\* A byte of a body.
Data(p, byte) ==
    LET q == [p EXCEPT !.mBody = Append(@, byte), !.length = IF @ = NoLength THEN @ ELSE @ - 1] IN
    CASE p.at = "identity" /\ LastByte(p) -> Complete(q)
      [] p.at = "chunkData" /\ LastByte(p) -> [q EXCEPT !.at = "chunkEnd"]
      [] OTHER -> q

\* s_chunk_size_almost_done
ChunkSize(p, n) ==
    IF n = 0 THEN [p EXCEPT !.length = 0, !.flags = @ \cup {"trailing"}, !.at = "head"]
             ELSE [p EXCEPT !.length = n, !.at = "chunkData"]

\* One unit, in a state that expects it.
Feed(p, u) ==
    CASE u.kind = "start" /\ p.at = "start" -> Start(p, u.v)
      [] u.kind = "url" /\ p.at = "head" -> [p EXCEPT !.mUrl = u.v]
      [] u.kind = "field" /\ p.at = "head" -> HeadField(p, u.v)
      [] u.kind = "value" /\ p.at = "head" -> HeadValue(p, <<u.v>>)
      [] u.kind = "line" /\ p.at = "head" -> Line(p, u.v)
      [] u.kind = "headersEnd" /\ p.at = "head" -> HeadersEnd(p)
      [] u.kind = "data" /\ p.at \in {"identity", "eof", "chunkData"} -> Data(p, u.v)
      [] u.kind = "chunkSize" /\ p.at = "chunkSize" -> ChunkSize(p, u.v)
      [] u.kind = "chunkEnd" /\ p.at = "chunkEnd" -> [p EXCEPT !.at = "chunkSize"]
      [] OTHER -> Failed(p)

\* The next unit; behind an error or an upgrade nothing is looked at.
Consumed(r, u) ==
    IF r.parser.error \/ r.parser.stopped THEN r
    ELSE LET q == Feed(r.parser, u) IN [parser |-> q, n |-> IF q.error THEN r.n ELSE r.n + 1]

\* How far it gets: run[i] is what became of the first i units.
Execute(p, s) ==
    LET run[i \in 0..Len(s)] ==
            IF i = 0 THEN [parser |-> [p EXCEPT !.stopped = FALSE], n |-> 0]
                     ELSE Consumed(run[i - 1], s[i])
    IN  run[Len(s)]

\* Without data, at the end of the stream: no state changes but mISCompleted.
ExecuteEof(p) ==
    CASE p.error \/ p.at \in {"start", "dead"} -> p
      [] ~p.error /\ p.at = "eof" -> MessageEnd(p)
      [] OTHER -> Failed(p)

-----------------------------------------------------------------------------
(* tryParse. *)

\* The test for an upgrade to WebSocket.
WebSocketUpgrade(q) ==
    q.upgrade /\ ValueOf(q.mHeadValues, <<"Up", "grade">>) = <<"web", "socket">>

\* Behind http_parser_execute: a completed http_parser is set up anew.
AfterExecute(q) ==
    IF q.mISCompleted
    THEN [q EXCEPT !.mIsUpgrade = q.upgrade, !.mIsWebSocket = WebSocketUpgrade(q),
                   !.at = "start", !.error = FALSE, !.stopped = FALSE,
                   !.upgrade = FALSE, !.flags = {}, !.length = 0]
    ELSE q

=============================================================================
