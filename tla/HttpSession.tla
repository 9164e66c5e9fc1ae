---------------------------- MODULE HttpSession ----------------------------
(***************************************************************************)
(* The HTTP and WebSocket side of one connection: net/http/HttpService.hpp *)
(* and makeHttpHandlers, over HttpParser and WebSocketFormat, on top of a  *)
(* TcpSession whose io_context has one thread.                             *)
(*                                                                         *)
(* HTTP is received in the units of HttpParser, frames byte by byte.  The  *)
(* steps are those between which user code runs: a callback of the user    *)
(* may close the session, and so may any other handler.                    *)
(***************************************************************************)
EXTENDS HttpParser, WebSocketFormat, FiniteSets, TLC

CONSTANTS
    Conversations,  \* what peers send: sets of [messages, frames]
    MaxUnread       \* receive buffer capacity, in units

VARIABLES
    sent,           \* the conversation: HTTP messages, then WebSocket frames
    network,        \* its units that were not received yet
    ended,          \* the end of the stream was received
    open,           \* the session's socket is open
    buffer,         \* received and unread
    parser,         \* HTTPParser and its http_parser
    pc,             \* where the data handler or the eof handler is, "idle", or
                    \* "done" if they ended with the session closed
    used,           \* units of the buffer that it has used
    cache,          \* mWSCacheFrame and mWSFrameType
    destroyed,      \* the data handler that runs was reset, by close
    crashed,        \* what is left of it was used
    calls,          \* history: the user's callbacks called, with what they got
    gaveUp          \* history: the session closed itself

handler == <<pc, used, destroyed>>
user    == <<crashed, calls, gaveUp>>
vars    == <<sent, network, ended, open, buffer, parser, cache, handler, user>>

\* The units of a message [request, status, http11, url, head, framing, body,
\* trailer, waits]: head and trailer are sequences of headers [field, value,
\* flags, length], each field and each value in pieces; body is a sequence of
\* chunks.  framing is how the sender marks the end: "none" is no body, "bad"
\* is two ways at once.  Behind what waits the peer sends nothing for now.
HeaderUnits(h) ==
    [i \in DOMAIN h.field |-> Unit("field", h.field[i])]
    \o [i \in DOMAIN h.value |-> Unit("value", h.value[i])]
    \o <<Unit("line", [flags |-> h.flags, length |-> h.length])>>
DataUnits(chunk) == [i \in DOMAIN chunk |-> Unit("data", chunk[i])]
ChunkUnits(chunk) == <<Unit("chunkSize", Len(chunk))>> \o DataUnits(chunk) \o <<Unit("chunkEnd", 0)>>
HeadUnits(m, head, waits) ==
    FlattenSeq([i \in DOMAIN head |-> HeaderUnits(head[i])]) \o <<Unit("headersEnd", waits)>>
MessageUnits(m) ==
    <<Unit("start", [request |-> m.request, status |-> m.status, http11 |-> m.http11])>>
    \o (IF m.request THEN <<Unit("url", m.url)>> ELSE <<>>)
    \o HeadUnits(m, m.head, m.waits)
    \o IF m.framing = "chunked"
       THEN FlattenSeq([i \in DOMAIN m.body |-> ChunkUnits(m.body[i])])
            \o <<Unit("chunkSize", 0)>> \o HeadUnits(m, m.trailer, FALSE)
       ELSE DataUnits(FlattenSeq(m.body))

\* The bytes of a frame [type, fin, mask, length, payload], as wsFrameBuild writes
\* them: a payload shorter than length is a frame that is not sent to its end.
FrameUnits(f) ==
    LET bytes == FrameHead(f.length, f.type, f.fin, f.mask) \o Masked(f.payload, f.mask)
    IN [i \in DOMAIN bytes |-> Unit("byte", bytes[i])]

Units(c) ==
    FlattenSeq([i \in DOMAIN c.messages |-> MessageUnits(c.messages[i])])
    \o FlattenSeq([i \in DOMAIN c.frames |-> FrameUnits(c.frames[i])])

\* What a peer sends is a sequence of units.
IsSeq(s) == Len(s) \in Nat /\ s = [i \in 1..Len(s) |-> s[i]]
ASSUME UnitsAssumption == \A c \in Conversations : IsSeq(Units(c))

-----------------------------------------------------------------------------
(* What a peer sends that keeps to the rules of HTTP and WebSocket. *)

FlagsOf(headers) == UNION {headers[i].flags : i \in DOMAIN headers}
LengthLines(headers) == {i \in DOMAIN headers : "length" \in headers[i].flags}
Upgrading(m) ==
    {"upgrade", "connectionUpgrade"} \subseteq FlagsOf(m.head) /\ (m.request \/ m.status = 101)
Bodiless(m) == m.request \/ m.status \div 100 = 1 \/ m.status \in {204, 304}
Good(m) == m.framing # "bad" /\ m.url # "noPath"

\* The headers say how the end of the body is marked, or contradict each other.
ProperFraming(m) ==
    LET chunked == "chunked" \in FlagsOf(m.head)
        body == FlattenSeq(m.body)
        Says(n) == \E i \in DOMAIN m.head : LengthLines(m.head) = {i} /\ m.head[i].length = n
    IN \/ m.framing = "chunked" /\ chunked /\ LengthLines(m.head) = {}
                                /\ \A i \in DOMAIN m.body : m.body[i] # <<>>
       \/ m.framing = "length"  /\ ~chunked /\ body # <<>> /\ Says(Len(body))
       \/ m.framing = "eof"     /\ ~chunked /\ LengthLines(m.head) = {} /\ ~Bodiless(m)
       \/ m.framing = "none"    /\ ~chunked /\ body = <<>>
                                /\ (Says(0) \/ (LengthLines(m.head) = {} /\ Bodiless(m)))
       \/ m.framing = "bad"     /\ (\/ chunked /\ LengthLines(m.head) # {}
                                    \/ \E i, j \in LengthLines(m.head) : i # j)

ProperHeader(h) ==
    /\ IsSeq(h.field) /\ h.field # <<>> /\ IsSeq(h.value)
    /\ h.flags \subseteq {"length", "chunked", "close", "keepAlive", "upgrade", "connectionUpgrade"}
    /\ h.length \in Int

\* No field comes twice, unless it contradicts itself, and a trailer says nothing of its message.
ProperMessage(m) ==
    /\ IsSeq(m.head) /\ IsSeq(m.trailer) /\ IsSeq(m.body)
    /\ \A i \in DOMAIN m.head : ProperHeader(m.head[i])
    /\ \A i \in DOMAIN m.trailer : ProperHeader(m.trailer[i]) /\ m.trailer[i].flags = {}
    /\ m.framing # "bad" => \A i, j \in DOMAIN m.head : i # j => m.head[i].field # m.head[j].field
    /\ \A i, j \in DOMAIN m.trailer : i # j => m.trailer[i].field # m.trailer[j].field
    /\ \A i \in DOMAIN m.head, j \in DOMAIN m.trailer : m.head[i].field # m.trailer[j].field
    /\ \A i \in DOMAIN m.body : IsSeq(m.body[i])
    /\ m.request \in BOOLEAN /\ m.status \in Nat /\ (m.url = "noPath" => m.request)
    /\ m.trailer # <<>> => m.framing = "chunked"
    /\ ProperFraming(m)

\* Nothing follows a message that asks for an upgrade or ends with the stream.
ProperMessages(messages) ==
    /\ IsSeq(messages)
    /\ \A i \in DOMAIN messages :
        /\ ProperMessage(messages[i])
        /\ Upgrading(messages[i]) \/ messages[i].framing = "eof" => i = Len(messages)

\* Only the last frame may be broken off, and what is longer than
\* wsFrameExtractBuffer takes is.
ProperFrame(f, last) ==
    /\ f.type \in FrameTypes /\ f.fin \in BOOLEAN
    /\ f.mask \in Seq(Byte) /\ Len(f.mask) \in {0, 4} /\ f.payload \in Seq(Byte)
    /\ f.length \in Nat /\ f.length < Quad /\ Len(f.payload) <= f.length
    /\ Len(f.payload) < f.length => last
    /\ f.length >= Unextractable => Len(f.payload) < f.length

\* A message that has begun and not ended when i frames are sent: it has to go
\* on with its next fragment, and only control frames may come in between.
HoldsData(f) == f.type \in {TextFrame, BinaryFrame, ContinuationFrame}
Underway(frames, i) ==
    \E j \in 1..i : ~frames[j].fin /\ \A k \in j + 1..i : ~HoldsData(frames[k])
ProperFrames(frames) ==
    /\ IsSeq(frames)
    /\ \A i \in DOMAIN frames :
        /\ ProperFrame(frames[i], i = Len(frames))
        /\ frames[i].fin \/ HoldsData(frames[i])
        /\ HoldsData(frames[i]) =>
               (frames[i].type = ContinuationFrame <=> Underway(frames, i - 1))

Proper(c) ==
    /\ ProperMessages(c.messages) /\ ProperFrames(c.frames)
    /\ \A i \in DOMAIN c.messages : c.messages[i].framing = "eof" => c.frames = <<>>

-----------------------------------------------------------------------------
(* The handlers that makeHttpHandlers gives to the session. *)

HttpCall(q) ==
    [cb |-> IF q.mIsWebSocket THEN "connected" ELSE "http",
     headers |-> q.mHeadValues, body |-> q.mBody]
WsCall(type, payload) == [cb |-> "ws", type |-> type, payload |-> payload]
ClosedCall == [cb |-> "closed"]

\* ProcessHttp's calls for a message that is complete: the key of a WebSocket
\* client is answered first.
Answers(q) ==
    (IF q.mIsWebSocket /\ <<"Key">> \in DOMAIN q.mHeadValues THEN <<[cb |-> "handshake"]>> ELSE <<>>)
    \o <<HttpCall(q)>>

Drop(s, n) == SubSeq(s, n + 1, Len(s))

\* close, called by this code or by the user: the closed handler is called,
\* and the data handler is reset.
Closed(noted) == open' = FALSE /\ calls' = IF open THEN Append(noted, ClosedCall) ELSE noted

\* Where the data handler ends: a receive that is started on a closed session
\* gets an error.
Rest(o) == IF o THEN "idle" ELSE "done"

\* ProcessHttp: whether a callback is called.
Reportable(q) == q.mISCompleted

\* ProcessHttp, up to the user's callback, with what is unread.  A parser that
\* is completed already is given nothing, and reports its message again.
ProcessHttp(b) ==
    LET r == IF parser.mISCompleted THEN [parser |-> parser, n |-> Len(b)]
             ELSE LET e == Execute(parser, b) IN [e EXCEPT !.parser = AfterExecute(e.parser)]
    IN /\ parser' = r.parser
       /\ IF Reportable(r.parser)
          THEN /\ calls' = calls \o Answers(r.parser)
               /\ pc' = "inHttp" /\ used' = r.n /\ buffer' = b
               /\ UNCHANGED <<open, gaveUp>>
          ELSE /\ buffer' = Drop(b, r.n)
               /\ IF r.n # Len(b) THEN Closed(calls) /\ gaveUp' = (gaveUp \/ open)
                                  ELSE UNCHANGED <<open, calls, gaveUp>>
               /\ pc' = Rest(open') /\ UNCHANGED used

\* Mutant: the upgrade is looked at by ProcessHttp only.
DataHandlerHttpOnly(b) ==
    ProcessHttp(b)

\* dataHandler, up to the first callback.  Of another protocol than WebSocket
\* nothing is used.
DataHandler(b) ==
    CASE parser.mIsWebSocket ->
           /\ pc' = "frames" /\ buffer' = b
           /\ UNCHANGED <<open, parser, used, calls, gaveUp>>
      [] parser.mIsUpgrade /\ ~parser.mIsWebSocket ->
           /\ buffer' = b
           /\ UNCHANGED <<open, parser, pc, used, calls, gaveUp>>
      [] OTHER -> ProcessHttp(b)

\* A client has to wait for the answer to its request for an upgrade.
MayFollow(u) == ~(u.kind = "headersEnd" /\ u.v)

\* A segment is received.
Receive(n) ==
    /\ pc = "idle" /\ open /\ ~ended /\ n <= MaxUnread - Len(buffer)
    /\ \A i \in 1..n - 1 : MayFollow(network[i])
    /\ network' = Drop(network, n)
    /\ DataHandler(buffer \o SubSeq(network, 1, n))
    /\ UNCHANGED <<sent, ended, cache, destroyed, crashed>>

\* dataHandler behind ProcessHttp: the session is closed if not all was used.
HttpReturn ==
    /\ pc = "inHttp"
    /\ buffer' = Drop(buffer, used) /\ used' = 0 /\ destroyed' = FALSE
    /\ IF used # Len(buffer)
       THEN /\ crashed' \in {FALSE, destroyed}
            /\ Closed(calls) /\ gaveUp' = (gaveUp \/ open)
       ELSE UNCHANGED <<crashed, open, calls, gaveUp>>
    /\ pc' = Rest(open')
    /\ UNCHANGED <<sent, network, ended, parser, cache>>

\* Mutant: every frame's type is kept, also that of a ping.
CacheTypeAlways(f) == IF f.opcode # ContinuationFrame THEN f.opcode ELSE cache.type

\* cacheWSFrameType: the type of a message is that of its first fragment.
CacheType(f) == IF ~f.fin /\ f.opcode # ContinuationFrame THEN f.opcode ELSE cache.type

\* leftLen and buffer
Advance(f) == used + f.frameSize

\* The bytes that are left, and what wsFrameExtractBuffer finds there.
Left == [i \in 1..Len(buffer) - used |-> buffer[used + i].v]
Found == ExtractHead(Left, Len(Left))

\* ProcessWebSocket: a frame is extracted, kept if it is a fragment, and the
\* callback called if it is the last one.
Frame ==
    LET f == Found
        payload == Payload(Left, f)
        fragments == IF ~f.fin \/ f.opcode = ContinuationFrame THEN cache.frame \o payload
                                                              ELSE cache.frame
        last == f.fin /\ f.opcode = ContinuationFrame
    IN /\ pc = "frames" /\ Found.whole
       /\ used' = Advance(f)
       /\ cache' = [frame |-> IF last THEN <<>> ELSE fragments, type |-> CacheType(f)]
       /\ IF f.fin
          THEN /\ calls' = Append(calls, IF last THEN WsCall(CacheType(f), fragments)
                                                 ELSE WsCall(f.opcode, payload))
               /\ pc' = "inWs"
          ELSE UNCHANGED <<calls, pc>>
       /\ crashed' \in {FALSE, destroyed /\ (f.fin \/ f.opcode # ContinuationFrame)}
       /\ UNCHANGED <<sent, network, ended, open, buffer, parser, destroyed, gaveUp>>

WsReturn ==
    /\ pc = "inWs" /\ pc' = "frames"
    /\ UNCHANGED <<sent, network, ended, open, buffer, parser, used, cache,
                   destroyed, user>>

\* ProcessWebSocket: no whole frame is left.
FrameAwaited ==
    /\ pc = "frames" /\ ~Found.whole
    /\ pc' = Rest(open) /\ buffer' = Drop(buffer, used) /\ used' = 0 /\ destroyed' = FALSE
    /\ UNCHANGED <<sent, network, ended, open, parser, cache, user>>

\* The end of the stream: eofHandler, up to the user's callback.  A close does
\* not reset this handler, and a receive may have ended before it already.
Eof ==
    /\ pc = "idle" /\ ~ended /\ network = <<>>
    /\ ended' = TRUE
    /\ IF parser.mISCompleted THEN UNCHANGED <<parser, calls, pc>>
       ELSE LET q == AfterExecute(ExecuteEof(parser)) IN
            /\ parser' = q
            /\ calls' = IF Reportable(q) THEN calls \o Answers(q) ELSE calls
            /\ pc' = IF Reportable(q) THEN "inEof" ELSE "idle"
    /\ UNCHANGED <<sent, network, open, buffer, used, cache, destroyed, crashed, gaveUp>>

EofReturn ==
    /\ pc = "inEof" /\ pc' = "idle"
    /\ UNCHANGED <<sent, network, ended, open, buffer, parser, used, cache,
                   destroyed, user>>

\* The user closes the session, from a handler of its own or from a callback.
Close ==
    /\ open /\ pc \in {"idle", "inHttp", "inWs", "inEof"}
    /\ Closed(calls)
    /\ destroyed' = (pc \in {"inHttp", "inWs"})
    /\ UNCHANGED <<sent, network, ended, buffer, parser, pc, used, cache,
                   crashed, gaveUp>>

Init ==
    /\ sent \in Conversations /\ network = Units(sent)
    /\ ended = FALSE /\ open = TRUE
    /\ buffer = <<>> /\ parser = NewParser
    /\ pc = "idle" /\ used = 0 /\ destroyed = FALSE
    /\ cache = [frame |-> <<>>, type |-> ErrorFrame]
    /\ crashed = FALSE /\ calls = <<>> /\ gaveUp = FALSE

Next ==
    /\ ~crashed
    /\ \/ \E n \in 1..Len(network) : Receive(n)
       \/ HttpReturn \/ Frame \/ WsReturn \/ FrameAwaited \/ Eof \/ EofReturn \/ Close

Spec == Init /\ [][Next]_vars

-----------------------------------------------------------------------------
(* Properties. *)

HeadersIn(headers) ==
    [field \in {h.field : h \in headers} |-> (CHOOSE h \in headers : h.field = field).value]
HeadersOf(m) == HeadersIn(ToSet(m.head) \cup ToSet(m.trailer))

\* What a sequence holds at some of its places, in its order.
At(s, places) ==
    LET kept[i \in 0..Len(s)] ==
            IF i = 0 THEN <<>>
            ELSE IF i \in places THEN Append(kept[i - 1], s[i]) ELSE kept[i - 1]
    IN kept[Len(s)]
CallsOf(cbs) == At(calls, {i \in DOMAIN calls : calls[i].cb \in cbs})
HttpCalls == CallsOf({"http", "connected"})

\* However the bytes of a message are cut, and whatever precedes it, a callback
\* gets the headers and the body of one message that the peer sent: never of
\* one that is not complete, and never of two.
WholeMessages ==
    \A c \in ToSet(HttpCalls) : \E m \in ToSet(sent.messages) :
        c.headers = HeadersOf(m) /\ c.body = FlattenSeq(m.body)

\* A peer that sends one message on its connection has it reported once,
\* whichever way its end is marked: as soon as all of it was received, and
\* never if its headers contradict each other or its target has no path.
OneMessageOneCall ==
    LET m == sent.messages[1]
    IN Len(sent.messages) = 1 /\ sent.frames = <<>> =>
        /\ Len(HttpCalls) <= IF Good(m) THEN 1 ELSE 0
        /\ Good(m) /\ pc = "idle" /\ open /\ network = <<>> /\ (m.framing = "eof" => ended)
               => Len(HttpCalls) = 1

\* A message ends with its final frame, and holds the fragments from the last
\* start of a message on; control frames in between are messages of their own.
First(frames, i) == Max({j \in 1..i : frames[j].type \in {TextFrame, BinaryFrame}})
Fragments(frames, i) ==
    At([j \in 1..i |-> frames[j].payload],
       {j \in 1..i : j >= First(frames, i) /\ HoldsData(frames[j])})
Message(frames, i) ==
    IF HoldsData(frames[i])
    THEN WsCall(frames[First(frames, i)].type, FlattenSeq(Fragments(frames, i)))
    ELSE WsCall(frames[i].type, frames[i].payload)
Messages(frames) ==
    At([i \in DOMAIN frames |-> Message(frames, i)], {i \in DOMAIN frames : frames[i].fin})

\* How many bytes are sent behind frame i, and the frames that were received
\* when only the last n bytes are missing.
Behind(i) == Len(Units([messages |-> <<>>, frames |-> Drop(sent.frames, i)]))
ReceivedBut(n) ==
    {i \in DOMAIN sent.frames : n <= Behind(i) /\ sent.frames[i].length = Len(sent.frames[i].payload)}

\* Between the handlers of an open session, the messages whose last frame was
\* received have been given to the user, in order, whole and with their type,
\* and no others: no segment boundary delays, splits or joins them, and no
\* length or mask is misread.
WsInOrder ==
    pc = "idle" /\ open /\ parser.mIsWebSocket =>
        CallsOf({"ws"})
            = Messages(SubSeq(sent.frames, 1, Cardinality(ReceivedBut(Len(network)))))

\* ProcessWebSocket looks for a frame only where the peer began one.  As soon
\* as its head is there the frame will be found with its last byte and not
\* before, with its length, type and mask, unless its length needs 32 bits:
\* then never, whatever follows.
FramesAligned ==
    pc = "frames" =>
        \E i \in 0..Len(sent.frames) :
            /\ Behind(i) = Len(network) + Len(Left)
            /\ i < Len(sent.frames) =>
                 LET f == sent.frames[i + 1]
                     head == Len(FrameHead(f.length, f.type, f.fin, f.mask))
                     seen == ExtractHead(Left, head + f.length)
                 IN Len(Left) >= head =>
                      /\ ~ExtractHead(Left, head + f.length - 1).whole
                      /\ seen.whole <=> f.length < Unextractable
                      /\ seen.whole => /\ seen.opcode = f.type /\ seen.fin = f.fin
                                       /\ seen.mask = f.mask /\ seen.payloadlen = f.length
                                       /\ seen.pos = head

\* The connection turns to WebSocket once: nothing is reported as HTTP behind
\* that, and no WebSocket message before it; and a client's key is answered
\* right before its connection is reported, not again by a later segment.
UpgradeOnce ==
    /\ \A i, j \in DOMAIN calls : i < j =>
        /\ calls[i].cb = "connected" => calls[j].cb \notin {"http", "connected", "handshake"}
        /\ calls[i].cb = "ws" => calls[j].cb \notin {"http", "connected", "handshake"}
    /\ \A i \in DOMAIN calls : calls[i].cb = "connected" =>
        (<<"Key">> \in DOMAIN calls[i].headers <=> i > 1 /\ calls[i - 1].cb = "handshake")

\* makeHttpHandlers says that what http_parser_execute leaves unused indicates
\* an error: the session closes itself only for what no parser accepts.
GivesUpOnErrors ==
    gaveUp => \E m \in ToSet(sent.messages) :
        m.url = "noPath" \/ m.framing = "bad" \/ m.last

=============================================================================
