--------------------------- MODULE MCHttpSession ---------------------------
(***************************************************************************)
(* Instances of HttpSession for TLC: what clients and servers send.        *)
(***************************************************************************)
EXTENDS HttpSession

\* The exclusive or of bytes below 32, from that of their bits.
Bit(n, i) == (n \div 2^i) % 2
XorOf5Bits ==
    [a, b \in 0..31 |->
        FoldLeft(LAMBDA sum, i : sum + 2^i * ((Bit(a, i) + Bit(b, i)) % 2), 0, <<0, 1, 2, 3, 4>>)]
XorByte(a, b) == XorOf5Bits[a, b]

Flagged(field, value, flags, length) ==
    [field |-> field, value |-> value, flags |-> flags, length |-> length]
Header(field, value) == Flagged(field, value, {}, NoLength)
LengthOf(n)      == Flagged(<<"Content-Length">>, <<n>>, {"length"}, n)
Chunked          == Flagged(<<"Transfer-Encoding">>, <<"chunked">>, {"chunked"}, NoLength)
Connection(flag) == Flagged(<<"Connection">>, <<flag>>, {flag}, NoLength)
UpgradeTo(value) == Flagged(<<"Up", "grade">>, value, {"upgrade"}, NoLength)

Request(head, framing, body) ==
    [request |-> TRUE, status |-> 0, http11 |-> TRUE, url |-> "path", head |-> head,
     framing |-> framing, body |-> body, trailer |-> <<>>, waits |-> FALSE, last |-> FALSE]
Response(status, head, framing, body) ==
    [Request(head, framing, body) EXCEPT !.request = FALSE, !.status = status, !.url = "none"]

\* Requests: with a header in pieces and one without a value, with a body, in
\* chunks, not to be kept alive, with a path that sHeadComplete refuses.
Split    == Request(<<Header(<<"X", "Id">>, <<1, 2>>), Header(<<"Y">>, <<>>), Header(<<"Z">>, <<3>>)>>, "none", <<>>)
Posted   == Request(<<LengthOf(2), Header(<<"X">>, <<4>>)>>, "length", <<<<5, 6>>>>)
Chunks   == [Request(<<Chunked>>, "chunked", <<<<7, 8>>, <<9>>>>) EXCEPT !.trailer = <<Header(<<"T">>, <<10>>)>>]
Ending   == [Request(<<Connection("close")>>, "none", <<>>) EXCEPT !.last = TRUE]
Old      == [Ending EXCEPT !.http11 = FALSE, !.head = <<LengthOf(0)>>]
OldKept  == [Old EXCEPT !.head = <<Connection("keepAlive"), LengthOf(1)>>, !.framing = "length",
                        !.body = <<<<11>>>>, !.last = FALSE]
NoPath   == [Ending EXCEPT !.url = "noPath"]
Twice    == Request(<<LengthOf(1), LengthOf(1)>>, "bad", <<<<12>>>>)
Both     == Request(<<LengthOf(1), Chunked>>, "bad", <<<<12>>>>)

\* Responses: one that ends with the stream, and those without a body.
ToEof    == [Response(200, <<Header(<<"X">>, <<13>>)>>, "eof", <<<<14, 15>>>>) EXCEPT !.last = TRUE]
NoBody   == Response(204, <<Header(<<"X">>, <<16>>)>>, "none", <<>>)
Found200 == Response(200, <<LengthOf(1)>>, "length", <<<<17>>>>)
Announced == Response(200, <<UpgradeTo(<<"h2c">>), Connection("connectionUpgrade"), LengthOf(1)>>, "length", <<<<18>>>>)

\* Upgrades: requests, for which the client waits, and a response.
Upgrade(value, more) ==
    [Request(<<UpgradeTo(value), Connection("connectionUpgrade")>> \o more, "none", <<>>) EXCEPT !.waits = TRUE]
ToWs    == Upgrade(<<"web", "socket">>, <<Header(<<"Key">>, <<19>>)>>)
ToOther == Upgrade(<<"h2c">>, <<>>)
Status101 == [Upgrade(<<"web", "socket">>, <<>>) EXCEPT !.request = FALSE, !.status = 101, !.url = "none", !.waits = FALSE]
Other101  == [Status101 EXCEPT !.head[1] = UpgradeTo(<<"h2c">>)]

Talk(messages, frames) == [messages |-> messages, frames |-> frames]

HttpTalks ==
    {Talk(<<m>>, <<>>) : m \in {Split, Posted, Chunks, Ending, Old, OldKept, NoPath, Twice, Both,
                                ToEof, NoBody, Found200, Announced, ToOther}} \cup
    {Talk(<<m, n>>, <<>>) : m \in {Split, Posted, Chunks, Ending}, n \in {Split, Posted, Chunks, NoPath}} \cup
    {Talk(<<NoBody, n>>, <<>>) : n \in {NoBody, ToEof}} \cup
    {Talk(<<Posted, ToWs>>, <<>>)}

\* Frames that a peer may send: i is its place, to tell payloads apart.
FrameOf(type, fin, payload) ==
    [type |-> type, fin |-> fin, mask |-> <<>>, payload |-> payload, length |-> Len(payload)]
Starts(i) ==
    {FrameOf(TextFrame, fin, <<i>>) : fin \in BOOLEAN} \cup
    {FrameOf(BinaryFrame, FALSE, <<>>), FrameOf(PingFrame, TRUE, <<i>>)}
Continues(i) ==
    {FrameOf(ContinuationFrame, fin, p) : fin \in BOOLEAN, p \in {<<>>, <<i, i + 10>>}} \cup
    {FrameOf(PingFrame, TRUE, <<i>>), FrameOf(CloseFrame, TRUE, <<>>)}

\* Whether a message is under way behind frames 1 to i.
Fragmented(frames, i) ==
    \E j \in 1..i : ~frames[j].fin /\ \A k \in j + 1..i : frames[k].type \in {PingFrame, CloseFrame}
Extended(S) ==
    UNION {{Append(f, g) : g \in IF Fragmented(f, Len(f)) THEN Continues(Len(f) + 1)
                                                         ELSE Starts(Len(f) + 1)} : f \in S}
MaskedWith(mask, frames) == [i \in DOMAIN frames |-> [frames[i] EXCEPT !.mask = mask]]

\* A frame whose length needs two bytes; and heads of frames whose payloads do
\* not come, with lengths around those at which the format changes.
Medium == FrameOf(BinaryFrame, TRUE, [i \in 1..Small + 1 |-> i])
Lengths ==
    {Small, Small + 1, ByteBase, Word - 1, Word, Word * ByteBase + 7,
     Unextractable - 1, Unextractable, Quad - 1}
Unsent(mask) == {[FrameOf(TextFrame, TRUE, <<>>) EXCEPT !.length = n, !.mask = mask] : n \in Lengths}

\* Clients mask their frames, servers do not.
AMask == <<21, 10, 0, 31>>
WsTalks ==
    {Talk(<<Status101>>, f) : f \in Extended(Extended(Extended({<<>>})))} \cup
    {Talk(<<ToWs>>, MaskedWith(AMask, f)) : f \in Extended(Extended({<<>>}))} \cup
    {Talk(<<ToWs>>, <<f>>) : f \in Unsent(AMask)} \cup
    {Talk(<<Status101>>, <<f>>) : f \in Unsent(<<>>)} \cup
    {Talk(<<Other101>>, <<FrameOf(TextFrame, TRUE, <<1>>)>>)} \cup
    {Talk(<<Status101>>, <<Medium>>), Talk(<<ToWs>>, MaskedWith(AMask, <<Medium>>))}

Talks == HttpTalks \cup WsTalks

\* All of them keep to the rules that the proofs ask for.
ASSUME TalksAssumption == \A c \in Talks : Proper(c)

=============================================================================
