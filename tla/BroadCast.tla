------------------------------ MODULE BroadCast ------------------------------
(***************************************************************************)
(* The packet framing of base/Packet.hpp at work, in the broadcast server  *)
(* and its clients (examples/): every client sends one packet when its     *)
(* session is established; the server hands each packet it reads to its    *)
(* main loop, which sends it to every session in its list; a client that   *)
(* reads its own packet sends it again.  The sessions are the streams that *)
(* TcpSession and SendStream specify: ordered, cut anywhere, ended by a    *)
(* close.  The data handlers run in session threads, the list of sessions  *)
(* belongs to the main loop's thread, and only the order in which tasks    *)
(* are dispatched to that loop keeps the two together.                     *)
(***************************************************************************)
EXTENDS Packet, FiniteSets, SequencesExt

CONSTANTS
  Clients,      \* the clients' sessions, here called by their client
  PacketSize,   \* [Clients -> Nat], the length of what each of them sends
  Word,         \* sizeof(uint32_t): the magic number and the length
  OpSize,       \* sizeof(uint16_t)
  AddrSize,     \* sizeof(int64_t): the address of the sending session
  Capacity,     \* the room of the AutoMallocPacket a packet is written to
  BufferSizes,  \* the sizes a receive buffer may have
  MaxRounds,    \* how often a client sends its packet again
  Chunks        \* the numbers of bytes one receive may bring, besides all

VARIABLES
  session,      \* the server's session of each client
  up,           \* the bytes on their way from each client
  upBuffer,     \* the bytes the server has received and not consumed
  members,      \* clients, the list of sessions of the main loop
  tasks,        \* what is dispatched to the main loop and has not run
  client,       \* the session at each client
  down,         \* the bytes on their way to each client
  downBuffer,   \* the bytes the client has received and not consumed
  rounds,       \* how often each client has seen its packet come back
  failed,       \* the sessions whose data handler threw
  maxUnread     \* the size of the receive buffers (WithRecvBufferSize)

vars == <<session, up, upBuffer, members, tasks,
          client, down, downBuffer, rounds, failed, maxUnread>>

----------------------------------------------------------------------------
(* The packets.  A byte is the client whose packet it is of and its place. *)

\* What the length field says: everything after the magic number.
PacketLen(c) == Word + OpSize + AddrSize + PacketSize[c]

ASSUME SizesAssumption ==
  /\ {Word, AddrSize} \subseteq Nat \ {0}
  /\ {OpSize, Capacity, MaxRounds} \cup BufferSizes \cup Chunks \subseteq Nat
  /\ PacketSize \in [Clients -> Nat]

\* What is in memory can be counted: a receive buffer, and a writer's buffer
\* with the packet in it.
ASSUME MemoryAssumption ==
  /\ \A size \in BufferSizes : size < SizeMod
  /\ \A c \in Clients : Capacity + Word + PacketLen(c) < SizeMod

Bytes(c, first, n) == [i \in 1..n |-> <<c, first + i - 1>>]

\* The establish handler of the client: the fields are written one by one
\* to a writer that may grow.
Written(c) ==
  LET magic == Write(NewWriter(Capacity, TRUE), Bytes(c, 1, Word), TRUE)
      len   == Write(magic, Bytes(c, Word + 1, Word), TRUE)
      op    == Write(len, Bytes(c, 2 * Word + 1, OpSize), TRUE)
      addr  == Write(op, Bytes(c, 2 * Word + OpSize + 1, AddrSize), TRUE)
  IN  Write(addr, Bytes(c, 2 * Word + OpSize + AddrSize + 1, PacketSize[c]), TRUE)

Packets == [c \in Clients |-> Written(c).data]

PacketOf(c) == Packets[c]

\* The bytes behind the reader's position are those of a uint32_t at the
\* given place of some packet.
IsWord(buf, pos, place) ==
  SubSeq(buf, pos + 1, pos + Word) = Bytes(buf[pos + 1][1], place, Word)

AfterMagic(pos) == Plus(pos, Word)

AfterLength(pos) == Plus(AfterMagic(pos), Word)

\* The length of the packet at a position, read behind its magic number.
LengthAt(buf, pos) == PacketLen(buf[AfterMagic(pos) + 1][1])

\* What that packet still has after its length.
RestAt(buf, pos) == Minus(LengthAt(buf, pos), Word)

\* The data handlers throw a runtime_error on another magic number.
BadMagic(buf, pos) == Enough(Len(buf), pos, Word) /\ ~IsWord(buf, pos, 1)

\* The tests of both data handlers: magic, length and as many bytes as the
\* length, less its own, says.
Whole(buf, pos) ==
  /\ Enough(Len(buf), pos, Word)
  /\ IsWord(buf, pos, 1)
  /\ Enough(Len(buf), AfterMagic(pos), Word)
  /\ Enough(Len(buf), AfterLength(pos), RestAt(buf, pos))

\* The packet as the handlers copy it: from where the magic number starts.
PacketAt(buf, pos) == SubSeq(buf, pos + 1, pos + LengthAt(buf, pos) + Word)

\* mutant: the length taken to leave out its own bytes.
ServerRestAndWord(buf, pos) == LengthAt(buf, pos)

\* What the server skips with addPos once it has copied the packet.
ServerRest(buf, pos) == RestAt(buf, pos)

ServerInBounds(buf, pos) == CanMove(Len(buf), AfterLength(pos), ServerRest(buf, pos))

ServerSkips(buf, pos) == Plus(AfterLength(pos), ServerRest(buf, pos))

\* The client reads the operation and the address without asking whether
\* they are there, and skips the rest of the packet.
AfterOp(pos) == Plus(AfterLength(pos), OpSize)

AfterAddr(pos) == Plus(AfterOp(pos), AddrSize)

ClientRest(buf, pos) == Minus(Minus(RestAt(buf, pos), OpSize), AddrSize)

ClientSkips(buf, pos) == Plus(AfterAddr(pos), ClientRest(buf, pos))

\* The address in the packet there is that of the client's session.
OwnAt(c, buf, pos) == buf[AfterOp(pos) + 1][1] = c

\* None of the client's reads throws out_of_range, nor its addPos.
ClientInBounds(buf, pos) ==
  /\ CanMove(Len(buf), AfterLength(pos), OpSize)
  /\ CanMove(Len(buf), AfterOp(pos), AddrSize)
  /\ CanMove(Len(buf), AfterAddr(pos), ClientRest(buf, pos))

\* How far a data handler is: the packets it took and the position it saved.
Readings == [packets : Seq(Seq(Clients \X Nat)), saved : Nat]

Reading == [packets |-> <<>>, saved |-> 0]

\* A turn of the server's loop; without a whole packet it ends.
ServerTurn(buf) ==
  [r \in Readings |->
     IF Whole(buf, r.saved) /\ ServerInBounds(buf, r.saved)
       THEN [packets |-> Append(r.packets, PacketAt(buf, r.saved)),
             saved   |-> ServerSkips(buf, r.saved)]
       ELSE r]

\* A turn of the client's, which takes the packets of its own session c.
ClientTurn(c, buf) ==
  [r \in Readings |->
     IF ~(Whole(buf, r.saved) /\ ClientInBounds(buf, r.saved)) THEN r
     ELSE [packets |-> IF OwnAt(c, buf, r.saved)
                         THEN Append(r.packets, PacketAt(buf, r.saved)) ELSE r.packets,
           saved   |-> ClientSkips(buf, r.saved)]]

\* The data handlers: no more turns than bytes, since each takes a packet.
ServerRead(buf) ==
  LET turn[i \in 0..Len(buf)] == IF i = 0 THEN Reading ELSE ServerTurn(buf)[turn[i - 1]]
  IN  turn[Len(buf)]

ClientRead(c, buf) ==
  LET turn[i \in 0..Len(buf)] == IF i = 0 THEN Reading ELSE ClientTurn(c, buf)[turn[i - 1]]
  IN  turn[Len(buf)]

\* It threw: there it found another magic number, or a move out of bounds.
Threw(buf, end) == BadMagic(buf, end.saved) \/ Whole(buf, end.saved)

\* mutant: the owner consumes up to currentPos(), a magic number read too many.
UnconsumedFromPos(buf, end) ==
  SubSeq(buf, (IF Enough(Len(buf), end.saved, Word) THEN AfterMagic(end.saved)
                                                    ELSE end.saved) + 1, Len(buf))

\* What stays in the receive buffer: the owner consumes up to savedPos().
Unconsumed(buf, end) == SubSeq(buf, end.saved + 1, Len(buf))

----------------------------------------------------------------------------
(* The server: establishing a session, its data handler, its close. *)

\* mutant: before what already waits there.
DispatchedFirst(new) == new \o tasks

\* dispatch to the main loop from another thread: at the end of its queue.
Dispatched(new) == tasks \o new

Task(op, c, packet) == [op |-> op, session |-> c, packet |-> packet]

\* The establish handler; the session is not yet receiving.
Established(c) ==
  /\ session[c] = "none"
  /\ session' = [session EXCEPT ![c] = "established"]
  /\ tasks' = Dispatched(<<Task("add", c, <<>>)>>)
  /\ UNCHANGED <<up, upBuffer, members, client, down, downBuffer, rounds, failed, maxUnread>>

StartRecv(c) ==
  /\ session[c] = "established"
  /\ session' = [session EXCEPT ![c] = "open"]
  /\ UNCHANGED <<up, upBuffer, members, tasks, client, down, downBuffer, rounds, failed, maxUnread>>

\* A receive completes with the first n bytes and the data handler runs.  A
\* packet is handed to the main loop under the session it was read from.
ServerReceives(c, n) ==
  /\ session[c] = "open" /\ c \notin failed
  /\ up' = [up EXCEPT ![c] = SubSeq(@, n + 1, Len(@))]
  /\ UNCHANGED <<session, members, client, down, downBuffer, rounds, maxUnread>>
  /\ \E buf \in {upBuffer[c] \o SubSeq(up[c], 1, n)} : \E end \in {ServerRead(buf)} :
         /\ upBuffer' = [upBuffer EXCEPT ![c] = Unconsumed(buf, end)]
         /\ tasks' = Dispatched([i \in 1..Len(end.packets) |->
                                   Task("broadcast", c, end.packets[i])])
         /\ failed' = IF Threw(buf, end) THEN failed \cup {c} ELSE failed

\* The connection is gone for the server: the closed handler.
ServerCloses(c) ==
  /\ session[c] = "open"
  /\ session' = [session EXCEPT ![c] = "closed"]
  /\ up' = [up EXCEPT ![c] = <<>>]
  /\ upBuffer' = [upBuffer EXCEPT ![c] = <<>>]
  /\ tasks' = Dispatched(<<Task("remove", c, <<>>)>>)
  /\ UNCHANGED <<members, client, down, downBuffer, rounds, failed, maxUnread>>

----------------------------------------------------------------------------
(* The main loop runs its tasks in order. *)

InList(c) == \E i \in DOMAIN members : members[i] = c

\* removeClientID erases the first entry of the session.
Without(c) ==
  IF ~InList(c) THEN members
  ELSE LET i == CHOOSE k \in DOMAIN members :
                  members[k] = c /\ \A j \in 1..(k - 1) : members[j] # c
       IN  SubSeq(members, 1, i - 1) \o SubSeq(members, i + 1, Len(members))

\* broadCastPacket: what the sessions of the list have to send then.  A
\* closed session drops it, and so does one whose client is gone.
SentToAll(packet) ==
  [c \in Clients |->
     IF InList(c) /\ session[c] # "closed" /\ client[c] # "closed"
       THEN down[c] \o packet ELSE down[c]]

MainLoop ==
  /\ tasks # <<>>
  /\ tasks' = Tail(tasks)
  /\ LET t == Head(tasks) IN
       /\ members' = CASE t.op = "add"    -> Append(members, t.session)
                       [] t.op = "remove" -> Without(t.session)
                       [] OTHER           -> members
       /\ down' = IF t.op = "broadcast" THEN SentToAll(t.packet) ELSE down
  /\ UNCHANGED <<session, up, upBuffer, client, downBuffer, rounds, failed, maxUnread>>

----------------------------------------------------------------------------
(* The clients. *)

\* What a client sends reaches the stream unless the server's end is closed.
Upwards(c, bytes) ==
  IF session[c] = "closed" THEN up ELSE [up EXCEPT ![c] = @ \o bytes]

ClientEstablished(c) ==
  /\ client[c] = "none"
  /\ client' = [client EXCEPT ![c] = "open"]
  /\ up' = Upwards(c, PacketOf(c))
  /\ UNCHANGED <<session, upBuffer, members, tasks, down, downBuffer, rounds, failed, maxUnread>>

\* A receive completes with n bytes; each packet of its own the client sends
\* again, as it was read.
ClientReceives(c, n) ==
  /\ client[c] = "open" /\ c \notin failed
  /\ down' = [down EXCEPT ![c] = SubSeq(@, n + 1, Len(@))]
  /\ UNCHANGED <<session, upBuffer, members, tasks, client, maxUnread>>
  /\ \E buf \in {downBuffer[c] \o SubSeq(down[c], 1, n)} : \E end \in {ClientRead(c, buf)} :
         /\ downBuffer' = [downBuffer EXCEPT ![c] = Unconsumed(buf, end)]
         /\ rounds' = [rounds EXCEPT ![c] = @ + Len(end.packets)]
         /\ up' = IF rounds[c] < MaxRounds
                    THEN Upwards(c, FlattenSeq(end.packets)) ELSE up
         /\ failed' = IF Threw(buf, end) THEN failed \cup {c} ELSE failed

\* The client ends; what was on its way to it is lost.
ClientCloses(c) ==
  /\ client[c] = "open"
  /\ client' = [client EXCEPT ![c] = "closed"]
  /\ down' = [down EXCEPT ![c] = <<>>]
  /\ downBuffer' = [downBuffer EXCEPT ![c] = <<>>]
  /\ UNCHANGED <<session, up, upBuffer, members, tasks, rounds, failed, maxUnread>>

----------------------------------------------------------------------------
Init ==
  /\ session = [c \in Clients |-> "none"]
  /\ up = [c \in Clients |-> <<>>]
  /\ upBuffer = [c \in Clients |-> <<>>]
  /\ members = <<>>
  /\ tasks = <<>>
  /\ client = [c \in Clients |-> "none"]
  /\ down = [c \in Clients |-> <<>>]
  /\ downBuffer = [c \in Clients |-> <<>>]
  /\ rounds = [c \in Clients |-> 0]
  /\ failed = {}
  /\ maxUnread \in BufferSizes

\* One receive brings as much as Chunks says, or all there is, or all there is
\* room for.  Without room startAsyncRecv throws "buffer size is zero", and the
\* session never receives again.
Brings(stream, buffer) ==
  LET room == maxUnread - Len(buffer)
  IN  {n \in Chunks \cup {Len(stream), room} : n \in 1..Len(stream) /\ n <= room}

ServerReceive(c) == \E n \in Brings(up[c], upBuffer[c]) : ServerReceives(c, n)

ClientReceive(c) == \E n \in Brings(down[c], downBuffer[c]) : ClientReceives(c, n)

Next ==
  \/ \E c \in Clients :
       \/ Established(c) \/ StartRecv(c) \/ ServerReceive(c) \/ ServerCloses(c)
       \/ ClientEstablished(c) \/ ClientReceive(c) \/ ClientCloses(c)
  \/ MainLoop

\* The io_context threads run what is ready and TCP delivers what was sent
\* while the connection stands; nothing obliges a connection to end.
Fairness ==
  /\ WF_vars(MainLoop)
  /\ \A c \in Clients :
       /\ WF_vars(Established(c) \/ StartRecv(c) \/ ServerReceive(c))
       /\ WF_vars(ClientEstablished(c) \/ ClientReceive(c))

Spec == Init /\ [][Next]_vars /\ Fairness

----------------------------------------------------------------------------
(* Properties *)

\* However the streams are cut, no data handler throws, and what the server
\* broadcasts is always one whole packet of the session it was read from.
WholePackets ==
  /\ failed = {}
  /\ \A i \in DOMAIN tasks :
       tasks[i].op = "broadcast" => tasks[i].packet = PacketOf(tasks[i].session)

\* How many packets of a client start in some bytes.
StartsIn(c, bytes) == Cardinality({i \in DOMAIN bytes : bytes[i] = <<c, 1>>})

Circulating(c) ==
  StartsIn(c, upBuffer[c] \o up[c]) + StartsIn(c, downBuffer[c] \o down[c])
    + Cardinality({i \in DOMAIN tasks : tasks[i].op = "broadcast" /\ tasks[i].session = c})

\* While both ends of a session stand, its packet exists exactly once on
\* its way round: the session is in the main loop's list whenever a packet
\* of its own is broadcast, and no packet is read twice or skipped.
OnePacketCirculates ==
  \A c \in Clients :
    client[c] = "open" /\ session[c] # "closed" =>
      Circulating(c) = IF rounds[c] > MaxRounds THEN 0 ELSE 1

\* The main loop's list holds each session at most once, and a session that
\* is closed leaves it: it is not in the list unless its removal still waits.
NoClosedMember ==
  \A c \in Clients :
    /\ Cardinality({i \in DOMAIN members : members[i] = c}) <= 1
    /\ session[c] = "closed" /\ InList(c) =>
         \E i \in DOMAIN tasks : tasks[i] = Task("remove", c, <<>>)

\* A client that stays connected gets its packet back every time it sends it,
\* if a receive buffer has room for the whole of it: whatever the other clients
\* do, those among them whose packet is too long for the buffers.
PacketReturns ==
  \A c \in Clients :
    client[c] = "open" /\ Len(PacketOf(c)) <= maxUnread ~>
      rounds[c] > MaxRounds \/ client[c] = "closed" \/ session[c] = "closed"

=============================================================================
