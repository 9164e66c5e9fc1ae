--------------------------- MODULE ReceiveBuffer ---------------------------
(***************************************************************************)
(* The receive buffer of net/TcpSession.hpp: an asio::streambuf whose      *)
(* memory the session grows, moves and shrinks between receives.           *)
(*                                                                         *)
(* A session has one io thread here, so that each handler is one step.     *)
(* Bytes are counted, not represented.                                     *)
(***************************************************************************)
EXTENDS Integers, Sequences

CONSTANTS
    MaxSize,      \* streambuf::max_size, at least 1024
    InitialSize,  \* streambuf's memory to begin with: buffer_delta, 128
    GrowBy,       \* by how much the i-th growth extends the buffer, then 0
    Received,     \* bound: the amounts received that are not the whole window
    Left,         \* bound: the amounts a data handler leaves, if not everything
    MaxShrinks    \* bound: calls of shrinkReceiveBuffer

ASSUME SizesAssumption == InitialSize \in Nat \ {0} /\ MaxSize \in Nat /\ InitialSize <= MaxSize
ASSUME GrowByAssumption == GrowBy \in Seq(Nat)
ASSUME BoundsAssumption == Received \cup Left \subseteq Nat /\ MaxShrinks \in Nat

\* The capacity after i growths, at least.
Reach[i \in 0..Len(GrowBy)] == IF i = 0 THEN InitialSize ELSE Reach[i - 1] + GrowBy[i]

\* The growths are the integer parts of max_size's share of tanh's steps: they
\* get smaller down to 0, and what truncation loses is less than InitialSize.
ASSUME GrowthAssumption ==
    (\A i \in DOMAIN GrowBy : GrowBy[i] > 0) /\ Reach[Len(GrowBy)] >= MaxSize

VARIABLES
    \* gnext, pnext, pend: streambuf's offsets gptr, pptr, epptr
    \* capacity: of its vector, whose size is pend
    \* tooLong: history: length_error was thrown
    \* pos: mReceivePos
    \* growths: mCurrentTanhXDiff / 0.2, at most Len(GrowBy)
    \* posted: size of the memory given to async_receive; 0 iff ~mRecvPosted
    \* disturbed: history: memory was moved or freed while a receive wrote to it
    buf,
    mNeedShrinkReceiveBuffer,
    started,      \* history: startRecv was called
    unread,       \* history: bytes received and not consumed
    shrinks       \* how much of MaxShrinks is used

vars == <<buf, mNeedShrinkReceiveBuffer, started, unread, shrinks>>

Least(a, b) == IF a <= b THEN a ELSE b
Most(a, b) == IF a <= b THEN b ELSE a

-----------------------------------------------------------------------------
(* asio::streambuf. *)

\* size(), of the bytes that can be read
SizeOf(b) == b.pnext - b.gnext

\* std::vector::resize to a larger size, by libstdc++'s policy.
VectorCapacity(b, size) == IF size <= b.capacity THEN b.capacity ELSE Most(2 * b.pend, size)

\* Whether reserve throws length_error.
TooLong(pnext, n) == n > MaxSize \/ pnext > MaxSize - n

\* prepare(n), and reserve that does the work: nothing when n bytes are free
\* at the end; else the unread bytes move to the front, and the vector grows.
Prepare(b, n) ==
    LET pnext == b.pnext - b.gnext
        pend  == Most(b.pend, pnext + n)
    IN CASE n <= b.pend - b.pnext -> b
         [] n > b.pend - pnext /\ TooLong(pnext, n) -> [b EXCEPT !.tooLong = TRUE]
         [] OTHER ->
                [b EXCEPT !.gnext = 0, !.pnext = pnext, !.pend = pend,
                          !.capacity = VectorCapacity(b, pend),
                          !.disturbed = b.disturbed \/ b.posted > 0]

\* commit(n): at most the memory up to epptr
Commit(b, n) == [b EXCEPT !.pnext = b.pnext + Least(n, b.pend - b.pnext)]

\* consume(n): at most the bytes that can be read
Consume(b, n) == [b EXCEPT !.gnext = b.gnext + Least(n, SizeOf(b))]

-----------------------------------------------------------------------------
(* The session's use of it. *)

MaxValid(b) == Least(b.capacity, MaxSize)

\* By how much growReceiveBuffer wants to grow the capacity.
SizeDiff(b) == IF b.growths < Len(GrowBy) THEN GrowBy[b.growths + 1] ELSE 0

\* Mutant: the bound by max_size is forgotten.
GrowUnbounded(b) ==
    LET newCapacity == b.capacity + SizeDiff(b)
        grown == [b EXCEPT !.growths = Least(b.growths + 1, Len(GrowBy))]
        p == Prepare(grown, newCapacity - SizeOf(b))
    IN [p EXCEPT !.pos = SizeOf(p)]

\* growReceiveBuffer
Grow(b) ==
    LET newCapacity == Least(b.capacity + SizeDiff(b), MaxSize)
        grown == [b EXCEPT !.growths = Least(b.growths + 1, Len(GrowBy))]
        p == Prepare(grown, newCapacity - SizeOf(b))
    IN [p EXCEPT !.pos = SizeOf(p)]

\* moveReceiveBuffer
Move(b) ==
    LET p == Prepare(b, MaxValid(b) - SizeOf(b)) IN [p EXCEPT !.pos = SizeOf(p)]

\* Mutant: a full buffer is moved, not grown.
AdjustNeverGrows(b) ==
    LET e == IF SizeOf(b) = 0 THEN [b EXCEPT !.pos = 0] ELSE b
    IN IF MaxValid(e) > e.pos THEN e ELSE Move(e)

\* adjustReceiveBuffer
Adjust(b) ==
    LET e == IF SizeOf(b) = 0 THEN [b EXCEPT !.pos = 0] ELSE b
    IN CASE MaxValid(e) > e.pos -> e
         [] MaxValid(e) <= e.pos /\ MaxValid(e) = SizeOf(e) -> Grow(e)
         [] OTHER -> Move(e)

\* Mutant: the memory is used without having been prepared.
StartUnprepared(b) ==
    IF b.posted > 0 THEN b
    ELSE LET a == Adjust(b) IN [a EXCEPT !.posted = MaxValid(a) - a.pos]

\* startAsyncRecv, when the socket is open.  Its async_receive writes to the
\* memory from pnext on; no memory is an exception, caught, and no receive.
StartAsyncRecv(b) ==
    IF b.posted > 0 THEN b
    ELSE LET a == Adjust(b)
             n == MaxValid(a) - a.pos
             p == Prepare(a, n)
         IN IF p.tooLong THEN p ELSE [p EXCEPT !.posted = n]

Empty(growths) ==
    [gnext |-> 0, pnext |-> 0, pend |-> InitialSize, capacity |-> InitialSize,
     tooLong |-> FALSE, pos |-> 0, growths |-> growths, posted |-> 0, disturbed |-> FALSE]

\* Mutant: the buffer is replaced while a receive writes to it.
ShrinkWhilePosted(b) ==
    LET size == SizeOf(b)
        tmp == Prepare([Empty(b.growths) EXCEPT !.tooLong = b.tooLong], size)
        put == Commit(tmp, size)
        twice == Commit(put, size)
    IN [twice EXCEPT !.pos = SizeOf(twice), !.posted = b.posted,
                     !.disturbed = b.disturbed \/ b.posted > 0]

\* doShrinkReceiveBuffer: the bytes are put into a new streambuf.  sputn has
\* committed them when commit is called with their number once more.
Shrink(b) ==
    LET size == SizeOf(b)
        tmp == Prepare([Empty(b.growths) EXCEPT !.tooLong = b.tooLong,
                                                !.disturbed = b.disturbed], size)
        put == Commit(tmp, size)
        twice == Commit(put, size)
    IN IF b.posted > 0 THEN b ELSE [twice EXCEPT !.pos = SizeOf(twice)]

-----------------------------------------------------------------------------

\* startRecv
StartRecv ==
    /\ buf' = StartAsyncRecv(buf)
    /\ started' = TRUE
    /\ UNCHANGED <<mNeedShrinkReceiveBuffer, unread, shrinks>>

\* shrinkReceiveBuffer, not called by the data handler
ShrinkReceiveBuffer ==
    /\ shrinks < MaxShrinks
    /\ mNeedShrinkReceiveBuffer' = TRUE
    /\ shrinks' = shrinks + 1
    /\ UNCHANGED <<buf, started, unread>>

\* onRecvCompleted before the data handler.
Read(b, n) == Commit([b EXCEPT !.posted = 0, !.pos = b.pos + n], n)

\* onRecvCompleted after it: n bytes were received, used of them consumed.
\* The handler may have called startRecv, and shrinkReceiveBuffer.
Handled(b, n, used, again, shrink) ==
    LET h == Consume(IF again THEN StartAsyncRecv(b) ELSE b, used)
        s == IF shrink THEN Shrink(h) ELSE h
        g == IF MaxValid(s) = n THEN Grow(s) ELSE s
    IN StartAsyncRecv(g)

\* A receive completes with data: onRecvCompleted.
OnRecvCompleted ==
    /\ buf.posted > 0
    /\ \E n \in {m \in Received : 0 < m /\ m < buf.posted} \cup {buf.posted}, again, ask \in BOOLEAN :
         LET b == Read(buf, n) IN
         /\ ask => shrinks < MaxShrinks
         /\ \E used \in {0} \cup {SizeOf(b) - l : l \in {m \in Left : m <= SizeOf(b)}} :
              /\ buf' = Handled(b, n, used, again, mNeedShrinkReceiveBuffer \/ ask)
              /\ unread' = unread + n - used
         /\ shrinks' = IF ask THEN shrinks + 1 ELSE shrinks
    /\ mNeedShrinkReceiveBuffer' = FALSE
    /\ UNCHANGED started

Init ==
    /\ buf = Empty(0)
    /\ mNeedShrinkReceiveBuffer = FALSE /\ started = FALSE
    /\ unread = 0 /\ shrinks = 0

Next == StartRecv \/ ShrinkReceiveBuffer \/ OnRecvCompleted

Spec == Init /\ [][Next]_vars

-----------------------------------------------------------------------------
(* Properties. *)

BufferTypes ==
    [gnext : Nat, pnext : Nat, pend : Nat, capacity : Nat, tooLong : BOOLEAN,
     pos : Nat, growths : 0..Len(GrowBy), posted : Nat, disturbed : BOOLEAN]

\* The streambuf's offsets are in order and within its memory.
OffsetsInOrder(b) ==
    b.gnext <= b.pnext /\ b.pnext <= b.pend /\ b.pend <= b.capacity /\ b.pend <= MaxSize

\* Every variable holds values of its type.
TypeOK ==
    /\ buf \in BufferTypes /\ OffsetsInOrder(buf)
    /\ {mNeedShrinkReceiveBuffer, started} \subseteq BOOLEAN
    /\ unread \in Int /\ shrinks \in 0..MaxShrinks

PositionBounded(b) == SizeOf(b) <= b.pos /\ b.pos <= MaxValid(b)
Window(b) == b.posted > 0 =>
    b.posted = MaxValid(b) - b.pos /\ b.pnext + b.posted <= b.pend

\* mReceivePos never claims less than what is unread, nor more than what the
\* buffer may hold: prepare(maxValid - mReceivePos) neither wraps around nor
\* asks for more than max_size, so that no prepare throws length_error (two of
\* them are outside the try block).
PrepareSafe == PositionBounded(buf) /\ ~buf.tooLong

\* The memory a receive writes to is the streambuf's, just behind the unread
\* bytes: commit will find there all that was received.  Nothing moves or
\* frees it while the receive is outstanding, even if the data handler calls
\* startRecv before the session grows the buffer.
ReceiveWindow == Window(buf) /\ ~buf.disturbed

\* What can be read is what was received and not consumed.
SizeIsUnread == SizeOf(buf) = unread

\* That is so until shrinkReceiveBuffer is called.
UnshrunkExact == shrinks = 0 => SizeIsUnread

\* A session that does not shrink its buffer stops receiving only when
\* max_size bytes are unread.
RoomUnlessFull == shrinks = 0 /\ started /\ buf.posted = 0 => SizeOf(buf) = MaxSize

=============================================================================
