------------------------ MODULE ReceiveBufferProofs ------------------------
(***************************************************************************)
(* The receive buffer is safe for every size, every growth table, every    *)
(* amount received or consumed and any number of shrinks.                  *)
(*                                                                         *)
(* Each operation of the session on the buffer preserves Sound; a handler  *)
(* is a composition of operations.                                         *)
(***************************************************************************)
EXTENDS ReceiveBuffer, SequenceTheorems, WellFoundedInduction, TLAPS

\* The inductive invariant, of a buffer.
Sound(b) ==
    /\ b \in BufferTypes
    /\ OffsetsInOrder(b)
    /\ PositionBounded(b)
    /\ Window(b)
    /\ b.tooLong = FALSE /\ b.disturbed = FALSE

\* A buffer that no receive writes to.
Idle(b) == Sound(b) /\ b.posted = 0

\* A buffer stays one when an offset changes, and no other field does.
LEMMA OffsetUpdates ==
    ASSUME NEW b \in BufferTypes, NEW x \in Nat
    PROVE  /\ [b EXCEPT !.gnext = x] \in BufferTypes
           /\ [b EXCEPT !.pnext = x] \in BufferTypes
           /\ [b EXCEPT !.pos = x] \in BufferTypes
           /\ [b EXCEPT !.posted = x] \in BufferTypes
<1>1. [b EXCEPT !.gnext = x] \in BufferTypes
  BY DEF BufferTypes
<1>2. [b EXCEPT !.pnext = x] \in BufferTypes
  BY DEF BufferTypes
<1>3. [b EXCEPT !.pos = x] \in BufferTypes
  BY DEF BufferTypes
<1>4. [b EXCEPT !.posted = x] \in BufferTypes
  BY DEF BufferTypes
<1> QED BY <1>1, <1>2, <1>3, <1>4

\* What prepare needs and leaves alone, whatever mReceivePos is.
Prepared(b, p) ==
    /\ p \in BufferTypes /\ OffsetsInOrder(p)
    /\ p.tooLong = FALSE /\ p.disturbed = FALSE /\ p.posted = 0
    /\ SizeOf(p) = SizeOf(b) /\ p.pos = b.pos /\ p.growths = b.growths
    /\ p.capacity >= b.capacity

\* prepare(n) with n at most max_size - size() makes room for n bytes, keeps
\* the unread bytes and does not throw; it allocates only if it must.
LEMMA PrepareRoom ==
    ASSUME NEW b \in BufferTypes, OffsetsInOrder(b), b.posted = 0,
           b.tooLong = FALSE, b.disturbed = FALSE,
           NEW n \in Nat, n + SizeOf(b) <= MaxSize
    PROVE  LET p == Prepare(b, n) IN
           /\ Prepared(b, p) /\ p.pnext + n <= p.pend
           /\ n + SizeOf(b) <= b.capacity => p.capacity = b.capacity
<1> DEFINE pnext == b.pnext - b.gnext
           pend == Most(b.pend, pnext + n)
<1> USE SizesAssumption
<1>1. pnext \in Nat /\ pend \in Nat /\ pnext + n <= pend /\ b.pend <= pend /\ pend <= MaxSize
  BY DEF BufferTypes, OffsetsInOrder, SizeOf, Most
<1>2. ~TooLong(pnext, n)
  BY <1>1 DEF TooLong, SizeOf, BufferTypes
<1>3. CASE n <= b.pend - b.pnext
  <2>1. Prepare(b, n) = b
    BY <1>2, <1>3 DEF Prepare
  <2> QED BY <1>3, <2>1 DEF Prepared, BufferTypes, OffsetsInOrder
<1>4. CASE ~(n <= b.pend - b.pnext)
  <2> DEFINE cap == VectorCapacity(b, pend)
             p == [b EXCEPT !.gnext = 0, !.pnext = pnext, !.pend = pend,
                            !.capacity = cap, !.disturbed = b.disturbed \/ b.posted > 0]
  <2>1. Prepare(b, n) = p
    BY <1>2, <1>4 DEF Prepare
  <2>2. /\ cap \in Nat /\ cap >= b.capacity /\ cap >= pend
        /\ n + SizeOf(b) <= b.capacity => cap = b.capacity
    <3>1. b.capacity \in Nat /\ b.pend \in Nat /\ b.pend <= b.capacity
      BY DEF BufferTypes, OffsetsInOrder
    <3>2. n + SizeOf(b) <= b.capacity => pend <= b.capacity
      BY <1>1, <3>1 DEF SizeOf, Most
    <3> HIDE DEF pend
    <3> QED BY <1>1, <3>1, <3>2 DEF VectorCapacity, Most
  <2>3. (b.disturbed \/ b.posted > 0) = FALSE
    OBVIOUS
  <2> HIDE DEF cap, pend
  <2>4. p \in BufferTypes
    BY <1>1, <2>2, <2>3 DEF BufferTypes
  <2>5. OffsetsInOrder(p) /\ SizeOf(p) = SizeOf(b) /\ p.pnext + n <= p.pend
    <3>1. p.gnext = 0 /\ p.pnext = pnext /\ p.pend = pend /\ p.capacity = cap
      BY DEF BufferTypes
    <3> HIDE DEF p
    <3> QED BY <1>1, <2>2, <3>1 DEF OffsetsInOrder, SizeOf
  <2>6. /\ p.tooLong = FALSE /\ p.disturbed = FALSE /\ p.posted = 0 /\ p.pos = b.pos
        /\ p.growths = b.growths /\ p.capacity = cap
    BY <2>2, <2>3 DEF BufferTypes
  <2> QED BY <2>1, <2>2, <2>4, <2>5, <2>6 DEF Prepared
<1> QED BY <1>3, <1>4

\* Once mReceivePos is set to the number of unread bytes, a prepared buffer
\* is idle.
LEMMA PositionAtSize ==
    ASSUME NEW p \in BufferTypes, OffsetsInOrder(p), p.tooLong = FALSE,
           p.disturbed = FALSE, p.posted = 0
    PROVE  Idle([p EXCEPT !.pos = SizeOf(p)])
<1> DEFINE q == [p EXCEPT !.pos = SizeOf(p)]
<1>1. q \in BufferTypes /\ OffsetsInOrder(q) /\ q.posted = 0
  BY DEF BufferTypes, OffsetsInOrder, SizeOf
<1>2. PositionBounded(q)
  BY SizesAssumption DEF PositionBounded, BufferTypes, OffsetsInOrder, SizeOf, MaxValid, Least
<1>3. q.tooLong = FALSE /\ q.disturbed = FALSE
  BY DEF BufferTypes
<1> QED BY <1>1, <1>2, <1>3 DEF Idle, Sound, Window

\* commit keeps the offsets in order, whatever it is asked for.
LEMMA CommitOffsets ==
    ASSUME NEW b \in BufferTypes, OffsetsInOrder(b), NEW n \in Nat
    PROVE  LET c == Commit(b, n) IN
           /\ c \in BufferTypes /\ OffsetsInOrder(c)
           /\ c.posted = b.posted /\ c.tooLong = b.tooLong /\ c.disturbed = b.disturbed
<1> DEFINE m == Least(n, b.pend - b.pnext)
<1>1. m \in Nat /\ b.pnext + m <= b.pend
  BY DEF Least, BufferTypes, OffsetsInOrder
<1> HIDE DEF m
<1>2. Commit(b, n) = [b EXCEPT !.pnext = b.pnext + m]
  BY DEF Commit, m
<1> QED BY <1>1, <1>2 DEF BufferTypes, OffsetsInOrder

\* A new streambuf is empty and in order.
LEMMA EmptySound ==
    ASSUME NEW k \in 0..Len(GrowBy)
    PROVE  /\ Empty(k) \in BufferTypes /\ OffsetsInOrder(Empty(k)) /\ SizeOf(Empty(k)) = 0
           /\ Idle(Empty(k))
<1> USE SizesAssumption
<1>1. Empty(k) \in BufferTypes
  BY DEF Empty, BufferTypes
<1>2. OffsetsInOrder(Empty(k)) /\ SizeOf(Empty(k)) = 0
  BY DEF Empty, OffsetsInOrder, SizeOf
<1>3. PositionBounded(Empty(k))
  BY <1>2 DEF Empty, PositionBounded, MaxValid, Least
<1> QED BY <1>1, <1>2, <1>3 DEF Idle, Sound, Window, Empty

\* Growing: an idle buffer stays idle, with its unread bytes.
LEMMA GrowIdle ==
    ASSUME NEW b, Idle(b)
    PROVE  Idle(Grow(b)) /\ SizeOf(Grow(b)) = SizeOf(b)
<1> USE SizesAssumption, GrowByAssumption
<1> DEFINE newCapacity == Least(b.capacity + SizeDiff(b), MaxSize)
           grown == [b EXCEPT !.growths = Least(b.growths + 1, Len(GrowBy))]
           n == newCapacity - SizeOf(b)
           p == Prepare(grown, n)
<1>0. b \in BufferTypes /\ OffsetsInOrder(b)
  BY DEF Idle, Sound
<1>1. SizeDiff(b) \in Nat
  BY <1>0, LenProperties, ElementOfSeq DEF SizeDiff, BufferTypes
<1>2. /\ newCapacity \in Nat /\ newCapacity <= MaxSize
      /\ SizeOf(b) \in Nat /\ SizeOf(b) <= newCapacity
  BY <1>0, <1>1 DEF Least, SizeOf, BufferTypes, OffsetsInOrder
<1>3. grown \in BufferTypes /\ OffsetsInOrder(grown) /\ SizeOf(grown) = SizeOf(b)
  <2>1. Least(b.growths + 1, Len(GrowBy)) \in 0..Len(GrowBy)
    BY <1>0, LenProperties DEF Least, BufferTypes
  <2> QED BY <1>0, <2>1 DEF SizeOf, BufferTypes, OffsetsInOrder
<1>4. grown.posted = 0 /\ grown.tooLong = FALSE /\ grown.disturbed = FALSE
  BY <1>0 DEF BufferTypes, Idle, Sound
<1>5. n \in Nat /\ n + SizeOf(grown) <= MaxSize
  <2> HIDE DEF newCapacity, grown
  <2> QED BY <1>2, <1>3
<1> HIDE DEF newCapacity, grown, n
<1>6. Prepared(grown, p)
  BY <1>3, <1>4, <1>5, PrepareRoom
<1> HIDE DEF p
<1>7. Idle([p EXCEPT !.pos = SizeOf(p)])
  BY <1>6, PositionAtSize DEF Prepared
<1>8. SizeOf([p EXCEPT !.pos = SizeOf(p)]) = SizeOf(b)
  BY <1>3, <1>6 DEF Prepared, SizeOf, BufferTypes
<1>9. Grow(b) = [p EXCEPT !.pos = SizeOf(p)]
  BY DEF Grow, p, n, grown, newCapacity
<1> QED BY <1>7, <1>8, <1>9

\* Moving: an idle buffer stays idle, with its unread bytes.
LEMMA MoveIdle ==
    ASSUME NEW b, Idle(b)
    PROVE  Idle(Move(b)) /\ SizeOf(Move(b)) = SizeOf(b)
<1> USE SizesAssumption
<1> DEFINE n == MaxValid(b) - SizeOf(b)
           p == Prepare(b, n)
<1>0. b \in BufferTypes /\ OffsetsInOrder(b)
  BY DEF Idle, Sound
<1>1. n \in Nat /\ n + SizeOf(b) <= MaxSize
  BY <1>0 DEF MaxValid, Least, SizeOf, BufferTypes, OffsetsInOrder
<1> HIDE DEF n
<1>2. Prepared(b, p)
  BY <1>0, <1>1, PrepareRoom DEF Idle, Sound
<1> HIDE DEF p
<1>3. Idle([p EXCEPT !.pos = SizeOf(p)])
  BY <1>2, PositionAtSize DEF Prepared
<1>4. SizeOf([p EXCEPT !.pos = SizeOf(p)]) = SizeOf(b)
  BY <1>0, <1>2 DEF Prepared, SizeOf, BufferTypes
<1>5. Move(b) = [p EXCEPT !.pos = SizeOf(p)]
  BY DEF Move, p, n
<1> QED BY <1>3, <1>4, <1>5

\* Adjusting: an idle buffer stays idle, with its unread bytes.
LEMMA AdjustIdle ==
    ASSUME NEW b, Idle(b)
    PROVE  Idle(Adjust(b)) /\ SizeOf(Adjust(b)) = SizeOf(b)
<1> DEFINE e == IF SizeOf(b) = 0 THEN [b EXCEPT !.pos = 0] ELSE b
<1>1. Idle(e) /\ SizeOf(e) = SizeOf(b)
  <2>0. b \in BufferTypes /\ OffsetsInOrder(b) /\ b.tooLong = FALSE /\ b.disturbed = FALSE
        /\ b.posted = 0
    BY DEF Idle, Sound
  <2>1. CASE SizeOf(b) = 0
    <3>1. Idle([b EXCEPT !.pos = SizeOf(b)])
      BY <2>0, PositionAtSize
    <3>2. SizeOf([b EXCEPT !.pos = 0]) = SizeOf(b)
      BY <2>0 DEF SizeOf, BufferTypes
    <3> QED BY <2>1, <3>1, <3>2
  <2>2. CASE SizeOf(b) # 0
    BY <2>2
  <2> QED BY <2>1, <2>2
<1> HIDE DEF e
<1>2. Adjust(b) \in {e, Grow(e), Move(e)}
  BY DEF Adjust, e
<1> QED BY <1>1, <1>2, GrowIdle, MoveIdle

\* Starting a receive: the buffer stays sound, with its unread bytes; if a
\* receive is outstanding then, there is room behind mReceivePos.
LEMMA StartSound ==
    ASSUME NEW b, Sound(b)
    PROVE  LET s == StartAsyncRecv(b) IN
           /\ Sound(s) /\ SizeOf(s) = SizeOf(b)
           /\ s.posted > 0 => s.pos < MaxValid(s)
<1> USE SizesAssumption
<1>1. CASE b.posted > 0
  BY <1>1 DEF StartAsyncRecv, Sound, BufferTypes, Window, PositionBounded, SizeOf, MaxValid,
        Least
<1>2. CASE ~(b.posted > 0)
  <2> DEFINE a == Adjust(b)
             n == MaxValid(a) - a.pos
             p == Prepare(a, n)
             s == [p EXCEPT !.posted = n]
  <2>1. Idle(b)
    BY <1>2 DEF Idle, Sound, BufferTypes
  <2>2. Idle(a) /\ SizeOf(a) = SizeOf(b)
    BY <2>1, AdjustIdle
  <2> HIDE DEF a
  <2>3. a \in BufferTypes /\ OffsetsInOrder(a)
    BY <2>2 DEF Idle, Sound
  <2>4. /\ MaxValid(a) \in Nat /\ MaxValid(a) <= MaxSize /\ MaxValid(a) <= a.capacity
        /\ a.pos \in Nat /\ SizeOf(a) \in Nat
    BY <2>3 DEF MaxValid, Least, SizeOf, BufferTypes, OffsetsInOrder
  <2>5. SizeOf(a) <= a.pos /\ a.pos <= MaxValid(a) /\ a.capacity \in Nat
    BY <2>2, <2>3 DEF Idle, Sound, PositionBounded, BufferTypes
  <2>6. n \in Nat /\ n + SizeOf(a) <= MaxSize /\ n + SizeOf(a) <= a.capacity
    BY <2>4, <2>5
  <2>7. Prepared(a, p) /\ p.pnext + n <= p.pend /\ p.capacity = a.capacity
    BY <2>2, <2>3, <2>6, PrepareRoom DEF Idle, Sound
  <2>8. StartAsyncRecv(b) = s
    BY <1>2, <2>7 DEF StartAsyncRecv, a, Prepared
  <2>9. n = MaxValid(p) - p.pos
    BY <2>7 DEF MaxValid, Prepared
  <2>10. PositionBounded(p)
    BY <2>2, <2>3, <2>7 DEF Idle, Sound, PositionBounded, MaxValid, Prepared
  <2> HIDE DEF n, p
  <2>11. s \in BufferTypes /\ OffsetsInOrder(s) /\ PositionBounded(s)
    BY <2>6, <2>7, <2>10 DEF Prepared, BufferTypes, OffsetsInOrder, PositionBounded, SizeOf, MaxValid
  <2>12. s.posted = n /\ s.pos = p.pos /\ s.pend = p.pend /\ s.pnext = p.pnext
         /\ s.tooLong = FALSE /\ s.disturbed = FALSE /\ MaxValid(s) = MaxValid(p)
         /\ SizeOf(s) = SizeOf(p)
    BY <2>7 DEF Prepared, BufferTypes, MaxValid, SizeOf
  <2>13. s.posted > 0 => s.pos < MaxValid(s)
    BY <2>7, <2>9, <2>12, SizesAssumption DEF Prepared, BufferTypes, MaxValid, Least
  <2> QED BY <2>2, <2>7, <2>8, <2>9, <2>11, <2>12, <2>13 DEF Sound, Window, Prepared
<1> QED BY <1>1, <1>2

\* Consuming: the buffer stays sound, and room stays where it was.
LEMMA ConsumeSound ==
    ASSUME NEW b, Sound(b), NEW n \in Nat
    PROVE  LET c == Consume(b, n) IN
           /\ Sound(c) /\ c.posted = b.posted /\ c.pos = b.pos /\ MaxValid(c) = MaxValid(b)
           /\ n <= SizeOf(b) => SizeOf(c) = SizeOf(b) - n
<1> DEFINE m == Least(n, SizeOf(b))
           c == [b EXCEPT !.gnext = b.gnext + m]
<1>1. b \in BufferTypes /\ OffsetsInOrder(b)
  BY DEF Sound
<1>2. m \in Nat /\ m <= SizeOf(b) /\ (n <= SizeOf(b) => m = n)
  BY <1>1 DEF Least, SizeOf, BufferTypes, OffsetsInOrder
<1> HIDE DEF m
<1>3. c \in BufferTypes /\ OffsetsInOrder(c) /\ SizeOf(c) = SizeOf(b) - m
  <2>1. c \in BufferTypes
    <3>1. b.gnext + m \in Nat
      BY <1>1, <1>2 DEF BufferTypes
    <3> QED BY <1>1, <3>1, OffsetUpdates
  <2>2. c.gnext = b.gnext + m /\ c.pnext = b.pnext /\ c.pend = b.pend /\ c.capacity = b.capacity
    BY <1>1 DEF BufferTypes
  <2>3. b.gnext \in Nat /\ b.pnext \in Nat
    BY <1>1 DEF BufferTypes
  <2> HIDE DEF c
  <2> QED BY <1>1, <1>2, <2>1, <2>2, <2>3 DEF SizeOf, OffsetsInOrder
<1>4. /\ c.posted = b.posted /\ c.pos = b.pos /\ c.pnext = b.pnext /\ c.pend = b.pend
      /\ MaxValid(c) = MaxValid(b)
  BY <1>1 DEF BufferTypes, MaxValid
<1>5. c.tooLong = FALSE /\ c.disturbed = FALSE
  BY <1>1 DEF BufferTypes, Sound
<1>6. PositionBounded(c)
  <2>1. SizeOf(b) <= b.pos /\ b.pos <= MaxValid(b)
    BY DEF Sound, PositionBounded
  <2>2. SizeOf(b) \in Nat /\ b.pos \in Nat
    BY <1>1 DEF SizeOf, BufferTypes, OffsetsInOrder
  <2> HIDE DEF c
  <2> QED BY <1>2, <1>3, <1>4, <2>1, <2>2 DEF PositionBounded
<1>7. Window(c)
  BY <1>4 DEF Sound, Window
<1>8. Consume(b, n) = c
  BY DEF Consume, m
<1> HIDE DEF c
<1> QED BY <1>2, <1>3, <1>4, <1>5, <1>6, <1>7, <1>8 DEF Sound

\* What a receive brought is committed whole, into an idle buffer.
LEMMA ReadIdle ==
    ASSUME NEW b, Sound(b), NEW n \in Nat, n <= b.posted, b.posted > 0
    PROVE  Idle(Read(b, n)) /\ SizeOf(Read(b, n)) = SizeOf(b) + n
<1> DEFINE r == [b EXCEPT !.posted = 0, !.pos = b.pos + n]
           c == [r EXCEPT !.pnext = b.pnext + n]
<1>1. b \in BufferTypes /\ OffsetsInOrder(b) /\ PositionBounded(b)
  BY DEF Sound
<1>2. b.pos + n <= MaxValid(b) /\ b.pnext + n <= b.pend
  <2>1. b.posted = MaxValid(b) - b.pos /\ b.pnext + b.posted <= b.pend
    BY DEF Sound, Window
  <2>2. b.pos \in Nat /\ b.pnext \in Nat /\ b.pend \in Nat /\ b.posted \in Nat
        /\ MaxValid(b) \in Nat
    BY <1>1, SizesAssumption DEF BufferTypes, MaxValid, Least
  <2> QED BY <2>1, <2>2
<1>3. Read(b, n) = c
  <2>1. r.pnext = b.pnext /\ r.pend = b.pend
    BY <1>1 DEF BufferTypes
  <2>2. Least(n, r.pend - r.pnext) = n
    BY <1>1, <1>2, <2>1 DEF Least, BufferTypes
  <2> QED BY <2>1, <2>2 DEF Read, Commit
<1>4. c \in BufferTypes /\ OffsetsInOrder(c) /\ SizeOf(c) = SizeOf(b) + n
  <2>1. c \in BufferTypes
    <3> DEFINE p == [b EXCEPT !.posted = 0]
    <3>1. b.pos + n \in Nat /\ b.pnext + n \in Nat
      BY <1>1 DEF BufferTypes
    <3>2. p \in BufferTypes
      BY <1>1, OffsetUpdates
    <3>3. r = [p EXCEPT !.pos = b.pos + n]
      OBVIOUS
    <3>4. r \in BufferTypes
      <4> HIDE DEF p, r
      <4> QED BY <3>1, <3>2, <3>3, OffsetUpdates
    <3> HIDE DEF r
    <3> QED BY <3>1, <3>4, OffsetUpdates
  <2>2. c.gnext = b.gnext /\ c.pnext = b.pnext + n /\ c.pend = b.pend /\ c.capacity = b.capacity
    BY <1>1 DEF BufferTypes
  <2>3. b.gnext \in Nat /\ b.pnext \in Nat
    BY <1>1 DEF BufferTypes
  <2> HIDE DEF c
  <2> QED BY <1>1, <1>2, <2>1, <2>2, <2>3 DEF OffsetsInOrder, SizeOf
<1>5. /\ c.posted = 0 /\ c.pos = b.pos + n /\ c.tooLong = FALSE /\ c.disturbed = FALSE
      /\ MaxValid(c) = MaxValid(b)
  BY <1>1 DEF BufferTypes, MaxValid, Sound
<1>6. PositionBounded(c)
  <2>1. SizeOf(b) <= b.pos /\ SizeOf(b) \in Nat /\ b.pos \in Nat
    BY <1>1 DEF PositionBounded, SizeOf, BufferTypes, OffsetsInOrder
  <2> HIDE DEF c
  <2> QED BY <1>2, <1>4, <1>5, <2>1 DEF PositionBounded
<1> HIDE DEF c
<1> QED BY <1>3, <1>4, <1>5, <1>6 DEF Idle, Sound, Window

\* Shrinking: the buffer stays sound, and a receive that is outstanding is
\* left alone.
LEMMA ShrinkSound ==
    ASSUME NEW b, Sound(b)
    PROVE  /\ Sound(Shrink(b)) /\ Shrink(b).posted = b.posted
           /\ b.posted > 0 => Shrink(b) = b
<1> USE SizesAssumption
<1>0. b \in BufferTypes /\ OffsetsInOrder(b) /\ b.tooLong = FALSE /\ b.disturbed = FALSE
  BY DEF Sound
<1>1. CASE b.posted > 0
  BY <1>1 DEF Shrink
<1>2. CASE ~(b.posted > 0)
  <2> DEFINE size == SizeOf(b)
             e == [Empty(b.growths) EXCEPT !.tooLong = b.tooLong, !.disturbed = b.disturbed]
             tmp == Prepare(e, size)
             put == Commit(tmp, size)
             twice == Commit(put, size)
  <2>1. e \in BufferTypes /\ OffsetsInOrder(e) /\ SizeOf(e) = 0
    <3>1. Empty(b.growths) \in BufferTypes /\ OffsetsInOrder(Empty(b.growths))
          /\ SizeOf(Empty(b.growths)) = 0
      <4>1. b.growths \in 0..Len(GrowBy)
        BY <1>0 DEF BufferTypes
      <4> QED BY <4>1, EmptySound
    <3> DEFINE k == Empty(b.growths)
    <3> HIDE DEF k
    <3>2. e \in BufferTypes
      BY <1>0, <3>1 DEF BufferTypes, k
    <3>3. e.gnext = k.gnext /\ e.pnext = k.pnext /\ e.pend = k.pend /\ e.capacity = k.capacity
      BY <3>1 DEF BufferTypes, k
    <3> QED BY <3>1, <3>2, <3>3 DEF OffsetsInOrder, SizeOf, k
  <2>2. e.posted = 0 /\ e.tooLong = FALSE /\ e.disturbed = FALSE
    BY <1>0 DEF Empty
  <2>3. size \in Nat /\ size + SizeOf(e) <= MaxSize
    <3> HIDE DEF e
    <3>1. size \in Nat /\ size <= MaxSize
      BY <1>0 DEF BufferTypes, OffsetsInOrder, SizeOf
    <3> HIDE DEF size
    <3> QED BY <2>1, <3>1
  <2> HIDE DEF size, e
  <2>4. Prepared(e, tmp)
    BY <2>1, <2>2, <2>3, PrepareRoom
  <2> HIDE DEF tmp
  <2>5. /\ put \in BufferTypes /\ OffsetsInOrder(put)
        /\ put.posted = 0 /\ put.tooLong = FALSE /\ put.disturbed = FALSE
    BY <2>3, <2>4, CommitOffsets DEF Prepared
  <2> HIDE DEF put
  <2>6. /\ twice \in BufferTypes /\ OffsetsInOrder(twice)
        /\ twice.posted = 0 /\ twice.tooLong = FALSE /\ twice.disturbed = FALSE
    BY <2>3, <2>5, CommitOffsets
  <2> HIDE DEF twice
  <2>7. Idle([twice EXCEPT !.pos = SizeOf(twice)])
    BY <2>6, PositionAtSize
  <2>8. Shrink(b) = [twice EXCEPT !.pos = SizeOf(twice)]
    BY <1>2 DEF Shrink, twice, put, tmp, e, size
  <2>9. b.posted = 0
    BY <1>0, <1>2 DEF BufferTypes
  <2> QED BY <1>2, <2>7, <2>8, <2>9 DEF Idle
<1> QED BY <1>1, <1>2

\* The rest of a receive's handler leaves the buffer sound.  Were the handler
\* to start a receive into a buffer of n bytes, it would not grow afterwards:
\* n bytes are unread before it, and a receive needs room for one more.
LEMMA HandledSound ==
    ASSUME NEW b, Idle(b), NEW n \in Nat, n <= SizeOf(b),
           NEW used \in Nat, used <= SizeOf(b), NEW again \in BOOLEAN, NEW shrink \in BOOLEAN
    PROVE  LET h == Handled(b, n, used, again, shrink) IN
           Sound(h) /\ (~shrink => SizeOf(h) = SizeOf(b) - used)
<1> DEFINE r == IF again THEN StartAsyncRecv(b) ELSE b
           c == Consume(r, used)
           s == IF shrink THEN Shrink(c) ELSE c
           g == IF MaxValid(s) = n THEN Grow(s) ELSE s
<1>1. Sound(r) /\ SizeOf(r) = SizeOf(b) /\ (r.posted > 0 => r.pos < MaxValid(r))
  BY StartSound DEF Idle
<1> HIDE DEF r
<1>2. /\ Sound(c) /\ c.posted = r.posted /\ c.pos = r.pos /\ MaxValid(c) = MaxValid(r)
      /\ SizeOf(c) = SizeOf(b) - used
  BY <1>1, ConsumeSound
<1> HIDE DEF c
<1>3. /\ Sound(s) /\ s.posted = c.posted /\ (s.posted > 0 => s = c)
      /\ ~shrink => SizeOf(s) = SizeOf(b) - used
  BY <1>2, ShrinkSound
<1> HIDE DEF s
<1>4. MaxValid(s) = n => ~(s.posted > 0)
  <2> SUFFICES ASSUME s.posted > 0 PROVE MaxValid(s) # n
    OBVIOUS
  <2>1. n <= SizeOf(r) /\ SizeOf(r) <= r.pos /\ r.pos < MaxValid(r) /\ MaxValid(s) = MaxValid(r)
    BY <1>1, <1>2, <1>3 DEF Sound, PositionBounded
  <2>2. r.pos \in Nat /\ SizeOf(r) \in Int /\ MaxValid(r) \in Nat
    BY <1>1, SizesAssumption DEF Sound, BufferTypes, SizeOf, MaxValid, Least
  <2> QED BY <2>1, <2>2
<1>5. s.posted \in Nat
  BY <1>3 DEF Sound, BufferTypes
<1>6. Sound(g) /\ SizeOf(g) = SizeOf(s)
  BY <1>3, <1>4, <1>5, GrowIdle DEF Idle
<1> HIDE DEF g
<1>7. Handled(b, n, used, again, shrink) = StartAsyncRecv(g)
  BY DEF Handled, g, s, c, r
<1> QED BY <1>3, <1>6, <1>7, StartSound

-----------------------------------------------------------------------------

\* Until shrinkReceiveBuffer is called nothing asks for a shrink.
Unshrunk == shrinks = 0 => mNeedShrinkReceiveBuffer = FALSE /\ SizeIsUnread

Inv == TypeOK /\ Sound(buf) /\ Unshrunk

\* Every step preserves the invariant.
LEMMA InvStep ==
    ASSUME Inv, [Next]_vars
    PROVE  Inv'
<1> USE SizesAssumption, BoundsAssumption DEF Inv
<1>1. CASE StartRecv
  <2>1. Sound(buf') /\ SizeOf(buf') = SizeOf(buf)
    BY <1>1, StartSound DEF StartRecv
  <2> QED BY <1>1, <2>1 DEF StartRecv, TypeOK, Sound, Unshrunk, SizeIsUnread
<1>2. CASE ShrinkReceiveBuffer
  BY <1>2 DEF ShrinkReceiveBuffer, TypeOK, Unshrunk
<1>3. CASE OnRecvCompleted
  <2> DEFINE Amounts == {m \in Received : 0 < m /\ m < buf.posted} \cup {buf.posted}
             Used(b) == {0} \cup {SizeOf(b) - l : l \in {m \in Left : m <= SizeOf(b)}}
  <2>1. PICK n \in Amounts, again, ask \in BOOLEAN :
          LET b == Read(buf, n) IN
          /\ ask => shrinks < MaxShrinks
          /\ \E used \in Used(b) :
               /\ buf' = Handled(b, n, used, again, mNeedShrinkReceiveBuffer \/ ask)
               /\ unread' = unread + n - used
          /\ shrinks' = IF ask THEN shrinks + 1 ELSE shrinks
    BY <1>3 DEF OnRecvCompleted
  <2> DEFINE b == Read(buf, n)
  <2>2. PICK used \in Used(b) :
          /\ buf' = Handled(b, n, used, again, mNeedShrinkReceiveBuffer \/ ask)
          /\ unread' = unread + n - used
    BY <2>1
  <2>3. n \in Nat /\ n <= buf.posted /\ buf.posted > 0 /\ SizeOf(buf) \in Nat
    <3>1. buf \in BufferTypes /\ OffsetsInOrder(buf)
      BY DEF Sound
    <3>2. SizeOf(buf) \in Nat /\ buf.posted \in Nat
      BY <3>1 DEF SizeOf, BufferTypes, OffsetsInOrder
    <3>3. buf.posted > 0
      BY <1>3 DEF OnRecvCompleted
    <3>4. Received \subseteq Nat
      BY BoundsAssumption
    <3> QED BY <3>2, <3>3, <3>4
  <2>4. Idle(b) /\ SizeOf(b) = SizeOf(buf) + n
    BY <2>3, ReadIdle
  <2> HIDE DEF b
  <2>5. used \in Nat /\ used <= SizeOf(b) /\ n <= SizeOf(b)
    BY <2>3, <2>4
  <2> DEFINE shrink == mNeedShrinkReceiveBuffer \/ ask
  <2>6. shrink \in BOOLEAN /\ buf' = Handled(b, n, used, again, shrink)
    BY <2>2
  <2> HIDE DEF shrink
  <2>7. Sound(buf') /\ (~shrink => SizeOf(buf') = SizeOf(b) - used)
    BY <2>3, <2>4, <2>5, <2>6, HandledSound
  <2>8. mNeedShrinkReceiveBuffer' = FALSE /\ started' = started
    BY <1>3 DEF OnRecvCompleted
  <2>9. TypeOK'
    <3>1. unread' \in Int
      BY <2>2, <2>3, <2>5 DEF TypeOK
    <3>2. shrinks' \in 0..MaxShrinks
      BY <2>1 DEF TypeOK
    <3>3. {mNeedShrinkReceiveBuffer', started'} \subseteq BOOLEAN
      BY <2>8 DEF TypeOK
    <3> QED BY <2>7, <3>1, <3>2, <3>3 DEF TypeOK, Sound
  <2>10. shrinks' = 0 => shrinks = 0 /\ ~ask
    BY <2>1 DEF TypeOK
  <2>11. Unshrunk'
    BY <2>2, <2>3, <2>4, <2>5, <2>7, <2>8, <2>10 DEF Unshrunk, SizeIsUnread, TypeOK, shrink
  <2> QED BY <2>7, <2>9, <2>11
<1>4. CASE UNCHANGED vars
  BY <1>4 DEF vars, TypeOK, Unshrunk, SizeIsUnread
<1> QED BY <1>1, <1>2, <1>3, <1>4 DEF Next

\* The buffer starts sound and empty.
LEMMA InvInit == Init => Inv
<1> SUFFICES ASSUME Init PROVE Inv
  OBVIOUS
<1>1. 0 \in 0..Len(GrowBy)
  BY GrowByAssumption, LenProperties
<1>2. buf = Empty(0)
  BY DEF Init
<1>3. Sound(buf) /\ SizeOf(buf) = 0
  BY <1>1, <1>2, EmptySound DEF Idle
<1>4. TypeOK
  <2>1. {mNeedShrinkReceiveBuffer, started} \subseteq BOOLEAN
    BY DEF Init
  <2>2. unread \in Int /\ shrinks \in 0..MaxShrinks
    BY BoundsAssumption DEF Init
  <2> QED BY <1>3, <2>1, <2>2 DEF TypeOK, Sound
<1> QED BY <1>3, <1>4 DEF Init, Inv, Unshrunk, SizeIsUnread

\* Type correctness, for every size and growth table.
THEOREM BufferTypeCorrect == Spec => []TypeOK
<1>1. Inv /\ [Next]_vars => Inv'
  BY InvStep
<1>2. Inv => TypeOK
  BY DEF Inv
<1> QED BY <1>1, <1>2, InvInit, PTL DEF Spec

\* mReceivePos lies between what is unread and what the buffer may hold, and
\* no prepare throws.
THEOREM EveryPrepareSafe == Spec => []PrepareSafe
<1>1. Inv /\ [Next]_vars => Inv'
  BY InvStep
<1>2. Inv => PrepareSafe
  BY DEF Inv, Sound, PrepareSafe
<1> QED BY <1>1, <1>2, InvInit, PTL DEF Spec

\* A receive writes to memory that stays the buffer's, behind the unread
\* bytes, until it is committed.
THEOREM EveryReceiveInWindow == Spec => []ReceiveWindow
<1>1. Inv /\ [Next]_vars => Inv'
  BY InvStep
<1>2. Inv => ReceiveWindow
  BY DEF Inv, Sound, ReceiveWindow
<1> QED BY <1>1, <1>2, InvInit, PTL DEF Spec

\* Until it is shrunk, a buffer loses no byte and makes none up.
THEOREM NothingLost == Spec => []UnshrunkExact
<1>1. Inv /\ [Next]_vars => Inv'
  BY InvStep
<1>2. Inv => UnshrunkExact
  BY DEF Inv, Unshrunk, UnshrunkExact
<1> QED BY <1>1, <1>2, InvInit, PTL DEF Spec

-----------------------------------------------------------------------------
(* Room.  Every growth of a buffer below max_size adds what the table says, *)
(* and the whole table leads to max_size: a buffer that cannot be received  *)
(* into holds max_size unread bytes.                                        *)

\* A set that holds 0, and n + 1 with each n, holds every number.
LEMMA NatSetInduction ==
    ASSUME NEW T, 0 \in T, \A n \in Nat : n \in T => n + 1 \in T
    PROVE  Nat \subseteq T
<1> SUFFICES ASSUME Nat \ T # {} PROVE FALSE
  OBVIOUS
<1>1. PICK x \in Nat \ T : \A y \in Nat \ T : ~ (<<y, x>> \in OpToRel(<, Nat))
  BY NatLessThanWellFounded, WFMin
<1>2. \A y \in Nat \ T : ~ (y < x)
  BY <1>1 DEF OpToRel
<1>3. x - 1 \in Nat
  BY SMT
<1> QED BY <1>2, <1>3

\* Reach satisfies its recursive definition: a function that does is built
\* entry by entry.
LEMMA ReachDef ==
    Reach = [i \in 0..Len(GrowBy) |-> IF i = 0 THEN InitialSize ELSE Reach[i - 1] + GrowBy[i]]
<1> DEFINE Upto(n, f) ==
             f = [i \in 0..n |-> IF i = 0 THEN InitialSize ELSE f[i - 1] + GrowBy[i]]
           T == {n \in Nat : \E f : Upto(n, f)}
<1>1. 0 \in T
  <2> DEFINE f == [i \in 0..0 |-> InitialSize]
  <2>1. Upto(0, f)
    OBVIOUS
  <2> QED BY <2>1
<1>2. ASSUME NEW n \in Nat, n \in T PROVE n + 1 \in T
  <2>1. PICK f : Upto(n, f)
    BY <1>2
  <2> DEFINE g == [i \in 0..n + 1 |-> IF i = n + 1 THEN f[n] + GrowBy[n + 1] ELSE f[i]]
  <2>2. \A i \in 0..n : g[i] = f[i]
    BY SMT
  <2>3. g[n + 1] = f[n] + GrowBy[n + 1]
    OBVIOUS
  <2>4. \A i \in 0..n : f[i] = IF i = 0 THEN InitialSize ELSE f[i - 1] + GrowBy[i]
    BY <2>1
  <2>5. \A i \in 0..n + 1 : g[i] = IF i = 0 THEN InitialSize ELSE g[i - 1] + GrowBy[i]
    BY <2>2, <2>3, <2>4
  <2>6. Upto(n + 1, g)
    BY <2>5
  <2> HIDE DEF g
  <2>7. \E h : Upto(n + 1, h)
    BY <2>6
  <2> QED BY <2>7
<1>3. Len(GrowBy) \in Nat
  BY GrowByAssumption, LenProperties
<1> HIDE DEF T
<1>4. Len(GrowBy) \in T
  BY <1>1, <1>2, <1>3, NatSetInduction
<1> DEFINE Is(f) ==
      f = [i \in 0..Len(GrowBy) |-> IF i = 0 THEN InitialSize ELSE f[i - 1] + GrowBy[i]]
<1>5. \E f : Is(f)
  BY <1>4 DEF T
<1>6. Reach = CHOOSE f : Is(f)
  BY DEF Reach
<1> QED BY <1>5, <1>6

\* Every entry of Reach is a number, a growth above the one before.
LEMMA ReachSteps ==
    /\ Reach[0] = InitialSize
    /\ \A k \in 0..Len(GrowBy) : Reach[k] \in Nat
    /\ \A k \in 0..Len(GrowBy) - 1 : Reach[k + 1] = Reach[k] + GrowBy[k + 1]
<1> DEFINE T == {n \in Nat : n <= Len(GrowBy) => Reach[n] \in Nat}
<1>1. Len(GrowBy) \in Nat /\ \A i \in 1..Len(GrowBy) : GrowBy[i] \in Nat
  BY GrowByAssumption, LenProperties, ElementOfSeq
<1>2. \A i \in 0..Len(GrowBy) :
        Reach[i] = IF i = 0 THEN InitialSize ELSE Reach[i - 1] + GrowBy[i]
  BY ReachDef
<1>3. 0 \in T
  BY <1>1, <1>2, SizesAssumption
<1>4. ASSUME NEW n \in Nat, n \in T PROVE n + 1 \in T
  <2> SUFFICES ASSUME n + 1 <= Len(GrowBy) PROVE Reach[n + 1] \in Nat
    OBVIOUS
  <2>1. Reach[n] \in Nat
    BY <1>1, <1>4
  <2>2. Reach[n + 1] = Reach[n] + GrowBy[n + 1]
    BY <1>1, <1>2
  <2> QED BY <1>1, <2>1, <2>2
<1> HIDE DEF T
<1>5. Nat \subseteq T
  BY <1>3, <1>4, NatSetInduction
<1>6. \A k \in 0..Len(GrowBy) : Reach[k] \in Nat
  BY <1>1, <1>5 DEF T
<1>7. Reach[0] = InitialSize
  BY <1>1, <1>2
<1>8. \A k \in 0..Len(GrowBy) - 1 : Reach[k + 1] = Reach[k] + GrowBy[k + 1]
  BY <1>1, <1>2
<1> QED BY <1>6, <1>7, <1>8

\* The buffer has grown as far as its growths lead.
Grown(b) == b.capacity >= MaxSize \/ b.capacity >= Reach[b.growths]

\* There is room for a receive, unless max_size bytes are unread.
Roomy(b) == b.pos < MaxValid(b) \/ SizeOf(b) = MaxSize

\* prepare keeps what was reached.
LEMMA PreparedGrown ==
    ASSUME NEW b \in BufferTypes, NEW p, Prepared(b, p), Grown(b)
    PROVE  Grown(p) /\ MaxValid(p) >= MaxValid(b)
<1>1. p.capacity >= b.capacity /\ p.growths = b.growths
  BY DEF Prepared
<1>2. p.capacity \in Nat /\ b.capacity \in Nat /\ b.growths \in 0..Len(GrowBy)
  BY DEF Prepared, BufferTypes
<1>3. Reach[b.growths] \in Nat
  BY <1>2, ReachSteps
<1>4. Grown(p)
  BY <1>1, <1>2, <1>3, SizesAssumption DEF Grown
<1>5. MaxValid(p) >= MaxValid(b)
  BY <1>1, <1>2, SizesAssumption DEF MaxValid, Least
<1> QED BY <1>4, <1>5

\* Growing makes room, unless max_size bytes are unread.
LEMMA GrowGrown ==
    ASSUME NEW b, Idle(b), Grown(b)
    PROVE  Grown(Grow(b)) /\ (MaxValid(b) = SizeOf(b) => Roomy(Grow(b)))
<1> USE SizesAssumption, GrowByAssumption
<1> DEFINE newCapacity == Least(b.capacity + SizeDiff(b), MaxSize)
           next == Least(b.growths + 1, Len(GrowBy))
           grown == [b EXCEPT !.growths = next]
           n == newCapacity - SizeOf(b)
           p == Prepare(grown, n)
           q == [p EXCEPT !.pos = SizeOf(p)]
<1>0. b \in BufferTypes /\ OffsetsInOrder(b)
  BY DEF Idle, Sound
<1>1. /\ SizeDiff(b) \in Nat /\ b.capacity \in Nat
      /\ b.growths \in 0..Len(GrowBy) /\ Len(GrowBy) \in Nat
  BY <1>0, LenProperties, ElementOfSeq DEF SizeDiff, BufferTypes
<1>2. /\ newCapacity \in Nat /\ newCapacity <= MaxSize
      /\ SizeOf(b) \in Nat /\ SizeOf(b) <= newCapacity
  BY <1>0, <1>1 DEF Least, SizeOf, BufferTypes, OffsetsInOrder
<1>a. next \in 0..Len(GrowBy)
  BY <1>1 DEF Least
<1>3. grown \in BufferTypes /\ OffsetsInOrder(grown) /\ SizeOf(grown) = SizeOf(b)
  BY <1>0, <1>a DEF SizeOf, BufferTypes, OffsetsInOrder
<1>4. /\ grown.posted = 0 /\ grown.tooLong = FALSE /\ grown.disturbed = FALSE
      /\ grown.growths = next /\ grown.capacity = b.capacity
  BY <1>0 DEF BufferTypes, Idle, Sound
<1>5. n \in Nat /\ n + SizeOf(grown) <= MaxSize
  <2> HIDE DEF newCapacity, grown
  <2> QED BY <1>2, <1>3
<1> HIDE DEF grown
<1>6. Prepared(grown, p) /\ p.pnext + n <= p.pend
  <2> HIDE DEF n
  <2> QED BY <1>3, <1>4, <1>5, PrepareRoom
<1> HIDE DEF p
<1>7. /\ p.capacity \in Nat /\ p.capacity >= b.capacity /\ p.capacity >= newCapacity
      /\ p.growths = next /\ SizeOf(p) = SizeOf(b)
  <2>1. p.pend <= p.capacity /\ SizeOf(p) <= p.pnext /\ SizeOf(p) = SizeOf(b)
    BY <1>3, <1>6 DEF Prepared, OffsetsInOrder, SizeOf, BufferTypes
  <2>2. p.pend \in Nat /\ p.capacity \in Nat /\ p.pnext \in Nat
    BY <1>6 DEF Prepared, BufferTypes
  <2> HIDE DEF newCapacity
  <2>3. p.capacity >= newCapacity
    BY <1>2, <1>6, <2>1, <2>2
  <2> QED BY <1>4, <1>6, <2>1, <2>2, <2>3 DEF Prepared
<1>8. Grow(b) = q
  BY DEF Grow, p, n, grown
<1>9. q.capacity = p.capacity /\ q.growths = next /\ q.pos = SizeOf(b) /\ SizeOf(q) = SizeOf(b)
  BY <1>6, <1>7 DEF Prepared, SizeOf, BufferTypes
<1> HIDE DEF q, n
<1>10. /\ b.growths < Len(GrowBy) => SizeDiff(b) = GrowBy[b.growths + 1] /\ SizeDiff(b) > 0
       /\ b.capacity < MaxSize => b.growths < Len(GrowBy)
  <2>1. b.growths < Len(GrowBy) => b.growths + 1 \in DOMAIN GrowBy
    BY <1>1, LenProperties
  <2>2. b.growths < Len(GrowBy) => SizeDiff(b) = GrowBy[b.growths + 1] /\ SizeDiff(b) > 0
    BY <2>1, GrowthAssumption DEF SizeDiff
  <2>3. b.capacity < MaxSize => b.capacity >= Reach[b.growths]
    BY <1>1 DEF Grown
  <2>4. Reach[b.growths] \in Nat /\ Reach[Len(GrowBy)] >= MaxSize
    BY <1>1, ReachSteps, GrowthAssumption
  <2>5. b.capacity < MaxSize => b.growths # Len(GrowBy)
    BY <1>1, <2>3, <2>4
  <2> QED BY <1>1, <2>2, <2>5
<1>11. Grown(q)
  <2>1. CASE b.capacity >= MaxSize
    BY <1>1, <1>7, <1>9, <2>1 DEF Grown
  <2>2. CASE b.capacity < MaxSize
    <3>1. b.growths < Len(GrowBy) /\ next = b.growths + 1
      BY <1>1, <1>10, <2>2 DEF Least
    <3>2. Reach[next] = Reach[b.growths] + SizeDiff(b) /\ Reach[b.growths] \in Nat
      <4>1. b.growths \in 0..Len(GrowBy) - 1
        BY <1>1, <3>1
      <4>2. SizeDiff(b) = GrowBy[b.growths + 1]
        BY <1>10, <3>1
      <4> HIDE DEF next
      <4> QED BY <1>1, <3>1, <4>1, <4>2, ReachSteps
    <3>3. b.capacity >= Reach[b.growths]
      BY <1>1, <2>2 DEF Grown
    <3>4. newCapacity = MaxSize \/ newCapacity >= Reach[next]
      BY <1>1, <3>2, <3>3 DEF Least
    <3> HIDE DEF newCapacity, next
    <3>5. Reach[next] \in Nat
      BY <1>1, <3>2
    <3> QED BY <1>2, <1>7, <1>9, <3>4, <3>5 DEF Grown
  <2> QED BY <1>1, <2>1, <2>2
<1>12. ASSUME MaxValid(b) = SizeOf(b) PROVE Roomy(q)
  <2>1. CASE b.capacity >= MaxSize
    BY <1>1, <1>9, <1>12, <2>1 DEF Roomy, MaxValid, Least
  <2>2. CASE b.capacity < MaxSize
    <3>1. SizeOf(b) = b.capacity
      BY <1>1, <1>12, <2>2 DEF MaxValid, Least
    <3>2. SizeDiff(b) > 0
      BY <1>10, <2>2
    <3>3. newCapacity > b.capacity
      BY <1>1, <2>2, <3>2 DEF Least
    <3> HIDE DEF newCapacity
    <3>4. q.capacity > SizeOf(b) /\ MaxSize > SizeOf(b)
      BY <1>1, <1>2, <1>7, <1>9, <2>2, <3>1, <3>3
    <3> QED BY <1>7, <1>9, <3>4 DEF Roomy, MaxValid, Least
  <2> QED BY <1>1, <2>1, <2>2
<1> QED BY <1>8, <1>11, <1>12

\* Moving makes room in a buffer that is not full.
LEMMA MoveGrown ==
    ASSUME NEW b, Idle(b), Grown(b)
    PROVE  Grown(Move(b)) /\ (SizeOf(b) < MaxValid(b) => Roomy(Move(b)))
<1> USE SizesAssumption
<1> DEFINE n == MaxValid(b) - SizeOf(b)
           p == Prepare(b, n)
           q == [p EXCEPT !.pos = SizeOf(p)]
<1>0. b \in BufferTypes /\ OffsetsInOrder(b)
  BY DEF Idle, Sound
<1>1. n \in Nat /\ n + SizeOf(b) <= MaxSize
  BY <1>0 DEF MaxValid, Least, SizeOf, BufferTypes, OffsetsInOrder
<1> HIDE DEF n
<1>2. Prepared(b, p)
  BY <1>0, <1>1, PrepareRoom DEF Idle, Sound
<1> HIDE DEF p
<1>3. Grown(p) /\ MaxValid(p) >= MaxValid(b)
  BY <1>0, <1>2, PreparedGrown
<1>4. /\ q.capacity = p.capacity /\ q.growths = p.growths /\ q.pos = SizeOf(b)
      /\ MaxValid(q) = MaxValid(p)
  BY <1>2 DEF Prepared, BufferTypes, MaxValid
<1>5. Move(b) = q
  BY DEF Move, p, n
<1> HIDE DEF q
<1>6. MaxValid(p) \in Nat /\ MaxValid(b) \in Nat /\ SizeOf(b) \in Nat
  BY <1>0, <1>2 DEF Prepared, MaxValid, Least, SizeOf, BufferTypes, OffsetsInOrder
<1>7. Grown(q)
  BY <1>3, <1>4 DEF Grown
<1>8. SizeOf(b) < MaxValid(b) => Roomy(q)
  BY <1>3, <1>4, <1>6 DEF Roomy
<1> QED BY <1>5, <1>7, <1>8

\* Adjusting makes room, unless max_size bytes are unread.
LEMMA AdjustGrown ==
    ASSUME NEW b, Idle(b), Grown(b)
    PROVE  Grown(Adjust(b)) /\ Roomy(Adjust(b))
<1> DEFINE e == IF SizeOf(b) = 0 THEN [b EXCEPT !.pos = 0] ELSE b
<1>0. b \in BufferTypes /\ OffsetsInOrder(b) /\ b.tooLong = FALSE /\ b.disturbed = FALSE
      /\ b.posted = 0
  BY DEF Idle, Sound
<1>1. Idle(e)
  <2>1. CASE SizeOf(b) = 0
    BY <1>0, <2>1, PositionAtSize
  <2>2. CASE SizeOf(b) # 0
    BY <2>2
  <2> QED BY <2>1, <2>2
<1>2. Grown(e)
  <2>1. e.capacity = b.capacity /\ e.growths = b.growths
    BY <1>0 DEF BufferTypes
  <2> QED BY <2>1 DEF Grown
<1> HIDE DEF e
<1>3. e.pos \in Nat /\ MaxValid(e) \in Nat /\ SizeOf(e) \in Nat
      /\ SizeOf(e) <= e.pos /\ e.pos <= MaxValid(e)
  BY <1>1, SizesAssumption DEF Idle, Sound, BufferTypes, MaxValid, Least, SizeOf,
                              OffsetsInOrder, PositionBounded
<1>4. CASE MaxValid(e) > e.pos
  <2>1. Adjust(b) = e
    <3>1. ~(MaxValid(e) <= e.pos)
      BY <1>3, <1>4
    <3> QED BY <1>4, <3>1 DEF Adjust, e
  <2> QED BY <1>2, <1>3, <1>4, <2>1 DEF Roomy
<1>5. CASE MaxValid(e) <= e.pos /\ MaxValid(e) = SizeOf(e)
  <2>1. Adjust(b) = Grow(e)
    <3>1. ~(MaxValid(e) > e.pos)
      BY <1>3, <1>5
    <3> QED BY <1>5, <3>1 DEF Adjust, e
  <2> QED BY <1>1, <1>2, <1>5, <2>1, GrowGrown
<1>6. CASE MaxValid(e) <= e.pos /\ MaxValid(e) # SizeOf(e)
  <2>1. Adjust(b) = Move(e)
    <3>1. ~(MaxValid(e) > e.pos)
      BY <1>3, <1>6
    <3> QED BY <1>6, <3>1 DEF Adjust, e
  <2>2. SizeOf(e) < MaxValid(e)
    BY <1>3, <1>6
  <2> QED BY <1>1, <1>2, <2>1, <2>2, MoveGrown
<1> QED BY <1>3, <1>4, <1>5, <1>6

\* After startAsyncRecv a receive is outstanding, or max_size bytes are unread.
LEMMA StartGrown ==
    ASSUME NEW b, Sound(b), Grown(b)
    PROVE  LET s == StartAsyncRecv(b) IN
           Grown(s) /\ (s.posted = 0 => SizeOf(s) = MaxSize)
<1>1. CASE b.posted > 0
  BY <1>1 DEF StartAsyncRecv
<1>2. CASE ~(b.posted > 0)
  <2> DEFINE a == Adjust(b)
             n == MaxValid(a) - a.pos
             p == Prepare(a, n)
             s == [p EXCEPT !.posted = n]
  <2>1. Idle(b)
    BY <1>2 DEF Idle, Sound, BufferTypes
  <2>2. Idle(a) /\ Grown(a) /\ Roomy(a)
    BY <2>1, AdjustIdle, AdjustGrown
  <2> HIDE DEF a
  <2>3. a \in BufferTypes /\ OffsetsInOrder(a)
    BY <2>2 DEF Idle, Sound
  <2>4. /\ MaxValid(a) \in Nat /\ MaxValid(a) <= MaxSize /\ MaxValid(a) <= a.capacity
        /\ a.pos \in Nat /\ SizeOf(a) \in Nat
    BY <2>3, SizesAssumption DEF MaxValid, Least, SizeOf, BufferTypes, OffsetsInOrder
  <2>5. SizeOf(a) <= a.pos /\ a.pos <= MaxValid(a)
    BY <2>2 DEF Idle, Sound, PositionBounded
  <2>6. n \in Nat /\ n + SizeOf(a) <= MaxSize
    BY <2>4, <2>5, SizesAssumption
  <2>7. n = 0 => SizeOf(a) = MaxSize
    BY <2>2, <2>4 DEF Roomy
  <2> HIDE DEF n
  <2>8. Prepared(a, p)
    BY <2>2, <2>3, <2>6, PrepareRoom DEF Idle, Sound
  <2> HIDE DEF p
  <2>9. StartAsyncRecv(b) = s
    BY <1>2, <2>8 DEF StartAsyncRecv, a, n, p, Prepared
  <2>10. Grown(p)
    BY <2>2, <2>3, <2>8, PreparedGrown
  <2>11. /\ s.capacity = p.capacity /\ s.growths = p.growths /\ s.posted = n
         /\ SizeOf(s) = SizeOf(a)
    BY <2>8 DEF Prepared, BufferTypes, SizeOf
  <2> HIDE DEF s
  <2> QED BY <2>7, <2>9, <2>10, <2>11 DEF Grown
<1> QED BY <1>1, <1>2

\* The rest of a receive's handler, when nothing asks for a shrink.
LEMMA HandledGrown ==
    ASSUME NEW b, Idle(b), Grown(b), NEW n \in Nat, n <= SizeOf(b),
           NEW used \in Nat, used <= SizeOf(b), NEW again \in BOOLEAN
    PROVE  LET h == Handled(b, n, used, again, FALSE) IN
           Grown(h) /\ (h.posted = 0 => SizeOf(h) = MaxSize)
<1> DEFINE r == IF again THEN StartAsyncRecv(b) ELSE b
           c == Consume(r, used)
           g == IF MaxValid(c) = n THEN Grow(c) ELSE c
<1>1. /\ Sound(r) /\ SizeOf(r) = SizeOf(b) /\ (r.posted > 0 => r.pos < MaxValid(r))
      /\ Grown(r)
  BY StartSound, StartGrown DEF Idle
<1> HIDE DEF r
<1>2. Sound(c) /\ c.posted = r.posted /\ c.pos = r.pos /\ MaxValid(c) = MaxValid(r)
  BY <1>1, ConsumeSound
<1>3. Grown(c)
  <2>1. c.capacity = r.capacity /\ c.growths = r.growths
    BY <1>1 DEF Sound, BufferTypes, Consume
  <2> QED BY <1>1, <2>1 DEF Grown
<1> HIDE DEF c
<1>4. MaxValid(c) = n => Idle(c)
  <2>1. SizeOf(r) <= r.pos /\ r.pos \in Nat /\ SizeOf(r) \in Int /\ MaxValid(r) \in Nat
    BY <1>1, SizesAssumption DEF Sound, PositionBounded, BufferTypes, SizeOf, MaxValid, Least
  <2>2. c.posted \in Nat
    BY <1>2 DEF Sound, BufferTypes
  <2>3. MaxValid(c) = n => ~(c.posted > 0)
    BY <1>1, <1>2, <2>1
  <2> QED BY <1>2, <2>2, <2>3 DEF Idle
<1>5. Sound(g) /\ Grown(g)
  BY <1>2, <1>3, <1>4, GrowIdle, GrowGrown DEF Idle
<1> HIDE DEF g
<1>6. Handled(b, n, used, again, FALSE) = StartAsyncRecv(g)
  BY DEF Handled, g, c, r
<1> QED BY <1>5, <1>6, StartGrown

\* The invariant behind RoomUnlessFull.
RoomInv == shrinks = 0 => Grown(buf) /\ (started /\ buf.posted = 0 => SizeOf(buf) = MaxSize)

\* Every step keeps it.
LEMMA RoomStep ==
    ASSUME Inv, RoomInv, [Next]_vars
    PROVE  RoomInv'
<1> USE SizesAssumption, BoundsAssumption DEF Inv
<1>1. CASE StartRecv
  <2>1. shrinks' = shrinks /\ buf' = StartAsyncRecv(buf)
    BY <1>1 DEF StartRecv
  <2> SUFFICES ASSUME shrinks = 0
               PROVE  Grown(buf') /\ (buf'.posted = 0 => SizeOf(buf') = MaxSize)
    BY <2>1 DEF RoomInv
  <2> QED BY <2>1, StartGrown DEF RoomInv
<1>2. CASE ShrinkReceiveBuffer
  BY <1>2 DEF ShrinkReceiveBuffer, RoomInv, TypeOK
<1>3. CASE OnRecvCompleted
  <2> SUFFICES ASSUME shrinks' = 0
               PROVE  Grown(buf') /\ (buf'.posted = 0 => SizeOf(buf') = MaxSize)
    BY DEF RoomInv
  <2> DEFINE Amounts == {m \in Received : 0 < m /\ m < buf.posted} \cup {buf.posted}
             Used(b) == {0} \cup {SizeOf(b) - l : l \in {m \in Left : m <= SizeOf(b)}}
  <2>1. PICK n \in Amounts, again, ask \in BOOLEAN :
          LET b == Read(buf, n) IN
          /\ \E used \in Used(b) :
               buf' = Handled(b, n, used, again, mNeedShrinkReceiveBuffer \/ ask)
          /\ shrinks' = IF ask THEN shrinks + 1 ELSE shrinks
    BY <1>3 DEF OnRecvCompleted
  <2> DEFINE b == Read(buf, n)
  <2>2. PICK used \in Used(b) :
          buf' = Handled(b, n, used, again, mNeedShrinkReceiveBuffer \/ ask)
    BY <2>1
  <2>3. buf \in BufferTypes /\ OffsetsInOrder(buf) /\ buf.posted > 0
    BY <1>3 DEF OnRecvCompleted, Sound
  <2>4. n \in Nat /\ n <= buf.posted /\ SizeOf(buf) \in Nat
    <3>1. SizeOf(buf) \in Nat /\ buf.posted \in Nat
      BY <2>3 DEF SizeOf, BufferTypes, OffsetsInOrder
    <3> QED BY <2>3, <3>1
  <2>5. Idle(b) /\ SizeOf(b) = SizeOf(buf) + n
    BY <2>3, <2>4, ReadIdle
  <2>6. shrinks = 0 /\ ask = FALSE
    BY <2>1 DEF TypeOK
  <2>7. (mNeedShrinkReceiveBuffer \/ ask) = FALSE
    BY <2>6 DEF Unshrunk
  <2>8. Grown(b)
    <3>1. b.capacity = buf.capacity /\ b.growths = buf.growths
      BY <2>3 DEF Read, Commit, BufferTypes
    <3> QED BY <2>6, <3>1 DEF RoomInv, Grown
  <2> HIDE DEF b
  <2>9. used \in Nat /\ used <= SizeOf(b) /\ n <= SizeOf(b)
    BY <2>4, <2>5
  <2>10. buf' = Handled(b, n, used, again, FALSE)
    BY <2>2, <2>7
  <2> QED BY <2>4, <2>5, <2>8, <2>9, <2>10, HandledGrown
<1>4. CASE UNCHANGED vars
  BY <1>4 DEF vars, RoomInv
<1> QED BY <1>1, <1>2, <1>3, <1>4 DEF Next

\* A session that does not shrink its buffer stops receiving only when
\* max_size bytes are unread, for every max_size whose growths lead to it
\* (TcpSession.hpp:189-262).
THEOREM ReceivesUntilFull == Spec => []RoomUnlessFull
<1>1. Init => RoomInv
  <2> SUFFICES ASSUME Init PROVE Grown(buf) /\ ~started
    BY DEF RoomInv
  <2>1. buf.capacity = InitialSize /\ buf.growths = 0 /\ ~started
    BY DEF Init, Empty
  <2> QED BY <2>1, ReachSteps, SizesAssumption DEF Grown
<1>2. Inv /\ [Next]_vars => Inv'
  BY InvStep
<1>3. Inv /\ RoomInv /\ [Next]_vars => RoomInv'
  BY RoomStep
<1>4. RoomInv => RoomUnlessFull
  BY DEF RoomInv, RoomUnlessFull
<1> QED BY <1>1, <1>2, <1>3, <1>4, InvInit, PTL DEF Spec

=============================================================================
