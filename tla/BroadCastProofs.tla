-------------------------- MODULE BroadCastProofs --------------------------
(***************************************************************************)
(* Proofs about the packets of base/Packet.hpp and the broadcast server    *)
(* and clients that frame their streams with them, for any number of       *)
(* clients, any lengths of their packets and however the streams are cut:  *)
(*   - what the arithmetic of the writer and the reader guarantees;        *)
(*   - what the data handlers find in a stream of whole packets;           *)
(*   - that every packet is broadcast whole, goes round once, and that a   *)
(*     closed session leaves the list.                                     *)
(***************************************************************************)
EXTENDS BroadCast, WellFoundedInduction, SequenceTheorems, FiniteSetTheorems, TLAPS

----------------------------------------------------------------------------
(* The packets of base/Packet.hpp, for every width of size_t.  Both classes *)
(* add first and compare afterwards, so the facts say which callers are     *)
(* protected from a sum that wraps: a reader whose caller asked enough()    *)
(* first, a writer whose buffer stays addressable.                          *)


\* A sum below the width does not wrap.
LEMMA PlusExact ==
  ASSUME NEW pos \in Nat, NEW n \in Nat, pos + n < SizeMod
  PROVE  Plus(pos, n) = pos + n
BY SizeAssumption, SMT DEF Plus

\* A sum of two sizes that reaches the width wraps once.
LEMMA PlusWraps ==
  ASSUME NEW pos \in Nat, NEW n \in Nat, pos < SizeMod, n < SizeMod, pos + n >= SizeMod
  PROVE  Plus(pos, n) = pos + n - SizeMod
BY SizeAssumption, SMT DEF Plus

----------------------------------------------------------------------------
(* The reader *)

\* After enough(n), reading or skipping n bytes neither throws nor wraps: the
\* position moves forward by n and stays in the buffer (Packet.hpp:287-294,
\* 322-331, 390-406).  The data handlers test enough() before they move.
THEOREM EnoughMoves ==
  ASSUME NEW size \in Nat, NEW pos \in Nat, NEW n \in Nat,
         size < SizeMod, Enough(size, pos, n)
  PROVE  /\ CanMove(size, pos, n)
         /\ Plus(pos, n) = pos + n
         /\ Plus(pos, n) <= size
<1>1. pos + n <= size
  BY SMT DEF Enough
<1>2. Plus(pos, n) = pos + n
  BY <1>1, SizeAssumption, PlusExact, SMT
<1> QED
  BY <1>1, <1>2 DEF CanMove

\* Without enough(), addPos keeps the position in the buffer all the same;
\* what it may do with a length past the width is to step back, and only then
\* (Packet.hpp:324, the sum is compared after it has wrapped).
THEOREM MoveStaysInBuffer ==
  ASSUME NEW size \in Nat, NEW pos \in Nat, NEW n \in Nat,
         size < SizeMod, pos <= size, n < SizeMod, CanMove(size, pos, n)
  PROVE  /\ Plus(pos, n) \in 0..size
         /\ Plus(pos, n) < pos => n >= SizeMod - pos
<1>0. SizeMod \in Nat
  BY SizeAssumption
<1>1. CASE pos + n < SizeMod
  <2>1. Plus(pos, n) = pos + n
    BY <1>1, PlusExact
  <2> QED
    BY <2>1, SMT DEF CanMove
<1>2. CASE pos + n >= SizeMod
  <2>1. Plus(pos, n) = pos + n - SizeMod
    BY <1>0, <1>2, PlusWraps, SMT
  <2> QED
    BY <1>0, <1>2, <2>1, SMT DEF CanMove
<1> QED
  BY <1>0, <1>1, <1>2, SMT

\* A length field below what the caller subtracts from it wraps to a length
\* no buffer holds: enough() refuses it for every position, so the handler
\* waits for more and never reads outside (BroadCastServer.cpp:119).
THEOREM ShortLengthNeverEnough ==
  ASSUME NEW size \in Nat, NEW pos \in Nat, NEW n \in Nat, NEW k \in Nat,
         k <= SizeMod, size < SizeMod - k, n < k
  PROVE  ~Enough(size, pos, Minus(n, k))
<1>0. SizeMod \in Nat
  BY SizeAssumption
<1>1. Minus(n, k) = n + SizeMod - k
  BY <1>0, SMT DEF Minus
<1> QED
  BY <1>0, <1>1, SMT DEF Enough

----------------------------------------------------------------------------
(* The writer *)

\* A writer of the buffer it was given, or has allocated.
Writer(Units) == [max : Nat, auto : BOOLEAN, data : Seq(Units)]

\* What was written lies in the buffer.
InBuffer(w) == Len(w.data) <= w.max

\* A grown buffer is addressable: its size does not wrap.
Addressable(w, n) == w.max + n < SizeMod

\* growBuffer (Packet.hpp) keeps what was written and only enlarges the buffer.
LEMMA GrownWriter ==
  ASSUME NEW Units, NEW w \in Writer(Units), NEW n \in Nat, NEW memory \in BOOLEAN,
         InBuffer(w), Addressable(w, n)
  PROVE  /\ Grown(w, n, memory) \in Writer(Units)
         /\ Grown(w, n, memory).data = w.data
         /\ w.max <= Grown(w, n, memory).max
         /\ Plus(Len(w.data), n) = Len(w.data) + n
         /\ w.auto /\ memory => Len(w.data) + n <= Grown(w, n, memory).max
<1>0. /\ Len(w.data) \in Nat /\ w.max \in Nat /\ w.data \in Seq(Units) /\ w.auto \in BOOLEAN
      /\ SizeMod \in Nat
  BY SizeAssumption DEF Writer
<1>1. Plus(Len(w.data), n) = Len(w.data) + n
  BY <1>0, PlusExact, SMT DEF InBuffer, Addressable
<1>2. Plus(w.max, n) = w.max + n
  BY <1>0, PlusExact DEF Addressable
<1>3. CASE w.auto /\ Plus(Len(w.data), n) > w.max /\ memory
  <2>1. Grown(w, n, memory) = [w EXCEPT !.max = w.max + n]
    BY <1>2, <1>3 DEF Grown
  <2> QED
    BY <1>0, <1>1, <2>1, SMT DEF Writer, InBuffer
<1>4. CASE ~(w.auto /\ Plus(Len(w.data), n) > w.max /\ memory)
  <2>1. Grown(w, n, memory) = w
    BY <1>4 DEF Grown
  <2> QED
    BY <1>0, <1>1, <1>4, <2>1, SMT
<1> QED
  BY <1>3, <1>4

\* writeBuffer never writes past the buffer, whether or not it may allocate
\* and whether or not malloc succeeds: what does not fit is refused, and what
\* was written before stays (Packet.hpp:114-126, 207-231).
THEOREM WriteInBuffer ==
  ASSUME NEW Units, NEW w \in Writer(Units), NEW bytes \in Seq(Units), NEW memory \in BOOLEAN,
         InBuffer(w), Addressable(w, Len(bytes))
  PROVE  /\ InBuffer(Write(w, bytes, memory))
         /\ Write(w, bytes, memory).data =
              IF Writes(w, bytes, memory) THEN w.data \o bytes ELSE w.data
<1> DEFINE n == Len(bytes)
           g == Grown(w, n, memory)
<1>0. n \in Nat /\ w.data \in Seq(Units) /\ Len(w.data) \in Nat
  BY DEF Writer
<1>1. /\ g \in Writer(Units) /\ g.data = w.data /\ w.max <= g.max
      /\ Plus(Len(w.data), n) = Len(w.data) + n
  <2> HIDE DEF n
  <2> QED
    BY <1>0, GrownWriter DEF n
<1> HIDE DEF g
<1>2. g.max \in Nat /\ w.max \in Nat
  BY <1>1 DEF Writer
<1>3. CASE Writes(w, bytes, memory)
  <2>1. Write(w, bytes, memory) = [g EXCEPT !.data = w.data \o bytes]
    BY <1>1, <1>3 DEF Write, g
  <2>2. Write(w, bytes, memory).data = w.data \o bytes /\ Write(w, bytes, memory).max = g.max
    BY <1>1, <2>1 DEF Writer
  <2>3. Len(w.data \o bytes) = Len(w.data) + n
    BY <1>0
  <2>4. Len(w.data) + n <= g.max
    BY <1>1, <1>3 DEF Writes, g
  <2> QED
    BY <1>3, <2>2, <2>3, <2>4 DEF InBuffer
<1>4. CASE ~Writes(w, bytes, memory)
  <2>1. Write(w, bytes, memory) = g
    BY <1>4 DEF Write, g
  <2> QED
    BY <1>0, <1>1, <1>2, <1>4, <2>1, SMT DEF InBuffer
<1> QED
  BY <1>3, <1>4

\* A writer that may allocate takes everything while malloc succeeds: no field
\* of a packet is left out, whatever the capacity it started with.
THEOREM AutoWriterTakesAll ==
  ASSUME NEW Units, NEW w \in Writer(Units), NEW bytes \in Seq(Units),
         w.auto, InBuffer(w), Addressable(w, Len(bytes))
  PROVE  Write(w, bytes, TRUE).data = w.data \o bytes
<1> DEFINE n == Len(bytes)
<1>0. n \in Nat
  OBVIOUS
<1>1. /\ Plus(Len(w.data), n) = Len(w.data) + n
      /\ Len(w.data) + n <= Grown(w, n, TRUE).max
  <2> HIDE DEF n
  <2> QED
    BY <1>0, GrownWriter DEF n
<1>2. Writes(w, bytes, TRUE)
  BY <1>1 DEF Writes
<1> QED
  BY <1>2, WriteInBuffer

----------------------------------------------------------------------------
(* What a client writes. *)

\* A byte: the client whose packet it is of, and its place there.
Byte == Clients \X Nat

\* The length of a whole packet, the magic number included.
Total(c) == Word + PacketLen(c)

\* A whole packet: every byte, in its place.
WholeBytes(c) == [i \in 1..Total(c) |-> <<c, i>>]

\* The lengths can be computed with.
LEMMA Lengths ==
    ASSUME NEW c \in Clients
    PROVE  /\ {Word, AddrSize} \subseteq Nat \ {0}
           /\ {OpSize, Capacity, MaxRounds, PacketSize[c], SizeMod} \subseteq Nat
           /\ PacketLen(c) = Word + OpSize + AddrSize + PacketSize[c]
           /\ Total(c) = 2 * Word + OpSize + AddrSize + PacketSize[c]
           /\ PacketLen(c) \in Nat /\ Total(c) \in Nat \ {0}
           /\ Capacity + Total(c) < SizeMod
<1>1. /\ {Word, AddrSize} \subseteq Nat \ {0}
      /\ {OpSize, Capacity, MaxRounds, PacketSize[c]} \subseteq Nat
  BY SizesAssumption
<1>2. SizeMod \in Nat
  BY SizeAssumption
<1>3. PacketLen(c) = Word + OpSize + AddrSize + PacketSize[c]
  BY DEF PacketLen
<1>4. Capacity + Word + PacketLen(c) < SizeMod
  BY MemoryAssumption
<1>5. PacketLen(c) \in Nat
  BY <1>1, <1>3, SMT
<1>6. Capacity + Total(c) < SizeMod /\ Total(c) \in Nat \ {0}
  BY <1>1, <1>4, <1>5, SMT DEF Total
<1>7. Total(c) = 2 * Word + OpSize + AddrSize + PacketSize[c]
  BY <1>1, <1>3, SMT DEF Total
<1> QED BY <1>1, <1>2, <1>3, <1>4, <1>5, <1>6, <1>7

\* Some bytes of a packet, one after the other.
LEMMA BytesAre ==
    ASSUME NEW c \in Clients, NEW first \in Nat \ {0}, NEW n \in Nat
    PROVE  /\ Bytes(c, first, n) \in Seq(Byte)
           /\ Len(Bytes(c, first, n)) = n
           /\ \A i \in 1..n : Bytes(c, first, n)[i] = <<c, first + i - 1>>
<1> DEFINE s == [i \in 1..n |-> <<c, first + i - 1>>]
<1>1. \A i \in 1..n : <<c, first + i - 1>> \in Byte
  <2> SUFFICES ASSUME NEW i \in 1..n PROVE <<c, first + i - 1>> \in Byte
    OBVIOUS
  <2>1. first + i - 1 \in Nat
    BY SMT
  <2> QED BY <2>1 DEF Byte
<1>2. s \in Seq(Byte)
  BY <1>1
<1>3. Len(s) = n
  BY <1>2, SMT
<1> QED BY <1>2, <1>3 DEF Bytes

\* A writer that has taken the first n bytes of the packet.
Took(w, c, n) ==
    /\ w \in Writer(Byte) /\ w.auto /\ InBuffer(w) /\ w.max <= Capacity + n
    /\ w.data = Bytes(c, 1, n)

\* Some bytes of a packet and the ones that follow.
LEMMA BytesFollow ==
    ASSUME NEW c \in Clients, NEW n \in Nat, NEW m \in Nat
    PROVE  Bytes(c, 1, n) \o Bytes(c, n + 1, m) = Bytes(c, 1, n + m)
<1> DEFINE s == Bytes(c, 1, n)
           t == Bytes(c, n + 1, m)
           u == Bytes(c, 1, n + m)
<1>1. s \in Seq(Byte) /\ Len(s) = n /\ \A i \in 1..n : s[i] = <<c, 1 + i - 1>>
  <2>1. 1 \in Nat \ {0}
    BY SMT
  <2> QED BY <2>1, BytesAre
<1>2. t \in Seq(Byte) /\ Len(t) = m /\ \A i \in 1..m : t[i] = <<c, n + 1 + i - 1>>
  <2>1. n + 1 \in Nat \ {0}
    BY SMT
  <2> QED BY <2>1, BytesAre
<1>3. /\ u \in Seq(Byte) /\ Len(u) = n + m
      /\ \A i \in 1..(n + m) : u[i] = <<c, 1 + i - 1>>
  <2>1. n + m \in Nat /\ 1 \in Nat \ {0}
    BY SMT
  <2> QED BY <2>1, BytesAre
<1> HIDE DEF s, t, u
<1>4. s \o t \in Seq(Byte) /\ Len(s \o t) = n + m
  BY <1>1, <1>2, ConcatProperties
<1>5. ASSUME NEW i \in 1..(n + m) PROVE (s \o t)[i] = u[i]
  <2>1. (s \o t)[i] = IF i <= n THEN s[i] ELSE t[i - n]
    BY <1>1, <1>2, ConcatProperties
  <2>2. u[i] = <<c, i>>
    BY <1>3, SMT
  <2>3. CASE i <= n
    BY <1>1, <2>1, <2>2, <2>3, SMT
  <2>4. CASE ~(i <= n)
    <3>1. i - n \in 1..m /\ n + 1 + (i - n) - 1 = i
      BY <2>4, SMT
    <3> QED BY <1>2, <2>1, <2>2, <2>4, <3>1
  <2> QED BY <2>3, <2>4
<1>6. s \o t = u
  BY <1>3, <1>4, <1>5, SeqEqual
<1> QED BY <1>6 DEF s, t, u

\* Writing the next bytes: none is refused, and the buffer stays addressable.
LEMMA TakesMore ==
    ASSUME NEW c \in Clients, NEW w, NEW n \in Nat, NEW m \in Nat,
           Took(w, c, n), n + m <= Total(c)
    PROVE  Took(Write(w, Bytes(c, n + 1, m), TRUE), c, n + m)
<1> DEFINE b == Bytes(c, n + 1, m)
           g == Grown(w, m, TRUE)
<1>0. {Capacity, Total(c), SizeMod} \subseteq Nat /\ Capacity + Total(c) < SizeMod
  BY Lengths
<1>1. b \in Seq(Byte) /\ Len(b) = m
  <2>1. n + 1 \in Nat \ {0}
    BY SMT
  <2> QED BY <2>1, BytesAre
<1>2. /\ w \in Writer(Byte) /\ w.auto /\ InBuffer(w) /\ w.max <= Capacity + n
      /\ w.data = Bytes(c, 1, n) /\ w.max \in Nat /\ w.auto \in BOOLEAN /\ Len(w.data) \in Nat
  BY DEF Took, Writer
<1>3. Addressable(w, m)
  BY <1>0, <1>2, SMT DEF Addressable
<1>4. /\ InBuffer(Write(w, b, TRUE)) /\ Write(w, b, TRUE).data = w.data \o b
  BY <1>1, <1>2, <1>3, AutoWriterTakesAll, WriteInBuffer
<1>5. /\ g \in Writer(Byte) /\ g.data = w.data /\ Len(w.data) + m <= g.max
      /\ Plus(Len(w.data), m) = Len(w.data) + m
  BY <1>1, <1>2, <1>3, GrownWriter
<1>6. g.auto /\ g.max <= Capacity + (n + m)
  <2>1. Plus(w.max, m) = w.max + m
    BY <1>2, <1>3, PlusExact DEF Addressable
  <2>2. CASE w.auto /\ Plus(Len(w.data), m) > w.max /\ TRUE
    <3>1. g = [w EXCEPT !.max = w.max + m]
      BY <2>1, <2>2 DEF Grown
    <3>2. g.max = w.max + m /\ g.auto = w.auto
      BY <1>2, <3>1 DEF Writer
    <3> HIDE DEF g
    <3>3. g.auto
      BY <1>2, <3>2
    <3>4. g.max <= Capacity + (n + m)
      BY <1>0, <1>2, <3>2, SMT
    <3> QED BY <3>3, <3>4
  <2>3. CASE ~(w.auto /\ Plus(Len(w.data), m) > w.max /\ TRUE)
    <3>1. g = w
      BY <2>3 DEF Grown
    <3> HIDE DEF g
    <3> QED BY <1>0, <1>2, <3>1, SMT
  <2> QED BY <2>2, <2>3
<1>7. Writes(w, b, TRUE)
  BY <1>1, <1>5 DEF Writes
<1>8. Write(w, b, TRUE) = [g EXCEPT !.data = w.data \o b]
  BY <1>1, <1>5, <1>7 DEF Write
<1>9. w.data \o b \in Seq(Byte) /\ w.data \o b = Bytes(c, 1, n + m)
  <2>1. w.data \in Seq(Byte)
    BY <1>2 DEF Writer
  <2>2. w.data \o b \in Seq(Byte)
    BY <1>1, <2>1, ConcatProperties
  <2> QED BY <1>2, <2>2, BytesFollow, ZenonT(60)
<1> HIDE DEF g, b
<1>10. /\ Write(w, b, TRUE) \in Writer(Byte)
       /\ Write(w, b, TRUE).auto = g.auto /\ Write(w, b, TRUE).max = g.max
  BY <1>5, <1>8, <1>9 DEF Writer
<1>11. Took(Write(w, b, TRUE), c, n + m)
  BY <1>4, <1>6, <1>9, <1>10 DEF Took
<1> QED BY <1>11 DEF b

\* What the establish handler of a client sends is its packet, whole: no field
\* is refused by the writer it starts with, whatever that one's room is
\* (BroadCastClient.cpp:69-79, base/Packet.hpp).
THEOREM PacketIsWhole == \A c \in Clients : PacketOf(c) = WholeBytes(c)
<1> SUFFICES ASSUME NEW c \in Clients PROVE PacketOf(c) = WholeBytes(c)
  OBVIOUS
<1> DEFINE start == NewWriter(Capacity, TRUE)
           magic == Write(start, Bytes(c, 1, Word), TRUE)
           len   == Write(magic, Bytes(c, Word + 1, Word), TRUE)
           op    == Write(len, Bytes(c, 2 * Word + 1, OpSize), TRUE)
           addr  == Write(op, Bytes(c, 2 * Word + OpSize + 1, AddrSize), TRUE)
           rest  == Write(addr, Bytes(c, 2 * Word + OpSize + AddrSize + 1, PacketSize[c]), TRUE)
<1>0. /\ {Word, OpSize, AddrSize, PacketSize[c], Capacity} \subseteq Nat
      /\ Total(c) = 2 * Word + OpSize + AddrSize + PacketSize[c]
  BY Lengths
<1>1. Took(start, c, 0)
  <2>1. Bytes(c, 1, 0) = <<>>
    <3>1. Bytes(c, 1, 0) \in Seq(Byte) /\ Len(Bytes(c, 1, 0)) = 0
      BY BytesAre
    <3> QED BY <3>1, EmptySeq
  <2>2. start = [max |-> Capacity, auto |-> TRUE, data |-> <<>>]
    BY DEF NewWriter
  <2> HIDE DEF start
  <2>3. start.max = Capacity /\ start.auto /\ start.data = <<>>
    BY <2>2
  <2>4. start \in Writer(Byte)
    <3>1. <<>> \in Seq(Byte) /\ Capacity \in Nat
      BY <1>0
    <3> QED BY <2>2, <3>1 DEF Writer
  <2>5. InBuffer(start) /\ start.max <= Capacity + 0
    BY <1>0, <2>3, SMT DEF InBuffer
  <2> QED BY <2>1, <2>3, <2>4, <2>5 DEF Took
<1> HIDE DEF start
<1>2. Took(magic, c, Word)
  <2>1. 0 + 1 = 1 /\ 0 + Word = Word /\ Word <= Total(c)
    BY <1>0, SMT
  <2> QED BY <1>0, <1>1, <2>1, TakesMore
<1> HIDE DEF magic
<1>3. Took(len, c, 2 * Word)
  <2>1. Word + Word = 2 * Word /\ Word + Word <= Total(c)
    BY <1>0, SMT
  <2> QED BY <1>0, <1>2, <2>1, TakesMore
<1> HIDE DEF len
<1>4. Took(op, c, 2 * Word + OpSize)
  <2>1. 2 * Word \in Nat /\ 2 * Word + OpSize <= Total(c)
    BY <1>0, SMT
  <2> QED BY <1>0, <1>3, <2>1, TakesMore
<1> HIDE DEF op
<1>5. Took(addr, c, 2 * Word + OpSize + AddrSize)
  <2>1. 2 * Word + OpSize \in Nat /\ 2 * Word + OpSize + AddrSize <= Total(c)
    BY <1>0, SMT
  <2> QED BY <1>0, <1>4, <2>1, TakesMore
<1> HIDE DEF addr
<1>6. Took(rest, c, Total(c))
  <2>1. /\ 2 * Word + OpSize + AddrSize \in Nat
        /\ 2 * Word + OpSize + AddrSize + PacketSize[c] <= Total(c)
    BY <1>0, SMT
  <2> QED BY <1>0, <1>5, <2>1, TakesMore
<1>7. Written(c) = rest
  BY DEF Written, rest, addr, op, len, magic, start
<1>8. PacketOf(c) = Bytes(c, 1, Total(c))
  BY <1>6, <1>7 DEF PacketOf, Packets, Took
<1>9. \A i \in 1..Total(c) : <<c, 1 + i - 1>> = <<c, i>>
  BY Lengths, SMT
<1> QED BY <1>8, <1>9 DEF Bytes, WholeBytes

----------------------------------------------------------------------------
(* How often something occurs in a sequence. *)

Where(s, x) == {i \in DOMAIN s : s[i] = x}

Times(s, x) == Cardinality(Where(s, x))

\* It can be counted.
LEMMA Countable ==
    ASSUME NEW S, NEW s \in Seq(S), NEW x
    PROVE  /\ IsFiniteSet(Where(s, x)) /\ Times(s, x) \in Nat
           /\ Where(s, x) = {i \in 1..Len(s) : s[i] = x}
<1>1. Len(s) \in Nat /\ DOMAIN s = 1..Len(s)
  OBVIOUS
<1>2. IsFiniteSet(1..Len(s))
  BY <1>1, FS_Interval
<1>3. Where(s, x) \in SUBSET (1..Len(s))
  BY <1>1 DEF Where
<1>4. IsFiniteSet(Where(s, x))
  BY <1>2, <1>3, FS_Subset
<1>5. Cardinality(Where(s, x)) \in Nat
  BY <1>4, FS_CardinalityType
<1> QED BY <1>1, <1>4, <1>5 DEF Where, Times

\* Never, or once.
LEMMA TimesFew ==
    ASSUME NEW S, NEW s \in Seq(S), NEW x
    PROVE  /\ Times(s, x) = 0 <=> \A i \in 1..Len(s) : s[i] # x
           /\ Times(s, x) <= 1 => \A i, j \in 1..Len(s) : s[i] = x /\ s[j] = x => i = j
<1> DEFINE W == Where(s, x)
<1>1. IsFiniteSet(W) /\ W = {i \in 1..Len(s) : s[i] = x} /\ Times(s, x) = Cardinality(W)
  BY Countable DEF Times
<1> HIDE DEF W
<1>2. Times(s, x) = 0 <=> W = {}
  BY <1>1, FS_EmptySet
<1>3. ASSUME Times(s, x) <= 1, NEW i \in 1..Len(s), NEW j \in 1..Len(s), s[i] = x, s[j] = x
      PROVE  i = j
  <2>1. i \in W /\ j \in W
    BY <1>1, <1>3
  <2>2. Times(s, x) \in Nat
    BY Countable
  <2>3. Times(s, x) # 0
    BY <1>2, <2>1
  <2>4. Cardinality(W) = 1
    BY <1>1, <1>3, <2>2, <2>3, SMT
  <2>5. \E y : W = {y}
    BY <1>1, <2>4, FS_Singleton
  <2> QED BY <2>1, <2>5
<1> QED BY <1>1, <1>2, <1>3

\* In no byte, and in one.
LEMMA TimesShort ==
    \A x, y : Times(<<>>, x) = 0 /\ Times(<<y>>, x) = IF y = x THEN 1 ELSE 0
<1> SUFFICES ASSUME NEW x, NEW y
             PROVE  Times(<<>>, x) = 0 /\ Times(<<y>>, x) = IF y = x THEN 1 ELSE 0
  OBVIOUS
<1>1. Where(<<>>, x) = {}
  BY DEF Where
<1>2. Where(<<y>>, x) = IF y = x THEN {1} ELSE {}
  BY DEF Where
<1> QED BY <1>1, <1>2, FS_EmptySet, FS_Singleton DEF Times

\* In one sequence behind another.
LEMMA TimesConcat ==
    ASSUME NEW S, NEW s \in Seq(S), NEW t \in Seq(S), NEW x
    PROVE  Times(s \o t, x) = Times(s, x) + Times(t, x)
<1> DEFINE A == Where(s, x)
           B == Where(t, x)
           C == {i + Len(s) : i \in B}
           f == [i \in B |-> i + Len(s)]
<1>1. /\ s \o t \in Seq(S) /\ Len(s \o t) = Len(s) + Len(t) /\ Len(s) \in Nat /\ Len(t) \in Nat
      /\ \A i \in 1..Len(s) + Len(t) : (s \o t)[i] = IF i <= Len(s) THEN s[i] ELSE t[i - Len(s)]
  BY ConcatProperties
<1>2. /\ IsFiniteSet(A) /\ IsFiniteSet(B) /\ Cardinality(A) \in Nat /\ Cardinality(B) \in Nat
      /\ A = {i \in 1..Len(s) : s[i] = x} /\ B = {i \in 1..Len(t) : t[i] = x}
      /\ Times(s, x) = Cardinality(A) /\ Times(t, x) = Cardinality(B)
  BY Countable DEF Times
<1>3. Where(s \o t, x) = {i \in 1..Len(s \o t) : (s \o t)[i] = x}
  BY <1>1, Countable
<1> HIDE DEF A, B
<1>4. B \subseteq Nat
  BY <1>2, SMT
<1>5. f \in Bijection(B, C)
  <2>1. f \in [B -> C]
    OBVIOUS
  <2>2. \A i, j \in B : f[i] = f[j] => i = j
    BY <1>1, <1>4, SMT
  <2>3. \A k \in C : \E i \in B : f[i] = k
    OBVIOUS
  <2> QED BY <2>1, <2>2, <2>3 DEF Bijection, Injection, Surjection, IsInjective
<1>6. IsFiniteSet(C) /\ Cardinality(C) = Cardinality(B)
  <2>1. ExistsBijection(B, C)
    BY <1>5 DEF ExistsBijection
  <2> QED BY <1>2, <2>1, FS_Bijection
<1>7. \A k : k \in C <=> \E i \in B : k = i + Len(s)
  OBVIOUS
<1> HIDE DEF C, f
<1>8. Where(s \o t, x) = A \cup C
  <2>1. ASSUME NEW k \in Where(s \o t, x) PROVE k \in A \cup C
    <3>1. k \in 1..Len(s) + Len(t) /\ (s \o t)[k] = x
      BY <1>1, <1>3, <2>1
    <3>2. CASE k <= Len(s)
      <4>1. k \in 1..Len(s)
        BY <1>1, <3>1, <3>2, SMT
      <4> QED BY <1>1, <1>2, <3>1, <3>2, <4>1
    <3>3. CASE ~(k <= Len(s))
      <4>1. k - Len(s) \in 1..Len(t) /\ k = (k - Len(s)) + Len(s)
        BY <1>1, <3>1, <3>3, SMT
      <4>2. k - Len(s) \in B
        BY <1>1, <1>2, <3>1, <3>3, <4>1
      <4> QED BY <1>7, <4>1, <4>2
    <3> QED BY <3>2, <3>3
  <2>2. ASSUME NEW k \in A PROVE k \in Where(s \o t, x)
    <3>1. k \in 1..Len(s) /\ k \in 1..Len(s) + Len(t) /\ k <= Len(s)
      BY <1>1, <1>2, <2>2, SMT
    <3> QED BY <1>1, <1>2, <1>3, <2>2, <3>1
  <2>3. ASSUME NEW k \in C PROVE k \in Where(s \o t, x)
    <3>1. PICK i \in B : k = i + Len(s)
      BY <1>7, <2>3
    <3>2. i \in 1..Len(t)
      BY <1>2
    <3>3. k \in 1..Len(s) + Len(t) /\ ~(k <= Len(s)) /\ k - Len(s) = i
      BY <1>1, <3>1, <3>2, SMT
    <3>4. (s \o t)[k] = t[i]
      BY <1>1, <3>3
    <3> QED BY <1>1, <1>2, <1>3, <3>3, <3>4
  <2> QED BY <2>1, <2>2, <2>3
<1>9. A \cap C = {}
  <2> SUFFICES ASSUME NEW k \in A, k \in C PROVE FALSE
    OBVIOUS
  <2>1. PICK i \in B : k = i + Len(s)
    BY <1>7
  <2>2. i \in 1..Len(t) /\ k \in 1..Len(s)
    BY <1>2
  <2> QED BY <1>1, <2>1, <2>2, SMT
<1>10. Cardinality(A \cup C) = Cardinality(A) + Cardinality(C) - 0
  <2>1. Cardinality(A \cap C) = 0
    BY <1>9, FS_EmptySet
  <2>2. Cardinality(A \cup C) = Cardinality(A) + Cardinality(C) - Cardinality(A \cap C)
    BY <1>2, <1>6, FS_Union
  <2> QED BY <2>1, <2>2
<1> QED BY <1>2, <1>6, <1>8, <1>10, SMT DEF Times

\* A sequence is its first element and the rest.
LEMMA HeadFirst ==
    ASSUME NEW S, NEW s \in Seq(S), s # <<>>
    PROVE  s = <<Head(s)>> \o Tail(s)
<1> DEFINE h == <<Head(s)>>
           r == Tail(s)
<1>1. /\ Head(s) \in S /\ r \in Seq(S) /\ Len(r) = Len(s) - 1
      /\ Head(s) = s[1] /\ \A i \in 1..Len(r) : r[i] = s[i + 1]
      /\ Len(s) \in Nat \ {0}
  BY HeadTailProperties, EmptySeq
<1>2. h \in Seq(S) /\ Len(h) = 1 /\ h[1] = s[1]
  BY <1>1
<1> HIDE DEF h, r
<1>3. /\ h \o r \in Seq(S) /\ Len(h \o r) = 1 + Len(r)
      /\ \A i \in 1..1 + Len(r) : (h \o r)[i] = IF i <= 1 THEN h[i] ELSE r[i - 1]
  <2>1. /\ h \o r \in Seq(S) /\ Len(h \o r) = Len(h) + Len(r)
        /\ \A i \in 1..Len(h) + Len(r) :
             (h \o r)[i] = IF i <= Len(h) THEN h[i] ELSE r[i - Len(h)]
    BY <1>1, <1>2, ConcatProperties
  <2> QED BY <1>2, <2>1
<1>4. Len(h \o r) = Len(s)
  BY <1>1, <1>3, SMT
<1>5. ASSUME NEW i \in 1..Len(s) PROVE (h \o r)[i] = s[i]
  <2>1. CASE i = 1
    BY <1>1, <1>2, <1>3, <2>1, SMT
  <2>2. CASE i # 1
    <3>1. i - 1 \in 1..Len(r) /\ i \in 1..1 + Len(r) /\ ~(i <= 1) /\ (i - 1) + 1 = i
      BY <1>1, <2>2, SMT
    <3>2. (h \o r)[i] = r[i - 1]
      BY <1>3, <3>1
    <3>3. r[i - 1] = s[(i - 1) + 1]
      BY <1>1, <3>1
    <3> QED BY <3>1, <3>2, <3>3
  <2> QED BY <2>1, <2>2
<1>6. h \o r = s
  BY <1>3, <1>4, <1>5, SeqEqual
<1> QED BY <1>6 DEF h, r

\* With one more at the end, or without the first.
LEMMA TimesEnds ==
    ASSUME NEW S, NEW s \in Seq(S), NEW x
    PROVE  /\ \A y \in S : Times(Append(s, y), x) = Times(s, x) + (IF y = x THEN 1 ELSE 0)
           /\ s # <<>> => Times(s, x) = (IF Head(s) = x THEN 1 ELSE 0) + Times(Tail(s), x)
<1>1. ASSUME NEW y \in S
      PROVE  Times(Append(s, y), x) = Times(s, x) + (IF y = x THEN 1 ELSE 0)
  <2>1. <<y>> \in Seq(S) /\ Append(s, y) = s \o <<y>>
    BY AppendIsConcat
  <2>2. Times(s \o <<y>>, x) = Times(s, x) + Times(<<y>>, x)
    BY <2>1, TimesConcat
  <2> QED BY <2>1, <2>2, TimesShort
<1>2. ASSUME s # <<>>
      PROVE  Times(s, x) = (IF Head(s) = x THEN 1 ELSE 0) + Times(Tail(s), x)
  <2>1. Head(s) \in S /\ Tail(s) \in Seq(S)
    BY <1>2, HeadTailProperties
  <2>2. <<Head(s)>> \in Seq(S)
    BY <2>1
  <2>3. s = <<Head(s)>> \o Tail(s)
    BY <1>2, <2>1, HeadFirst
  <2>4. Times(<<Head(s)>> \o Tail(s), x) = Times(<<Head(s)>>, x) + Times(Tail(s), x)
    BY <2>1, <2>2, TimesConcat
  <2>5. Times(<<Head(s)>>, x) = IF Head(s) = x THEN 1 ELSE 0
    BY TimesShort
  <2>6. Times(s, x) = Times(<<Head(s)>>, x) + Times(Tail(s), x)
    BY <2>3, <2>4
  <2> QED BY <2>5, <2>6
<1> QED BY <1>1, <1>2

\* Every x is before every y.
Before(s, x, y) == \A i, j \in 1..Len(s) : s[i] = x /\ s[j] = y => i < j

\* That stays so without the first, and with more at the end unless an x is
\* behind a y.
LEMMA BeforeEnds ==
    ASSUME NEW S, NEW s \in Seq(S), NEW x, NEW y, Before(s, x, y)
    PROVE  /\ s # <<>> => Before(Tail(s), x, y)
           /\ s # <<>> /\ Head(s) = y => Times(s, x) = 0
           /\ \A t \in Seq(S) : Times(t, x) = 0 \/ Times(s \o t, y) = 0 => Before(s \o t, x, y)
<1>1. ASSUME s # <<>> PROVE Before(Tail(s), x, y)
  <2>1. Len(Tail(s)) = Len(s) - 1 /\ \A i \in 1..Len(Tail(s)) : Tail(s)[i] = s[i + 1]
    BY <1>1, HeadTailProperties
  <2>2. \A i \in 1..Len(Tail(s)) : i + 1 \in 1..Len(s)
    BY <2>1, SMT
  <2>3. ASSUME NEW i \in 1..Len(Tail(s)), NEW j \in 1..Len(Tail(s)), Tail(s)[i] = x, Tail(s)[j] = y
        PROVE  i < j
    <3>1. i + 1 < j + 1
      BY <2>1, <2>2, <2>3 DEF Before
    <3> QED BY <3>1, SMT
  <2> QED BY <2>3 DEF Before
<1>2. ASSUME s # <<>>, Head(s) = y PROVE Times(s, x) = 0
  <2>1. 1 \in 1..Len(s) /\ s[1] = y
    BY <1>2, EmptySeq, SMT
  <2>2. ASSUME NEW i \in 1..Len(s), s[i] = x PROVE FALSE
    <3>1. i < 1
      BY <2>1, <2>2 DEF Before
    <3> QED BY <3>1, SMT
  <2> QED BY <2>2, TimesFew
<1>3. ASSUME NEW t \in Seq(S), Times(t, x) = 0 \/ Times(s \o t, y) = 0 PROVE Before(s \o t, x, y)
  <2>1. /\ s \o t \in Seq(S) /\ Len(s \o t) = Len(s) + Len(t)
        /\ Len(s) \in Nat /\ Len(t) \in Nat
        /\ \A i \in 1..Len(s) + Len(t) :
             (s \o t)[i] = IF i <= Len(s) THEN s[i] ELSE t[i - Len(s)]
    BY ConcatProperties
  <2>2. ASSUME NEW i \in 1..Len(s \o t), NEW j \in 1..Len(s \o t), (s \o t)[i] = x, (s \o t)[j] = y
        PROVE  i < j
    <3>1. Times(s \o t, y) # 0
      BY <2>1, <2>2, TimesFew
    <3>2. Times(t, x) = 0
      BY <1>3, <3>1
    <3>3. i <= Len(s)
      <4> SUFFICES ASSUME ~(i <= Len(s)) PROVE FALSE
        OBVIOUS
      <4>1. i - Len(s) \in 1..Len(t)
        BY <2>1, SMT
      <4>2. t[i - Len(s)] = x
        BY <2>1, <2>2
      <4> QED BY <3>2, <4>1, <4>2, TimesFew
    <3>4. i \in 1..Len(s) /\ s[i] = x
      BY <2>1, <2>2, <3>3, SMT
    <3>5. CASE j <= Len(s)
      <4>1. j \in 1..Len(s) /\ s[j] = y
        BY <2>1, <2>2, <3>5, SMT
      <4> QED BY <3>4, <4>1 DEF Before
    <3>6. CASE ~(j <= Len(s))
      BY <2>1, <3>3, <3>6, SMT
    <3> QED BY <3>5, <3>6
  <2> QED BY <2>2 DEF Before
<1> QED BY <1>1, <1>2, <1>3

\* A set that holds 0, and n + 1 with each n, holds every number.
LEMMA NatSetInduction ==
    ASSUME NEW T, 0 \in T, \A n \in Nat : n \in T => n + 1 \in T
    PROVE  Nat \subseteq T
<1> SUFFICES ASSUME Nat \ T # {} PROVE FALSE
  OBVIOUS
<1>1. PICK x \in Nat \ T : \A y \in Nat \ T : ~ (<<y, x>> \in OpToRel(<, Nat))
  BY NatLessThanWellFounded, WFMin
<1>2. \A y \in Nat \ T : ~ (y < x)
  BY <1>1 DEF OpToRel
<1>3. x - 1 \in Nat
  BY SMT
<1> QED BY <1>2, <1>3

----------------------------------------------------------------------------
(* Streams of whole packets. *)

\* The byte at k is the last of its packet.
IsLast(s, k) == s[k][2] = Total(s[k][1])

\* The bytes are those of whole packets, each in its place.
Packed(s) ==
    /\ s \in Seq(Byte)
    /\ \A k \in 1..Len(s) : s[k][2] \in 1..Total(s[k][1])
    /\ \A k \in 1..Len(s) : (k = 1 \/ IsLast(s, k - 1)) => s[k][2] = 1
    /\ \A k \in 1..Len(s) : k # 1 /\ ~IsLast(s, k - 1) => s[k] = <<s[k - 1][1], s[k - 1][2] + 1>>
    /\ s # <<>> => IsLast(s, Len(s))

\* Behind pos there starts a packet, or there is nothing.
AtStart(s, pos) == pos = Len(s) \/ s[pos + 1][2] = 1

\* A byte that is a pair is that pair.
LEMMA ByteIs == \A b \in Byte : b = <<b[1], b[2]>> /\ b[1] \in Clients /\ b[2] \in Nat
BY DEF Byte

\* Where a packet starts, all of it follows.
LEMMA InPacket ==
    ASSUME NEW s, Packed(s), NEW pos \in 0..Len(s), pos # Len(s), AtStart(s, pos),
           NEW c, c = s[pos + 1][1]
    PROVE  /\ c \in Clients /\ pos + Total(c) <= Len(s)
           /\ \A j \in 1..Total(c) : s[pos + j] = <<c, j>>
           /\ AtStart(s, pos + Total(c))
<1>0. s \in Seq(Byte) /\ Len(s) \in Nat /\ pos + 1 \in 1..Len(s) /\ s # <<>>
  <2>1. s \in Seq(Byte) /\ Len(s) \in Nat
    BY DEF Packed
  <2>2. pos + 1 \in 1..Len(s) /\ Len(s) # 0
    BY <2>1, SMT
  <2> QED BY <2>1, <2>2, EmptySeq
<1>1. s[pos + 1] = <<c, 1>> /\ c \in Clients
  <2>1. s[pos + 1] \in Byte
    BY <1>0
  <2> QED BY <2>1, ByteIs DEF AtStart
<1>2. Total(c) \in Nat \ {0}
  BY <1>1, Lengths
<1> DEFINE T == {n \in Nat : n + 1 <= Total(c) =>
                    pos + (n + 1) <= Len(s) /\ s[pos + (n + 1)] = <<c, n + 1>>}
<1>3. 0 \in T
  <2>1. 0 + 1 = 1 /\ pos + 1 <= Len(s)
    BY <1>0, SMT
  <2> QED BY <1>1, <2>1
<1>4. ASSUME NEW n \in Nat, n \in T PROVE n + 1 \in T
  <2> SUFFICES ASSUME (n + 1) + 1 <= Total(c)
               PROVE  /\ pos + ((n + 1) + 1) <= Len(s)
                      /\ s[pos + ((n + 1) + 1)] = <<c, (n + 1) + 1>>
    BY SMT
  <2>1. pos + (n + 1) <= Len(s) /\ s[pos + (n + 1)] = <<c, n + 1>>
    <3>1. n + 1 <= Total(c)
      BY <1>2, SMT
    <3> QED BY <1>4, <3>1
  <2>2. ~IsLast(s, pos + (n + 1))
    <3>1. n + 1 # Total(c)
      BY <1>2, SMT
    <3> QED BY <2>1, <3>1 DEF IsLast
  <2>3. pos + (n + 1) # Len(s)
    BY <1>0, <2>2 DEF Packed
  <2>4. /\ pos + ((n + 1) + 1) \in 1..Len(s) /\ pos + ((n + 1) + 1) # 1
        /\ pos + ((n + 1) + 1) - 1 = pos + (n + 1)
    BY <1>0, <2>1, <2>3, SMT
  <2>5. s[pos + ((n + 1) + 1)] = <<s[pos + (n + 1)][1], s[pos + (n + 1)][2] + 1>>
    BY <2>2, <2>4 DEF Packed
  <2> QED BY <2>1, <2>4, <2>5
<1> HIDE DEF T
<1>5. Nat \subseteq T
  BY <1>3, <1>4, NatSetInduction
<1>6. ASSUME NEW j \in 1..Total(c) PROVE pos + j <= Len(s) /\ s[pos + j] = <<c, j>>
  <2>1. j - 1 \in Nat /\ (j - 1) + 1 = j /\ j <= Total(c)
    BY <1>2, SMT
  <2> QED BY <1>5, <2>1 DEF T
<1>7. Total(c) \in 1..Total(c)
  BY <1>2, SMT
<1>8. IsLast(s, pos + Total(c)) /\ pos + Total(c) <= Len(s)
  BY <1>6, <1>7 DEF IsLast
<1>9. AtStart(s, pos + Total(c))
  <2> SUFFICES ASSUME pos + Total(c) # Len(s) PROVE s[pos + Total(c) + 1][2] = 1
    BY DEF AtStart
  <2>1. pos + Total(c) + 1 \in 1..Len(s) /\ (pos + Total(c) + 1) - 1 = pos + Total(c)
    BY <1>0, <1>2, <1>8, SMT
  <2> QED BY <1>8, <2>1 DEF Packed
<1> QED BY <1>1, <1>6, <1>8, <1>9

\* Nothing, and a packet.
LEMMA PackedShort ==
    /\ Packed(<<>>)
    /\ \A c \in Clients :
         /\ Packed(WholeBytes(c)) /\ Len(WholeBytes(c)) = Total(c) /\ WholeBytes(c) # <<>>
         /\ \A i \in 1..Total(c) : WholeBytes(c)[i] = <<c, i>>
<1>1. Packed(<<>>)
  BY EmptySeq DEF Packed
<1>2. ASSUME NEW c \in Clients
      PROVE  /\ Packed(WholeBytes(c)) /\ Len(WholeBytes(c)) = Total(c) /\ WholeBytes(c) # <<>>
             /\ \A i \in 1..Total(c) : WholeBytes(c)[i] = <<c, i>>
  <2> DEFINE p == WholeBytes(c)
             n == Total(c)
  <2>1. n \in Nat \ {0}
    BY Lengths
  <2>2. \A i \in 1..n : <<c, i>> \in Byte
    <3>1. \A i \in 1..n : i \in Nat
      BY <2>1, SMT
    <3> QED BY <3>1 DEF Byte
  <2>3. p = [i \in 1..n |-> <<c, i>>]
    BY DEF WholeBytes
  <2> HIDE DEF p, n
  <2>4. p \in Seq(Byte) /\ Len(p) = n /\ \A i \in 1..n : p[i] = <<c, i>>
    <3>1. p \in Seq(Byte)
      BY <2>1, <2>2, <2>3
    <3>2. Len(p) = n
      BY <2>1, <2>3, <3>1, SMT
    <3> QED BY <2>3, <3>1, <3>2
  <2>5. \A i \in 1..n : IsLast(p, i) <=> i = n
    BY <2>4 DEF IsLast, n
  <2>6. \A k \in 1..Len(p) : p[k][2] \in 1..Total(p[k][1])
    BY <2>4 DEF n
  <2>7. ASSUME NEW k \in 1..Len(p), k = 1 \/ IsLast(p, k - 1) PROVE p[k][2] = 1
    <3>1. k # 1 => k - 1 \in 1..n /\ k - 1 # n
      BY <2>1, <2>4, SMT
    <3>2. k = 1
      BY <2>5, <2>7, <3>1
    <3> QED BY <2>4, <3>2
  <2>8. ASSUME NEW k \in 1..Len(p), k # 1 PROVE p[k] = <<p[k - 1][1], p[k - 1][2] + 1>>
    <3>1. k - 1 \in 1..n /\ (k - 1) + 1 = k
      BY <2>1, <2>4, <2>8, SMT
    <3> QED BY <2>4, <3>1
  <2>9. n \in 1..n /\ p # <<>>
    <3>1. n \in 1..n /\ n # 0
      BY <2>1, SMT
    <3> QED BY <2>4, <3>1, EmptySeq
  <2>10. Packed(p)
    BY <2>4, <2>5, <2>6, <2>7, <2>8, <2>9 DEF Packed
  <2> QED BY <2>4, <2>9, <2>10 DEF p, n
<1> QED BY <1>1, <1>2

\* Packets behind packets.
LEMMA PackedConcat ==
    ASSUME NEW s, NEW t, Packed(s), Packed(t)
    PROVE  Packed(s \o t)
<1> DEFINE u == s \o t
<1>1. /\ s \in Seq(Byte) /\ t \in Seq(Byte) /\ Len(s) \in Nat /\ Len(t) \in Nat
  BY DEF Packed
<1>2. /\ u \in Seq(Byte) /\ Len(u) = Len(s) + Len(t)
      /\ \A i \in 1..Len(s) + Len(t) : u[i] = IF i <= Len(s) THEN s[i] ELSE t[i - Len(s)]
  BY <1>1, ConcatProperties
<1> HIDE DEF u
<1>3. /\ \A k \in 1..Len(s) : u[k] = s[k]
      /\ \A k \in 1..Len(t) : u[Len(s) + k] = t[k]
  <2>1. ASSUME NEW k \in 1..Len(s) PROVE u[k] = s[k]
    <3>1. k \in 1..Len(s) + Len(t) /\ k <= Len(s)
      BY <1>1, SMT
    <3> QED BY <1>2, <3>1
  <2>2. ASSUME NEW k \in 1..Len(t) PROVE u[Len(s) + k] = t[k]
    <3>1. /\ Len(s) + k \in 1..Len(s) + Len(t) /\ ~(Len(s) + k <= Len(s))
          /\ (Len(s) + k) - Len(s) = k
      BY <1>1, SMT
    <3> QED BY <1>2, <3>1
  <2> QED BY <2>1, <2>2
<1>4. ASSUME NEW k \in 1..Len(u)
      PROVE  \/ k \in 1..Len(s)
             \/ \E i \in 1..Len(t) : k = Len(s) + i
  <2>1. CASE k <= Len(s)
    BY <1>1, <2>1, SMT
  <2>2. CASE ~(k <= Len(s))
    <3>1. k - Len(s) \in 1..Len(t) /\ k = Len(s) + (k - Len(s))
      BY <1>1, <1>2, <2>2, SMT
    <3> QED BY <3>1
  <2> QED BY <2>1, <2>2
<1>5. \A k \in 1..Len(s) : IsLast(u, k) <=> IsLast(s, k)
  BY <1>3 DEF IsLast
<1>6. \A k \in 1..Len(t) : IsLast(u, Len(s) + k) <=> IsLast(t, k)
  BY <1>3 DEF IsLast
<1>7. ASSUME NEW k \in 1..Len(u) PROVE u[k][2] \in 1..Total(u[k][1])
  <2>1. CASE k \in 1..Len(s)
    BY <1>3, <2>1 DEF Packed
  <2>2. CASE \E i \in 1..Len(t) : k = Len(s) + i
    <3>1. PICK i \in 1..Len(t) : k = Len(s) + i
      BY <2>2
    <3>2. u[k] = t[i]
      BY <1>3, <3>1
    <3> QED BY <3>2 DEF Packed
  <2> QED BY <1>4, <2>1, <2>2
<1>8. Len(s) # 0 => Len(s) \in 1..Len(s) /\ IsLast(u, Len(s))
  <2>1. Len(s) # 0 => Len(s) \in 1..Len(s) /\ s # <<>>
    BY <1>1, EmptySeq, SMT
  <2> QED BY <1>5, <2>1 DEF Packed
<1>9. ASSUME NEW k \in 1..Len(u)
      PROVE  /\ (k = 1 \/ IsLast(u, k - 1)) => u[k][2] = 1
             /\ k # 1 /\ ~IsLast(u, k - 1) => u[k] = <<u[k - 1][1], u[k - 1][2] + 1>>
  <2>1. CASE k \in 1..Len(s)
    <3>1. CASE k = 1
      BY <1>3, <2>1, <3>1 DEF Packed
    <3>2. CASE k # 1
      <4>1. k - 1 \in 1..Len(s)
        BY <1>1, <2>1, <3>2, SMT
      <4> QED BY <1>3, <1>5, <2>1, <3>2, <4>1 DEF Packed
    <3> QED BY <3>1, <3>2
  <2>2. CASE \E i \in 1..Len(t) : k = Len(s) + i
    <3>1. PICK i \in 1..Len(t) : k = Len(s) + i
      BY <2>2
    <3>2. CASE i = 1
      <4>1. u[k][2] = 1
        BY <1>3, <3>1, <3>2 DEF Packed
      <4>2. k = 1 \/ IsLast(u, k - 1)
        <5>1. Len(s) = 0 => k = 1
          BY <3>1, <3>2, SMT
        <5>2. k - 1 = Len(s)
          BY <1>1, <3>1, <3>2, SMT
        <5> QED BY <1>8, <5>1, <5>2
      <4> QED BY <4>1, <4>2
    <3>3. CASE i # 1
      <4>1. i - 1 \in 1..Len(t) /\ k # 1 /\ k - 1 = Len(s) + (i - 1)
        BY <1>1, <3>1, <3>3, SMT
      <4>2. u[k] = t[i] /\ u[k - 1] = t[i - 1] /\ (IsLast(u, k - 1) <=> IsLast(t, i - 1))
        BY <1>3, <1>6, <3>1, <4>1
      <4> QED BY <3>3, <4>1, <4>2 DEF Packed
    <3> QED BY <3>2, <3>3
  <2> QED BY <1>4, <2>1, <2>2
<1>10. u # <<>> => IsLast(u, Len(u))
  <2>1. CASE t = <<>>
    <3>1. u = s
      BY <1>1, <2>1, ConcatEmptySeq DEF u
    <3> QED BY <3>1 DEF Packed
  <2>2. CASE t # <<>>
    <3>1. Len(t) \in 1..Len(t)
      BY <1>1, <2>2, EmptySeq, SMT
    <3> QED BY <1>2, <1>6, <2>2, <3>1 DEF Packed
  <2> QED BY <2>1, <2>2
<1> QED BY <1>2, <1>7, <1>9, <1>10 DEF Packed, u

\* What is left of a sequence, and how it is counted.
LEMMA Rest ==
    ASSUME NEW S, NEW s \in Seq(S), NEW pos \in 0..Len(s)
    PROVE  LET t == SubSeq(s, pos + 1, Len(s)) IN
           /\ t \in Seq(S) /\ Len(t) = Len(s) - pos
           /\ \A k \in 1..Len(t) : t[k] = s[pos + k]
<1> DEFINE t == SubSeq(s, pos + 1, Len(s))
<1>1. Len(s) \in Nat /\ pos + 1 \in Int /\ Len(s) \in Int
  BY SMT
<1>2. \A i \in (pos + 1)..Len(s) : s[i] \in S
  <2>1. \A i \in (pos + 1)..Len(s) : i \in 1..Len(s)
    BY <1>1, SMT
  <2> QED BY <2>1
<1>3. /\ t \in Seq(S) /\ Len(t) = IF pos + 1 <= Len(s) THEN Len(s) - (pos + 1) + 1 ELSE 0
      /\ \A i \in 1..Len(s) - (pos + 1) + 1 : t[i] = s[(pos + 1) + i - 1]
  BY <1>1, <1>2, SubSeqProperties
<1> HIDE DEF t
<1>4. Len(t) = Len(s) - pos
  BY <1>1, <1>3, SMT
<1>5. \A k \in 1..Len(t) : k \in 1..Len(s) - (pos + 1) + 1 /\ (pos + 1) + k - 1 = pos + k
  BY <1>1, <1>4, SMT
<1>6. \A k \in 1..Len(t) : t[k] = s[pos + k]
  BY <1>3, <1>5
<1> QED BY <1>3, <1>4, <1>6 DEF t

\* From where a packet starts, there are whole packets.
LEMMA PackedRest ==
    ASSUME NEW s, Packed(s), NEW pos \in 0..Len(s), AtStart(s, pos)
    PROVE  Packed(SubSeq(s, pos + 1, Len(s)))
<1> DEFINE t == SubSeq(s, pos + 1, Len(s))
<1>1. s \in Seq(Byte) /\ Len(s) \in Nat
  BY DEF Packed
<1>2. t \in Seq(Byte) /\ Len(t) = Len(s) - pos /\ \A k \in 1..Len(t) : t[k] = s[pos + k]
  BY <1>1, Rest
<1> HIDE DEF t
<1>3. \A k \in 1..Len(t) : pos + k \in 1..Len(s)
  BY <1>1, <1>2, SMT
<1>4. \A k \in 1..Len(t) : IsLast(t, k) <=> IsLast(s, pos + k)
  BY <1>2 DEF IsLast
<1>5. \A k \in 1..Len(t) : t[k][2] \in 1..Total(t[k][1])
  BY <1>2, <1>3 DEF Packed
<1>6. ASSUME NEW k \in 1..Len(t)
      PROVE  /\ (k = 1 \/ IsLast(t, k - 1)) => t[k][2] = 1
             /\ k # 1 /\ ~IsLast(t, k - 1) => t[k] = <<t[k - 1][1], t[k - 1][2] + 1>>
  <2>1. CASE k = 1
    <3>1. pos # Len(s)
      BY <1>1, <1>2, SMT
    <3> QED BY <1>2, <2>1, <3>1 DEF AtStart
  <2>2. CASE k # 1
    <3>1. /\ k - 1 \in 1..Len(t) /\ pos + k # 1 /\ pos + k \in 1..Len(s)
          /\ pos + (k - 1) = (pos + k) - 1
      BY <1>1, <1>2, <2>2, SMT
    <3>2. /\ t[k] = s[pos + k] /\ t[k - 1] = s[(pos + k) - 1]
          /\ IsLast(t, k - 1) <=> IsLast(s, (pos + k) - 1)
      BY <1>2, <1>4, <3>1
    <3> QED BY <2>2, <3>1, <3>2 DEF Packed
  <2> QED BY <2>1, <2>2
<1>7. t # <<>> => IsLast(t, Len(t))
  <2> SUFFICES ASSUME t # <<>> PROVE IsLast(t, Len(t))
    OBVIOUS
  <2>1. Len(t) \in 1..Len(t) /\ pos + Len(t) = Len(s) /\ Len(s) # 0
    BY <1>1, <1>2, EmptySeq, SMT
  <2>2. s # <<>>
    BY <2>1, EmptySeq
  <2> QED BY <1>4, <2>1, <2>2 DEF Packed
<1> QED BY <1>2, <1>5, <1>6, <1>7 DEF Packed, t

----------------------------------------------------------------------------
(* What a data handler finds in a receive buffer. *)

\* The buffer, which can be counted, holds the first bytes of the stream.
Buffered(buf, s) ==
    /\ buf \in Seq(Byte) /\ Len(buf) < SizeMod /\ Len(buf) <= Len(s)
    /\ \A k \in 1..Len(buf) : buf[k] = s[k]

\* A difference of lengths that does not fall below zero does not wrap.
LEMMA MinusExact ==
    ASSUME NEW n \in Nat, NEW k \in Nat, k <= n, n < SizeMod
    PROVE  Minus(n, k) = n - k
<1>1. SizeMod \in Nat \ {0}
  BY SizeAssumption
<1> DEFINE d == n - k
<1>2. d \in Nat /\ d < SizeMod /\ n + SizeMod - k = d + SizeMod
  BY <1>1, SMT
<1> HIDE DEF d
<1>3. (d + SizeMod) % SizeMod = d
  BY <1>1, <1>2, SMT
<1> QED BY <1>2, <1>3 DEF Minus, d

\* The words of a packet are found where they are.
LEMMA WordIs ==
    ASSUME NEW s, Packed(s), NEW buf, Buffered(buf, s), NEW pos \in 0..Len(buf), AtStart(s, pos),
           Enough(Len(buf), pos, Word)
    PROVE  /\ pos + Word <= Len(buf) /\ pos # Len(s) /\ pos \in 0..Len(s)
           /\ IsWord(buf, pos, 1)
<1>0. /\ s \in Seq(Byte) /\ buf \in Seq(Byte) /\ Len(s) \in Nat /\ Len(buf) \in Nat
      /\ Len(buf) <= Len(s) /\ \A k \in 1..Len(buf) : buf[k] = s[k]
  BY DEF Packed, Buffered
<1>1. Word \in Nat \ {0}
  BY SizesAssumption
<1>2. pos + Word <= Len(buf) /\ pos # Len(s) /\ pos \in 0..Len(s) /\ pos + 1 \in 1..Len(buf)
  BY <1>0, <1>1, SMT DEF Enough
<1> DEFINE c == s[pos + 1][1]
<1>3. /\ c \in Clients /\ \A j \in 1..Total(c) : s[pos + j] = <<c, j>>
  BY <1>2, InPacket
<1>4. Word <= Total(c)
  <2> HIDE DEF c
  <2>1. /\ {OpSize, AddrSize, PacketSize[c]} \subseteq Nat
        /\ Total(c) = 2 * Word + OpSize + AddrSize + PacketSize[c]
    BY <1>3, Lengths
  <2> QED BY <1>1, <2>1, SMT
<1> DEFINE w == SubSeq(buf, pos + 1, pos + Word)
<1>5. w \in Seq(Byte) /\ Len(w) = Word /\ \A i \in 1..Word : w[i] = buf[pos + i]
  <2>1. /\ pos + 1 \in Int /\ pos + Word \in Int /\ pos + 1 <= pos + Word
        /\ (pos + Word) - (pos + 1) + 1 = Word
        /\ \A i \in (pos + 1)..(pos + Word) : i \in 1..Len(buf)
    BY <1>0, <1>1, <1>2, SMT
  <2>2. \A i \in (pos + 1)..(pos + Word) : buf[i] \in Byte
    BY <1>0, <2>1
  <2>3. /\ w \in Seq(Byte) /\ Len(w) = Word
        /\ \A i \in 1..Word : w[i] = buf[(pos + 1) + i - 1]
    BY <2>1, <2>2, SubSeqProperties
  <2>4. \A i \in 1..Word : (pos + 1) + i - 1 = pos + i
    BY <1>0, SMT
  <2> QED BY <2>3, <2>4
<1> HIDE DEF w
<1>6. buf[pos + 1] = s[pos + 1]
  BY <1>0, <1>2
<1>7. /\ Bytes(c, 1, Word) \in Seq(Byte) /\ Len(Bytes(c, 1, Word)) = Word
      /\ \A i \in 1..Word : Bytes(c, 1, Word)[i] = <<c, 1 + i - 1>>
  <2>1. 1 \in Nat \ {0} /\ Word \in Nat
    BY <1>1, SMT
  <2> HIDE DEF c
  <2> QED BY <1>3, <2>1, BytesAre
<1> HIDE DEF c
<1>8. ASSUME NEW i \in 1..Word PROVE w[i] = Bytes(c, 1, Word)[i]
  <2>1. /\ 1 + i - 1 = i /\ pos + i \in 1..Len(buf) /\ i \in 1..Total(c)
    <3>1. c \in Clients => Total(c) \in Nat
      BY Lengths
    <3> QED BY <1>0, <1>1, <1>2, <1>3, <1>4, <3>1, SMT
  <2>2. w[i] = buf[pos + i] /\ buf[pos + i] = s[pos + i]
    BY <1>0, <1>5, <2>1
  <2>3. s[pos + i] = <<c, i>>
    BY <1>3, <2>1
  <2> QED BY <1>7, <2>1, <2>2, <2>3
<1>9. w = Bytes(c, 1, Word)
  BY <1>5, <1>7, <1>8, SeqEqual
<1>10. IsWord(buf, pos, 1)
  BY <1>6, <1>9 DEF IsWord, w, c
<1> QED BY <1>2, <1>10

\* The places of a packet that starts behind pos in a buffer of l bytes: w, o,
\* a and r are the lengths of its parts, n its own and m what its length
\* field says; M is the modulus.
ArePlaces(w, o, a, r, m, n, M, l, pos) ==
    /\ l - (pos + w) >= w => pos + 2 * w <= l
    /\ pos + 2 * w <= l => pos + 2 * w < M /\ pos + (w + 1) <= l
    /\ l - (pos + 2 * w) >= o + a + r => pos + n <= l
    /\ pos + w \in Nat /\ (pos + w) + w = pos + 2 * w
    /\ w + 1 \in 1..n /\ pos + (w + 1) = (pos + w) + 1
    /\ w <= m /\ m < M /\ m \in Nat /\ m - w = o + a + r
    /\ pos + 2 * w \in Nat /\ o + a + r \in Nat
    /\ (pos + 2 * w) + (o + a + r) = pos + n /\ pos + n <= pos + n
    /\ (pos + 2 * w) + o <= pos + n /\ pos + 2 * w + o \in Nat
    /\ (pos + 2 * w + o) + a <= pos + n /\ pos + 2 * w + o + a \in Nat
    /\ (pos + 2 * w + o + a) + r = pos + n
    /\ o <= o + a + r /\ o + a + r < M /\ (o + a + r) - o = a + r
    /\ a + r \in Nat /\ a <= a + r /\ a + r < M /\ (a + r) - a = r
    /\ 2 * w + o + 1 \in 1..n /\ pos + (2 * w + o + 1) = (pos + 2 * w + o) + 1
    /\ pos + n <= l => pos + (2 * w + o + 1) <= l
    /\ pos + 1 \in Int /\ pos + m + w \in Int /\ pos + 1 <= pos + m + w
    /\ (pos + m + w) - (pos + 1) + 1 = n
    /\ pos + n <= l => \A i \in (pos + 1)..(pos + m + w) : i \in 1..l
    /\ \A i \in 1..n : (pos + 1) + i - 1 = pos + i /\ (pos + n <= l => pos + i <= l)

\* The places are those, whatever the lengths.
LEMMA Places ==
    ASSUME NEW w \in Nat \ {0}, NEW o \in Nat, NEW a \in Nat \ {0}, NEW r \in Nat,
           NEW m, m = w + o + a + r, NEW n, n = 2 * w + o + a + r,
           NEW M \in Nat, n < M, NEW l \in Nat, l < M, NEW pos \in 0..l
    PROVE  ArePlaces(w, o, a, r, m, n, M, l, pos)
<1>1. m \in Nat /\ n \in Nat /\ pos \in Nat
  BY SMT
<1>2. \A i \in (pos + 1)..(pos + m + w) : pos + n <= l => i \in 1..l
  BY <1>1, SMT
<1>3. \A i \in 1..n : (pos + 1) + i - 1 = pos + i /\ (pos + n <= l => pos + i <= l)
  BY <1>1, SMT
<1> QED BY <1>1, <1>2, <1>3, SMT DEF ArePlaces

\* A packet that is there whole is taken whole: both handlers find its length
\* and its owner, no move of theirs is refused, and they step to its end.
LEMMA WholeIs ==
    ASSUME NEW s, Packed(s), NEW buf, Buffered(buf, s), NEW pos \in 0..Len(buf), AtStart(s, pos),
           Whole(buf, pos), NEW c, c = s[pos + 1][1]
    PROVE  /\ c \in Clients /\ pos # Len(s) /\ pos \in 0..Len(s) /\ pos + Total(c) <= Len(buf)
           /\ PacketAt(buf, pos) = WholeBytes(c)
           /\ ServerInBounds(buf, pos) /\ ServerSkips(buf, pos) = pos + Total(c)
           /\ ClientInBounds(buf, pos) /\ ClientSkips(buf, pos) = pos + Total(c)
           /\ \A d : OwnAt(d, buf, pos) <=> d = c
<1>0. /\ s \in Seq(Byte) /\ buf \in Seq(Byte) /\ Len(s) \in Nat /\ Len(buf) \in Nat
      /\ Len(buf) <= Len(s) /\ Len(buf) < SizeMod /\ \A k \in 1..Len(buf) : buf[k] = s[k]
  BY DEF Packed, Buffered
<1>1. pos + Word <= Len(buf) /\ pos # Len(s) /\ pos \in 0..Len(s)
  BY WordIs DEF Whole
<1>2. /\ c \in Clients /\ \A j \in 1..Total(c) : s[pos + j] = <<c, j>>
  BY <1>1, InPacket
<1>3. /\ {Word, AddrSize} \subseteq Nat \ {0}
      /\ {OpSize, PacketSize[c], SizeMod} \subseteq Nat
      /\ PacketLen(c) = Word + OpSize + AddrSize + PacketSize[c]
      /\ Total(c) = 2 * Word + OpSize + AddrSize + PacketSize[c]
      /\ PacketLen(c) \in Nat /\ Total(c) \in Nat \ {0}
      /\ Capacity + Total(c) < SizeMod /\ Capacity \in Nat
  BY <1>2, Lengths
<1>4. Len(buf) \in Nat /\ Len(buf) < SizeMod
  BY <1>0
<1>5. ArePlaces(Word, OpSize, AddrSize, PacketSize[c], PacketLen(c), Total(c), SizeMod,
                Len(buf), pos)
  <2>1. /\ Word \in Nat \ {0} /\ OpSize \in Nat /\ AddrSize \in Nat \ {0}
        /\ PacketSize[c] \in Nat /\ SizeMod \in Nat
        /\ PacketLen(c) = Word + OpSize + AddrSize + PacketSize[c]
        /\ Total(c) = 2 * Word + OpSize + AddrSize + PacketSize[c]
    BY <1>3
  <2>2. Total(c) < SizeMod
    <3>1. Capacity \in Nat /\ Total(c) \in Nat /\ Capacity + Total(c) < SizeMod
      BY <1>3
    <3> QED BY <2>1, <3>1, SMT
  <2> QED BY <1>4, <2>1, <2>2, Places
<1>6. AfterMagic(pos) = pos + Word
  BY <1>1, <1>3, <1>4, PlusExact, SMTT(40) DEF AfterMagic
<1>7. pos + 2 * Word <= Len(buf)
  <2>1. Enough(Len(buf), pos + Word, Word)
    BY <1>6 DEF Whole
  <2> QED BY <1>5, <2>1 DEF Enough, ArePlaces
<1>8. AfterLength(pos) = pos + 2 * Word
  <2>1. pos + Word \in Nat /\ (pos + Word) + Word = pos + 2 * Word /\ pos + 2 * Word < SizeMod
    BY <1>5, <1>7 DEF ArePlaces
  <2>2. Plus(pos + Word, Word) = (pos + Word) + Word
    BY <1>3, <2>1, PlusExact
  <2> QED BY <1>6, <2>1, <2>2 DEF AfterLength
<1>9. ASSUME NEW j \in 1..Total(c), pos + j <= Len(buf) PROVE buf[pos + j] = <<c, j>>
  <2>1. pos + j \in 1..Len(buf)
    BY <1>3, <1>4, <1>9, SMT
  <2> QED BY <1>0, <1>2, <2>1
<1>10. LengthAt(buf, pos) = PacketLen(c)
  <2>1. /\ Word + 1 \in 1..Total(c) /\ pos + (Word + 1) <= Len(buf)
        /\ pos + (Word + 1) = (pos + Word) + 1
    BY <1>5, <1>7 DEF ArePlaces
  <2>2. buf[(pos + Word) + 1] = <<c, Word + 1>>
    BY <1>9, <2>1
  <2> QED BY <1>6, <2>2 DEF LengthAt
<1>11. RestAt(buf, pos) = OpSize + AddrSize + PacketSize[c]
  <2>1. /\ Word <= PacketLen(c) /\ PacketLen(c) < SizeMod /\ Word \in Nat
        /\ PacketLen(c) - Word = OpSize + AddrSize + PacketSize[c]
    BY <1>3, <1>5 DEF ArePlaces
  <2>2. Minus(PacketLen(c), Word) = PacketLen(c) - Word
    BY <1>3, <2>1, MinusExact
  <2> QED BY <1>10, <2>1, <2>2 DEF RestAt
<1>12. pos + Total(c) <= Len(buf)
  <2>1. Enough(Len(buf), pos + 2 * Word, OpSize + AddrSize + PacketSize[c])
    BY <1>8, <1>11 DEF Whole
  <2> QED BY <1>5, <2>1 DEF Enough, ArePlaces
<1>13. ASSUME NEW p \in Nat, NEW n \in Nat, p + n <= pos + Total(c)
       PROVE  CanMove(Len(buf), p, n) /\ Plus(p, n) = p + n
  <2>1. p + n <= Len(buf) /\ p + n < SizeMod
    <3>1. pos + Total(c) \in Nat /\ SizeMod \in Nat
      <4>1. Total(c) \in Nat
        BY <1>3
      <4>2. pos + Total(c) \in Nat
        BY <4>1, SMT
      <4> QED BY <1>3, <4>2
    <3>2. p + n <= Len(buf)
      BY <1>4, <1>12, <1>13, <3>1
    <3> QED BY <1>4, <3>1, <3>2
  <2>2. Plus(p, n) = p + n
    BY <2>1, PlusExact
  <2> QED BY <2>1, <2>2 DEF CanMove
<1>14. /\ ServerInBounds(buf, pos) /\ ServerSkips(buf, pos) = pos + Total(c)
  <2>1. /\ pos + 2 * Word \in Nat /\ OpSize + AddrSize + PacketSize[c] \in Nat
        /\ (pos + 2 * Word) + (OpSize + AddrSize + PacketSize[c]) = pos + Total(c)
        /\ pos + Total(c) <= pos + Total(c)
    BY <1>3, <1>5 DEF ArePlaces
  <2>2. /\ CanMove(Len(buf), pos + 2 * Word, OpSize + AddrSize + PacketSize[c])
        /\ Plus(pos + 2 * Word, OpSize + AddrSize + PacketSize[c]) = pos + Total(c)
    BY <1>13, <2>1
  <2> QED BY <1>8, <1>11, <2>2 DEF ServerInBounds, ServerSkips, ServerRest
<1>15. AfterOp(pos) = pos + 2 * Word + OpSize /\ CanMove(Len(buf), AfterLength(pos), OpSize)
  <2>1. /\ pos + 2 * Word \in Nat /\ OpSize \in Nat
        /\ (pos + 2 * Word) + OpSize <= pos + Total(c)
    BY <1>3, <1>5 DEF ArePlaces
  <2>2. /\ CanMove(Len(buf), pos + 2 * Word, OpSize)
        /\ Plus(pos + 2 * Word, OpSize) = (pos + 2 * Word) + OpSize
    BY <1>13, <2>1
  <2> QED BY <1>8, <2>2 DEF AfterOp
<1>16. /\ AfterAddr(pos) = pos + 2 * Word + OpSize + AddrSize
       /\ CanMove(Len(buf), AfterOp(pos), AddrSize)
  <2>1. /\ pos + 2 * Word + OpSize \in Nat /\ AddrSize \in Nat
        /\ (pos + 2 * Word + OpSize) + AddrSize <= pos + Total(c)
    BY <1>3, <1>5 DEF ArePlaces
  <2>2. /\ CanMove(Len(buf), pos + 2 * Word + OpSize, AddrSize)
        /\ Plus(pos + 2 * Word + OpSize, AddrSize) = (pos + 2 * Word + OpSize) + AddrSize
    BY <1>13, <2>1
  <2> QED BY <1>15, <2>2 DEF AfterAddr
<1>17. ClientRest(buf, pos) = PacketSize[c]
  <2>1. /\ OpSize + AddrSize + PacketSize[c] \in Nat /\ OpSize \in Nat /\ AddrSize \in Nat
        /\ OpSize <= OpSize + AddrSize + PacketSize[c]
        /\ OpSize + AddrSize + PacketSize[c] < SizeMod
        /\ (OpSize + AddrSize + PacketSize[c]) - OpSize = AddrSize + PacketSize[c]
        /\ AddrSize + PacketSize[c] \in Nat /\ AddrSize <= AddrSize + PacketSize[c]
        /\ AddrSize + PacketSize[c] < SizeMod
        /\ (AddrSize + PacketSize[c]) - AddrSize = PacketSize[c]
    BY <1>3, <1>5 DEF ArePlaces
  <2>2. Minus(OpSize + AddrSize + PacketSize[c], OpSize) = AddrSize + PacketSize[c]
    BY <2>1, MinusExact
  <2>3. Minus(AddrSize + PacketSize[c], AddrSize) = PacketSize[c]
    BY <2>1, MinusExact
  <2> QED BY <1>11, <2>2, <2>3 DEF ClientRest
<1>18. ClientInBounds(buf, pos) /\ ClientSkips(buf, pos) = pos + Total(c)
  <2>1. /\ pos + 2 * Word + OpSize + AddrSize \in Nat /\ PacketSize[c] \in Nat
        /\ (pos + 2 * Word + OpSize + AddrSize) + PacketSize[c] = pos + Total(c)
        /\ pos + Total(c) <= pos + Total(c)
    BY <1>3, <1>5 DEF ArePlaces
  <2>2. /\ CanMove(Len(buf), pos + 2 * Word + OpSize + AddrSize, PacketSize[c])
        /\ Plus(pos + 2 * Word + OpSize + AddrSize, PacketSize[c]) = pos + Total(c)
    BY <1>13, <2>1
  <2> QED BY <1>15, <1>16, <1>17, <2>2 DEF ClientInBounds, ClientSkips
<1>19. \A d : OwnAt(d, buf, pos) <=> d = c
  <2>1. /\ 2 * Word + OpSize + 1 \in 1..Total(c) /\ pos + (2 * Word + OpSize + 1) <= Len(buf)
        /\ pos + (2 * Word + OpSize + 1) = (pos + 2 * Word + OpSize) + 1
    BY <1>5, <1>12 DEF ArePlaces
  <2>2. buf[(pos + 2 * Word + OpSize) + 1] = <<c, 2 * Word + OpSize + 1>>
    BY <1>9, <2>1
  <2> QED BY <1>15, <2>2 DEF OwnAt
<1>20. PacketAt(buf, pos) = WholeBytes(c)
  <2> DEFINE p == SubSeq(buf, pos + 1, pos + PacketLen(c) + Word)
             n == Total(c)
  <2>1. /\ pos + 1 \in Int /\ pos + PacketLen(c) + Word \in Int
        /\ pos + 1 <= pos + PacketLen(c) + Word
        /\ (pos + PacketLen(c) + Word) - (pos + 1) + 1 = n
        /\ \A i \in (pos + 1)..(pos + PacketLen(c) + Word) : i \in 1..Len(buf)
    BY <1>5, <1>12 DEF ArePlaces
  <2>2. \A i \in (pos + 1)..(pos + PacketLen(c) + Word) : buf[i] \in Byte
    BY <1>0, <2>1
  <2>3. /\ p \in Seq(Byte) /\ Len(p) = n /\ \A i \in 1..n : p[i] = buf[(pos + 1) + i - 1]
    <3> HIDE DEF n
    <3> QED BY <2>1, <2>2, SubSeqProperties
  <2>4. WholeBytes(c) \in Seq(Byte) /\ Len(WholeBytes(c)) = n
        /\ \A i \in 1..n : WholeBytes(c)[i] = <<c, i>>
    BY <1>2, PackedShort DEF Packed
  <2> HIDE DEF p
  <2>5. ASSUME NEW i \in 1..n PROVE p[i] = WholeBytes(c)[i]
    <3>1. (pos + 1) + i - 1 = pos + i /\ pos + i <= Len(buf)
      BY <1>5, <1>12 DEF ArePlaces
    <3> QED BY <1>9, <2>3, <2>4, <3>1
  <2>6. p = WholeBytes(c)
    <3> HIDE DEF n
    <3> QED BY <2>3, <2>4, <2>5, SeqEqual
  <2> QED BY <1>10, <2>6 DEF PacketAt, p
<1> QED BY <1>1, <1>2, <1>12, <1>14, <1>18, <1>19, <1>20

\* Where the data handler of c is, somewhere in its buffer: at the start of a
\* packet, and it took its own packet if that one is behind it.
GoodReading(c, s, buf, r) ==
    /\ r \in Readings /\ r.saved \in 0..Len(buf) /\ AtStart(s, r.saved)
    /\ r.packets = IF \E k \in 1..r.saved : s[k] = <<c, 1>> THEN <<WholeBytes(c)>> ELSE <<>>

\* A turn, of either handler.
Turned(c, s, buf, r) ==
    IF ~Whole(buf, r.saved) THEN r
    ELSE LET o == s[r.saved + 1][1] IN
         [packets |-> IF o = c THEN Append(r.packets, WholeBytes(c)) ELSE r.packets,
          saved   |-> r.saved + Total(o)]

\* A turn leaves it there, further on unless no whole packet is left.
LEMMA TurnIsGood ==
    ASSUME NEW c \in Clients, NEW s, Packed(s), Times(s, <<c, 1>>) <= 1,
           NEW buf, Buffered(buf, s), NEW r, GoodReading(c, s, buf, r)
    PROVE  /\ GoodReading(c, s, buf, Turned(c, s, buf, r))
           /\ Whole(buf, r.saved) => Turned(c, s, buf, r).saved > r.saved
<1>0. /\ s \in Seq(Byte) /\ Len(s) \in Nat /\ Len(buf) \in Nat /\ Len(buf) <= Len(s)
      /\ r \in Readings /\ r.saved \in 0..Len(buf) /\ AtStart(s, r.saved)
      /\ r.packets = IF \E k \in 1..r.saved : s[k] = <<c, 1>> THEN <<WholeBytes(c)>> ELSE <<>>
  BY DEF Packed, Buffered, GoodReading
<1>1. CASE ~Whole(buf, r.saved)
  BY <1>1 DEF Turned
<1>2. CASE Whole(buf, r.saved)
  <2> DEFINE o == s[r.saved + 1][1]
             t == Turned(c, s, buf, r)
             pos == r.saved
             n == Total(o)
  <2>1. /\ o \in Clients /\ pos # Len(s) /\ pos \in 0..Len(s) /\ pos + n <= Len(buf)
    BY <1>0, <1>2, WholeIs
  <2>2. t = [packets |-> IF o = c THEN Append(r.packets, WholeBytes(c)) ELSE r.packets,
             saved |-> pos + n]
    BY <1>2 DEF Turned
  <2>3. /\ \A j \in 1..n : s[pos + j] = <<o, j>>
        /\ AtStart(s, pos + n)
    <3>1. pos \in 0..Len(s) /\ pos # Len(s) /\ AtStart(s, pos) /\ o = s[pos + 1][1]
      BY <1>0, <2>1
    <3> HIDE DEF pos, o
    <3> QED BY <3>1, InPacket
  <2>4. n \in Nat \ {0} /\ pos \in Nat
    <3>1. n \in Nat \ {0}
      BY <2>1, Lengths
    <3> QED BY <1>0, <3>1
  <2>5. t.saved = pos + n /\ t.packets = IF o = c THEN Append(r.packets, WholeBytes(c)) ELSE r.packets
    BY <2>2
  <2> HIDE DEF t, o, pos, n
  <2>6. pos + n \in 0..Len(buf) /\ pos + n > pos /\ pos + n \in Nat
    BY <1>0, <2>1, <2>4, SMT
  <2>7. ASSUME NEW k \in 1..(pos + n)
        PROVE  k \in 1..pos \/ \E j \in 1..n : k = pos + j
    <3>1. CASE k <= pos
      BY <2>4, <3>1, SMT
    <3>2. CASE ~(k <= pos)
      <4>1. k - pos \in 1..n /\ k = pos + (k - pos)
        BY <2>4, <3>2, SMT
      <4> QED BY <4>1
    <3> QED BY <3>1, <3>2
  <2>8. \A k \in 1..pos : k \in 1..(pos + n)
    BY <2>4, SMT
  <2>9. t.packets = IF \E k \in 1..(pos + n) : s[k] = <<c, 1>> THEN <<WholeBytes(c)>> ELSE <<>>
    <3>1. CASE o = c
      <4>1. pos + 1 \in 1..(pos + n) /\ pos + 1 \in 1..Len(s) /\ 1 \in 1..n
        BY <1>0, <2>1, <2>4, SMT
      <4>2. s[pos + 1] = <<c, 1>>
        BY <2>3, <3>1, <4>1
      <4>3. ASSUME NEW k \in 1..pos, s[k] = <<c, 1>> PROVE FALSE
        <5>1. k \in 1..Len(s) /\ k # pos + 1
          BY <1>0, <2>1, <2>4, SMT
        <5> QED BY <1>0, <4>1, <4>2, <4>3, <5>1, TimesFew
      <4>4. r.packets = <<>>
        BY <1>0, <4>3 DEF pos
      <4>5. t.packets = <<WholeBytes(c)>>
        BY <2>5, <3>1, <4>4
      <4> QED BY <4>1, <4>2, <4>5
    <3>2. CASE o # c
      <4>1. \A j \in 1..n : s[pos + j] # <<c, 1>>
        BY <2>3, <3>2
      <4>2. (\E k \in 1..(pos + n) : s[k] = <<c, 1>>) <=> (\E k \in 1..pos : s[k] = <<c, 1>>)
        BY <2>7, <2>8, <4>1
      <4> QED BY <1>0, <2>5, <3>2, <4>2 DEF pos
    <3> QED BY <3>1, <3>2
  <2>10. t \in Readings
    <3>1. WholeBytes(c) \in Seq(Clients \X Nat)
      BY PackedShort DEF Packed, Byte
    <3>2. <<>> \in Seq(Seq(Clients \X Nat)) /\ <<WholeBytes(c)>> \in Seq(Seq(Clients \X Nat))
      BY <3>1
    <3>3. t.packets \in Seq(Seq(Clients \X Nat))
      BY <2>9, <3>2
    <3>4. t = [packets |-> t.packets, saved |-> pos + n]
      BY <2>2
    <3> QED BY <2>6, <3>3, <3>4 DEF Readings
  <2>11. GoodReading(c, s, buf, t) /\ t.saved > pos
    BY <2>3, <2>5, <2>6, <2>9, <2>10 DEF GoodReading
  <2> QED BY <2>11 DEF t, pos
<1> QED BY <1>1, <1>2

\* What a loop of turns comes to.
LEMMA LoopExists ==
    ASSUME NEW t, NEW n \in Nat
    PROVE  \E f : f = [i \in 0..n |-> IF i = 0 THEN Reading ELSE t[f[i - 1]]]
<1> DEFINE Is(f, m) == f = [i \in 0..m |-> IF i = 0 THEN Reading ELSE t[f[i - 1]]]
           T == {m \in Nat : \E f : Is(f, m)}
<1>1. 0 \in T
  <2> DEFINE f == [i \in 0..0 |-> Reading]
  <2>1. Is(f, 0)
    OBVIOUS
  <2> QED BY <2>1
<1>2. ASSUME NEW m \in Nat, m \in T PROVE m + 1 \in T
  <2>1. PICK f : Is(f, m)
    BY <1>2
  <2> DEFINE g == [i \in 0..m + 1 |-> IF i = m + 1 THEN t[f[m]] ELSE f[i]]
  <2>2. \A i \in 0..m : g[i] = f[i]
    BY SMT
  <2>3. g[m + 1] = t[f[m]]
    OBVIOUS
  <2>4. \A i \in 0..m : f[i] = IF i = 0 THEN Reading ELSE t[f[i - 1]]
    BY <2>1
  <2>5. \A i \in 0..m + 1 : g[i] = IF i = 0 THEN Reading ELSE t[g[i - 1]]
    BY <2>2, <2>3, <2>4
  <2>6. Is(g, m + 1)
    BY <2>5
  <2> HIDE DEF g, Is
  <2>7. \E h : Is(h, m + 1)
    BY <2>6
  <2> QED BY <2>7
<1> HIDE DEF T
<1>3. n \in T
  BY <1>1, <1>2, NatSetInduction
<1> QED BY <1>3 DEF T

\* The loop ends where no whole packet is left, within as many turns as there
\* are bytes.
LEMMA LoopIsGood ==
    ASSUME NEW c \in Clients, NEW s, Packed(s), Times(s, <<c, 1>>) <= 1,
           NEW buf, Buffered(buf, s), NEW t,
           \A r : GoodReading(c, s, buf, r) => t[r] = Turned(c, s, buf, r),
           NEW f, \A i \in 0..Len(buf) : f[i] = IF i = 0 THEN Reading ELSE t[f[i - 1]]
    PROVE  /\ GoodReading(c, s, buf, f[Len(buf)])
           /\ ~Whole(buf, f[Len(buf)].saved)
<1>0. s \in Seq(Byte) /\ Len(s) \in Nat /\ Len(buf) \in Nat /\ Len(buf) <= Len(s)
  BY DEF Packed, Buffered
<1>1. \A i \in 0..Len(buf) : f[i] = IF i = 0 THEN Reading ELSE t[f[i - 1]]
  OBVIOUS
<1> DEFINE T == {i \in Nat : i <= Len(buf) =>
                    /\ GoodReading(c, s, buf, f[i])
                    /\ Whole(buf, f[i].saved) => f[i].saved >= i}
<1>2. 0 \in T
  <2>1. Reading \in Readings /\ Reading.saved = 0 /\ Reading.packets = <<>>
    BY DEF Reading, Readings
  <2>2. AtStart(s, 0)
    <3>1. Len(s) # 0 => 1 \in 1..Len(s)
      BY <1>0, SMT
    <3> QED BY <3>1 DEF AtStart, Packed
  <2>3. f[0] = Reading
    BY <1>0, <1>1
  <2>4. 0 \in 0..Len(buf) /\ ~\E k \in 1..0 : s[k] = <<c, 1>>
    BY <1>0, SMT
  <2>5. GoodReading(c, s, buf, f[0])
    BY <2>1, <2>2, <2>3, <2>4 DEF GoodReading
  <2> QED BY <2>1, <2>3, <2>5
<1>3. ASSUME NEW i \in Nat, i \in T PROVE i + 1 \in T
  <2> SUFFICES ASSUME i + 1 <= Len(buf)
               PROVE  /\ GoodReading(c, s, buf, f[i + 1])
                      /\ Whole(buf, f[i + 1].saved) => f[i + 1].saved >= i + 1
    BY SMT
  <2>1. /\ GoodReading(c, s, buf, f[i])
        /\ Whole(buf, f[i].saved) => f[i].saved >= i
    <3>1. i <= Len(buf)
      BY <1>0, SMT
    <3> QED BY <1>3, <3>1
  <2>2. f[i + 1] = t[f[i]]
    <3>1. i + 1 \in 0..Len(buf) /\ i + 1 # 0 /\ (i + 1) - 1 = i
      BY <1>0, SMT
    <3> QED BY <1>1, <3>1
  <2>3. f[i + 1] = Turned(c, s, buf, f[i])
    BY <2>1, <2>2
  <2>4. /\ GoodReading(c, s, buf, f[i + 1])
        /\ Whole(buf, f[i].saved) => f[i + 1].saved > f[i].saved
    BY <2>1, <2>3, TurnIsGood
  <2>5. ASSUME Whole(buf, f[i + 1].saved) PROVE f[i + 1].saved >= i + 1
    <3>1. Whole(buf, f[i].saved)
      <4> SUFFICES ASSUME ~Whole(buf, f[i].saved) PROVE FALSE
        OBVIOUS
      <4>1. f[i + 1] = f[i]
        BY <2>3 DEF Turned
      <4> QED BY <2>5, <4>1
    <3>2. f[i].saved >= i /\ f[i + 1].saved > f[i].saved
      BY <2>1, <2>4, <3>1
    <3>3. f[i].saved \in Nat /\ f[i + 1].saved \in Nat
      BY <2>1, <2>4 DEF GoodReading, Readings
    <3> QED BY <3>2, <3>3, SMT
  <2> QED BY <2>4, <2>5
<1> HIDE DEF T
<1>4. Nat \subseteq T
  BY <1>2, <1>3, NatSetInduction
<1>5. /\ GoodReading(c, s, buf, f[Len(buf)])
      /\ Whole(buf, f[Len(buf)].saved) => f[Len(buf)].saved >= Len(buf)
  BY <1>0, <1>4 DEF T
<1>6. ASSUME Whole(buf, f[Len(buf)].saved) PROVE FALSE
  <2> DEFINE p == f[Len(buf)].saved
  <2>1. p >= Len(buf) /\ p \in 0..Len(buf)
    BY <1>5, <1>6 DEF GoodReading
  <2>2. Enough(Len(buf), p, Word)
    BY <1>6 DEF Whole
  <2> HIDE DEF p
  <2>3. Word \in Nat \ {0}
    BY SizesAssumption
  <2> QED BY <1>0, <2>1, <2>2, <2>3, SMT DEF Enough
<1> QED BY <1>5, <1>6

\* The turns of the two loops: the server's over a stream of one client, the
\* client's over any.
LEMMA TurnsAre ==
    ASSUME NEW c \in Clients, NEW s, Packed(s), NEW buf, Buffered(buf, s),
           NEW r, GoodReading(c, s, buf, r)
    PROVE  /\ (\A k \in 1..Len(s) : s[k][1] = c) => ServerTurn(buf)[r] = Turned(c, s, buf, r)
           /\ ClientTurn(c, buf)[r] = Turned(c, s, buf, r)
<1>0. /\ s \in Seq(Byte) /\ Len(s) \in Nat
      /\ r \in Readings /\ r.saved \in 0..Len(buf) /\ AtStart(s, r.saved)
  BY DEF Packed, GoodReading
<1> DEFINE o == s[r.saved + 1][1]
<1>1. ServerTurn(buf)[r] =
        IF Whole(buf, r.saved) /\ ServerInBounds(buf, r.saved)
          THEN [packets |-> Append(r.packets, PacketAt(buf, r.saved)),
                saved   |-> ServerSkips(buf, r.saved)]
          ELSE r
  BY <1>0 DEF ServerTurn
<1>2. ClientTurn(c, buf)[r] =
        IF ~(Whole(buf, r.saved) /\ ClientInBounds(buf, r.saved)) THEN r
        ELSE [packets |-> IF OwnAt(c, buf, r.saved)
                            THEN Append(r.packets, PacketAt(buf, r.saved)) ELSE r.packets,
              saved   |-> ClientSkips(buf, r.saved)]
  BY <1>0 DEF ClientTurn
<1>3. CASE ~Whole(buf, r.saved)
  BY <1>1, <1>2, <1>3 DEF Turned
<1>4. CASE Whole(buf, r.saved)
  <2>1. /\ r.saved # Len(s) /\ r.saved \in 0..Len(s)
        /\ PacketAt(buf, r.saved) = WholeBytes(o)
        /\ ServerInBounds(buf, r.saved) /\ ServerSkips(buf, r.saved) = r.saved + Total(o)
        /\ ClientInBounds(buf, r.saved) /\ ClientSkips(buf, r.saved) = r.saved + Total(o)
        /\ OwnAt(c, buf, r.saved) <=> o = c
    BY <1>0, <1>4, WholeIs
  <2>2. Turned(c, s, buf, r) =
          [packets |-> IF o = c THEN Append(r.packets, WholeBytes(c)) ELSE r.packets,
           saved |-> r.saved + Total(o)]
    BY <1>4 DEF Turned
  <2>3. r.saved + 1 \in 1..Len(s)
    BY <1>0, <2>1, SMT
  <2> HIDE DEF o
  <2>4. ClientTurn(c, buf)[r] = Turned(c, s, buf, r)
    BY <1>2, <1>4, <2>1, <2>2
  <2>5. (\A k \in 1..Len(s) : s[k][1] = c) => o = c
    BY <2>3 DEF o
  <2>6. o = c => ServerTurn(buf)[r] = Turned(c, s, buf, r)
    BY <1>1, <1>4, <2>1, <2>2
  <2> QED BY <2>4, <2>5, <2>6
<1> QED BY <1>3, <1>4

\* No other magic number, and no move out of bounds.
LEMMA NothingThrown ==
    ASSUME NEW c \in Clients, NEW s, Packed(s), NEW buf, Buffered(buf, s),
           NEW r, GoodReading(c, s, buf, r), ~Whole(buf, r.saved)
    PROVE  ~Threw(buf, r)
<1>1. ~BadMagic(buf, r.saved)
  BY WordIs DEF BadMagic, GoodReading
<1> QED BY <1>1 DEF Threw

\* The server's data handler, in a stream of one client's packets: it takes
\* every packet that is there whole and stops at the start of the next; no
\* read throws (BroadCastServer.cpp:104-150).
THEOREM ServerReadIsGood ==
    ASSUME NEW c \in Clients, NEW s, Packed(s), Times(s, <<c, 1>>) <= 1,
           \A k \in 1..Len(s) : s[k][1] = c, NEW buf, Buffered(buf, s)
    PROVE  GoodReading(c, s, buf, ServerRead(buf)) /\ ~Threw(buf, ServerRead(buf))
<1> DEFINE Is(f) == f = [i \in 0..Len(buf) |-> IF i = 0 THEN Reading
                                               ELSE ServerTurn(buf)[f[i - 1]]]
<1>0. Len(buf) \in Nat
  BY DEF Buffered
<1>1. \E f : Is(f)
  BY <1>0, LoopExists
<1>2. ServerRead(buf) = (CHOOSE f : Is(f))[Len(buf)]
  BY DEF ServerRead
<1>3. Is(CHOOSE f : Is(f))
  BY <1>1
<1>4. PICK f : Is(f) /\ ServerRead(buf) = f[Len(buf)]
  <2> HIDE DEF Is
  <2> QED BY <1>2, <1>3
<1>5. \A r : GoodReading(c, s, buf, r) => ServerTurn(buf)[r] = Turned(c, s, buf, r)
  BY TurnsAre
<1>6. GoodReading(c, s, buf, f[Len(buf)]) /\ ~Whole(buf, f[Len(buf)].saved)
  <2> DEFINE t == ServerTurn(buf)
  <2>1. \A r : GoodReading(c, s, buf, r) => t[r] = Turned(c, s, buf, r)
    BY <1>5
  <2>2. \A i \in 0..Len(buf) : f[i] = IF i = 0 THEN Reading ELSE t[f[i - 1]]
    BY <1>4
  <2> HIDE DEF t
  <2> QED BY <2>1, <2>2, LoopIsGood
<1> QED BY <1>4, <1>6, NothingThrown

\* The client's data handler, in a stream of whole packets: it steps over the
\* other clients' and takes its own, however the stream is cut; the operation
\* and the address it reads without asking are there (BroadCastClient.cpp:17-67).
THEOREM ClientReadIsGood ==
    ASSUME NEW c \in Clients, NEW s, Packed(s), Times(s, <<c, 1>>) <= 1,
           NEW buf, Buffered(buf, s)
    PROVE  GoodReading(c, s, buf, ClientRead(c, buf)) /\ ~Threw(buf, ClientRead(c, buf))
<1> DEFINE Is(f) == f = [i \in 0..Len(buf) |-> IF i = 0 THEN Reading
                                               ELSE ClientTurn(c, buf)[f[i - 1]]]
<1>0. Len(buf) \in Nat
  BY DEF Buffered
<1>1. \E f : Is(f)
  BY <1>0, LoopExists
<1>2. ClientRead(c, buf) = (CHOOSE f : Is(f))[Len(buf)]
  BY DEF ClientRead
<1>3. Is(CHOOSE f : Is(f))
  BY <1>1
<1>4. PICK f : Is(f) /\ ClientRead(c, buf) = f[Len(buf)]
  <2> HIDE DEF Is
  <2> QED BY <1>2, <1>3
<1>5. \A r : GoodReading(c, s, buf, r) => ClientTurn(c, buf)[r] = Turned(c, s, buf, r)
  BY TurnsAre
<1>6. GoodReading(c, s, buf, f[Len(buf)]) /\ ~Whole(buf, f[Len(buf)].saved)
  <2> DEFINE t == ClientTurn(c, buf)
  <2>1. \A r : GoodReading(c, s, buf, r) => t[r] = Turned(c, s, buf, r)
    BY <1>5
  <2>2. \A i \in 0..Len(buf) : f[i] = IF i = 0 THEN Reading ELSE t[f[i - 1]]
    BY <1>4
  <2> HIDE DEF t
  <2> QED BY <2>1, <2>2, LoopIsGood
<1> QED BY <1>4, <1>6, NothingThrown

\* What was buffered is a beginning of what was to be read, and what is left
\* of both is the same.
LEMMA CutBehind ==
    ASSUME NEW S, NEW buf \in Seq(S), NEW r \in Seq(S)
    PROVE  /\ Len(buf) <= Len(buf \o r) /\ \A k \in 1..Len(buf) : buf[k] = (buf \o r)[k]
           /\ \A sv \in 0..Len(buf) :
                /\ SubSeq(buf, sv + 1, Len(buf)) \in Seq(S)
                /\ SubSeq(buf, sv + 1, Len(buf)) \o r = SubSeq(buf \o r, sv + 1, Len(buf \o r))
<1> DEFINE d == buf \o r
<1>1. /\ d \in Seq(S) /\ Len(d) = Len(buf) + Len(r)
      /\ \A i \in 1..Len(buf) + Len(r) : d[i] = IF i <= Len(buf) THEN buf[i] ELSE r[i - Len(buf)]
  BY ConcatProperties
<1> HIDE DEF d
<1>2. Len(buf) \in Nat /\ Len(r) \in Nat
  OBVIOUS
<1>3. \A k \in 1..Len(buf) : d[k] = buf[k]
  <2>1. \A k \in 1..Len(buf) : k \in 1..Len(buf) + Len(r) /\ k <= Len(buf)
    BY <1>2, SMT
  <2> QED BY <1>1, <2>1
<1>4. Len(buf) <= Len(d)
  BY <1>1, <1>2, SMT
<1>5. ASSUME NEW sv \in 0..Len(buf)
       PROVE  /\ SubSeq(buf, sv + 1, Len(buf)) \in Seq(S)
              /\ SubSeq(buf, sv + 1, Len(buf)) \o r = SubSeq(d, sv + 1, Len(d))
  <2> DEFINE x == SubSeq(buf, sv + 1, Len(buf))
             y == SubSeq(d, sv + 1, Len(d))
  <2>1. x \in Seq(S) /\ Len(x) = Len(buf) - sv /\ \A k \in 1..Len(x) : x[k] = buf[sv + k]
    BY Rest
  <2>2. sv \in 0..Len(d)
    BY <1>1, <1>2, SMT
  <2>3. y \in Seq(S) /\ Len(y) = Len(d) - sv /\ \A k \in 1..Len(y) : y[k] = d[sv + k]
    BY <1>1, <2>2, Rest
  <2> HIDE DEF x, y
  <2>4. /\ x \o r \in Seq(S) /\ Len(x \o r) = Len(x) + Len(r)
        /\ \A i \in 1..Len(x) + Len(r) : (x \o r)[i] = IF i <= Len(x) THEN x[i] ELSE r[i - Len(x)]
    BY <2>1, ConcatProperties
  <2>5. Len(x \o r) = Len(y) /\ Len(x) \in Nat /\ Len(y) \in Nat
    <3>1. Len(x) \in Nat /\ Len(y) \in Nat
      BY <2>1, <2>3
    <3>2. Len(x) + Len(r) = Len(y)
      BY <1>1, <1>2, <2>1, <2>3, SMT
    <3> QED BY <2>4, <3>1, <3>2
  <2>6. ASSUME NEW i \in 1..Len(x \o r) PROVE (x \o r)[i] = y[i]
    <3>1. i \in 1..Len(x) + Len(r) /\ i \in 1..Len(y)
      BY <2>4, <2>5
    <3>2. y[i] = d[sv + i]
      BY <2>3, <3>1
    <3>3. CASE i <= Len(x)
      <4>1. i \in 1..Len(x) /\ sv + i \in 1..Len(buf)
        BY <1>2, <2>1, <2>5, <3>1, <3>3, SMT
      <4>2. (x \o r)[i] = x[i] /\ x[i] = buf[sv + i] /\ d[sv + i] = buf[sv + i]
        BY <1>3, <2>1, <2>4, <3>1, <3>3, <4>1
      <4> QED BY <3>2, <4>2
    <3>4. CASE ~(i <= Len(x))
      <4>1. /\ sv + i \in 1..Len(buf) + Len(r) /\ ~(sv + i <= Len(buf))
            /\ (sv + i) - Len(buf) = i - Len(x)
        BY <1>2, <2>1, <2>5, <3>1, <3>4, SMT
      <4>2. (x \o r)[i] = r[i - Len(x)]
        BY <2>4, <3>1, <3>4
      <4>3. d[sv + i] = r[(sv + i) - Len(buf)]
        BY <1>1, <4>1
      <4> QED BY <3>2, <4>1, <4>2, <4>3
    <3> QED BY <3>3, <3>4
  <2>7. x \o r = y
    BY <2>3, <2>4, <2>5, <2>6, SeqEqual
  <2> QED BY <2>1, <2>7 DEF x, y
<1> QED BY <1>1, <1>3, <1>4, <1>5 DEF d

\* Appending is associative.
Associated(x, y, z) == (x \o y) \o z = x \o (y \o z)

\* So it is for all sequences.
LEMMA Associates ==
    ASSUME NEW S, NEW x \in Seq(S), NEW y \in Seq(S), NEW z \in Seq(S)
    PROVE  Associated(x, y, z)
BY ConcatAssociative DEF Associated

\* The unread bytes with the first n of the stream, and a stream behind pos.
Received(b, s, n) == b \o SubSeq(s, 1, n)

After(s, pos) == SubSeq(s, pos + 1, Len(s))

\* What a receive of the first n bytes of a stream leaves to be read: the
\* unread bytes are the first ones of what was there, and behind any of them
\* there is what was there behind it.
IsCut(S, b, s, n) ==
    /\ b \o s \in Seq(S) /\ Received(b, s, n) \in Seq(S)
    /\ Len(Received(b, s, n)) = Len(b) + n /\ Len(b) + n <= Len(b \o s)
    /\ \A k \in 1..Len(b) + n : Received(b, s, n)[k] = (b \o s)[k]
    /\ After(s, n) \in Seq(S)
    /\ \A sv \in 0..Len(b) + n :
         /\ After(Received(b, s, n), sv) \in Seq(S)
         /\ After(Received(b, s, n), sv) \o After(s, n) = After(b \o s, sv)

\* A receive does that.
LEMMA Cut ==
    ASSUME NEW S, NEW b \in Seq(S), NEW s \in Seq(S), NEW n \in 1..Len(s)
    PROVE  IsCut(S, b, s, n)
<1> DEFINE q == SubSeq(s, 1, n)
           r == SubSeq(s, n + 1, Len(s))
           buf == b \o q
<1>0. Len(s) \in Nat /\ n \in Nat /\ n \in 0..Len(s)
  <2>1. Len(s) \in Nat
    OBVIOUS
  <2> QED BY <2>1, SMT
<1>1. r \in Seq(S)
  BY <1>0, Rest
<1>2. q \in Seq(S) /\ Len(q) = n
  <2>1. 1 \in Int /\ n \in Int /\ 1 <= n /\ n - 1 + 1 = n /\ \A i \in 1..n : i \in 1..Len(s)
    BY <1>0, SMT
  <2>2. \A i \in 1..n : s[i] \in S
    BY <2>1
  <2> QED BY <2>1, <2>2, SubSeqProperties
<1>3. q \o r = s
  <2>1. 1 \in 1..Len(s) + 1 /\ n \in (1 - 1)..Len(s) /\ Len(s) \in n..Len(s)
    BY <1>0, SMT
  <2>2. SubSeq(s, 1, n) \o SubSeq(s, n + 1, Len(s)) = SubSeq(s, 1, Len(s))
    BY <2>1, ConcatAdjacentSubSeq
  <2> QED BY <2>2, SubSeqFull
<1> HIDE DEF q, r
<1>4. buf \in Seq(S) /\ Len(buf) = Len(b) + n /\ b \o s \in Seq(S)
  BY <1>2, ConcatProperties
<1>5. b \o s = buf \o r
  <2>1. Associated(b, q, r)
    BY <1>1, <1>2, Associates
  <2> QED BY <1>3, <2>1 DEF Associated
<1> HIDE DEF buf
<1>6. /\ Len(buf) <= Len(buf \o r) /\ \A k \in 1..Len(buf) : buf[k] = (buf \o r)[k]
      /\ \A sv \in 0..Len(buf) :
           /\ SubSeq(buf, sv + 1, Len(buf)) \in Seq(S)
           /\ SubSeq(buf, sv + 1, Len(buf)) \o r = SubSeq(buf \o r, sv + 1, Len(buf \o r))
  BY <1>1, <1>4, CutBehind
<1> QED BY <1>1, <1>4, <1>5, <1>6 DEF buf, q, r, Received, After, IsCut

\* How often something is left behind pos that was there once.
LEMMA TimesRest ==
    ASSUME NEW S, NEW s \in Seq(S), NEW x, Times(s, x) <= 1, NEW pos \in 0..Len(s)
    PROVE  LET t == SubSeq(s, pos + 1, Len(s)) IN
           IF \E k \in 1..pos : s[k] = x THEN Times(s, x) = 1 /\ Times(t, x) = 0
                                         ELSE Times(t, x) = Times(s, x)
<1> DEFINE q == SubSeq(s, 1, pos)
           t == SubSeq(s, pos + 1, Len(s))
<1>0. Len(s) \in Nat
  OBVIOUS
<1>1. q \in Seq(S) /\ Len(q) = pos /\ \A i \in 1..pos : q[i] = s[i]
  <2>1. 1 \in Int /\ pos \in Int /\ (IF 1 <= pos THEN pos - 1 + 1 ELSE 0) = pos
        /\ pos - 1 + 1 = pos /\ \A i \in 1..pos : i \in 1..Len(s) /\ 1 + i - 1 = i
    BY <1>0, SMT
  <2>2. \A i \in 1..pos : s[i] \in S
    BY <2>1
  <2>3. /\ q \in Seq(S) /\ Len(q) = IF 1 <= pos THEN pos - 1 + 1 ELSE 0
        /\ \A i \in 1..pos - 1 + 1 : q[i] = s[1 + i - 1]
    BY <2>1, <2>2, SubSeqProperties
  <2> QED BY <2>1, <2>3
<1>2. t \in Seq(S)
  BY <1>0, Rest
<1>3. q \o t = s
  <2>1. 1 \in 1..Len(s) + 1 /\ pos \in (1 - 1)..Len(s) /\ Len(s) \in pos..Len(s)
    BY <1>0, SMT
  <2>2. SubSeq(s, 1, pos) \o SubSeq(s, pos + 1, Len(s)) = SubSeq(s, 1, Len(s))
    BY <2>1, ConcatAdjacentSubSeq
  <2> QED BY <2>2, SubSeqFull
<1> HIDE DEF q, t
<1>4. /\ Times(s, x) = Times(q, x) + Times(t, x)
      /\ Times(s, x) \in Nat /\ Times(q, x) \in Nat /\ Times(t, x) \in Nat
  <2>1. Times(q \o t, x) = Times(q, x) + Times(t, x)
    BY <1>1, <1>2, TimesConcat
  <2> QED BY <1>1, <1>2, <1>3, <2>1, Countable
<1>5. Times(q, x) = 0 <=> ~\E k \in 1..pos : s[k] = x
  <2>1. Times(q, x) = 0 <=> \A i \in 1..pos : q[i] # x
    BY <1>1, TimesFew
  <2> QED BY <1>1, <2>1
<1>6. CASE \E k \in 1..pos : s[k] = x
  <2>1. Times(q, x) # 0
    BY <1>5, <1>6
  <2>2. Times(s, x) = 1 /\ Times(t, x) = 0
    BY <1>4, <2>1, SMT
  <2> QED BY <1>6, <2>2 DEF t
<1>7. CASE ~\E k \in 1..pos : s[k] = x
  <2>1. Times(t, x) = Times(s, x)
    BY <1>4, <1>5, <1>7, SMT
  <2> QED BY <1>7, <2>1 DEF t
<1> QED BY <1>6, <1>7

----------------------------------------------------------------------------
(* The invariant. *)

Add(c) == Task("add", c, <<>>)

Removal(c) == Task("remove", c, <<>>)

Broadcast(c) == Task("broadcast", c, WholeBytes(c))

Tasks == UNION {{Add(c), Removal(c), Broadcast(c)} : c \in Clients}

\* What is on its way between a client and its session, received or not.
Upward(c) == upBuffer[c] \o up[c]

Downward(c) == downBuffer[c] \o down[c]

\* How often a session is on its way into the list, on its way out of it and
\* in it, and its packet on its way up, in the main loop's queue and on its
\* way down.
Adds(c) == Times(tasks, Add(c))

Removals(c) == Times(tasks, Removal(c))

Entries(c) == Times(members, c)

Broadcasts(c) == Times(tasks, Broadcast(c))

Ups(c) == Times(Upward(c), <<c, 1>>)

Downs(c) == Times(Downward(c), <<c, 1>>)

TypeOK ==
    /\ session \in [Clients -> {"none", "established", "open", "closed"}]
    /\ client \in [Clients -> {"none", "open", "closed"}]
    /\ {up, upBuffer, down, downBuffer} \subseteq [Clients -> Seq(Byte)]
    /\ members \in Seq(Clients)
    /\ tasks \in Seq(Tasks)
    /\ rounds \in [Clients -> Nat]
    /\ failed = {}

\* A session is added before it is removed, and before its packet is sent to
\* all; between the two it is on its way into the list, or in it.
Listed(c) ==
    /\ session[c] = "none" => Adds(c) + Removals(c) + Entries(c) + Broadcasts(c) = 0
    /\ session[c] \in {"established", "open"} => Removals(c) = 0 /\ Adds(c) + Entries(c) = 1
    /\ session[c] = "closed" => Removals(c) <= 1 /\ Adds(c) + Entries(c) = Removals(c)
    /\ Before(tasks, Add(c), Removal(c))
    /\ Before(tasks, Add(c), Broadcast(c))

\* Upwards there is one whole packet or nothing, downwards whole packets.
Framed(c) == Upward(c) \in {<<>>, WholeBytes(c)} /\ Packed(Downward(c))

\* There is one packet of a client, or none once it was lost or has seen
\* enough rounds.
Circulates(c) ==
    /\ Ups(c) + Downs(c) + Broadcasts(c) <= 1
    /\ client[c] = "none" => Ups(c) + Downs(c) + Broadcasts(c) = 0 /\ rounds[c] = 0
    /\ client[c] = "open" /\ session[c] # "closed" =>
         Ups(c) + Downs(c) + Broadcasts(c) = IF rounds[c] > MaxRounds THEN 0 ELSE 1

Inv == TypeOK /\ \A c \in Clients : Listed(c) /\ Framed(c) /\ Circulates(c)

\* The tasks are different ones.
LEMMA TasksDiffer ==
    /\ \A c \in Clients : {Add(c), Removal(c), Broadcast(c)} \subseteq Tasks
    /\ \A c, d : /\ Add(c) = Add(d) <=> c = d
                 /\ Removal(c) = Removal(d) <=> c = d
                 /\ Broadcast(c) = Broadcast(d) <=> c = d
                 /\ Add(c) # Removal(d) /\ Add(c) # Broadcast(d) /\ Removal(c) # Broadcast(d)
<1>1. \A c \in Clients : {Add(c), Removal(c), Broadcast(c)} \subseteq Tasks
  BY DEF Tasks
<1>2. ASSUME NEW c, NEW d
      PROVE  /\ Add(c) = Add(d) <=> c = d
             /\ Removal(c) = Removal(d) <=> c = d
             /\ Broadcast(c) = Broadcast(d) <=> c = d
             /\ Add(c) # Removal(d) /\ Add(c) # Broadcast(d) /\ Removal(c) # Broadcast(d)
  <2>1. /\ Add(c).op = "add" /\ Add(c).session = c /\ Add(d).session = d
        /\ Removal(c).op = "remove" /\ Removal(d).op = "remove"
        /\ Removal(c).session = c /\ Removal(d).session = d
        /\ Broadcast(d).op = "broadcast" /\ Broadcast(c).session = c /\ Broadcast(d).session = d
    BY DEF Add, Removal, Broadcast, Task
  <2> QED BY <2>1
<1> QED BY <1>1, <1>2

\* What is counted.
LEMMA CountsType ==
    ASSUME TypeOK, NEW c \in Clients
    PROVE  /\ {Adds(c), Removals(c), Entries(c), Broadcasts(c), Ups(c), Downs(c)} \subseteq Nat
           /\ Upward(c) \in Seq(Byte) /\ Downward(c) \in Seq(Byte)
           /\ {up[c], upBuffer[c], down[c], downBuffer[c]} \subseteq Seq(Byte)
           /\ rounds[c] \in Nat
<1>1. /\ tasks \in Seq(Tasks) /\ members \in Seq(Clients) /\ rounds[c] \in Nat
      /\ {up[c], upBuffer[c], down[c], downBuffer[c]} \subseteq Seq(Byte)
  BY DEF TypeOK
<1>2. Upward(c) \in Seq(Byte) /\ Downward(c) \in Seq(Byte)
  BY <1>1, ConcatProperties DEF Upward, Downward
<1> QED BY <1>1, <1>2, Countable DEF Adds, Removals, Entries, Broadcasts, Ups, Downs

\* A packet starts once, with its owner's first byte.
LEMMA PacketTimes ==
    \A c \in Clients : \A d : Times(WholeBytes(c), <<d, 1>>) = IF c = d THEN 1 ELSE 0
<1> SUFFICES ASSUME NEW c \in Clients, NEW d
             PROVE  Times(WholeBytes(c), <<d, 1>>) = IF c = d THEN 1 ELSE 0
  OBVIOUS
<1> DEFINE p == WholeBytes(c)
           n == Total(c)
<1>1. p \in Seq(Byte) /\ Len(p) = n /\ \A i \in 1..n : p[i] = <<c, i>>
  BY PackedShort DEF Packed
<1>2. n \in Nat \ {0}
  BY Lengths
<1>3. Where(p, <<d, 1>>) = {i \in 1..n : p[i] = <<d, 1>>}
  BY <1>1, Countable
<1> HIDE DEF p, n
<1>4. 1 \in 1..n
  BY <1>2, SMT
<1>5. \A i \in 1..n : p[i] = <<d, 1>> <=> c = d /\ i = 1
  BY <1>1
<1>6. Where(p, <<d, 1>>) = IF c = d THEN {1} ELSE {}
  BY <1>3, <1>4, <1>5
<1>7. Times(p, <<d, 1>>) = IF c = d THEN 1 ELSE 0
  BY <1>6, FS_EmptySet, FS_Singleton DEF Times
<1> QED BY <1>7 DEF p

\* Upwards there is nothing unless the packet is there.
LEMMA NothingUp ==
    ASSUME TypeOK, NEW c \in Clients, Framed(c)
    PROVE  \/ Upward(c) = <<>> /\ Ups(c) = 0 /\ up[c] = <<>> /\ upBuffer[c] = <<>>
           \/ Upward(c) = WholeBytes(c) /\ Ups(c) = 1
<1>1. CASE Upward(c) = <<>>
  <2>1. up[c] \in Seq(Byte) /\ upBuffer[c] \in Seq(Byte)
    BY CountsType
  <2>2. up[c] = <<>> /\ upBuffer[c] = <<>>
    <3>1. \A s, t \in Seq(Byte) : s \o t = <<>> => s = <<>> /\ t = <<>>
      BY ConcatSimplifications
    <3> QED BY <1>1, <2>1, <3>1 DEF Upward
  <2> QED BY <1>1, <2>2, TimesShort DEF Ups
<1>2. CASE Upward(c) = WholeBytes(c)
  <2>1. Ups(c) = 1
    BY <1>2, PacketTimes DEF Ups
  <2> QED BY <1>2, <2>1
<1> QED BY <1>1, <1>2 DEF Framed

\* What is dispatched is counted, at the end of the queue.
LEMMA Dispatches ==
    ASSUME TypeOK, NEW new \in Seq(Tasks), tasks' = tasks \o new, NEW c \in Clients, Listed(c)
    PROVE  /\ tasks' \in Seq(Tasks)
           /\ Adds(c)' = Adds(c) + Times(new, Add(c))
           /\ Removals(c)' = Removals(c) + Times(new, Removal(c))
           /\ Broadcasts(c)' = Broadcasts(c) + Times(new, Broadcast(c))
           /\ Times(new, Add(c)) = 0 \/ Removals(c)' + Broadcasts(c)' = 0 =>
                /\ Before(tasks, Add(c), Removal(c))'
                /\ Before(tasks, Add(c), Broadcast(c))'
<1> DEFINE a == Add(c)
           r == Removal(c)
           b == Broadcast(c)
           s == tasks \o new
<1>0. a' = a /\ r' = r /\ b' = b
  BY DEF Add, Removal, Broadcast, Task, WholeBytes, Total, PacketLen
<1>1. tasks \in Seq(Tasks) /\ Before(tasks, a, r) /\ Before(tasks, a, b)
  BY DEF TypeOK, Listed
<1>2. s \in Seq(Tasks)
  BY <1>1, ConcatProperties
<1> HIDE DEF a, r, b
<1>3. \A x : Times(s, x) = Times(tasks, x) + Times(new, x) /\ Times(s, x) \in Nat
  <2>1. \A x : Times(s, x) = Times(tasks, x) + Times(new, x)
    BY <1>1, TimesConcat
  <2>2. \A x : Times(s, x) \in Nat
    BY <1>2, Countable
  <2> QED BY <2>1, <2>2
<1>4. /\ Times(new, a) = 0 \/ Times(s, r) = 0 => Before(s, a, r)
      /\ Times(new, a) = 0 \/ Times(s, b) = 0 => Before(s, a, b)
  BY <1>1, BeforeEnds
<1> HIDE DEF s
<1>5. tasks' = s
  BY DEF s
<1>6. Adds(c)' = Times(s, a) /\ Removals(c)' = Times(s, r) /\ Broadcasts(c)' = Times(s, b)
  BY <1>0, <1>5 DEF Adds, Removals, Broadcasts, a, r, b
<1>7. /\ Adds(c) = Times(tasks, a) /\ Removals(c) = Times(tasks, r)
      /\ Broadcasts(c) = Times(tasks, b)
  BY DEF Adds, Removals, Broadcasts, a, r, b
<1>8. Removals(c)' + Broadcasts(c)' = 0 => Times(s, r) = 0 /\ Times(s, b) = 0
  <2>1. Times(s, r) \in Nat /\ Times(s, b) \in Nat
    BY <1>3
  <2>2. Times(s, r) + Times(s, b) = 0 => Times(s, r) = 0 /\ Times(s, b) = 0
    BY <2>1, SMT
  <2> QED BY <1>6, <2>2
<1>9. /\ Before(tasks, Add(c), Removal(c))' <=> Before(s, a, r)
      /\ Before(tasks, Add(c), Broadcast(c))' <=> Before(s, a, b)
  BY <1>0, <1>5 DEF a, r, b, Before
<1>10. /\ Adds(c)' = Adds(c) + Times(new, Add(c))
       /\ Removals(c)' = Removals(c) + Times(new, Removal(c))
       /\ Broadcasts(c)' = Broadcasts(c) + Times(new, Broadcast(c))
  BY <1>3, <1>6, <1>7 DEF a, r, b
<1> QED BY <1>2, <1>4, <1>5, <1>8, <1>9, <1>10 DEF a

\* The queue and the list stay, for a client, as they are.
LEMMA ListedStays ==
    ASSUME NEW c \in Clients, Listed(c), session'[c] = session[c],
           Adds(c)' = Adds(c), Removals(c)' = Removals(c),
           Entries(c)' = Entries(c), Broadcasts(c)' = Broadcasts(c),
           Before(tasks, Add(c), Removal(c))', Before(tasks, Add(c), Broadcast(c))'
    PROVE  Listed(c)'
BY DEF Listed

\* The two streams of a client stay as they are.
LEMMA StreamsStay ==
    ASSUME NEW c \in Clients, Framed(c),
           up'[c] = up[c], upBuffer'[c] = upBuffer[c],
           down'[c] = down[c], downBuffer'[c] = downBuffer[c]
    PROVE  Framed(c)' /\ Ups(c)' = Ups(c) /\ Downs(c)' = Downs(c)
<1>1. Upward(c)' = Upward(c) /\ Downward(c)' = Downward(c)
  BY DEF Upward, Downward
<1>2. WholeBytes(c)' = WholeBytes(c)
  BY DEF WholeBytes, Total, PacketLen
<1>3. Packed(Downward(c))' <=> Packed(Downward(c))
  BY <1>1 DEF Packed, IsLast, Total, PacketLen
<1> QED BY <1>1, <1>2, <1>3 DEF Framed, Ups, Downs

\* What circulates for a client, and what it does, stays as it is.
LEMMA CirculatesStays ==
    ASSUME NEW d \in Clients, Circulates(d), client'[d] = client[d],
           session'[d] = session[d], rounds'[d] = rounds[d],
           Ups(d)' = Ups(d), Downs(d)' = Downs(d), Broadcasts(d)' = Broadcasts(d)
    PROVE  Circulates(d)'
BY DEF Circulates

\* A queue that stays as it is.
LEMMA QueueStays ==
    ASSUME tasks' = tasks, NEW d \in Clients, Listed(d)
    PROVE  /\ Adds(d)' = Adds(d) /\ Removals(d)' = Removals(d) /\ Broadcasts(d)' = Broadcasts(d)
           /\ Before(tasks, Add(d), Removal(d))' /\ Before(tasks, Add(d), Broadcast(d))'
<1>1. Add(d)' = Add(d) /\ Removal(d)' = Removal(d) /\ Broadcast(d)' = Broadcast(d)
  BY DEF Add, Removal, Broadcast, Task, WholeBytes, Total, PacketLen
<1>2. Before(tasks, Add(d), Removal(d)) /\ Before(tasks, Add(d), Broadcast(d))
  BY DEF Listed
<1>3. Before(tasks, Add(d), Removal(d))' /\ Before(tasks, Add(d), Broadcast(d))'
  BY <1>1, <1>2 DEF Before
<1>4. Adds(d)' = Adds(d) /\ Removals(d)' = Removals(d) /\ Broadcasts(d)' = Broadcasts(d)
  BY <1>1 DEF Adds, Removals, Broadcasts
<1> QED BY <1>3, <1>4

\* A task of one client leaves the counts of the others alone.
LEMMA OneDispatched ==
    ASSUME TypeOK, NEW c \in Clients, NEW x \in {Add(c), Removal(c), Broadcast(c)},
           tasks' = tasks \o <<x>>, NEW d \in Clients, Listed(d)
    PROVE  /\ tasks' \in Seq(Tasks)
           /\ Adds(d)' = Adds(d) + (IF x = Add(d) THEN 1 ELSE 0)
           /\ Removals(d)' = Removals(d) + (IF x = Removal(d) THEN 1 ELSE 0)
           /\ Broadcasts(d)' = Broadcasts(d) + (IF x = Broadcast(d) THEN 1 ELSE 0)
           /\ x # Add(d) \/ Removals(d)' + Broadcasts(d)' = 0 =>
                /\ Before(tasks, Add(d), Removal(d))'
                /\ Before(tasks, Add(d), Broadcast(d))'
           /\ d # c =>
                /\ Adds(d)' = Adds(d) /\ Removals(d)' = Removals(d)
                /\ Broadcasts(d)' = Broadcasts(d)
                /\ Before(tasks, Add(d), Removal(d))' /\ Before(tasks, Add(d), Broadcast(d))'
<1> DEFINE new == <<x>>
<1>1. x \in Tasks
  BY TasksDiffer
<1>2. new \in Seq(Tasks)
  BY <1>1
<1>3. \A y : Times(new, y) = IF x = y THEN 1 ELSE 0
  BY TimesShort
<1>4. tasks' = tasks \o new
  OBVIOUS
<1> HIDE DEF new
<1>5. /\ tasks' \in Seq(Tasks)
      /\ Adds(d)' = Adds(d) + Times(new, Add(d))
      /\ Removals(d)' = Removals(d) + Times(new, Removal(d))
      /\ Broadcasts(d)' = Broadcasts(d) + Times(new, Broadcast(d))
      /\ Times(new, Add(d)) = 0 \/ Removals(d)' + Broadcasts(d)' = 0 =>
           /\ Before(tasks, Add(d), Removal(d))'
           /\ Before(tasks, Add(d), Broadcast(d))'
  BY <1>2, <1>4, Dispatches
<1>6. Times(new, Add(d)) = 0 <=> x # Add(d)
  <2>1. Times(new, Add(d)) = IF x = Add(d) THEN 1 ELSE 0
    BY <1>3
  <2> QED BY <2>1
<1>7. ASSUME d # c
      PROVE  /\ x # Add(d) /\ x # Removal(d) /\ x # Broadcast(d)
             /\ Adds(d)' = Adds(d) /\ Removals(d)' = Removals(d)
             /\ Broadcasts(d)' = Broadcasts(d)
  <2>1. x # Add(d) /\ x # Removal(d) /\ x # Broadcast(d)
    BY <1>7, TasksDiffer
  <2>2. Times(new, Add(d)) = 0 /\ Times(new, Removal(d)) = 0 /\ Times(new, Broadcast(d)) = 0
    BY <1>3, <2>1
  <2>3. Adds(d) \in Nat /\ Removals(d) \in Nat /\ Broadcasts(d) \in Nat
    BY CountsType
  <2> QED BY <1>5, <2>1, <2>2, <2>3
<1>8. d # c => Before(tasks, Add(d), Removal(d))' /\ Before(tasks, Add(d), Broadcast(d))'
  BY <1>5, <1>6, <1>7
<1> QED BY <1>3, <1>5, <1>6, <1>7, <1>8

----------------------------------------------------------------------------
(* The steps of the server's sessions. *)

\* Establishing a session sends its addition to the main loop.
LEMMA EstablishedKeeps ==
    ASSUME Inv, NEW c \in Clients, Established(c)
    PROVE  Inv'
<1>0. TypeOK /\ \A d \in Clients : Listed(d) /\ Framed(d) /\ Circulates(d)
  BY DEF Inv
<1>1. /\ session[c] = "none" /\ session' = [session EXCEPT ![c] = "established"]
      /\ tasks' = tasks \o <<Add(c)>>
      /\ up' = up /\ upBuffer' = upBuffer /\ members' = members /\ client' = client
      /\ down' = down /\ downBuffer' = downBuffer /\ rounds' = rounds /\ failed' = failed
  BY DEF Established, Dispatched, Add
<1>2. TypeOK'
  <2>1. tasks' \in Seq(Tasks)
    BY <1>0, <1>1, OneDispatched
  <2>2. session' \in [Clients -> {"none", "established", "open", "closed"}]
    BY <1>0, <1>1 DEF TypeOK
  <2>3. Tasks' = Tasks
    BY DEF Tasks, Add, Removal, Broadcast, Task, WholeBytes, Total, PacketLen
  <2> QED BY <1>0, <1>1, <2>1, <2>2, <2>3 DEF TypeOK, Byte
<1>3. ASSUME NEW d \in Clients
      PROVE  (Listed(d) /\ Framed(d) /\ Circulates(d))'
  <2>0. Listed(d) /\ Framed(d) /\ Circulates(d)
    BY <1>0
  <2>1. Framed(d)' /\ Ups(d)' = Ups(d) /\ Downs(d)' = Downs(d)
    BY <1>1, <2>0, StreamsStay
  <2>2. Entries(d)' = Entries(d)
    BY <1>1 DEF Entries
  <2>3. CASE d # c
    <3>1. session'[d] = session[d]
      BY <1>0, <1>1, <2>3 DEF TypeOK
    <3>2. /\ Adds(d)' = Adds(d) /\ Removals(d)' = Removals(d) /\ Broadcasts(d)' = Broadcasts(d)
          /\ Before(tasks, Add(d), Removal(d))' /\ Before(tasks, Add(d), Broadcast(d))'
      BY <1>0, <1>1, <2>3, OneDispatched
    <3>3. Listed(d)'
      BY <2>0, <2>2, <3>1, <3>2, ListedStays
    <3>4. Circulates(d)'
      BY <1>1, <2>0, <2>1, <3>1, <3>2, CirculatesStays
    <3> QED BY <2>1, <3>3, <3>4
  <2>4. CASE d = c
    <3>1. session'[c] = "established"
      BY <1>0, <1>1 DEF TypeOK
    <3>2. {Adds(c), Removals(c), Entries(c), Broadcasts(c)} \subseteq Nat
      BY <1>0, CountsType
    <3>3. Adds(c) = 0 /\ Removals(c) = 0 /\ Entries(c) = 0 /\ Broadcasts(c) = 0
      <4>1. Adds(c) + Removals(c) + Entries(c) + Broadcasts(c) = 0
        BY <1>1, <2>0, <2>4 DEF Listed
      <4>2. \A n1, n2, n3, n4 \in Nat :
              n1 + n2 + n3 + n4 = 0 => n1 = 0 /\ n2 = 0 /\ n3 = 0 /\ n4 = 0
        BY SMT
      <4> QED BY <3>2, <4>1, <4>2
    <3>4. Add(c) # Removal(c) /\ Add(c) # Broadcast(c)
      BY TasksDiffer
    <3>5. /\ Adds(c)' = Adds(c) + 1 /\ Removals(c)' = Removals(c) + 0
          /\ Broadcasts(c)' = Broadcasts(c) + 0
      BY <1>0, <1>1, <3>4, OneDispatched
    <3>6. Removals(c)' + Broadcasts(c)' = 0 /\ Removals(c)' = 0 /\ Broadcasts(c)' = Broadcasts(c)
          /\ Adds(c)' + Entries(c)' = 1
      BY <2>2, <2>4, <3>3, <3>5
    <3>7. Before(tasks, Add(c), Removal(c))' /\ Before(tasks, Add(c), Broadcast(c))'
      BY <1>0, <1>1, <3>6, OneDispatched
    <3>8. Listed(c)'
      BY <3>1, <3>6, <3>7 DEF Listed
    <3>9. Circulates(c)'
      BY <1>1, <2>0, <2>1, <2>4, <3>1, <3>6 DEF Circulates
    <3> QED BY <2>1, <2>4, <3>8, <3>9
  <2> QED BY <2>3, <2>4
<1> QED BY <1>2, <1>3 DEF Inv

\* Starting to receive changes nothing that counts.
LEMMA StartRecvKeeps ==
    ASSUME Inv, NEW c \in Clients, StartRecv(c)
    PROVE  Inv'
<1>0. TypeOK /\ \A d \in Clients : Listed(d) /\ Framed(d) /\ Circulates(d)
  BY DEF Inv
<1>1. /\ session[c] = "established" /\ session' = [session EXCEPT ![c] = "open"]
      /\ tasks' = tasks
      /\ up' = up /\ upBuffer' = upBuffer /\ members' = members /\ client' = client
      /\ down' = down /\ downBuffer' = downBuffer /\ rounds' = rounds /\ failed' = failed
  BY DEF StartRecv
<1>2. TypeOK'
  <2>1. session' \in [Clients -> {"none", "established", "open", "closed"}]
    BY <1>0, <1>1 DEF TypeOK
  <2>2. Tasks' = Tasks
    BY DEF Tasks, Add, Removal, Broadcast, Task, WholeBytes, Total, PacketLen
  <2> QED BY <1>0, <1>1, <2>1, <2>2 DEF TypeOK, Byte
<1>3. ASSUME NEW d \in Clients
      PROVE  (Listed(d) /\ Framed(d) /\ Circulates(d))'
  <2>0. Listed(d) /\ Framed(d) /\ Circulates(d)
    BY <1>0
  <2>1. Framed(d)' /\ Ups(d)' = Ups(d) /\ Downs(d)' = Downs(d)
    BY <1>1, <2>0, StreamsStay
  <2>2. Entries(d)' = Entries(d)
    BY <1>1 DEF Entries
  <2>3. /\ Adds(d)' = Adds(d) /\ Removals(d)' = Removals(d) /\ Broadcasts(d)' = Broadcasts(d)
        /\ Before(tasks, Add(d), Removal(d))' /\ Before(tasks, Add(d), Broadcast(d))'
    BY <1>1, <2>0, QueueStays
  <2>4. session'[d] = IF d = c THEN "open" ELSE session[d]
    BY <1>0, <1>1 DEF TypeOK
  <2>5. Listed(d)'
    BY <1>1, <2>0, <2>2, <2>3, <2>4 DEF Listed
  <2>6. Circulates(d)'
    BY <1>1, <2>0, <2>1, <2>3, <2>4 DEF Circulates
  <2> QED BY <2>1, <2>5, <2>6
<1> QED BY <1>2, <1>3 DEF Inv

\* The connection gone, the session's removal is sent and its stream lost.
LEMMA ServerClosesKeeps ==
    ASSUME Inv, NEW c \in Clients, ServerCloses(c)
    PROVE  Inv'
<1>0. TypeOK /\ \A d \in Clients : Listed(d) /\ Framed(d) /\ Circulates(d)
  BY DEF Inv
<1>1. /\ session[c] = "open" /\ session' = [session EXCEPT ![c] = "closed"]
      /\ up' = [up EXCEPT ![c] = <<>>] /\ upBuffer' = [upBuffer EXCEPT ![c] = <<>>]
      /\ tasks' = tasks \o <<Removal(c)>>
      /\ members' = members /\ client' = client
      /\ down' = down /\ downBuffer' = downBuffer /\ rounds' = rounds /\ failed' = failed
  BY DEF ServerCloses, Dispatched, Removal
<1>2. TypeOK'
  <2>1. tasks' \in Seq(Tasks)
    BY <1>0, <1>1, OneDispatched
  <2>2. session' \in [Clients -> {"none", "established", "open", "closed"}]
    BY <1>0, <1>1 DEF TypeOK
  <2>3. up' \in [Clients -> Seq(Byte)] /\ upBuffer' \in [Clients -> Seq(Byte)]
    BY <1>0, <1>1 DEF TypeOK
  <2>4. {up', upBuffer', down', downBuffer'} \subseteq [Clients -> Seq(Byte)]
    BY <1>0, <1>1, <2>3 DEF TypeOK
  <2>5. Tasks' = Tasks
    BY DEF Tasks, Add, Removal, Broadcast, Task, WholeBytes, Total, PacketLen
  <2>6. /\ client' \in [Clients -> {"none", "open", "closed"}] /\ members' \in Seq(Clients)
        /\ rounds' \in [Clients -> Nat] /\ failed' = {}
    BY <1>0, <1>1 DEF TypeOK
  <2> QED BY <2>1, <2>2, <2>4, <2>5, <2>6 DEF TypeOK, Byte
<1>3. ASSUME NEW d \in Clients
      PROVE  (Listed(d) /\ Framed(d) /\ Circulates(d))'
  <2>0. Listed(d) /\ Framed(d) /\ Circulates(d)
    BY <1>0
  <2>1. Entries(d)' = Entries(d)
    BY <1>1 DEF Entries
  <2>2. CASE d # c
    <3>1. session'[d] = session[d] /\ up'[d] = up[d] /\ upBuffer'[d] = upBuffer[d]
      BY <1>0, <1>1, <2>2 DEF TypeOK
    <3>2. /\ Adds(d)' = Adds(d) /\ Removals(d)' = Removals(d) /\ Broadcasts(d)' = Broadcasts(d)
          /\ Before(tasks, Add(d), Removal(d))' /\ Before(tasks, Add(d), Broadcast(d))'
      BY <1>0, <1>1, <2>2, OneDispatched
    <3>3. Listed(d)'
      BY <2>0, <2>1, <3>1, <3>2, ListedStays
    <3>4. Framed(d)' /\ Ups(d)' = Ups(d) /\ Downs(d)' = Downs(d)
      BY <1>1, <2>0, <3>1, StreamsStay
    <3>5. Circulates(d)'
      BY <1>1, <2>0, <3>1, <3>2, <3>4, CirculatesStays
    <3> QED BY <3>3, <3>4, <3>5
  <2>3. CASE d = c
    <3>1. session'[c] = "closed" /\ up'[c] = <<>> /\ upBuffer'[c] = <<>>
      BY <1>0, <1>1 DEF TypeOK
    <3>2. {Adds(c), Removals(c), Entries(c), Broadcasts(c), Ups(c), Downs(c)} \subseteq Nat
      BY <1>0, CountsType
    <3>3. Removals(c) = 0 /\ Adds(c) + Entries(c) = 1
      BY <1>1, <2>0, <2>3 DEF Listed
    <3>4. Removal(c) # Add(c) /\ Removal(c) # Broadcast(c)
      BY TasksDiffer
    <3>5. /\ Adds(c)' = Adds(c) + 0 /\ Removals(c)' = Removals(c) + 1
          /\ Broadcasts(c)' = Broadcasts(c) + 0
          /\ Before(tasks, Add(c), Removal(c))' /\ Before(tasks, Add(c), Broadcast(c))'
      BY <1>0, <1>1, <3>4, OneDispatched
    <3>6. Removals(c)' = 1 /\ Adds(c)' + Entries(c)' = 1 /\ Broadcasts(c)' = Broadcasts(c)
      BY <2>1, <2>3, <3>2, <3>3, <3>5
    <3>7. Listed(c)'
      BY <3>1, <3>5, <3>6 DEF Listed
    <3>8. Upward(c)' = <<>> /\ Downward(c)' = Downward(c)
      <4>1. <<>> \o <<>> = <<>>
        BY SMT
      <4> QED BY <1>1, <3>1, <4>1 DEF Upward, Downward
    <3>9. Ups(c)' = 0 /\ Downs(c)' = Downs(c)
      BY <3>8, TimesShort DEF Ups, Downs
    <3>10. Framed(c)'
      <4>1. Packed(Downward(c))' <=> Packed(Downward(c))
        BY <3>8 DEF Packed, IsLast, Total, PacketLen
      <4> QED BY <2>0, <2>3, <3>8, <4>1 DEF Framed
    <3>11. Circulates(c)'
      <4>1. \A u, n, b \in Nat : /\ u + n + b <= 1 => 0 + n + b <= 1
                                 /\ u + n + b = 0 => 0 + n + b = 0
        BY SMT
      <4>2. /\ Ups(c) + Downs(c) + Broadcasts(c) <= 1
            /\ client[c] = "none" => Ups(c) + Downs(c) + Broadcasts(c) = 0 /\ rounds[c] = 0
        BY <2>0, <2>3 DEF Circulates
      <4>3. /\ (Ups(c) + Downs(c) + Broadcasts(c))' <= 1
            /\ client[c]' = "none" =>
                 (Ups(c) + Downs(c) + Broadcasts(c))' = 0 /\ rounds[c]' = 0
        BY <1>1, <3>2, <3>6, <3>9, <4>1, <4>2
      <4> QED BY <3>1, <4>3 DEF Circulates
    <3> QED BY <2>3, <3>7, <3>10, <3>11
  <2> QED BY <2>2, <2>3
<1> QED BY <1>2, <1>3 DEF Inv

\* A receive of the server takes the packet that is on its way up, or leaves
\* it there.
LEMMA ServerTakes ==
    ASSUME TypeOK, maxUnread \in BufferSizes, NEW c \in Clients, Framed(c),
           NEW n \in Brings(up[c], upBuffer[c]), ServerReceives(c, n)
    PROVE  /\ session[c] = "open"
           /\ session' = session /\ members' = members /\ client' = client
           /\ down' = down /\ downBuffer' = downBuffer /\ rounds' = rounds /\ failed' = failed
           /\ up' \in [Clients -> Seq(Byte)] /\ upBuffer' \in [Clients -> Seq(Byte)]
           /\ \A d \in Clients : d # c => up'[d] = up[d] /\ upBuffer'[d] = upBuffer[d]
           /\ Upward(c) = WholeBytes(c)
           /\ \/ Upward(c)' = WholeBytes(c) /\ tasks' = tasks
              \/ Upward(c)' = <<>> /\ tasks' = tasks \o <<Broadcast(c)>>
<1> DEFINE s == Upward(c)
           t == up[c]
           b == upBuffer[c]
           N == Total(c)
           buf == Received(b, t, n)
           end == ServerRead(buf)
           sv == end.saved
<1>1. b \in Seq(Byte) /\ t \in Seq(Byte) /\ Len(b) \in Nat /\ Len(t) \in Nat /\ s = b \o t
  BY CountsType DEF Upward
<1>2. n \in 1..Len(t) /\ n <= maxUnread - Len(b)
  BY DEF Brings
<1>3. s = WholeBytes(c) /\ Times(s, <<c, 1>>) = 1
  <2>1. t # <<>>
    BY <1>1, <1>2
  <2> QED BY <2>1, NothingUp DEF Ups
<1>4. Packed(s) /\ Len(s) = N /\ \A i \in 1..N : s[i] = <<c, i>>
  BY <1>3, PackedShort
<1>5. N \in Nat \ {0} /\ maxUnread \in Nat /\ maxUnread < SizeMod /\ SizeMod \in Nat
  BY Lengths, SizesAssumption, MemoryAssumption
<1>6. /\ s \in Seq(Byte) /\ buf \in Seq(Byte) /\ Len(buf) = Len(b) + n
      /\ Len(buf) <= Len(s) /\ \A k \in 1..Len(buf) : buf[k] = s[k]
      /\ After(t, n) \in Seq(Byte)
      /\ \A v \in 0..Len(buf) :
           After(buf, v) \in Seq(Byte) /\ After(buf, v) \o After(t, n) = After(s, v)
  <2> HIDE DEF t, b
  <2>1. b \in Seq(Byte) /\ t \in Seq(Byte) /\ n \in 1..Len(t)
    BY <1>1, <1>2
  <2>2. IsCut(Byte, b, t, n)
    BY <2>1, Cut
  <2> HIDE DEF s
  <2> QED BY <1>1, <2>2 DEF IsCut
<1>7. /\ session[c] = "open"
      /\ session' = session /\ members' = members /\ client' = client
      /\ down' = down /\ downBuffer' = downBuffer /\ rounds' = rounds
      /\ up' = [up EXCEPT ![c] = After(t, n)]
      /\ upBuffer' = [upBuffer EXCEPT ![c] = After(buf, sv)]
      /\ tasks' = tasks \o [i \in 1..Len(end.packets) |-> Task("broadcast", c, end.packets[i])]
      /\ failed' = IF Threw(buf, end) THEN failed \cup {c} ELSE failed
  BY DEF ServerReceives, Dispatched, Unconsumed, Received, After
<1> HIDE DEF s, t, b, N, buf, sv
<1>8. GoodReading(c, s, buf, end) /\ ~Threw(buf, end)
  <2>1. Len(buf) < SizeMod
    BY <1>1, <1>2, <1>5, <1>6, SMT
  <2>2. Buffered(buf, s)
    BY <1>6, <2>1 DEF Buffered
  <2>3. \A k \in 1..Len(s) : s[k][1] = c
    BY <1>4
  <2>4. Times(s, <<c, 1>>) <= 1
    BY <1>3
  <2> QED BY <1>4, <2>2, <2>3, <2>4, ServerReadIsGood
<1> HIDE DEF end
<1>9. /\ sv \in 0..Len(buf) /\ AtStart(s, sv)
      /\ end.packets = IF \E k \in 1..sv : s[k] = <<c, 1>> THEN <<WholeBytes(c)>> ELSE <<>>
  BY <1>8 DEF GoodReading, sv
<1>10. sv = 0 \/ sv = N
  <2>1. sv \in Nat /\ sv <= N
    BY <1>4, <1>6, <1>9, <1>1, <1>2, SMT
  <2>2. CASE sv # N
    <3>1. sv + 1 \in 1..N
      BY <1>5, <2>1, <2>2, SMT
    <3>2. s[sv + 1][2] = sv + 1
      BY <1>4, <3>1
    <3>3. sv + 1 = 1
      BY <1>4, <1>9, <2>2, <3>2 DEF AtStart
    <3> QED BY <2>1, <3>3, SMT
  <2> QED BY <2>2
<1>11. /\ Upward(c)' = After(s, sv)
       /\ up' \in [Clients -> Seq(Byte)] /\ upBuffer' \in [Clients -> Seq(Byte)]
       /\ \A d \in Clients : d # c => up'[d] = up[d] /\ upBuffer'[d] = upBuffer[d]
  <2>1. up \in [Clients -> Seq(Byte)] /\ upBuffer \in [Clients -> Seq(Byte)]
    BY DEF TypeOK
  <2>2. /\ After(buf, sv) \in Seq(Byte)
        /\ After(buf, sv) \o After(t, n) = After(s, sv)
    BY <1>6, <1>9
  <2>3. /\ up'[c] = After(t, n) /\ upBuffer'[c] = After(buf, sv)
        /\ up' \in [Clients -> Seq(Byte)] /\ upBuffer' \in [Clients -> Seq(Byte)]
        /\ \A d \in Clients : d # c => up'[d] = up[d] /\ upBuffer'[d] = upBuffer[d]
    BY <1>6, <1>7, <2>1, <2>2
  <2> QED BY <2>2, <2>3 DEF Upward
<1>12. CASE sv = 0
  <2>1. end.packets = <<>>
    <3>1. ~\E k \in 1..0 : s[k] = <<c, 1>>
      BY SMT
    <3> QED BY <1>9, <1>12, <3>1
  <2>2. After(s, sv) = s
    <3>1. SubSeq(s, 1, Len(s)) = s /\ 0 + 1 = 1
      BY <1>6, SubSeqFull
    <3> QED BY <1>12, <3>1 DEF After
  <2>3. tasks' = tasks
    <3>1. [i \in 1..Len(<<>>) |-> Task("broadcast", c, end.packets[i])] = <<>>
      OBVIOUS
    <3>2. tasks \in Seq(Tasks)
      BY DEF TypeOK
    <3>3. tasks \o <<>> = tasks
      BY <3>2, ConcatEmptySeq
    <3> QED BY <1>7, <2>1, <3>1, <3>3
  <2> QED BY <1>3, <1>7, <1>8, <1>11, <2>2, <2>3 DEF s
<1>13. CASE sv = N
  <2>1. end.packets = <<WholeBytes(c)>>
    <3>1. 1 \in 1..N
      BY <1>5, SMT
    <3>2. s[1] = <<c, 1>>
      BY <1>4, <3>1
    <3> QED BY <1>9, <1>13, <3>1, <3>2
  <2>2. After(s, sv) = <<>>
    <3>1. sv + 1 \in Int /\ Len(s) \in Int /\ Len(s) < sv + 1
      BY <1>4, <1>5, <1>13, SMT
    <3> QED BY <3>1, SubSeqEmpty DEF After
  <2>3. tasks' = tasks \o <<Broadcast(c)>>
    <3>1. [i \in 1..Len(<<WholeBytes(c)>>) |-> Task("broadcast", c, <<WholeBytes(c)>>[i])] =
            <<Task("broadcast", c, WholeBytes(c))>>
      OBVIOUS
    <3> QED BY <1>7, <2>1, <3>1 DEF Broadcast
  <2> QED BY <1>3, <1>7, <1>8, <1>11, <2>2, <2>3 DEF s
<1> QED BY <1>10, <1>12, <1>13

\* The server's data handler hands on what it takes from the stream.
LEMMA ServerReceivesKeeps ==
    ASSUME Inv, maxUnread \in BufferSizes, NEW c \in Clients, ServerReceive(c)
    PROVE  Inv'
<1>0. TypeOK /\ \A d \in Clients : Listed(d) /\ Framed(d) /\ Circulates(d)
  BY DEF Inv
<1> PICK n \in Brings(up[c], upBuffer[c]) : ServerReceives(c, n)
  BY DEF ServerReceive
<1>1. /\ session[c] = "open"
      /\ session' = session /\ members' = members /\ client' = client
      /\ down' = down /\ downBuffer' = downBuffer /\ rounds' = rounds /\ failed' = failed
      /\ up' \in [Clients -> Seq(Byte)] /\ upBuffer' \in [Clients -> Seq(Byte)]
      /\ \A d \in Clients : d # c => up'[d] = up[d] /\ upBuffer'[d] = upBuffer[d]
      /\ Upward(c) = WholeBytes(c)
      /\ \/ Upward(c)' = WholeBytes(c) /\ tasks' = tasks
         \/ Upward(c)' = <<>> /\ tasks' = tasks \o <<Broadcast(c)>>
  BY <1>0, ServerTakes
<1>2. TypeOK'
  <2>1. tasks' \in Seq(Tasks)
    <3>1. CASE tasks' = tasks
      BY <1>0, <3>1 DEF TypeOK
    <3>2. CASE tasks' = tasks \o <<Broadcast(c)>>
      BY <1>0, <3>2, OneDispatched
    <3> QED BY <1>1, <3>1, <3>2
  <2>2. {up', upBuffer', down', downBuffer'} \subseteq [Clients -> Seq(Byte)]
    BY <1>0, <1>1 DEF TypeOK
  <2>3. Tasks' = Tasks
    BY DEF Tasks, Add, Removal, Broadcast, Task, WholeBytes, Total, PacketLen
  <2>4. /\ session' \in [Clients -> {"none", "established", "open", "closed"}]
        /\ client' \in [Clients -> {"none", "open", "closed"}] /\ members' \in Seq(Clients)
        /\ rounds' \in [Clients -> Nat] /\ failed' = {}
    BY <1>0, <1>1 DEF TypeOK
  <2> QED BY <2>1, <2>2, <2>3, <2>4 DEF TypeOK, Byte
<1>3. ASSUME NEW d \in Clients
      PROVE  (Listed(d) /\ Framed(d) /\ Circulates(d))'
  <2>0. Listed(d) /\ Framed(d) /\ Circulates(d)
    BY <1>0
  <2>1. Entries(d)' = Entries(d) /\ session'[d] = session[d] /\ client'[d] = client[d]
    BY <1>1 DEF Entries
  <2>2. {Adds(d), Removals(d), Entries(d), Broadcasts(d), Ups(d), Downs(d)} \subseteq Nat
    BY <1>0, CountsType
  <2>3. /\ Adds(d)' = Adds(d) /\ Removals(d)' = Removals(d)
        /\ d # c \/ tasks' = tasks => Broadcasts(d)' = Broadcasts(d)
        /\ d = c /\ tasks' # tasks => Broadcasts(d)' = Broadcasts(d) + 1
        /\ Before(tasks, Add(d), Removal(d))' /\ Before(tasks, Add(d), Broadcast(d))'
    <3>1. CASE tasks' = tasks
      <4>1. /\ Adds(d)' = Adds(d) /\ Removals(d)' = Removals(d)
            /\ Broadcasts(d)' = Broadcasts(d)
            /\ Before(tasks, Add(d), Removal(d))' /\ Before(tasks, Add(d), Broadcast(d))'
        BY <2>0, <3>1, QueueStays
      <4> QED BY <2>2, <3>1, <4>1
    <3>2. CASE tasks' = tasks \o <<Broadcast(c)>> /\ tasks' # tasks
      <4>1. CASE d # c
        BY <1>0, <2>2, <3>2, <4>1, OneDispatched
      <4>2. CASE d = c
        <5>1. Broadcast(c) # Add(c) /\ Broadcast(c) # Removal(c)
          BY TasksDiffer
        <5>2. /\ Adds(c)' = Adds(c) + 0 /\ Removals(c)' = Removals(c) + 0
              /\ Broadcasts(c)' = Broadcasts(c) + 1
              /\ Before(tasks, Add(c), Removal(c))' /\ Before(tasks, Add(c), Broadcast(c))'
          BY <1>0, <3>2, <5>1, OneDispatched
        <5> QED BY <2>2, <3>2, <4>2, <5>2
      <4> QED BY <4>1, <4>2
    <3> QED BY <1>1, <3>1, <3>2
  <2>4. Listed(d)'
    <3>1. session[d] = "none" => d # c
      BY <1>1
    <3>2. session[d] = "none" => Broadcasts(d)' = Broadcasts(d)
      BY <2>2, <2>3, <3>1
    <3> QED BY <2>0, <2>1, <2>3, <3>2 DEF Listed
  <2>5. CASE d # c \/ tasks' = tasks
    <3>1. Framed(d)' /\ Ups(d)' = Ups(d) /\ Downs(d)' = Downs(d)
      <4>1. CASE d # c
        BY <1>1, <2>0, <4>1, StreamsStay
      <4>2. CASE d = c /\ Upward(c)' = WholeBytes(c)
        <5>1. Upward(d)' = Upward(d) /\ Downward(d)' = Downward(d)
          BY <1>1, <4>2 DEF Downward
        <5>2. WholeBytes(d)' = WholeBytes(d)
          BY DEF WholeBytes, Total, PacketLen
        <5>3. Packed(Downward(d))' <=> Packed(Downward(d))
          BY <5>1 DEF Packed, IsLast, Total, PacketLen
        <5> QED BY <2>0, <5>1, <5>2, <5>3 DEF Framed, Ups, Downs
      <4>3. tasks \o <<Broadcast(c)>> # tasks
        <5>1. tasks \in Seq(Tasks) /\ <<Broadcast(c)>> \in Seq(Tasks)
              /\ <<Broadcast(c)>> # <<>>
          BY <1>0, TasksDiffer DEF TypeOK
        <5>2. \A s, t \in Seq(Tasks) : s \o t = s => t = <<>>
          BY ConcatSimplifications
        <5> QED BY <5>1, <5>2
      <4> QED BY <1>1, <2>5, <4>1, <4>2, <4>3
    <3>2. Broadcasts(d)' = Broadcasts(d)
      BY <2>2, <2>3, <2>5
    <3> QED BY <1>1, <2>0, <2>1, <2>4, <3>1, <3>2, CirculatesStays
  <2>6. CASE d = c /\ tasks' # tasks
    <3>1. Upward(c)' = <<>> /\ Downward(c)' = Downward(c)
      BY <1>1, <2>6 DEF Downward
    <3>2. Ups(c)' = 0 /\ Downs(c)' = Downs(c) /\ Ups(c) = 1
      BY <1>1, <3>1, TimesShort, PacketTimes DEF Ups, Downs
    <3>3. Framed(c)'
      <4>1. Packed(Downward(c))' <=> Packed(Downward(c))
        BY <3>1 DEF Packed, IsLast, Total, PacketLen
      <4> QED BY <2>0, <2>6, <3>1, <4>1 DEF Framed
    <3>4. (Ups(c) + Downs(c) + Broadcasts(c))' = Ups(c) + Downs(c) + Broadcasts(c)
      <4>1. \A n1, n2 \in Nat : 0 + n1 + (n2 + 1) = 1 + n1 + n2
        BY SMT
      <4>2. Broadcasts(c)' = Broadcasts(c) + 1
        BY <2>3, <2>6
      <4> QED BY <2>2, <2>6, <3>2, <4>1, <4>2
    <3>5. Circulates(c)'
      BY <1>1, <2>0, <2>6, <3>4 DEF Circulates
    <3> QED BY <2>4, <2>6, <3>3, <3>5
  <2> QED BY <2>5, <2>6
<1> QED BY <1>2, <1>3 DEF Inv

----------------------------------------------------------------------------
(* The steps of the clients. *)

\* What the client writes at once is what it wrote one by one.
LEMMA FlattenShort ==
    FlattenSeq(<<>>) = <<>> /\ \A p : FlattenSeq(<<p>>) = p
<1>1. FlattenSeq(<<>>) = <<>>
  BY DEF FlattenSeq
<1>2. ASSUME NEW p PROVE FlattenSeq(<<p>>) = p
  <2> DEFINE Is(f) == f = [i \in 1..Len(<<p>>) |->
                             IF i = 1 THEN <<p>>[i] ELSE f[i - 1] \o <<p>>[i]]
             g == [i \in 1..Len(<<p>>) |-> p]
  <2>1. Len(<<p>>) = 1 /\ <<p>>[1] = p
    OBVIOUS
  <2>2. \A i \in 1..Len(<<p>>) : i = 1
    BY <2>1, SMT
  <2>3. Is(g)
    BY <2>1, <2>2
  <2>4. Is(CHOOSE f : Is(f))
    BY <2>3
  <2>5. FlattenSeq(<<p>>) = (CHOOSE f : Is(f))[Len(<<p>>)]
    BY <2>1 DEF FlattenSeq
  <2> DEFINE h == CHOOSE f : Is(f)
  <2>6. h[1] = p
    <3>1. 1 \in 1..Len(<<p>>)
      BY <2>1, SMT
    <3>2. Is(h)
      BY <2>4
    <3> HIDE DEF h
    <3> QED BY <2>1, <3>1, <3>2
  <2> HIDE DEF h
  <2> QED BY <2>1, <2>5, <2>6 DEF h
<1> QED BY <1>1, <1>2

\* A client sends what it sends to its session, unless that is closed; before,
\* nothing of it was on its way up.
LEMMA Sends ==
    ASSUME TypeOK, NEW c \in Clients, Framed(c), Ups(c) = 0, up' = Upwards(c, WholeBytes(c)),
           upBuffer' = upBuffer
    PROVE  /\ up' \in [Clients -> Seq(Byte)]
           /\ \A d \in Clients : d # c => up'[d] = up[d]
           /\ Upward(c)' = IF session[c] = "closed" THEN <<>> ELSE WholeBytes(c)
           /\ Ups(c)' = IF session[c] = "closed" THEN 0 ELSE 1
<1> DEFINE p == WholeBytes(c)
<1>1. Upward(c) = <<>> /\ up[c] = <<>> /\ upBuffer[c] = <<>>
  BY NothingUp
<1>2. p \in Seq(Byte)
  BY PackedShort DEF Packed
<1>3. up \in [Clients -> Seq(Byte)] /\ upBuffer \in [Clients -> Seq(Byte)]
  BY DEF TypeOK
<1>4. up' = IF session[c] = "closed" THEN up ELSE [up EXCEPT ![c] = up[c] \o p]
  BY DEF Upwards
<1> HIDE DEF p
<1>5. <<>> \o p = p /\ <<>> \o <<>> = <<>>
  BY <1>2, ConcatEmptySeq
<1>6. /\ up'[c] = IF session[c] = "closed" THEN <<>> ELSE p
      /\ up' \in [Clients -> Seq(Byte)] /\ \A d \in Clients : d # c => up'[d] = up[d]
  BY <1>1, <1>2, <1>3, <1>4, <1>5
<1>7. Upward(c)' = IF session[c] = "closed" THEN <<>> ELSE p
  BY <1>1, <1>5, <1>6 DEF Upward
<1>8. Ups(c)' = IF session[c] = "closed" THEN 0 ELSE 1
  <2>1. Times(p, <<c, 1>>) = 1 /\ Times(<<>>, <<c, 1>>) = 0
    BY PacketTimes, TimesShort DEF p
  <2>2. Ups(c)' = Times(Upward(c)', <<c, 1>>)
    BY DEF Ups
  <2> QED BY <1>7, <2>1, <2>2
<1> QED BY <1>6, <1>7, <1>8 DEF p

\* A client sends its packet when it is established.
LEMMA ClientEstablishedKeeps ==
    ASSUME Inv, NEW c \in Clients, ClientEstablished(c)
    PROVE  Inv'
<1>0. TypeOK /\ \A d \in Clients : Listed(d) /\ Framed(d) /\ Circulates(d)
  BY DEF Inv
<1>1. /\ client[c] = "none" /\ client' = [client EXCEPT ![c] = "open"]
      /\ up' = Upwards(c, WholeBytes(c))
      /\ session' = session /\ upBuffer' = upBuffer /\ members' = members /\ tasks' = tasks
      /\ down' = down /\ downBuffer' = downBuffer /\ rounds' = rounds /\ failed' = failed
  BY PacketIsWhole DEF ClientEstablished
<1>2. {Ups(c), Downs(c), Broadcasts(c)} \subseteq Nat /\ MaxRounds \in Nat
  BY <1>0, CountsType, Lengths
<1>3. Ups(c) = 0 /\ Downs(c) = 0 /\ Broadcasts(c) = 0 /\ rounds[c] = 0
  <2>1. Ups(c) + Downs(c) + Broadcasts(c) = 0 /\ rounds[c] = 0
    BY <1>0, <1>1 DEF Circulates
  <2>2. \A n1, n2, n3 \in Nat : n1 + n2 + n3 = 0 => n1 = 0 /\ n2 = 0 /\ n3 = 0
    BY SMT
  <2> QED BY <1>2, <2>1, <2>2
<1>4. /\ up' \in [Clients -> Seq(Byte)]
      /\ \A d \in Clients : d # c => up'[d] = up[d]
      /\ Upward(c)' = IF session[c] = "closed" THEN <<>> ELSE WholeBytes(c)
      /\ Ups(c)' = IF session[c] = "closed" THEN 0 ELSE 1
  BY <1>0, <1>1, <1>3, Sends
<1>5. TypeOK'
  <2>1. {up', upBuffer', down', downBuffer'} \subseteq [Clients -> Seq(Byte)]
    BY <1>0, <1>1, <1>4 DEF TypeOK
  <2>2. Tasks' = Tasks
    BY DEF Tasks, Add, Removal, Broadcast, Task, WholeBytes, Total, PacketLen
  <2>3. /\ session' \in [Clients -> {"none", "established", "open", "closed"}]
        /\ client' \in [Clients -> {"none", "open", "closed"}] /\ members' \in Seq(Clients)
        /\ tasks' \in Seq(Tasks) /\ rounds' \in [Clients -> Nat] /\ failed' = {}
    BY <1>0, <1>1 DEF TypeOK
  <2> QED BY <2>1, <2>2, <2>3 DEF TypeOK, Byte
<1>6. ASSUME NEW d \in Clients
      PROVE  (Listed(d) /\ Framed(d) /\ Circulates(d))'
  <2>0. Listed(d) /\ Framed(d) /\ Circulates(d)
    BY <1>0
  <2>1. Entries(d)' = Entries(d) /\ session'[d] = session[d]
    BY <1>1 DEF Entries
  <2>2. /\ Adds(d)' = Adds(d) /\ Removals(d)' = Removals(d) /\ Broadcasts(d)' = Broadcasts(d)
        /\ Before(tasks, Add(d), Removal(d))' /\ Before(tasks, Add(d), Broadcast(d))'
    BY <1>1, <2>0, QueueStays
  <2>3. Listed(d)'
    BY <2>0, <2>1, <2>2, ListedStays
  <2>4. CASE d # c
    <3>1. client'[d] = client[d] /\ up'[d] = up[d]
      BY <1>0, <1>1, <1>4, <2>4 DEF TypeOK
    <3>2. Framed(d)' /\ Ups(d)' = Ups(d) /\ Downs(d)' = Downs(d)
      BY <1>1, <2>0, <3>1, StreamsStay
    <3> QED BY <1>1, <2>0, <2>1, <2>2, <2>3, <3>1, <3>2, CirculatesStays
  <2>5. CASE d = c
    <3>1. client'[c] = "open"
      BY <1>0, <1>1 DEF TypeOK
    <3>2. Downward(c)' = Downward(c) /\ Downs(c)' = Downs(c)
      BY <1>1 DEF Downward, Downs
    <3>3. Framed(c)'
      <4>1. Packed(Downward(c))' <=> Packed(Downward(c))
        BY <3>2 DEF Packed, IsLast, Total, PacketLen
      <4>2. WholeBytes(c)' = WholeBytes(c)
        BY DEF WholeBytes, Total, PacketLen
      <4> QED BY <1>4, <2>0, <2>5, <4>1, <4>2 DEF Framed
    <3>4. (Ups(c) + Downs(c) + Broadcasts(c))' = IF session[c] = "closed" THEN 0 ELSE 1
      BY <1>3, <1>4, <2>2, <2>5, <3>2
    <3>5. ~(rounds'[c] > MaxRounds)
      BY <1>1, <1>2, <1>3, SMT
    <3>6. Circulates(c)'
      BY <1>1, <3>1, <3>4, <3>5 DEF Circulates
    <3> QED BY <2>3, <2>5, <3>3, <3>6
  <2> QED BY <2>4, <2>5
<1> QED BY <1>5, <1>6 DEF Inv

\* A receive of a client takes its packet from what is on its way down, or
\* leaves it there; what it leaves starts with a packet.
LEMMA ClientTakes ==
    ASSUME TypeOK, maxUnread \in BufferSizes, NEW c \in Clients, Framed(c), Downs(c) <= 1,
           NEW n \in Brings(down[c], downBuffer[c]), ClientReceives(c, n)
    PROVE  /\ client[c] = "open"
           /\ session' = session /\ members' = members /\ client' = client
           /\ tasks' = tasks /\ upBuffer' = upBuffer /\ failed' = failed
           /\ down' \in [Clients -> Seq(Byte)] /\ downBuffer' \in [Clients -> Seq(Byte)]
           /\ \A d \in Clients : d # c => down'[d] = down[d] /\ downBuffer'[d] = downBuffer[d]
           /\ Packed(Downward(c)')
           /\ \/ rounds' = [rounds EXCEPT ![c] = @ + 0] /\ Downs(c)' = Downs(c)
                 /\ up' = (IF rounds[c] < MaxRounds THEN Upwards(c, <<>>) ELSE up)
              \/ rounds' = [rounds EXCEPT ![c] = @ + 1] /\ Downs(c) = 1 /\ Downs(c)' = 0
                 /\ up' = (IF rounds[c] < MaxRounds THEN Upwards(c, WholeBytes(c)) ELSE up)
<1> DEFINE s == Downward(c)
           t == down[c]
           b == downBuffer[c]
           buf == Received(b, t, n)
           end == ClientRead(c, buf)
           sv == end.saved
           first == <<c, 1>>
<1>1. b \in Seq(Byte) /\ t \in Seq(Byte) /\ Len(b) \in Nat /\ Len(t) \in Nat /\ s = b \o t
  BY CountsType DEF Downward
<1>2. n \in 1..Len(t) /\ n <= maxUnread - Len(b)
  BY DEF Brings
<1>3. Packed(s) /\ Times(s, first) <= 1
  BY DEF Framed, Downs
<1>4. maxUnread \in Nat /\ maxUnread < SizeMod /\ SizeMod \in Nat
  BY SizeAssumption, SizesAssumption, MemoryAssumption
<1>5. /\ s \in Seq(Byte) /\ buf \in Seq(Byte) /\ Len(buf) = Len(b) + n
      /\ Len(buf) <= Len(s) /\ \A k \in 1..Len(buf) : buf[k] = s[k]
      /\ After(t, n) \in Seq(Byte)
      /\ \A v \in 0..Len(buf) :
           After(buf, v) \in Seq(Byte) /\ After(buf, v) \o After(t, n) = After(s, v)
  <2> HIDE DEF t, b
  <2>1. b \in Seq(Byte) /\ t \in Seq(Byte) /\ n \in 1..Len(t)
    BY <1>1, <1>2
  <2>2. IsCut(Byte, b, t, n)
    BY <2>1, Cut
  <2> HIDE DEF s
  <2> QED BY <1>1, <2>2 DEF IsCut
<1>6. /\ client[c] = "open"
      /\ session' = session /\ members' = members /\ client' = client
      /\ tasks' = tasks /\ upBuffer' = upBuffer
      /\ down' = [down EXCEPT ![c] = After(t, n)]
      /\ downBuffer' = [downBuffer EXCEPT ![c] = After(buf, sv)]
      /\ rounds' = [rounds EXCEPT ![c] = @ + Len(end.packets)]
      /\ up' = IF rounds[c] < MaxRounds THEN Upwards(c, FlattenSeq(end.packets)) ELSE up
      /\ failed' = IF Threw(buf, end) THEN failed \cup {c} ELSE failed
  BY DEF ClientReceives, Unconsumed, Received, After
<1> HIDE DEF s, t, b, buf, sv, first
<1>7. GoodReading(c, s, buf, end) /\ ~Threw(buf, end)
  <2>1. Len(buf) < SizeMod
    BY <1>1, <1>2, <1>4, <1>5, SMT
  <2>2. Buffered(buf, s)
    BY <1>5, <2>1 DEF Buffered
  <2>3. Times(s, <<c, 1>>) <= 1
    BY <1>3 DEF first
  <2> QED BY <1>3, <2>2, <2>3, ClientReadIsGood
<1> HIDE DEF end
<1>8. /\ sv \in 0..Len(buf) /\ sv \in 0..Len(s) /\ AtStart(s, sv)
      /\ end.packets = IF \E k \in 1..sv : s[k] = first THEN <<WholeBytes(c)>> ELSE <<>>
  <2>1. /\ sv \in 0..Len(buf) /\ AtStart(s, sv)
        /\ end.packets = IF \E k \in 1..sv : s[k] = first THEN <<WholeBytes(c)>> ELSE <<>>
    BY <1>7 DEF GoodReading, sv, first
  <2>2. Len(s) \in Nat /\ Len(buf) \in Nat
    BY <1>5
  <2>3. sv \in 0..Len(s)
    BY <1>5, <2>1, <2>2, SMT
  <2> QED BY <2>1, <2>3
<1>9. /\ Downward(c)' = After(s, sv)
      /\ down' \in [Clients -> Seq(Byte)] /\ downBuffer' \in [Clients -> Seq(Byte)]
      /\ \A d \in Clients : d # c => down'[d] = down[d] /\ downBuffer'[d] = downBuffer[d]
  <2>1. down \in [Clients -> Seq(Byte)] /\ downBuffer \in [Clients -> Seq(Byte)]
    BY DEF TypeOK
  <2>2. After(buf, sv) \in Seq(Byte) /\ After(buf, sv) \o After(t, n) = After(s, sv)
    BY <1>5, <1>8
  <2>3. /\ down'[c] = After(t, n) /\ downBuffer'[c] = After(buf, sv)
        /\ down' \in [Clients -> Seq(Byte)] /\ downBuffer' \in [Clients -> Seq(Byte)]
        /\ \A d \in Clients : d # c => down'[d] = down[d] /\ downBuffer'[d] = downBuffer[d]
    BY <1>5, <1>6, <2>1, <2>2
  <2> QED BY <2>2, <2>3 DEF Downward
<1>10. Packed(Downward(c)')
  BY <1>3, <1>8, <1>9, PackedRest DEF After
<1>11. /\ Downs(c)' = Times(After(s, sv), first) /\ Downs(c) = Times(s, first)
       /\ IF \E k \in 1..sv : s[k] = first
            THEN Times(s, first) = 1 /\ Times(After(s, sv), first) = 0
            ELSE Times(After(s, sv), first) = Times(s, first)
  <2>1. Downs(c)' = Times(After(s, sv), first) /\ Downs(c) = Times(s, first)
    BY <1>9 DEF Downs, first, s
  <2>2. IF \E k \in 1..sv : s[k] = first
          THEN Times(s, first) = 1 /\ Times(After(s, sv), first) = 0
          ELSE Times(After(s, sv), first) = Times(s, first)
    BY <1>3, <1>5, <1>8, TimesRest DEF After
  <2> QED BY <2>1, <2>2
<1>12. CASE \E k \in 1..sv : s[k] = first
  <2>1. end.packets = <<WholeBytes(c)>>
    BY <1>8, <1>12
  <2>2. Len(end.packets) = 1 /\ FlattenSeq(end.packets) = WholeBytes(c)
    BY <2>1, FlattenShort
  <2> QED BY <1>6, <1>7, <1>9, <1>10, <1>11, <1>12, <2>2
<1>13. CASE ~\E k \in 1..sv : s[k] = first
  <2>1. end.packets = <<>>
    BY <1>8, <1>13
  <2>2. Len(end.packets) = 0 /\ FlattenSeq(end.packets) = <<>>
    BY <2>1, FlattenShort
  <2> QED BY <1>6, <1>7, <1>9, <1>10, <1>11, <1>13, <2>2
<1> QED BY <1>12, <1>13

\* The client's data handler sends its packet again, once for each time it
\* takes it, until it has seen enough rounds.
LEMMA ClientReceivesKeeps ==
    ASSUME Inv, maxUnread \in BufferSizes, NEW c \in Clients, ClientReceive(c)
    PROVE  Inv'
<1>0. TypeOK /\ \A d \in Clients : Listed(d) /\ Framed(d) /\ Circulates(d)
  BY DEF Inv
<1> PICK n \in Brings(down[c], downBuffer[c]) : ClientReceives(c, n)
  BY DEF ClientReceive
<1>1. /\ {Ups(c), Downs(c), Broadcasts(c)} \subseteq Nat /\ MaxRounds \in Nat
      /\ rounds[c] \in Nat /\ rounds \in [Clients -> Nat] /\ up \in [Clients -> Seq(Byte)]
  BY <1>0, CountsType, Lengths DEF TypeOK
<1>2. /\ Ups(c) + Downs(c) + Broadcasts(c) <= 1 /\ Downs(c) <= 1
      /\ Downs(c) = 1 => Ups(c) = 0 /\ Broadcasts(c) = 0
  <2>1. Ups(c) + Downs(c) + Broadcasts(c) <= 1
    BY <1>0 DEF Circulates
  <2>2. \A n1, n2, n3 \in Nat : n1 + n2 + n3 <= 1 => n2 <= 1 /\ (n2 = 1 => n1 = 0 /\ n3 = 0)
    BY SMT
  <2> QED BY <1>1, <2>1, <2>2
<1>3. /\ client[c] = "open"
      /\ session' = session /\ members' = members /\ client' = client
      /\ tasks' = tasks /\ upBuffer' = upBuffer /\ failed' = failed
      /\ down' \in [Clients -> Seq(Byte)] /\ downBuffer' \in [Clients -> Seq(Byte)]
      /\ \A d \in Clients : d # c => down'[d] = down[d] /\ downBuffer'[d] = downBuffer[d]
      /\ Packed(Downward(c)')
      /\ \/ rounds' = [rounds EXCEPT ![c] = @ + 0] /\ Downs(c)' = Downs(c)
            /\ up' = (IF rounds[c] < MaxRounds THEN Upwards(c, <<>>) ELSE up)
         \/ rounds' = [rounds EXCEPT ![c] = @ + 1] /\ Downs(c) = 1 /\ Downs(c)' = 0
            /\ up' = (IF rounds[c] < MaxRounds THEN Upwards(c, WholeBytes(c)) ELSE up)
  BY <1>0, <1>2, ClientTakes
<1>4. Broadcasts(c)' = Broadcasts(c)
  BY <1>0, <1>3, QueueStays
<1>5. Packed(Downward(c))'
  BY <1>3 DEF Packed, IsLast, Total, PacketLen
\* What changes: the streams of this client and its rounds.
<1>6. /\ up' \in [Clients -> Seq(Byte)] /\ rounds' \in [Clients -> Nat]
      /\ \A d \in Clients : d # c => up'[d] = up[d] /\ rounds'[d] = rounds[d]
      /\ Framed(c)' /\ Circulates(c)'
  <2>0. Framed(c) /\ Circulates(c)
    BY <1>0
  <2>1. WholeBytes(c)' = WholeBytes(c)
    BY DEF WholeBytes, Total, PacketLen
  <2>2. ASSUME up' = up
        PROVE  Framed(c)' /\ Ups(c)' = Ups(c)
    <3>1. Upward(c)' = Upward(c)
      BY <1>3, <2>2 DEF Upward
    <3> QED BY <1>5, <2>0, <2>1, <3>1 DEF Framed, Ups
  <2>3. CASE rounds' = [rounds EXCEPT ![c] = @ + 0] /\ Downs(c)' = Downs(c)
             /\ up' = (IF rounds[c] < MaxRounds THEN Upwards(c, <<>>) ELSE up)
    <3>1. Upwards(c, <<>>) = up
      <4>1. up[c] \o <<>> = up[c]
        BY <1>1, ConcatEmptySeq
      <4>2. [up EXCEPT ![c] = up[c]] = up
        BY <1>1
      <4> QED BY <4>1, <4>2 DEF Upwards
    <3>2. up' = up /\ rounds' = rounds
      BY <1>1, <2>3, <3>1
    <3>3. Framed(c)' /\ Ups(c)' = Ups(c)
      BY <2>2, <3>2
    <3>4. client'[c] = client[c] /\ session'[c] = session[c] /\ rounds'[c] = rounds[c]
      BY <1>3, <3>2
    <3>5. Circulates(c)'
      BY <1>4, <2>0, <2>3, <3>3, <3>4, CirculatesStays
    <3> QED BY <1>1, <3>2, <3>3, <3>5
  <2>4. CASE rounds' = [rounds EXCEPT ![c] = @ + 1] /\ Downs(c) = 1 /\ Downs(c)' = 0
             /\ up' = (IF rounds[c] < MaxRounds THEN Upwards(c, WholeBytes(c)) ELSE up)
    <3>1. /\ rounds'[c] = rounds[c] + 1 /\ rounds' \in [Clients -> Nat]
          /\ \A d \in Clients : d # c => rounds'[d] = rounds[d]
      BY <1>1, <2>4
    <3>2. Ups(c) = 0 /\ Broadcasts(c) = 0 /\ Broadcasts(c)' = 0
      BY <1>2, <1>4, <2>4
    <3>3. CASE rounds[c] < MaxRounds
      <4>1. /\ up' \in [Clients -> Seq(Byte)]
            /\ \A d \in Clients : d # c => up'[d] = up[d]
            /\ Upward(c)' = IF session[c] = "closed" THEN <<>> ELSE WholeBytes(c)
            /\ Ups(c)' = IF session[c] = "closed" THEN 0 ELSE 1
        BY <1>0, <1>3, <2>4, <3>2, <3>3, Sends
      <4>2. Framed(c)'
        BY <1>5, <2>1, <4>1 DEF Framed
      <4>3. (Ups(c) + Downs(c) + Broadcasts(c))' = IF session[c] = "closed" THEN 0 ELSE 1
        BY <2>4, <3>2, <4>1
      <4>4. ~(rounds'[c] > MaxRounds)
        BY <1>1, <3>1, <3>3, SMT
      <4>5. Circulates(c)'
        BY <1>3, <4>3, <4>4 DEF Circulates
      <4> QED BY <3>1, <4>1, <4>2, <4>5
    <3>4. CASE ~(rounds[c] < MaxRounds)
      <4>1. up' = up
        BY <2>4, <3>4
      <4>2. Framed(c)' /\ Ups(c)' = Ups(c)
        BY <2>2, <4>1
      <4>3. (Ups(c) + Downs(c) + Broadcasts(c))' = 0
        BY <2>4, <3>2, <4>2
      <4>4. rounds'[c] > MaxRounds
        BY <1>1, <3>1, <3>4, SMT
      <4>5. Circulates(c)'
        BY <1>3, <4>3, <4>4 DEF Circulates
      <4> QED BY <1>1, <3>1, <4>1, <4>2, <4>5
    <3> QED BY <3>3, <3>4
  <2> QED BY <1>3, <2>3, <2>4
<1>7. TypeOK'
  <2>1. {up', upBuffer', down', downBuffer'} \subseteq [Clients -> Seq(Byte)]
    BY <1>0, <1>3, <1>6 DEF TypeOK
  <2>2. Tasks' = Tasks
    BY DEF Tasks, Add, Removal, Broadcast, Task, WholeBytes, Total, PacketLen
  <2>3. /\ session' \in [Clients -> {"none", "established", "open", "closed"}]
        /\ client' \in [Clients -> {"none", "open", "closed"}] /\ members' \in Seq(Clients)
        /\ tasks' \in Seq(Tasks) /\ failed' = {}
    BY <1>0, <1>3 DEF TypeOK
  <2> QED BY <1>6, <2>1, <2>2, <2>3 DEF TypeOK, Byte
<1>8. ASSUME NEW d \in Clients
      PROVE  (Listed(d) /\ Framed(d) /\ Circulates(d))'
  <2>0. Listed(d) /\ Framed(d) /\ Circulates(d)
    BY <1>0
  <2>1. Entries(d)' = Entries(d) /\ session'[d] = session[d] /\ client'[d] = client[d]
    BY <1>3 DEF Entries
  <2>2. /\ Adds(d)' = Adds(d) /\ Removals(d)' = Removals(d) /\ Broadcasts(d)' = Broadcasts(d)
        /\ Before(tasks, Add(d), Removal(d))' /\ Before(tasks, Add(d), Broadcast(d))'
    BY <1>3, <2>0, QueueStays
  <2>3. Listed(d)'
    BY <2>0, <2>1, <2>2, ListedStays
  <2>4. CASE d # c
    <3>1. /\ up'[d] = up[d] /\ upBuffer'[d] = upBuffer[d] /\ rounds'[d] = rounds[d]
          /\ down'[d] = down[d] /\ downBuffer'[d] = downBuffer[d]
      BY <1>3, <1>6, <2>4
    <3>2. Framed(d)' /\ Ups(d)' = Ups(d) /\ Downs(d)' = Downs(d)
      BY <2>0, <3>1, StreamsStay
    <3> QED BY <2>0, <2>1, <2>2, <2>3, <3>1, <3>2, CirculatesStays
  <2> QED BY <1>6, <2>3, <2>4
<1> QED BY <1>7, <1>8 DEF Inv

\* A client that ends loses what was on its way to it.
LEMMA ClientClosesKeeps ==
    ASSUME Inv, NEW c \in Clients, ClientCloses(c)
    PROVE  Inv'
<1>0. TypeOK /\ \A d \in Clients : Listed(d) /\ Framed(d) /\ Circulates(d)
  BY DEF Inv
<1>1. /\ client[c] = "open" /\ client' = [client EXCEPT ![c] = "closed"]
      /\ down' = [down EXCEPT ![c] = <<>>] /\ downBuffer' = [downBuffer EXCEPT ![c] = <<>>]
      /\ session' = session /\ up' = up /\ upBuffer' = upBuffer /\ members' = members
      /\ tasks' = tasks /\ rounds' = rounds /\ failed' = failed
  BY DEF ClientCloses
<1>2. TypeOK'
  <2>1. down' \in [Clients -> Seq(Byte)] /\ downBuffer' \in [Clients -> Seq(Byte)]
    BY <1>0, <1>1 DEF TypeOK
  <2>2. {up', upBuffer', down', downBuffer'} \subseteq [Clients -> Seq(Byte)]
    BY <1>0, <1>1, <2>1 DEF TypeOK
  <2>3. Tasks' = Tasks
    BY DEF Tasks, Add, Removal, Broadcast, Task, WholeBytes, Total, PacketLen
  <2>4. /\ session' \in [Clients -> {"none", "established", "open", "closed"}]
        /\ client' \in [Clients -> {"none", "open", "closed"}] /\ members' \in Seq(Clients)
        /\ tasks' \in Seq(Tasks) /\ rounds' \in [Clients -> Nat] /\ failed' = {}
    BY <1>0, <1>1 DEF TypeOK
  <2> QED BY <2>2, <2>3, <2>4 DEF TypeOK, Byte
<1>3. ASSUME NEW d \in Clients
      PROVE  (Listed(d) /\ Framed(d) /\ Circulates(d))'
  <2>0. Listed(d) /\ Framed(d) /\ Circulates(d)
    BY <1>0
  <2>1. Entries(d)' = Entries(d) /\ session'[d] = session[d]
    BY <1>1 DEF Entries
  <2>2. /\ Adds(d)' = Adds(d) /\ Removals(d)' = Removals(d) /\ Broadcasts(d)' = Broadcasts(d)
        /\ Before(tasks, Add(d), Removal(d))' /\ Before(tasks, Add(d), Broadcast(d))'
    BY <1>1, <2>0, QueueStays
  <2>3. Listed(d)'
    BY <2>0, <2>1, <2>2, ListedStays
  <2>4. CASE d # c
    <3>1. /\ client'[d] = client[d]
          /\ down'[d] = down[d] /\ downBuffer'[d] = downBuffer[d]
      BY <1>0, <1>1, <2>4 DEF TypeOK
    <3>2. Framed(d)' /\ Ups(d)' = Ups(d) /\ Downs(d)' = Downs(d)
      BY <1>1, <2>0, <3>1, StreamsStay
    <3> QED BY <1>1, <2>0, <2>1, <2>2, <2>3, <3>1, <3>2, CirculatesStays
  <2>5. CASE d = c
    <3>1. client'[c] = "closed" /\ down'[c] = <<>> /\ downBuffer'[c] = <<>>
      BY <1>0, <1>1 DEF TypeOK
    <3>2. Upward(c)' = Upward(c) /\ Downward(c)' = <<>>
      <4>1. <<>> \o <<>> = <<>>
        BY SMT
      <4> QED BY <1>1, <3>1, <4>1 DEF Upward, Downward
    <3>3. Ups(c)' = Ups(c) /\ Downs(c)' = 0
      BY <3>2, TimesShort DEF Ups, Downs
    <3>4. Framed(c)'
      <4>1. Packed(Downward(c))'
        <5>1. Packed(Downward(c)')
          BY <3>2, PackedShort
        <5> QED BY <5>1 DEF Packed, IsLast, Total, PacketLen
      <4>2. WholeBytes(c)' = WholeBytes(c)
        BY DEF WholeBytes, Total, PacketLen
      <4> QED BY <2>0, <2>5, <3>2, <4>1, <4>2 DEF Framed
    <3>5. Circulates(c)'
      <4>1. {Ups(c), Downs(c), Broadcasts(c)} \subseteq Nat
        BY <1>0, CountsType
      <4>2. Ups(c) + Downs(c) + Broadcasts(c) <= 1
        BY <2>0, <2>5 DEF Circulates
      <4>3. \A n1, n2, n3 \in Nat : n1 + n2 + n3 <= 1 => n1 + 0 + n3 <= 1
        BY SMT
      <4>4. (Ups(c) + Downs(c) + Broadcasts(c))' <= 1
        BY <2>2, <2>5, <3>3, <4>1, <4>2, <4>3
      <4> QED BY <3>1, <4>4 DEF Circulates
    <3> QED BY <2>3, <2>5, <3>4, <3>5
  <2> QED BY <2>4, <2>5
<1> QED BY <1>2, <1>3 DEF Inv

----------------------------------------------------------------------------
(* The steps of the main loop. *)

\* What waits behind the task that runs.
LEMMA TaskRuns ==
    ASSUME TypeOK, tasks # <<>>, tasks' = Tail(tasks), NEW d \in Clients, Listed(d)
    PROVE  /\ tasks' \in Seq(Tasks) /\ Head(tasks) \in Tasks
           /\ {Adds(d)', Removals(d)', Broadcasts(d)'} \subseteq Nat
           /\ Adds(d) = (IF Head(tasks) = Add(d) THEN 1 ELSE 0) + Adds(d)'
           /\ Removals(d) = (IF Head(tasks) = Removal(d) THEN 1 ELSE 0) + Removals(d)'
           /\ Broadcasts(d) = (IF Head(tasks) = Broadcast(d) THEN 1 ELSE 0) + Broadcasts(d)'
           /\ Before(tasks, Add(d), Removal(d))' /\ Before(tasks, Add(d), Broadcast(d))'
           /\ Head(tasks) = Removal(d) \/ Head(tasks) = Broadcast(d) => Adds(d) = 0
<1> DEFINE a == Add(d)
           r == Removal(d)
           b == Broadcast(d)
           s == Tail(tasks)
<1>0. a' = a /\ r' = r /\ b' = b
  BY DEF Add, Removal, Broadcast, Task, WholeBytes, Total, PacketLen
<1>1. tasks \in Seq(Tasks) /\ Before(tasks, a, r) /\ Before(tasks, a, b)
  BY DEF TypeOK, Listed
<1>2. s \in Seq(Tasks) /\ Head(tasks) \in Tasks
  BY <1>1, HeadTailProperties
<1> HIDE DEF a, r, b
<1>3. \A x : Times(s, x) \in Nat
             /\ Times(tasks, x) = (IF Head(tasks) = x THEN 1 ELSE 0) + Times(s, x)
  BY <1>1, <1>2, TimesEnds, Countable, ZenonT(60)
<1>4. /\ Before(s, a, r) /\ Before(s, a, b)
      /\ Head(tasks) = r \/ Head(tasks) = b => Times(tasks, a) = 0
  BY <1>1, BeforeEnds
<1> HIDE DEF s
<1>5. tasks' = s
  BY DEF s
<1>6. /\ Adds(d)' = Times(s, a) /\ Removals(d)' = Times(s, r) /\ Broadcasts(d)' = Times(s, b)
      /\ Adds(d) = Times(tasks, a) /\ Removals(d) = Times(tasks, r)
      /\ Broadcasts(d) = Times(tasks, b)
  BY <1>0, <1>5 DEF Adds, Removals, Broadcasts, a, r, b
<1>7. Before(tasks, Add(d), Removal(d))' /\ Before(tasks, Add(d), Broadcast(d))'
  BY <1>0, <1>4, <1>5 DEF a, r, b, Before
<1> QED BY <1>2, <1>3, <1>4, <1>5, <1>6, <1>7 DEF a, r, b

\* removeClientID takes a session that is in the list once out of it, and no
\* other one.
LEMMA WithoutIs ==
    ASSUME members \in Seq(Clients), NEW c, Times(members, c) = 1
    PROVE  /\ Without(c) \in Seq(Clients)
           /\ \A d : Times(Without(c), d) = IF d = c THEN 0 ELSE Times(members, d)
<1> DEFINE m == members
           First(k) == m[k] = c /\ \A j \in 1..(k - 1) : m[j] # c
           i == CHOOSE k \in DOMAIN m : First(k)
           q == SubSeq(m, 1, i - 1)
           r == SubSeq(m, i + 1, Len(m))
<1>1. Len(m) \in Nat /\ DOMAIN m = 1..Len(m) /\ m \in Seq(Clients)
  OBVIOUS
<1>2. PICK k \in 1..Len(m) : m[k] = c
  <2>1. Times(m, c) # 0
    OBVIOUS
  <2> QED BY <1>1, <2>1, TimesFew
<1>3. First(k)
  <2>1. \A x, y \in 1..Len(m) : m[x] = c /\ m[y] = c => x = y
    <3>1. Times(m, c) <= 1
      OBVIOUS
    <3> QED BY <1>1, <3>1, TimesFew
  <2>2. \A j \in 1..(k - 1) : j \in 1..Len(m) /\ j # k
    BY <1>1, <1>2, SMT
  <2> QED BY <1>2, <2>1, <2>2
<1>4. i \in 1..Len(m) /\ First(i)
  BY <1>1, <1>3
<1>5. InList(c) /\ Without(c) = q \o r
  <2>1. InList(c)
    BY <1>1, <1>2 DEF InList
  <2> QED BY <2>1 DEF Without
<1>6. m[i] = c
  BY <1>4
<1> HIDE DEF m, i, First
<1>7. q \in Seq(Clients) /\ r \in Seq(Clients) /\ <<c>> \in Seq(Clients)
  <2>1. c \in Clients
    BY <1>1, <1>4, <1>6
  <2>2. 1 \in Int /\ i - 1 \in Int /\ i + 1 \in Int /\ Len(m) \in Int
        /\ (\A j \in 1..(i - 1) : j \in 1..Len(m))
        /\ (\A j \in (i + 1)..Len(m) : j \in 1..Len(m))
    BY <1>1, <1>4, SMT
  <2>3. \A j \in 1..Len(m) : m[j] \in Clients
    BY <1>1
  <2>4. (\A j \in 1..(i - 1) : m[j] \in Clients) /\ \A j \in (i + 1)..Len(m) : m[j] \in Clients
    BY <2>2, <2>3
  <2> QED BY <2>1, <2>2, <2>4, SubSeqProperties
<1>8. m = (q \o <<c>>) \o r
  <2>1. 1 \in 1..Len(m) + 1 /\ i - 1 \in (1 - 1)..Len(m) /\ Len(m) \in (i - 1)..Len(m)
        /\ i - 1 + 1 = i /\ Len(m) \in i..Len(m)
    BY <1>1, <1>4, SMT
  <2>2. SubSeq(m, 1, i - 1) \o SubSeq(m, i - 1 + 1, Len(m)) = SubSeq(m, 1, Len(m))
    BY <1>1, <2>1, ConcatAdjacentSubSeq
  <2>3. SubSeq(m, i, Len(m)) = <<m[i]>> \o SubSeq(m, i + 1, Len(m))
    BY <1>1, <1>4, <2>1, SubSeqRecursiveFirst
  <2>4. q \o (<<c>> \o r) = m
    BY <1>1, <1>6, <2>1, <2>2, <2>3, SubSeqFull
  <2> DEFINE h == <<c>>
  <2>5. q \in Seq(Clients) /\ h \in Seq(Clients) /\ r \in Seq(Clients) /\ q \o (h \o r) = m
    BY <1>7, <2>4
  <2> HIDE DEF q, r, h
  <2>6. Associated(q, h, r)
    BY <2>5, Associates
  <2>7. (q \o h) \o r = m
    BY <2>5, <2>6 DEF Associated
  <2> QED BY <2>7 DEF h
<1> HIDE DEF q, r
<1>9. Without(c) \in Seq(Clients)
  BY <1>5, <1>7, ConcatProperties
<1>10. ASSUME NEW d
       PROVE  Times(Without(c), d) = IF d = c THEN 0 ELSE Times(m, d)
  <2>1. q \o <<c>> \in Seq(Clients)
    BY <1>7, ConcatProperties
  <2>2. Times(m, d) = Times(q, d) + (IF c = d THEN 1 ELSE 0) + Times(r, d)
    <3>1. Times((q \o <<c>>) \o r, d) = Times(q \o <<c>>, d) + Times(r, d)
      BY <1>7, <2>1, TimesConcat, ZenonT(60)
    <3>2. Times(q \o <<c>>, d) = Times(q, d) + Times(<<c>>, d)
      BY <1>7, TimesConcat
    <3>3. Times(<<c>>, d) = IF c = d THEN 1 ELSE 0
      BY TimesShort
    <3> QED BY <1>8, <3>1, <3>2, <3>3
  <2>3. Times(q \o r, d) = Times(q, d) + Times(r, d)
    BY <1>7, TimesConcat
  <2>4. Times(q, d) \in Nat /\ Times(r, d) \in Nat
    BY <1>7, Countable
  <2>5. CASE d = c
    <3>1. Times(m, d) = 1
      BY <2>5 DEF m
    <3>2. Times(q, d) + Times(r, d) = 0
      BY <2>2, <2>4, <2>5, <3>1, SMT
    <3> QED BY <1>5, <2>3, <2>5, <3>2
  <2>6. CASE d # c
    <3>1. Times(m, d) = Times(q, d) + Times(r, d)
      BY <2>2, <2>4, <2>6
    <3> QED BY <1>5, <2>3, <2>6, <3>1
  <2> QED BY <2>5, <2>6
<1> QED BY <1>9, <1>10 DEF m

\* The addition of a session puts it into the list.
LEMMA AddKeeps ==
    ASSUME Inv, NEW c \in Clients, tasks # <<>>, Head(tasks) = Add(c), MainLoop
    PROVE  Inv'
<1>0. TypeOK /\ \A d \in Clients : Listed(d) /\ Framed(d) /\ Circulates(d)
  BY DEF Inv
<1>1. /\ tasks' = Tail(tasks) /\ members' = Append(members, c) /\ down' = down
      /\ session' = session /\ up' = up /\ upBuffer' = upBuffer /\ client' = client
      /\ downBuffer' = downBuffer /\ rounds' = rounds /\ failed' = failed
  <2>1. Add(c).op = "add" /\ Add(c).session = c
    BY DEF Add, Task
  <2> QED BY <2>1 DEF MainLoop
<1>2. members \in Seq(Clients) /\ members' \in Seq(Clients)
  <2>1. members \in Seq(Clients)
    BY <1>0 DEF TypeOK
  <2> QED BY <1>1, <2>1, AppendProperties
<1>3. TypeOK'
  <2>1. tasks' \in Seq(Tasks)
    BY <1>0, <1>1, TaskRuns
  <2>2. Tasks' = Tasks
    BY DEF Tasks, Add, Removal, Broadcast, Task, WholeBytes, Total, PacketLen
  <2> QED BY <1>0, <1>1, <1>2, <2>1, <2>2 DEF TypeOK, Byte
<1>4. ASSUME NEW d \in Clients
      PROVE  (Listed(d) /\ Framed(d) /\ Circulates(d))'
  <2>0. Listed(d) /\ Framed(d) /\ Circulates(d)
    BY <1>0
  <2>1. Framed(d)' /\ Ups(d)' = Ups(d) /\ Downs(d)' = Downs(d)
    BY <1>1, <2>0, StreamsStay
  <2>2. /\ {Adds(d)', Removals(d)', Broadcasts(d)'} \subseteq Nat
        /\ Adds(d) = (IF Head(tasks) = Add(d) THEN 1 ELSE 0) + Adds(d)'
        /\ Removals(d) = (IF Head(tasks) = Removal(d) THEN 1 ELSE 0) + Removals(d)'
        /\ Broadcasts(d) = (IF Head(tasks) = Broadcast(d) THEN 1 ELSE 0) + Broadcasts(d)'
        /\ Before(tasks, Add(d), Removal(d))' /\ Before(tasks, Add(d), Broadcast(d))'
    BY <1>0, <1>1, TaskRuns
  <2>3. /\ Head(tasks) = Add(d) <=> d = c
        /\ Head(tasks) # Removal(d) /\ Head(tasks) # Broadcast(d)
    BY TasksDiffer
  <2>4. {Adds(d), Removals(d), Entries(d), Broadcasts(d)} \subseteq Nat
    BY <1>0, CountsType
  <2>5. Removals(d)' = Removals(d) /\ Broadcasts(d)' = Broadcasts(d)
    BY <2>2, <2>3, <2>4
  <2>6. Adds(d)' + Entries(d)' = Adds(d) + Entries(d)
    <3>1. Entries(d)' = Entries(d) + (IF c = d THEN 1 ELSE 0)
      BY <1>1, <1>2, TimesEnds DEF Entries
    <3>2. Adds(d) = (IF d = c THEN 1 ELSE 0) + Adds(d)'
      BY <2>2, <2>3
    <3>3. \A x, y \in Nat : /\ x + (y + 1) = (1 + x) + y
                            /\ x + (y + 0) = (0 + x) + y
      BY SMT
    <3>4. Adds(d)' \in Nat /\ Entries(d) \in Nat
      BY <2>2, <2>4
    <3>5. CASE d = c
      <4>1. Entries(d)' = Entries(d) + 1 /\ Adds(d) = 1 + Adds(d)'
        BY <3>1, <3>2, <3>5
      <4> QED BY <3>3, <3>4, <4>1
    <3>6. CASE d # c
      <4>1. Entries(d)' = Entries(d) + 0 /\ Adds(d) = 0 + Adds(d)'
        BY <3>1, <3>2, <3>6
      <4> QED BY <3>3, <3>4, <4>1
    <3> QED BY <3>5, <3>6
  <2>7. session[d] = "none" =>
          Adds(d)' + Removals(d)' + Entries(d)' + Broadcasts(d)' = 0
    <3>1. Entries(d)' \in Nat
      BY <1>2, Countable DEF Entries
    <3>2. \A n1, n2, n3, n4 \in Nat :
            n1 + n2 + n3 + n4 = 0 <=> n1 = 0 /\ n2 = 0 /\ n3 = 0 /\ n4 = 0
      BY SMT
    <3>3. \A n1, n3 \in Nat : n1 + n3 = 0 + 0 => n1 = 0 /\ n3 = 0
      BY SMT
    <3>4. CASE session[d] = "none"
      <4>1. Adds(d) + Removals(d) + Entries(d) + Broadcasts(d) = 0
        BY <2>0, <3>4 DEF Listed
      <4>2. Adds(d) = 0 /\ Removals(d) = 0 /\ Entries(d) = 0 /\ Broadcasts(d) = 0
        BY <2>4, <3>2, <4>1
      <4>3. Adds(d)' = 0 /\ Entries(d)' = 0
        BY <2>2, <2>6, <3>1, <3>3, <4>2
      <4> QED BY <2>5, <4>2, <4>3
    <3> QED BY <3>4
  <2>8. Listed(d)'
    BY <1>1, <2>0, <2>2, <2>5, <2>6, <2>7 DEF Listed
  <2>9. Circulates(d)'
    BY <1>1, <2>0, <2>1, <2>5, CirculatesStays
  <2> QED BY <2>1, <2>8, <2>9
<1> QED BY <1>3, <1>4 DEF Inv

\* The removal of a session takes it out of the list, which it is in by then.
LEMMA RemovalKeeps ==
    ASSUME Inv, NEW c \in Clients, tasks # <<>>, Head(tasks) = Removal(c), MainLoop
    PROVE  Inv'
<1>0. TypeOK /\ \A d \in Clients : Listed(d) /\ Framed(d) /\ Circulates(d)
  BY DEF Inv
<1>1. /\ tasks' = Tail(tasks) /\ members' = Without(c) /\ down' = down
      /\ session' = session /\ up' = up /\ upBuffer' = upBuffer /\ client' = client
      /\ downBuffer' = downBuffer /\ rounds' = rounds /\ failed' = failed
  <2>1. Removal(c).op = "remove" /\ Removal(c).session = c
    BY DEF Removal, Task
  <2> QED BY <2>1 DEF MainLoop
<1>2. \A d \in Clients :
        /\ {Adds(d)', Removals(d)', Broadcasts(d)'} \subseteq Nat
        /\ Adds(d) = (IF Head(tasks) = Add(d) THEN 1 ELSE 0) + Adds(d)'
        /\ Removals(d) = (IF Head(tasks) = Removal(d) THEN 1 ELSE 0) + Removals(d)'
        /\ Broadcasts(d) = (IF Head(tasks) = Broadcast(d) THEN 1 ELSE 0) + Broadcasts(d)'
        /\ Before(tasks, Add(d), Removal(d))' /\ Before(tasks, Add(d), Broadcast(d))'
        /\ Head(tasks) = Removal(d) \/ Head(tasks) = Broadcast(d) => Adds(d) = 0
  BY <1>0, <1>1, TaskRuns
<1>3. \A d \in Clients : /\ Head(tasks) = Removal(d) <=> d = c
                         /\ Head(tasks) # Add(d) /\ Head(tasks) # Broadcast(d)
  BY TasksDiffer
<1>4. \A d \in Clients : {Adds(d), Removals(d), Entries(d), Broadcasts(d)} \subseteq Nat
  BY <1>0, CountsType
<1>5. /\ session[c] = "closed" /\ Adds(c) = 0 /\ Removals(c) = 1 /\ Entries(c) = 1
      /\ Removals(c)' = 0
  <2>1. Adds(c) = 0
    BY <1>2
  <2>2. Removals(c) = 1 + Removals(c)' /\ Removals(c)' \in Nat
    BY <1>2, <1>3
  <2>3. session[c] = "closed"
    <3>1. session[c] # "none"
      <4>1. \A n1, n2, n3, n4, m \in Nat : n2 = 1 + m => n1 + n2 + n3 + n4 # 0
        BY SMT
      <4>2. Adds(c) + Removals(c) + Entries(c) + Broadcasts(c) # 0
        BY <1>4, <2>2, <4>1
      <4> QED BY <1>0, <4>2 DEF Listed
    <3>2. Removals(c) # 0
      BY <2>2, SMT
    <3>3. session[c] \in {"none", "established", "open", "closed"}
      BY <1>0 DEF TypeOK
    <3> QED BY <1>0, <3>1, <3>2, <3>3 DEF Listed
  <2>4. Removals(c) <= 1 /\ Adds(c) + Entries(c) = Removals(c)
    BY <1>0, <2>3 DEF Listed
  <2>5. Entries(c) \in Nat
    BY <1>4
  <2>6. Removals(c) = 1 /\ Removals(c)' = 0
    BY <2>2, <2>4, SMT
  <2>7. Entries(c) = 1
    BY <2>1, <2>4, <2>5, <2>6
  <2> QED BY <2>1, <2>3, <2>6, <2>7
<1>6. members' \in Seq(Clients) /\ \A d \in Clients : Entries(d)' = IF d = c THEN 0 ELSE Entries(d)
  <2>1. members \in Seq(Clients) /\ Times(members, c) = 1
    BY <1>0, <1>5 DEF TypeOK, Entries
  <2>2. /\ Without(c) \in Seq(Clients)
        /\ \A d : Times(Without(c), d) = IF d = c THEN 0 ELSE Times(members, d)
    BY <2>1, WithoutIs
  <2> QED BY <1>1, <2>2 DEF Entries
<1>7. TypeOK'
  <2>1. tasks' \in Seq(Tasks)
    BY <1>0, <1>1, TaskRuns
  <2>2. Tasks' = Tasks
    BY DEF Tasks, Add, Removal, Broadcast, Task, WholeBytes, Total, PacketLen
  <2> QED BY <1>0, <1>1, <1>6, <2>1, <2>2 DEF TypeOK, Byte
<1>8. ASSUME NEW d \in Clients
      PROVE  (Listed(d) /\ Framed(d) /\ Circulates(d))'
  <2>0. Listed(d) /\ Framed(d) /\ Circulates(d)
    BY <1>0
  <2>1. Framed(d)' /\ Ups(d)' = Ups(d) /\ Downs(d)' = Downs(d)
    BY <1>1, <2>0, StreamsStay
  <2>2. Adds(d)' = Adds(d) /\ Broadcasts(d)' = Broadcasts(d)
    BY <1>2, <1>3, <1>4, SMTT(40)
  <2>3. Circulates(d)'
    BY <1>1, <2>0, <2>1, <2>2, CirculatesStays
  <2>4. CASE d # c
    <3>1. Removals(d)' = Removals(d) /\ Entries(d)' = Entries(d)
      BY <1>2, <1>3, <1>4, <1>6, <2>4
    <3>2. Listed(d)'
      BY <1>1, <1>2, <2>0, <2>2, <3>1, ListedStays
    <3> QED BY <2>1, <2>3, <3>2
  <2>5. CASE d = c
    <3>1. Entries(c)' = 0 /\ Adds(c)' = 0 /\ Removals(c)' = 0 /\ session'[c] = "closed"
      BY <1>1, <1>5, <1>6, <2>2, <2>5
    <3>2. Listed(c)'
      BY <1>2, <3>1 DEF Listed
    <3> QED BY <2>1, <2>3, <2>5, <3>2
  <2> QED BY <2>4, <2>5
<1> QED BY <1>7, <1>8 DEF Inv

\* The packet of a client is sent to the sessions in the list, its own among
\* them unless it is closed.
LEMMA BroadcastKeeps ==
    ASSUME Inv, NEW c \in Clients, tasks # <<>>, Head(tasks) = Broadcast(c), MainLoop
    PROVE  Inv'
<1>0. TypeOK /\ \A d \in Clients : Listed(d) /\ Framed(d) /\ Circulates(d)
  BY DEF Inv
<1> DEFINE p == WholeBytes(c)
           Sent(d) == InList(d) /\ session[d] # "closed" /\ client[d] # "closed"
<1>1. /\ tasks' = Tail(tasks) /\ members' = members
      /\ down' = [d \in Clients |-> IF Sent(d) THEN down[d] \o p ELSE down[d]]
      /\ session' = session /\ up' = up /\ upBuffer' = upBuffer /\ client' = client
      /\ downBuffer' = downBuffer /\ rounds' = rounds /\ failed' = failed
  <2>1. Broadcast(c).op = "broadcast" /\ Broadcast(c).packet = WholeBytes(c)
    BY DEF Broadcast, Task
  <2> QED BY <2>1 DEF MainLoop, SentToAll
<1>2. \A d \in Clients :
        /\ {Adds(d)', Removals(d)', Broadcasts(d)'} \subseteq Nat
        /\ Adds(d) = (IF Head(tasks) = Add(d) THEN 1 ELSE 0) + Adds(d)'
        /\ Removals(d) = (IF Head(tasks) = Removal(d) THEN 1 ELSE 0) + Removals(d)'
        /\ Broadcasts(d) = (IF Head(tasks) = Broadcast(d) THEN 1 ELSE 0) + Broadcasts(d)'
        /\ Before(tasks, Add(d), Removal(d))' /\ Before(tasks, Add(d), Broadcast(d))'
        /\ Head(tasks) = Removal(d) \/ Head(tasks) = Broadcast(d) => Adds(d) = 0
  BY <1>0, <1>1, TaskRuns
<1>3. \A d \in Clients : /\ Head(tasks) = Broadcast(d) <=> d = c
                         /\ Head(tasks) # Add(d) /\ Head(tasks) # Removal(d)
  BY TasksDiffer
<1>4. \A d \in Clients :
        /\ {Adds(d), Removals(d), Entries(d), Broadcasts(d), Ups(d), Downs(d)} \subseteq Nat
        /\ down[d] \in Seq(Byte) /\ downBuffer[d] \in Seq(Byte) /\ Downward(d) \in Seq(Byte)
  BY <1>0, CountsType
<1>5. p \in Seq(Byte) /\ Packed(p)
  BY PackedShort DEF Packed
<1> HIDE DEF p, Sent
<1>6. /\ down' \in [Clients -> Seq(Byte)]
      /\ \A d \in Clients : down'[d] = IF Sent(d) THEN down[d] \o p ELSE down[d]
  <2>1. \A d \in Clients : down[d] \o p \in Seq(Byte)
    BY <1>4, <1>5, ConcatProperties
  <2> QED BY <1>1, <1>4, <2>1
\* The packet was nowhere else.
<1>7. Ups(c) = 0 /\ Downs(c) = 0 /\ Broadcasts(c) = 1 /\ Broadcasts(c)' = 0 /\ client[c] # "none"
  <2>1. Broadcasts(c) = 1 + Broadcasts(c)' /\ Broadcasts(c)' \in Nat
    BY <1>2, <1>3
  <2>2. Ups(c) + Downs(c) + Broadcasts(c) <= 1
    BY <1>0 DEF Circulates
  <2>3. \A n1, n2, n3, m \in Nat :
          n3 = 1 + m /\ n1 + n2 + n3 <= 1 => n1 = 0 /\ n2 = 0 /\ n3 = 1 /\ m = 0
    BY SMT
  <2>4. Ups(c) = 0 /\ Downs(c) = 0 /\ Broadcasts(c) = 1 /\ Broadcasts(c)' = 0
    BY <1>4, <2>1, <2>2, <2>3
  <2>5. client[c] # "none"
    <3>1. client[c] = "none" => Ups(c) + Downs(c) + Broadcasts(c) = 0
      BY <1>0 DEF Circulates
    <3> QED BY <2>4, <3>1
  <2> QED BY <2>4, <2>5
\* Its session is in the list unless it is closed.
<1>8. session[c] # "closed" => InList(c)
  <2>1. Adds(c) = 0
    BY <1>2
  <2>2. session[c] # "none"
    <3>1. \A n1, n2, n3 \in Nat : n1 + n2 + n3 + 1 # 0
      BY SMT
    <3>2. Adds(c) + Removals(c) + Entries(c) + Broadcasts(c) # 0
      BY <1>4, <1>7, <3>1
    <3> QED BY <1>0, <3>2 DEF Listed
  <2>3. CASE session[c] # "closed"
    <3>1. Adds(c) + Entries(c) = 1
      <4>1. session[c] \in {"established", "open"}
        BY <1>0, <2>2, <2>3 DEF TypeOK
      <4> QED BY <1>0, <4>1 DEF Listed
    <3>2. Times(members, c) # 0
      <4>1. Entries(c) # 0
        BY <1>4, <2>1, <3>1
      <4> QED BY <4>1 DEF Entries
    <3>3. members \in Seq(Clients)
      BY <1>0 DEF TypeOK
    <3>4. \E i \in 1..Len(members) : members[i] = c
      BY <3>2, <3>3, TimesFew
    <3> QED BY <3>3, <3>4 DEF InList
  <2> QED BY <2>3
<1>9. TypeOK'
  <2>1. tasks' \in Seq(Tasks)
    BY <1>0, <1>1, TaskRuns
  <2>2. Tasks' = Tasks
    BY DEF Tasks, Add, Removal, Broadcast, Task, WholeBytes, Total, PacketLen
  <2>3. {up', upBuffer', down', downBuffer'} \subseteq [Clients -> Seq(Byte)]
    BY <1>0, <1>1, <1>6 DEF TypeOK
  <2>4. /\ session' \in [Clients -> {"none", "established", "open", "closed"}]
        /\ client' \in [Clients -> {"none", "open", "closed"}] /\ members' \in Seq(Clients)
        /\ rounds' \in [Clients -> Nat] /\ failed' = {}
    BY <1>0, <1>1 DEF TypeOK
  <2> QED BY <2>1, <2>2, <2>3, <2>4 DEF TypeOK, Byte
<1>10. ASSUME NEW d \in Clients
       PROVE  (Listed(d) /\ Framed(d) /\ Circulates(d))'
  <2>0. Listed(d) /\ Framed(d) /\ Circulates(d)
    BY <1>0
  <2>1. Adds(d)' = Adds(d) /\ Removals(d)' = Removals(d) /\ Entries(d)' = Entries(d)
    <3>1. Adds(d)' = Adds(d) /\ Removals(d)' = Removals(d)
      <4>1. Head(tasks) # Add(d) /\ Head(tasks) # Removal(d)
        BY <1>3
      <4>2. /\ Adds(d) = (IF Head(tasks) = Add(d) THEN 1 ELSE 0) + Adds(d)'
            /\ Removals(d) = (IF Head(tasks) = Removal(d) THEN 1 ELSE 0) + Removals(d)'
            /\ Adds(d)' \in Nat /\ Removals(d)' \in Nat
        BY <1>2
      <4> QED BY <4>1, <4>2
    <3>2. Entries(d)' = Entries(d)
      BY <1>1 DEF Entries
    <3> QED BY <3>1, <3>2
  <2>2. Upward(d)' = Upward(d) /\ Ups(d)' = Ups(d)
    BY <1>1 DEF Upward, Ups
  <2>3. Packed(Downward(d)) /\ Upward(d) \in {<<>>, WholeBytes(d)}
    BY <2>0 DEF Framed
  <2>4. IF Sent(d) THEN Downward(d)' = Downward(d) \o p ELSE Downward(d)' = Downward(d)
    <3>1. CASE ~Sent(d)
      BY <1>1, <1>6, <3>1 DEF Downward
    <3>2. CASE Sent(d)
      <4>1. down'[d] = down[d] \o p /\ downBuffer'[d] = downBuffer[d]
        BY <1>1, <1>6, <3>2
      <4> DEFINE x == downBuffer[d]
                 y == down[d]
      <4>2. x \in Seq(Byte) /\ y \in Seq(Byte)
        BY <1>4
      <4> HIDE DEF x, y
      <4>3. Associated(x, y, p)
        BY <1>5, <4>2, Associates
      <4>4. Downward(d)' = x \o (y \o p) /\ Downward(d) = x \o y
        BY <4>1 DEF Downward, x, y
      <4> QED BY <3>2, <4>3, <4>4 DEF Associated
    <3> QED BY <3>1, <3>2
  <2>5. Framed(d)'
    <3>1. Packed(Downward(d)')
      BY <1>5, <2>3, <2>4, PackedConcat
    <3>2. Packed(Downward(d))'
      BY <3>1 DEF Packed, IsLast, Total, PacketLen
    <3>3. WholeBytes(d)' = WholeBytes(d)
      BY DEF WholeBytes, Total, PacketLen
    <3> QED BY <2>2, <2>3, <3>2, <3>3 DEF Framed
  <2>6. Downs(d)' = Downs(d) + (IF Sent(d) /\ d = c THEN 1 ELSE 0)
    <3>1. Times(Downward(d) \o p, <<d, 1>>) = Downs(d) + Times(p, <<d, 1>>)
      BY <1>4, <1>5, TimesConcat DEF Downs
    <3>2. Times(p, <<d, 1>>) = IF c = d THEN 1 ELSE 0
      BY PacketTimes DEF p
    <3>3. Downs(d)' = Times(Downward(d)', <<d, 1>>)
      BY DEF Downs
    <3>4. CASE Sent(d)
      BY <2>4, <3>1, <3>2, <3>3, <3>4
    <3>5. CASE ~Sent(d)
      <4>1. Downs(d)' = Downs(d)
        BY <2>4, <3>3, <3>5 DEF Downs
      <4> QED BY <1>4, <3>5, <4>1
    <3> QED BY <3>4, <3>5
  <2>7. CASE d # c
    <3>1. Broadcasts(d)' = Broadcasts(d) /\ Downs(d)' = Downs(d)
      <4>1. Head(tasks) # Broadcast(d)
        BY <1>3, <2>7
      <4>2. Broadcasts(d) = (IF Head(tasks) = Broadcast(d) THEN 1 ELSE 0) + Broadcasts(d)'
            /\ Broadcasts(d)' \in Nat
        BY <1>2
      <4>3. Downs(d) \in Nat
        BY <1>4
      <4>4. Downs(d)' = Downs(d) + 0
        BY <2>6, <2>7
      <4> QED BY <4>1, <4>2, <4>3, <4>4
    <3>2. Listed(d)'
      BY <1>1, <1>2, <2>0, <2>1, <3>1, ListedStays
    <3> QED BY <1>1, <2>0, <2>2, <2>5, <3>1, <3>2, CirculatesStays
  <2>8. CASE d = c
    <3>1. Listed(c)'
      <4>1. session[c] # "none"
        <5>1. \A n1, n2, n3 \in Nat : n1 + n2 + n3 + 1 # 0
          BY SMT
        <5>2. Adds(c) + Removals(c) + Entries(c) + Broadcasts(c) # 0
          BY <1>4, <1>7, <5>1
        <5> QED BY <1>0, <5>2 DEF Listed
      <4> QED BY <1>1, <1>2, <2>0, <2>1, <2>8, <4>1 DEF Listed
    <3>2. (Ups(c) + Downs(c) + Broadcasts(c))' = IF Sent(c) THEN 1 ELSE 0
      BY <1>7, <2>2, <2>6, <2>8
    <3>3. client[c] = "open" /\ session[c] # "closed" => Sent(c)
      BY <1>8 DEF Sent
    <3>4. client[c] = "open" /\ session[c] # "closed" =>
            Ups(c) + Downs(c) + Broadcasts(c) = IF rounds[c] > MaxRounds THEN 0 ELSE 1
      BY <1>0 DEF Circulates
    <3>5. Ups(c) + Downs(c) + Broadcasts(c) = 1
      BY <1>7
    <3>6. Circulates(c)'
      BY <1>1, <1>7, <3>2, <3>3, <3>4, <3>5 DEF Circulates
    <3> QED BY <2>5, <2>8, <3>1, <3>6
  <2> QED BY <2>7, <2>8
<1> QED BY <1>9, <1>10 DEF Inv

\* The main loop runs what is dispatched to it.
LEMMA MainLoopKeeps ==
    ASSUME Inv, MainLoop
    PROVE  Inv'
<1>1. tasks # <<>> /\ tasks \in Seq(Tasks)
  BY DEF MainLoop, Inv, TypeOK
<1>2. Head(tasks) \in Tasks
  BY <1>1, HeadTailProperties
<1>3. PICK c \in Clients : Head(tasks) \in {Add(c), Removal(c), Broadcast(c)}
  BY <1>2 DEF Tasks
<1> QED BY <1>1, <1>3, AddKeeps, RemovalKeeps, BroadcastKeeps

----------------------------------------------------------------------------
(* The specification. *)

\* At first there is nothing anywhere.
LEMMA InitInv == Init => Inv
<1> SUFFICES ASSUME Init PROVE Inv
  OBVIOUS
<1>1. /\ session = [c \in Clients |-> "none"] /\ client = [c \in Clients |-> "none"]
      /\ up = [c \in Clients |-> <<>>] /\ upBuffer = [c \in Clients |-> <<>>]
      /\ down = [c \in Clients |-> <<>>] /\ downBuffer = [c \in Clients |-> <<>>]
      /\ members = <<>> /\ tasks = <<>> /\ rounds = [c \in Clients |-> 0] /\ failed = {}
  BY DEF Init
<1>2. TypeOK
  BY <1>1 DEF TypeOK
<1>3. ASSUME NEW c \in Clients
      PROVE  Listed(c) /\ Framed(c) /\ Circulates(c)
  <2>1. Adds(c) = 0 /\ Removals(c) = 0 /\ Entries(c) = 0 /\ Broadcasts(c) = 0
    BY <1>1, TimesShort DEF Adds, Removals, Entries, Broadcasts
  <2>2. Upward(c) = <<>> /\ Downward(c) = <<>>
    BY <1>1 DEF Upward, Downward
  <2>3. Ups(c) = 0 /\ Downs(c) = 0
    BY <2>2, TimesShort DEF Ups, Downs
  <2>4. Before(tasks, Add(c), Removal(c)) /\ Before(tasks, Add(c), Broadcast(c))
    <3>1. 1..Len(<<>>) = {}
      BY SMT
    <3> QED BY <1>1, <3>1 DEF Before
  <2>5. session[c] = "none" /\ client[c] = "none" /\ rounds[c] = 0
    BY <1>1
  <2>6. Listed(c)
    BY <2>1, <2>4, <2>5 DEF Listed
  <2>7. Framed(c)
    BY <2>2, PackedShort DEF Framed
  <2>8. Circulates(c)
    BY <2>1, <2>3, <2>5 DEF Circulates
  <2> QED BY <2>6, <2>7, <2>8
<1> QED BY <1>2, <1>3 DEF Inv

\* The receive buffers keep their size.
LEMMA BuffersStay == [Next]_vars => maxUnread' = maxUnread
<1> USE DEF Established, StartRecv, ServerReceive, ServerReceives, ServerCloses,
            ClientEstablished, ClientReceive, ClientReceives, ClientCloses, MainLoop
<1> QED BY DEF Next, vars

\* Every step keeps the invariant.
LEMMA NextInv == Inv /\ maxUnread \in BufferSizes /\ [Next]_vars => Inv'
<1> SUFFICES ASSUME Inv, maxUnread \in BufferSizes, [Next]_vars PROVE Inv'
  OBVIOUS
<1>1. ASSUME NEW c \in Clients, Established(c) PROVE Inv'
  BY <1>1, EstablishedKeeps
<1>2. ASSUME NEW c \in Clients, StartRecv(c) PROVE Inv'
  BY <1>2, StartRecvKeeps
<1>3. ASSUME NEW c \in Clients, ServerReceive(c) PROVE Inv'
  BY <1>3, ServerReceivesKeeps
<1>4. ASSUME NEW c \in Clients, ServerCloses(c) PROVE Inv'
  BY <1>4, ServerClosesKeeps
<1>5. ASSUME NEW c \in Clients, ClientEstablished(c) PROVE Inv'
  BY <1>5, ClientEstablishedKeeps
<1>6. ASSUME NEW c \in Clients, ClientReceive(c) PROVE Inv'
  BY <1>6, ClientReceivesKeeps
<1>7. ASSUME NEW c \in Clients, ClientCloses(c) PROVE Inv'
  BY <1>7, ClientClosesKeeps
<1>8. ASSUME MainLoop PROVE Inv'
  BY <1>8, MainLoopKeeps
<1>9. ASSUME UNCHANGED vars PROVE Inv'
  <2>0. TypeOK /\ \A d \in Clients : Listed(d) /\ Framed(d) /\ Circulates(d)
    BY DEF Inv
  <2>1. /\ session' = session /\ up' = up /\ upBuffer' = upBuffer /\ members' = members
        /\ tasks' = tasks /\ client' = client /\ down' = down /\ downBuffer' = downBuffer
        /\ rounds' = rounds /\ failed' = failed
    BY <1>9 DEF vars
  <2>2. TypeOK'
    <3>1. Tasks' = Tasks
      BY DEF Tasks, Add, Removal, Broadcast, Task, WholeBytes, Total, PacketLen
    <3> QED BY <2>0, <2>1, <3>1 DEF TypeOK, Byte
  <2>3. ASSUME NEW d \in Clients
        PROVE  (Listed(d) /\ Framed(d) /\ Circulates(d))'
    <3>0. Listed(d) /\ Framed(d) /\ Circulates(d)
      BY <2>0
    <3>1. Framed(d)' /\ Ups(d)' = Ups(d) /\ Downs(d)' = Downs(d)
      BY <2>1, <3>0, StreamsStay
    <3>2. /\ Adds(d)' = Adds(d) /\ Removals(d)' = Removals(d) /\ Broadcasts(d)' = Broadcasts(d)
          /\ Before(tasks, Add(d), Removal(d))' /\ Before(tasks, Add(d), Broadcast(d))'
      BY <2>1, <3>0, QueueStays
    <3>3. Entries(d)' = Entries(d)
      BY <2>1 DEF Entries
    <3>4. Listed(d)'
      BY <2>1, <3>0, <3>2, <3>3, ListedStays
    <3>5. Circulates(d)'
      BY <2>1, <3>0, <3>1, <3>2, CirculatesStays
    <3> QED BY <3>1, <3>4, <3>5
  <2> QED BY <2>2, <2>3 DEF Inv
<1> QED BY <1>1, <1>2, <1>3, <1>4, <1>5, <1>6, <1>7, <1>8, <1>9 DEF Next

\* The invariant, of every state: where a session is listed, what the streams
\* are made of and where a client's packet is (BroadCastServer.cpp:22-145,
\* BroadCastClient.cpp:17-110).
THEOREM BroadCastInvariant == Spec => [](Inv /\ maxUnread \in BufferSizes)
<1>1. Init => Inv /\ maxUnread \in BufferSizes
  BY InitInv DEF Init
<1>2. Inv /\ maxUnread \in BufferSizes /\ [Next]_vars => (Inv /\ maxUnread \in BufferSizes)'
  BY NextInv, BuffersStay
<1> QED BY <1>1, <1>2, PTL DEF Spec

\* However the streams are cut, no data handler throws, and what the server
\* broadcasts is always one whole packet of the session it was read from.
THEOREM WholePacketsAlways == Spec => []WholePackets
<1>1. Inv => WholePackets
  <2> SUFFICES ASSUME Inv PROVE WholePackets
    OBVIOUS
  <2>1. failed = {} /\ tasks \in Seq(Tasks)
    BY DEF Inv, TypeOK
  <2>2. ASSUME NEW i \in DOMAIN tasks, tasks[i].op = "broadcast"
        PROVE  tasks[i].packet = PacketOf(tasks[i].session)
    <3>1. tasks[i] \in Tasks
      BY <2>1
    <3>2. PICK c \in Clients : tasks[i] \in {Add(c), Removal(c), Broadcast(c)}
      BY <3>1 DEF Tasks
    <3>3. /\ Add(c).op # "broadcast" /\ Removal(c).op # "broadcast"
          /\ Broadcast(c).packet = WholeBytes(c) /\ Broadcast(c).session = c
      BY DEF Add, Removal, Broadcast, Task
    <3>4. tasks[i] = Broadcast(c)
      BY <2>2, <3>2, <3>3
    <3> QED BY <3>3, <3>4, PacketIsWhole
  <2> QED BY <2>1, <2>2 DEF WholePackets
<1> QED BY <1>1, BroadCastInvariant, PTL

\* While both ends of a session stand, its packet exists exactly once on
\* its way round, until the client has seen enough rounds.
THEOREM OnePacketCirculatesAlways == Spec => []OnePacketCirculates
<1>1. Inv => OnePacketCirculates
  <2> SUFFICES ASSUME Inv, NEW c \in Clients, client[c] = "open", session[c] # "closed"
               PROVE  Circulating(c) = IF rounds[c] > MaxRounds THEN 0 ELSE 1
    BY DEF OnePacketCirculates
  <2>1. Ups(c) + Downs(c) + Broadcasts(c) = IF rounds[c] > MaxRounds THEN 0 ELSE 1
    BY DEF Inv, Circulates
  <2>2. /\ StartsIn(c, upBuffer[c] \o up[c]) = Ups(c)
        /\ StartsIn(c, downBuffer[c] \o down[c]) = Downs(c)
    BY DEF StartsIn, Ups, Downs, Upward, Downward, Times, Where
  <2>3. {i \in DOMAIN tasks : tasks[i].op = "broadcast" /\ tasks[i].session = c} =
          Where(tasks, Broadcast(c))
    <3>1. tasks \in Seq(Tasks)
      BY DEF Inv, TypeOK
    <3>2. ASSUME NEW i \in DOMAIN tasks
          PROVE  tasks[i].op = "broadcast" /\ tasks[i].session = c <=> tasks[i] = Broadcast(c)
      <4>1. PICK d \in Clients : tasks[i] \in {Add(d), Removal(d), Broadcast(d)}
        BY <3>1 DEF Tasks
      <4>2. /\ Add(d).op # "broadcast" /\ Removal(d).op # "broadcast"
            /\ \A e \in {c, d} : Broadcast(e).op = "broadcast" /\ Broadcast(e).session = e
        BY DEF Add, Removal, Broadcast, Task
      <4> QED BY <4>1, <4>2
    <3> QED BY <3>2 DEF Where
  <2> QED BY <2>1, <2>2, <2>3 DEF Circulating, Broadcasts, Times
<1> QED BY <1>1, BroadCastInvariant, PTL

\* The main loop's list holds each session at most once, and a session that
\* is closed leaves it: it is in the list only as long as its removal waits.
THEOREM NoClosedMemberAlways == Spec => []NoClosedMember
<1>1. Inv => NoClosedMember
  <2> SUFFICES ASSUME Inv, NEW c \in Clients
               PROVE  /\ Cardinality({i \in DOMAIN members : members[i] = c}) <= 1
                      /\ session[c] = "closed" /\ InList(c) =>
                           \E i \in DOMAIN tasks : tasks[i] = Task("remove", c, <<>>)
    BY DEF NoClosedMember
  <2>0. TypeOK /\ Listed(c)
    BY DEF Inv
  <2>1. {Adds(c), Removals(c), Entries(c), Broadcasts(c)} \subseteq Nat
    BY <2>0, CountsType
  <2>2. Entries(c) = Cardinality({i \in DOMAIN members : members[i] = c})
    BY DEF Entries, Times, Where
  <2>3. Entries(c) <= 1
    <3>1. /\ \A n1, n2, n3, n4 \in Nat : n1 + n2 + n3 + n4 = 0 => n3 <= 1
          /\ \A n1, n3 \in Nat : n1 + n3 = 1 => n3 <= 1
          /\ \A n1, n2, n3 \in Nat : n2 <= 1 /\ n1 + n3 = n2 => n3 <= 1
      BY SMT
    <3>2. CASE session[c] = "none"
      <4>1. Adds(c) + Removals(c) + Entries(c) + Broadcasts(c) = 0
        BY <2>0, <3>2 DEF Listed
      <4> QED BY <2>1, <3>1, <4>1
    <3>3. CASE session[c] \in {"established", "open"}
      <4>1. Adds(c) + Entries(c) = 1
        BY <2>0, <3>3 DEF Listed
      <4> QED BY <2>1, <3>1, <4>1
    <3>4. CASE session[c] = "closed"
      <4>1. Removals(c) <= 1 /\ Adds(c) + Entries(c) = Removals(c)
        BY <2>0, <3>4 DEF Listed
      <4> QED BY <2>1, <3>1, <4>1
    <3> QED BY <2>0, <3>2, <3>3, <3>4 DEF TypeOK
  <2>4. ASSUME session[c] = "closed", InList(c)
        PROVE  \E i \in DOMAIN tasks : tasks[i] = Removal(c)
    <3>1. members \in Seq(Clients) /\ tasks \in Seq(Tasks)
      BY <2>0 DEF TypeOK
    <3>2. Entries(c) # 0
      <4>1. \E i \in 1..Len(members) : members[i] = c
        BY <2>4, <3>1 DEF InList
      <4> QED BY <3>1, <4>1, TimesFew DEF Entries
    <3>3. Removals(c) # 0
      <4>1. Adds(c) + Entries(c) = Removals(c)
        BY <2>0, <2>4 DEF Listed
      <4>2. \A n1, n3 \in Nat : n3 # 0 => n1 + n3 # 0
        BY SMT
      <4> QED BY <2>1, <3>2, <4>1, <4>2
    <3>4. \E i \in 1..Len(tasks) : tasks[i] = Removal(c)
      BY <3>1, <3>3, TimesFew DEF Removals
    <3> QED BY <3>1, <3>4
  <2> QED BY <2>2, <2>3, <2>4 DEF Removal
<1> QED BY <1>1, BroadCastInvariant, PTL

=============================================================================
