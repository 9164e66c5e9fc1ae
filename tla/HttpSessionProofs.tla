--------------------------- MODULE HttpSessionProofs ---------------------------
(***************************************************************************)
(* Proofs about HttpSession and the format of its frames:                  *)
(*   - a connection turns to WebSocket once, whatever a peer sends and     *)
(*     however it is cut into segments;                                    *)
(*   - with the code's bytes, what wsFrameExtractBuffer finds in what      *)
(*     wsFrameBuild wrote, for every length of a payload and however much  *)
(*     of the frame was received;                                          *)
(*   - of what a peer sends that keeps to the rules (Proper): messages are *)
(*     reported whole and each once; frames are looked for where they begin *)
(*     and given to the user in order, put together.                       *)
(* The invariant of the last has three parts: IInv, of any peer; HInv, of  *)
(* the parser, which was fed the units one by one until a message is       *)
(* complete; WInv, of the bytes from there on, which are those of the      *)
(* frames behind the ones that were given to the user.                     *)
(***************************************************************************)
EXTENDS HttpSession, WellFoundedInduction, SequenceTheorems, FiniteSetTheorems, TLAPS

-----------------------------------------------------------------------------
(* The frames. *)

\* A mask as wsFrameBuild draws it, or none.
Masks == {mask \in Seq(Byte) : Len(mask) \in {0, 4}}

\* The lengths at which the format changes, in numbers.
LEMMA Numbers ==
    ASSUME ByteBase = 256
    PROVE  /\ Byte = 0..255 /\ Half = 128 /\ Small = 125
           /\ Word = 65536 /\ Quad = 4294967296
<1>1. Half = 128 /\ Word = 65536 /\ Byte = 0..255
  BY SMT DEF Half, Word, Byte
<1> QED BY SMT, <1>1 DEF Small, Quad

\* A number of 32 bits is made of four bytes.
LEMMA Digits ==
    ASSUME NEW n \in Nat, n < 4294967296
    PROVE  LET b5 == (n \div 16777216) % 256
               b6 == (n \div 65536) % 256
               b7 == (n \div 256) % 256
               b8 == n % 256
           IN /\ b5 \in 0..255 /\ b6 \in 0..255 /\ b7 \in 0..255 /\ b8 \in 0..255
              /\ b5 * 16777216 + b6 * 65536 + b7 * 256 + b8 = n
<1> DEFINE q1 == n \div 256
           q2 == n \div 65536
           q3 == n \div 16777216
<1>1. q1 \in Nat /\ n = 256 * q1 + (n % 256) /\ n % 256 \in 0..255
  BY SMT
<1>2. q2 \in Nat /\ q2 = q1 \div 256
  BY SMT
<1>3. q3 \in Nat /\ q3 = q2 \div 256
  BY SMT
<1>4. q3 < 256
  BY SMT
<1> HIDE DEF q1, q2, q3
<1>5. q1 = 256 * q2 + (q1 % 256) /\ q1 % 256 \in 0..255
  BY SMT, <1>1, <1>2
<1>6. q2 = 256 * q3 + (q2 % 256) /\ q2 % 256 \in 0..255
  BY SMT, <1>2, <1>3
<1>7. q3 % 256 = q3
  BY SMT, <1>3, <1>4
<1>8. q3 * 16777216 + (q2 % 256) * 65536 + (q1 % 256) * 256 + (n % 256) = n
  <2> DEFINE r2 == q2 % 256
             r1 == q1 % 256
             r0 == n % 256
  <2>1. /\ n = 256 * q1 + r0 /\ q1 = 256 * q2 + r1 /\ q2 = 256 * q3 + r2
        /\ {q1, q2, q3, r2, r1, r0} \subseteq Int
    BY SMT, <1>1, <1>2, <1>3, <1>5, <1>6
  <2> HIDE DEF r0, r1, r2
  <2>2. q3 * 16777216 + r2 * 65536 + r1 * 256 + r0 = n
    BY SMT, <2>1
  <2> QED BY SMT, <2>2 DEF r0, r1, r2
<1> QED BY SMT, <1>1, <1>3, <1>4, <1>5, <1>6, <1>7, <1>8 DEF q1, q2, q3

\* A short length is the second byte.
LEMMA ShortLength ==
    ASSUME ByteBase = 256, NEW n \in Nat, n <= 125
    PROVE  ExtendedLength(n) = <<>> /\ LengthCode(n) = n
BY SMT, Numbers DEF ExtendedLength, LengthCode

\* A length of 16 bits follows as its two digits.
LEMMA WordLength ==
    ASSUME ByteBase = 256, NEW n \in Nat, 125 < n, n < 65536
    PROVE  LET c == n \div 256
               d == n % 256
           IN /\ LengthCode(n) = 126 /\ ExtendedLength(n) = <<c, d>>
              /\ c \in 0..255 /\ d \in 0..255 /\ c * 256 + d = n
<1>1. ExtendedLength(n) = <<n \div 256, n % 256>> /\ LengthCode(n) = 126
  BY SMT, Numbers DEF ExtendedLength, LengthCode
<1> DEFINE c == n \div 256
           d == n % 256
<1>2. d \in 0..255 /\ c * 256 + d = n /\ c \in 0..255
  BY SMT
<1> QED BY SMT, <1>1, <1>2

\* A longer one as eight, of which the last four are the digits.
LEMMA LongLength ==
    ASSUME ByteBase = 256, NEW n \in Nat, 65536 <= n, n < 4294967296
    PROVE  /\ LengthCode(n) = 127
           /\ ExtendedLength(n) =
                  <<0, 0, 0, 0, (n \div 16777216) % 256, (n \div 65536) % 256,
                    (n \div 256) % 256, n % 256>>
BY SMT, Numbers DEF ExtendedLength, LengthCode

-----------------------------------------------------------------------------
(* What wsFrameExtractBuffer finds. *)

\* The buffer b begins with the bytes of head.
StartsWith(b, head) == \A i \in 1..Len(head) : b[i] = head[i]

\* Where the parts of a head are.
LEMMA Parts ==
    ASSUME NEW x \in Byte, NEW y \in Byte, NEW ext \in Seq(Byte), NEW mask \in Seq(Byte),
           NEW head, head = <<x, y>> \o ext \o mask
    PROVE  /\ Len(head) = 2 + Len(ext) + Len(mask)
           /\ head[1] = x /\ head[2] = y
           /\ \A i \in 1..Len(ext) : head[2 + i] = ext[i]
           /\ \A i \in 1..Len(mask) : head[2 + Len(ext) + i] = mask[i]
<1> DEFINE start == <<x, y>> \o ext
<1>1. <<x, y>> \in Seq(Byte) /\ Len(<<x, y>>) = 2
  OBVIOUS
<1>2. /\ start \in Seq(Byte) /\ Len(start) = 2 + Len(ext)
      /\ start[1] = x /\ start[2] = y
      /\ \A i \in 1..Len(ext) : start[2 + i] = ext[i]
  BY <1>1, ConcatProperties
<1> HIDE DEF start
<1>3. /\ head \in Seq(Byte) /\ Len(head) = Len(start) + Len(mask)
      /\ \A i \in 1..Len(start) : head[i] = start[i]
      /\ \A i \in 1..Len(mask) : head[Len(start) + i] = mask[i]
  <2>1. /\ head \in Seq(Byte) /\ Len(head) = Len(start) + Len(mask)
        /\ \A i \in 1..Len(start) + Len(mask) :
               head[i] = IF i <= Len(start) THEN start[i] ELSE mask[i - Len(start)]
    <3>1. start \in Seq(Byte)
      BY <1>2
    <3>2. head = start \o mask
      BY DEF start
    <3> QED BY ONLY <3>1, <3>2, mask \in Seq(Byte), ConcatProperties, Zenon
  <2>2. Len(start) \in Nat /\ Len(mask) \in Nat
    BY <1>2, LenProperties
  <2>3. \A i \in 1..Len(mask) :
           /\ Len(start) + i \in 1..Len(start) + Len(mask)
           /\ ~(Len(start) + i <= Len(start)) /\ (Len(start) + i) - Len(start) = i
    BY <2>2
  <2> QED BY <2>1, <2>2, <2>3
<1>4. Len(ext) \in Nat /\ Len(mask) \in Nat
  BY LenProperties
<1>5. head[1] = x /\ head[2] = y /\ \A i \in 1..Len(ext) : head[2 + i] = ext[i]
  BY <1>2, <1>3, <1>4
<1> QED BY <1>2, <1>3, <1>4, <1>5

\* The code of a length and the length that follows are bytes.
LEMMA LengthTypes ==
    ASSUME ByteBase = 256, NEW n \in Nat, n < Quad
    PROVE  /\ LengthCode(n) \in 0..127 /\ ExtendedLength(n) \in Seq(Byte)
           /\ Len(ExtendedLength(n)) =
                  IF n <= 125 THEN 0 ELSE IF n < 65536 THEN 2 ELSE 8
<1>0. Byte = 0..255 /\ n < 4294967296
  BY SMT, Numbers
<1>1. CASE n <= 125
  <2>1. ExtendedLength(n) = <<>> /\ LengthCode(n) = n
    BY SMT, <1>1, ShortLength
  <2> QED BY SMT, <1>0, <1>1, <2>1, EmptySeq
<1>2. CASE 125 < n /\ n < 65536
  <2> DEFINE c == n \div 256
             d == n % 256
  <2>1. LengthCode(n) = 126 /\ ExtendedLength(n) = <<c, d>> /\ c \in Byte /\ d \in Byte
    BY SMT, <1>0, <1>2, WordLength
  <2> HIDE DEF c, d
  <2> QED BY SMT, <1>2, <2>1
<1>3. CASE 65536 <= n
  <2> DEFINE c == (n \div 16777216) % 256
             d == (n \div 65536) % 256
             e == (n \div 256) % 256
             f == n % 256
  <2>1. LengthCode(n) = 127 /\ ExtendedLength(n) = <<0, 0, 0, 0, c, d, e, f>>
    BY SMT, <1>0, <1>3, LongLength
  <2>2. c \in Byte /\ d \in Byte /\ e \in Byte /\ f \in Byte /\ 0 \in Byte
    BY SMT, <1>0, Digits
  <2> HIDE DEF c, d, e, f
  <2> QED BY SMT, <1>3, <2>1, <2>2
<1> QED BY SMT, <1>1, <1>2, <1>3

\* The first two bytes give back what wsFrameBuild put into them, and behind
\* them are the length that follows and the mask.
LEMMA HeadBytes ==
    ASSUME ByteBase = 256, NEW n \in Nat, n < Quad, NEW type \in FrameTypes,
           NEW fin \in BOOLEAN, NEW mask \in Masks,
           NEW b, StartsWith(b, FrameHead(n, type, fin, mask))
    PROVE  LET ext == ExtendedLength(n)
           IN /\ b[1] \in Byte /\ b[1] % 16 = type /\ (b[1] >= 128 <=> fin)
              /\ b[2] \in Byte /\ b[2] % 128 = LengthCode(n) /\ (b[2] >= 128 <=> mask # <<>>)
              /\ \A i \in 1..Len(ext) : b[2 + i] = ext[i]
              /\ \A i \in 1..Len(mask) : b[2 + Len(ext) + i] = mask[i]
              /\ Len(FrameHead(n, type, fin, mask)) = 2 + Len(ext) + Len(mask)
              /\ Len(mask) = IF mask = <<>> THEN 0 ELSE 4
<1> DEFINE x == type + (IF fin THEN 128 ELSE 0)
           y == LengthCode(n) + (IF mask # <<>> THEN 128 ELSE 0)
           ext == ExtendedLength(n)
           head == <<x, y>> \o ext \o mask
<1>1. FrameHead(n, type, fin, mask) = head
  BY Numbers DEF FrameHead
<1>2. /\ x \in Byte /\ x % 16 = type /\ (x >= 128 <=> fin)
      /\ y \in Byte /\ y % 128 = LengthCode(n) /\ (y >= 128 <=> mask # <<>>)
  <2>1. type \in 0..10 /\ LengthCode(n) \in 0..127 /\ Byte = 0..255
    BY SMT, LengthTypes, Numbers DEF FrameTypes, ContinuationFrame, TextFrame, BinaryFrame,
          CloseFrame, PingFrame, PongFrame
  <2> DEFINE code == LengthCode(n)
  <2> HIDE DEF code
  <2>2. code \in 0..127
    BY <2>1 DEF code
  <2>3. x \in Byte /\ x % 16 = type /\ (x >= 128 <=> fin)
    BY <2>1
  <2>4. LET z == code + (IF mask # <<>> THEN 128 ELSE 0)
        IN z \in 0..255 /\ z % 128 = code /\ (z >= 128 <=> mask # <<>>)
    BY <2>2
  <2> QED BY <2>1, <2>3, <2>4 DEF code
<1>3. mask \in Seq(Byte) /\ Len(mask) = IF mask = <<>> THEN 0 ELSE 4
  BY EmptySeq DEF Masks
<1>4. ext \in Seq(Byte) /\ Len(ext) \in Nat
  BY LengthTypes, LenProperties
<1> HIDE DEF x, y, ext
<1>5. /\ Len(head) = 2 + Len(ext) + Len(mask)
      /\ head[1] = x /\ head[2] = y
      /\ \A i \in 1..Len(ext) : head[2 + i] = ext[i]
      /\ \A i \in 1..Len(mask) : head[2 + Len(ext) + i] = mask[i]
  <2>1. x \in Byte /\ y \in Byte /\ ext \in Seq(Byte) /\ mask \in Seq(Byte)
    BY <1>2, <1>3, <1>4
  <2>2. head = <<x, y>> \o ext \o mask
    OBVIOUS
  <2> HIDE DEF head
  <2> QED BY ONLY <2>1, <2>2, Parts
<1> HIDE DEF head
<1>6. \A i \in 1..Len(head) : b[i] = head[i]
  BY <1>1 DEF StartsWith
<1>7. /\ b[1] = x /\ b[2] = y
      /\ \A i \in 1..Len(ext) : b[2 + i] = ext[i]
      /\ \A i \in 1..Len(mask) : b[2 + Len(ext) + i] = mask[i]
  <2>1. Len(mask) \in Nat
    BY <1>3, LenProperties
  <2> DEFINE k == Len(ext)
             l == Len(mask)
  <2>2. k \in Nat /\ l \in Nat /\ Len(head) = 2 + k + l
    BY <1>4, <1>5, <2>1
  <2> HIDE DEF k, l
  <2>3. /\ 1 \in 1..Len(head) /\ 2 \in 1..Len(head)
        /\ \A i \in 1..k : 2 + i \in 1..Len(head)
        /\ \A i \in 1..l : 2 + k + i \in 1..Len(head)
    BY <2>2
  <2> QED BY <1>5, <1>6, <2>3 DEF k, l
<1> QED BY <1>1, <1>2, <1>3, <1>5, <1>7 DEF ext

\* Where the parts of the head are found, and what they say.
LEMMA HeadFields ==
    ASSUME ByteBase = 256, NEW n \in Nat, n < Quad, NEW type \in FrameTypes,
           NEW fin \in BOOLEAN, NEW mask \in Masks,
           NEW b, StartsWith(b, FrameHead(n, type, fin, mask))
    PROVE  /\ LengthEnd(b) = 2 + Len(ExtendedLength(n))
           /\ HeadEnd(b) = Len(FrameHead(n, type, fin, mask))
           /\ HeadEnd(b) = LengthEnd(b) + Len(mask)
           /\ Refused(b) <=> n >= Unextractable
           /\ n < Unextractable => PayloadLen(b) = n
<1> DEFINE ext == ExtendedLength(n)
<1>1. /\ b[2] \in Byte /\ b[2] % 128 = LengthCode(n) /\ (b[2] >= 128 <=> mask # <<>>)
      /\ \A i \in 1..Len(ext) : b[2 + i] = ext[i]
      /\ Len(FrameHead(n, type, fin, mask)) = 2 + Len(ext) + Len(mask)
      /\ Len(mask) = IF mask = <<>> THEN 0 ELSE 4
  BY HeadBytes
<1>2. Half = 128 /\ Small = 125 /\ Byte = 0..255
  BY SMT, Numbers
<1>3. /\ LengthEnd(b) = 2 + Len(ext)
      /\ Refused(b) <=> n >= Unextractable
      /\ n < Unextractable => PayloadLen(b) = n
  <2>0. n < 4294967296 /\ Unextractable = 2147483648 /\ Word = 65536
    BY SMT, Numbers DEF Unextractable
  <2>1. CASE n <= 125
    <3>1. b[2] % 128 = n /\ ext = <<>>
      BY SMT, <1>1, <2>1, ShortLength
    <3>2. LengthEnd(b) = 2 /\ Len(ext) = 0
      BY SMT, <1>2, <2>1, <3>1, EmptySeq DEF LengthEnd
    <3>3. ~Refused(b) /\ PayloadLen(b) = n
      BY SMT, <1>2, <3>1, <3>2 DEF Refused, PayloadLen
    <3> QED BY SMT, <2>0, <2>1, <3>2, <3>3
  <2>2. CASE 125 < n /\ n < 65536
    <3> DEFINE c == n \div 256
               d == n % 256
    <3>1. /\ LengthCode(n) = 126 /\ ext = <<c, d>> /\ c * 256 + d = n
          /\ c \in 0..255 /\ d \in 0..255
      BY SMT, <2>2, WordLength
    <3> HIDE DEF c, d
    <3>2. LengthEnd(b) = 4 /\ Len(ext) = 2 /\ b[3] = c /\ b[4] = d
      <4>1. b[2] % Half = 126
        BY SMT, <1>1, <1>2, <3>1
      <4>2. LengthEnd(b) = 4
        BY SMT, <1>2, <4>1 DEF LengthEnd
      <4>3. Len(ext) = 2 /\ ext[1] = c /\ ext[2] = d
        BY SMT, <3>1
      <4>4. b[2 + 1] = ext[1] /\ b[2 + 2] = ext[2]
        BY SMT, <1>1, <4>3
      <4> QED BY SMT, <4>2, <4>3, <4>4
    <3>3. ~Refused(b) /\ PayloadLen(b) = n
      BY SMT, <1>2, <3>1, <3>2 DEF Refused, PayloadLen
    <3> QED BY SMT, <2>0, <2>2, <3>2, <3>3
  <2>3. CASE 65536 <= n
    <3> DEFINE c == (n \div 16777216) % 256
               d == (n \div 65536) % 256
               e == (n \div 256) % 256
               f == n % 256
    <3>1. LengthCode(n) = 127 /\ ext = <<0, 0, 0, 0, c, d, e, f>>
      BY SMT, <2>0, <2>3, LongLength
    <3>2. /\ c \in 0..255 /\ d \in 0..255 /\ e \in 0..255 /\ f \in 0..255
          /\ c * 16777216 + d * 65536 + e * 256 + f = n
      BY SMT, <2>0, Digits
    <3> HIDE DEF c, d, e, f
    <3>3. /\ LengthEnd(b) = 10 /\ Len(ext) = 8
          /\ b[3] = 0 /\ b[4] = 0 /\ b[5] = 0 /\ b[6] = 0
          /\ b[7] = c /\ b[8] = d /\ b[9] = e /\ b[10] = f
      <4>1. b[2] % Half = 127
        BY SMT, <1>1, <1>2, <3>1
      <4>2. LengthEnd(b) = 10
        BY SMT, <1>2, <4>1 DEF LengthEnd
      <4>3. /\ Len(ext) = 8
            /\ ext[1] = 0 /\ ext[2] = 0 /\ ext[3] = 0 /\ ext[4] = 0
            /\ ext[5] = c /\ ext[6] = d /\ ext[7] = e /\ ext[8] = f
        BY SMT, <3>1
      <4>4. /\ b[2 + 1] = ext[1] /\ b[2 + 2] = ext[2] /\ b[2 + 3] = ext[3]
            /\ b[2 + 4] = ext[4] /\ b[2 + 5] = ext[5] /\ b[2 + 6] = ext[6]
            /\ b[2 + 7] = ext[7] /\ b[2 + 8] = ext[8]
        BY SMT, <1>1, <4>3
      <4> QED BY SMT, <4>2, <4>3, <4>4
    <3>4. Refused(b) <=> c >= 128
      BY SMT, <1>2, <3>3 DEF Refused
    <3>5. PayloadLen(b) = n
      BY SMT, <2>0, <3>2, <3>3 DEF PayloadLen
    <3>6. c >= 128 <=> n >= 2147483648
      BY SMT, <3>2
    <3> QED BY SMT, <2>0, <3>3, <3>4, <3>5, <3>6
  <2> QED BY SMT, <2>1, <2>2, <2>3
<1>4. IsMasking(b) <=> mask # <<>>
  BY <1>1, <1>2 DEF IsMasking
<1>5. HeadEnd(b) = LengthEnd(b) + Len(mask)
  BY <1>1, <1>4 DEF HeadEnd
<1> QED BY <1>1, <1>3, <1>5

\* What wsFrameExtractBuffer makes of a buffer that begins with a head that
\* wsFrameBuild wrote, of which and of what follows size bytes were received:
\* the frame with its length, type, final bit and mask as soon as all of it was
\* received, and nothing before that.  A frame of 2^31 bytes or more is built,
\* but never found.
THEOREM HeadFound ==
    ASSUME ByteBase = 256, NEW n \in Nat, n < Quad, NEW type \in FrameTypes,
           NEW fin \in BOOLEAN, NEW mask \in Masks,
           NEW b, StartsWith(b, FrameHead(n, type, fin, mask)), NEW size \in Nat
    PROVE  LET head == Len(FrameHead(n, type, fin, mask))
           IN ExtractHead(b, size) =
                IF n < Unextractable /\ size >= head + n
                THEN [whole |-> TRUE, opcode |-> type, fin |-> fin, mask |-> mask,
                      pos |-> head, payloadlen |-> n, frameSize |-> n + head]
                ELSE NoFrame
<1> DEFINE head == Len(FrameHead(n, type, fin, mask))
<1>1. /\ LengthEnd(b) \in {2, 4, 10} /\ HeadEnd(b) = head /\ head = LengthEnd(b) + Len(mask)
      /\ Refused(b) <=> n >= Unextractable
      /\ n < Unextractable => PayloadLen(b) = n
  <2>1. LengthEnd(b) = 2 + Len(ExtendedLength(n))
    BY HeadFields
  <2>2. Len(ExtendedLength(n)) \in {0, 2, 8}
    BY LengthTypes
  <2> DEFINE k == Len(ExtendedLength(n))
  <2>3. LengthEnd(b) \in {2, 4, 10}
    <3>1. LengthEnd(b) = 2 + k /\ k \in {0, 2, 8}
      BY <2>1, <2>2
    <3> HIDE DEF k
    <3> QED BY <3>1
  <2> QED BY <2>3, HeadFields
<1>2. /\ b[1] % 16 = type /\ (b[1] >= 128 <=> fin)
      /\ b[2] >= 128 <=> mask # <<>>
      /\ \A i \in 1..Len(mask) : b[2 + Len(ExtendedLength(n)) + i] = mask[i]
      /\ Len(mask) = IF mask = <<>> THEN 0 ELSE 4
  BY HeadBytes
<1>3. TooShort(b, size) <=> ~(n < Unextractable /\ size >= head + n)
  <2>0. Unextractable = 2147483648 /\ Quad = 4294967296
    BY SMT, Numbers DEF Unextractable
  <2> HIDE DEF head
  <2>1. head \in 2..14 /\ LengthEnd(b) \in 2..head
    BY SMT, <1>1, <1>2
  <2>2. CASE n >= Unextractable
    BY SMT, <1>1, <2>0, <2>2 DEF TooShort
  <2>3. CASE n < Unextractable
    <3>1. PayloadLen(b) = n /\ ~Refused(b)
      BY SMT, <1>1, <2>0, <2>3
    <3>2. (head + n) % Quad = head + n
      BY SMT, <2>0, <2>1, <2>3
    <3> QED BY SMT, <1>1, <2>0, <2>1, <2>3, <3>1, <3>2 DEF TooShort
  <2> QED BY SMT, <2>0, <2>2, <2>3
<1>4. mask = IF IsMasking(b) THEN SubSeq(b, LengthEnd(b) + 1, HeadEnd(b)) ELSE <<>>
  <2>1. IsMasking(b) <=> mask # <<>>
    <3>1. Half = 128
      BY SMT, Numbers
    <3> QED BY <1>2, <3>1 DEF IsMasking
  <2>2. CASE mask # <<>>
    <3> DEFINE k == LengthEnd(b)
    <3>1. /\ k \in Nat /\ Len(mask) = 4 /\ HeadEnd(b) = k + 4
          /\ \A i \in 1..4 : b[k + i] = mask[i]
      BY <1>1, <1>2, <2>2, HeadFields
    <3> HIDE DEF k
    <3>2. SubSeq(b, k + 1, k + 4) = [i \in 1..4 |-> b[k + i]]
      BY <3>1 DEF SubSeq
    <3>3. mask = [i \in 1..4 |-> mask[i]]
      BY <3>1, LenProperties DEF Masks
    <3> QED BY <2>1, <2>2, <3>1, <3>2, <3>3 DEF k
  <2> QED BY <2>1, <2>2
<1>5. (b[1] >= Half) = fin
  BY <1>2, Numbers
<1> QED BY <1>1, <1>2, <1>3, <1>4, <1>5 DEF ExtractHead

\* Masking a payload a second time with the same mask gives it back.
THEOREM MaskedTwice ==
    ASSUME NEW payload \in Seq(Byte), NEW mask \in Masks
    PROVE  Masked(Masked(payload, mask), mask) = payload
<1>1. CASE mask = <<>>
  BY <1>1 DEF Masked
<1>2. CASE mask # <<>>
  <2>1. Len(mask) = 4 /\ \A j \in 1..4 : mask[j] \in Byte
    BY <1>2, EmptySeq, ElementOfSeq DEF Masks
  <2> DEFINE m(i) == mask[((i - 1) % 4) + 1]
             once == [i \in 1..Len(payload) |-> Xor(payload[i], m(i))]
  <2>2. \A i \in 1..Len(payload) : m(i) \in Byte /\ payload[i] \in Byte
    <3>1. \A i \in Nat : ((i - 1) % 4) + 1 \in 1..4
      OBVIOUS
    <3> QED BY <2>1, <3>1, ElementOfSeq, LenProperties
  <2>3. Masked(payload, mask) = once
    BY <1>2 DEF Masked
  <2>4. Len(once) = Len(payload) /\ \A i \in 1..Len(payload) : once[i] = Xor(payload[i], m(i))
    BY LenProperties
  <2>5. Masked(once, mask) = [i \in 1..Len(payload) |-> Xor(once[i], m(i))]
    BY <1>2, <2>4 DEF Masked
  <2>6. \A i \in 1..Len(payload) : Xor(once[i], m(i)) = payload[i]
    BY <2>2, <2>4, XorAssumption
  <2>7. payload = [i \in 1..Len(payload) |-> payload[i]]
    BY LenProperties
  <2> QED BY <2>3, <2>5, <2>6, <2>7
<1> QED BY <1>1, <1>2

-----------------------------------------------------------------------------
(* The parser.  Nothing but the end of a message, seen by tryParse, makes a *)
(* connection one of WebSocket.                                             *)

\* A parser of a connection that speaks HTTP.
SpeaksHttp(p) ==
    /\ {"mISCompleted", "mIsWebSocket"} \subseteq DOMAIN p
    /\ p.mIsWebSocket = FALSE

\* A parser starts with HTTP.
LEMMA NewParserSpeaksHttp == SpeaksHttp(NewParser) /\ NewParser.mISCompleted = FALSE
BY DEF SpeaksHttp, NewParser

\* The callbacks leave the flag alone, or take it away.
LEMMA CallbacksSpeakHttp ==
    ASSUME NEW p, SpeaksHttp(p)
    PROVE  /\ SpeaksHttp(ClearParse(p))
           /\ SpeaksHttp(MessageEnd(p))
           /\ SpeaksHttp(Failed(p))
           /\ \A piece : SpeaksHttp(HeadField(p, piece))
           /\ \A pieces : SpeaksHttp(HeadValue(p, pieces))
<1>1. SpeaksHttp(ClearParse(p))
  BY DEF SpeaksHttp, ClearParse
<1>2. SpeaksHttp(MessageEnd(p))
  BY DEF SpeaksHttp, MessageEnd
<1>3. SpeaksHttp(Failed(p))
  BY DEF SpeaksHttp, Failed
<1>4. ASSUME NEW piece PROVE SpeaksHttp(HeadField(p, piece))
  BY DEF SpeaksHttp, HeadField
<1>5. ASSUME NEW pieces PROVE SpeaksHttp(HeadValue(p, pieces))
  BY DEF SpeaksHttp, HeadValue
<1> QED BY <1>1, <1>2, <1>3, <1>4, <1>5

\* So does the end of a message.
LEMMA CompleteSpeaksHttp == ASSUME NEW p, SpeaksHttp(p) PROVE SpeaksHttp(Complete(p))
<1>1. SpeaksHttp(MessageEnd(p))
  BY CallbacksSpeakHttp
<1> QED BY <1>1 DEF SpeaksHttp, Complete

\* So does the end of a header line.
LEMMA LineSpeaksHttp == ASSUME NEW p, SpeaksHttp(p), NEW v PROVE SpeaksHttp(Line(p, v))
<1> DEFINE q == IF p.mLastWasValue THEN p ELSE HeadValue(p, <<>>)
<1>1. SpeaksHttp(q)
  BY CallbacksSpeakHttp
<1> HIDE DEF q
<1>2. SpeaksHttp(Failed(q))
  BY <1>1, CallbacksSpeakHttp
<1> DEFINE r == [q EXCEPT !.flags = @ \cup v.flags,
                          !.length = IF "length" \in v.flags THEN v.length ELSE @]
<1>3. SpeaksHttp(r)
  BY <1>1 DEF SpeaksHttp
<1> HIDE DEF r
<1>4. Line(p, v) = Failed(q) \/ Line(p, v) = r
  BY DEF Line, q, r
<1> QED BY <1>2, <1>3, <1>4

\* So does the end of the headers.
LEMMA HeadersEndSpeakHttp ==
    ASSUME NEW p, SpeaksHttp(p) PROVE SpeaksHttp(HeadersEnd(p))
<1>1. ASSUME NEW q, SpeaksHttp(q) PROVE SpeaksHttp(BodyStarts(q))
  <2>1. SpeaksHttp(Complete(q))
    BY <1>1, CompleteSpeaksHttp
  <2>2. ASSUME NEW at PROVE SpeaksHttp([q EXCEPT !.at = at])
    BY <1>1 DEF SpeaksHttp
  <2> QED BY <2>1, <2>2 DEF BodyStarts
<1>2. SpeaksHttp([p EXCEPT !.upgrade = Upgrades(p)])
  BY DEF SpeaksHttp
<1>3. SpeaksHttp(BodyStarts([p EXCEPT !.upgrade = Upgrades(p)]))
  BY <1>1, <1>2
<1>4. SpeaksHttp(Complete(p)) /\ SpeaksHttp(Failed(p))
  BY CompleteSpeaksHttp, CallbacksSpeakHttp
<1> QED BY <1>3, <1>4 DEF HeadersEnd

\* So does a byte of a body, and the size of a chunk.
LEMMA BodySpeaksHttp ==
    ASSUME NEW p, SpeaksHttp(p), NEW v
    PROVE  SpeaksHttp(Data(p, v)) /\ SpeaksHttp(ChunkSize(p, v))
<1> DEFINE q == [p EXCEPT !.mBody = Append(@, v), !.length = IF @ = NoLength THEN @ ELSE @ - 1]
<1>1. SpeaksHttp(q)
  BY DEF SpeaksHttp
<1> HIDE DEF q
<1>2. SpeaksHttp([q EXCEPT !.at = "chunkEnd"])
  BY <1>1 DEF SpeaksHttp
<1>3. SpeaksHttp(Data(p, v))
  <2>1. SpeaksHttp(Complete(q))
    BY <1>1, CompleteSpeaksHttp
  <2>2. Data(p, v) \in {Complete(q), [q EXCEPT !.at = "chunkEnd"], q}
    BY DEF Data, q
  <2> QED BY <1>1, <1>2, <2>1, <2>2
<1>4. SpeaksHttp(ChunkSize(p, v))
  BY DEF SpeaksHttp, ChunkSize
<1> QED BY <1>3, <1>4

\* So does every unit.
LEMMA FeedSpeaksHttp == ASSUME NEW p, SpeaksHttp(p), NEW u PROVE SpeaksHttp(Feed(p, u))
<1>1. SpeaksHttp(Start(p, u.v))
  <2>1. SpeaksHttp(ClearParse(p))
    BY CallbacksSpeakHttp
  <2> QED BY <2>1 DEF SpeaksHttp, Start
<1>2. SpeaksHttp([p EXCEPT !.mUrl = u.v]) /\ SpeaksHttp([p EXCEPT !.at = "chunkSize"])
  BY DEF SpeaksHttp
<1>3. /\ SpeaksHttp(HeadField(p, u.v)) /\ SpeaksHttp(HeadValue(p, <<u.v>>))
      /\ SpeaksHttp(Failed(p))
  BY CallbacksSpeakHttp
<1>4. SpeaksHttp(Line(p, u.v)) /\ SpeaksHttp(HeadersEnd(p))
  BY LineSpeaksHttp, HeadersEndSpeakHttp
<1>5. SpeaksHttp(Data(p, u.v)) /\ SpeaksHttp(ChunkSize(p, u.v))
  BY BodySpeaksHttp
<1> QED BY <1>1, <1>2, <1>3, <1>4, <1>5 DEF Feed

\* A set that holds 0, and n + 1 with each n, holds every number.
LEMMA NatSetInduction ==
    ASSUME NEW T, 0 \in T, \A n \in Nat : n \in T => n + 1 \in T
    PROVE  Nat \subseteq T
<1> SUFFICES ASSUME Nat \ T # {} PROVE FALSE
  OBVIOUS
<1>1. PICK x \in Nat \ T : \A y \in Nat \ T : ~ (<<y, x>> \in OpToRel(<, Nat))
  BY NatLessThanWellFounded, WFMin
<1>2. \A y \in Nat \ T : ~ (y < x)
  BY <1>1 DEF OpToRel
<1>3. x - 1 \in Nat
  BY SMT
<1> QED BY <1>2, <1>3

\* How the parser of a run looks before its first unit.
Started(p) == [parser |-> [p EXCEPT !.stopped = FALSE], n |-> 0]

\* What became of the first i of the units s.
IsRun(f, p, s, n) ==
    f = [i \in 0..n |-> IF i = 0 THEN Started(p) ELSE Consumed(f[i - 1], s[i])]

\* Such a function exists, and is the one that Execute means.
LEMMA ExecuteRuns ==
    ASSUME NEW p, NEW s, Len(s) \in Nat
    PROVE  \E f : IsRun(f, p, s, Len(s)) /\ Execute(p, s) = f[Len(s)]
<1> DEFINE T == {n \in Nat : \E f : IsRun(f, p, s, n)}
<1>1. 0 \in T
  <2> DEFINE f == [i \in 0..0 |-> Started(p)]
  <2>1. IsRun(f, p, s, 0)
    BY DEF IsRun
  <2> QED BY <2>1
<1>2. ASSUME NEW n \in Nat, n \in T PROVE n + 1 \in T
  <2>1. PICK f : IsRun(f, p, s, n)
    BY <1>2
  <2> DEFINE g == [i \in 0..n + 1 |-> IF i = n + 1 THEN Consumed(f[n], s[n + 1]) ELSE f[i]]
  <2>2. \A i \in 0..n : g[i] = f[i]
    BY SMT
  <2>3. g[n + 1] = Consumed(f[n], s[n + 1])
    OBVIOUS
  <2>4. \A i \in 0..n : f[i] = IF i = 0 THEN Started(p) ELSE Consumed(f[i - 1], s[i])
    BY <2>1 DEF IsRun
  <2>5. \A i \in 0..n + 1 : g[i] = IF i = 0 THEN Started(p) ELSE Consumed(g[i - 1], s[i])
    BY <2>2, <2>3, <2>4
  <2>6. IsRun(g, p, s, n + 1)
    BY <2>5 DEF IsRun
  <2> HIDE DEF g
  <2>7. \E h : IsRun(h, p, s, n + 1)
    BY <2>6
  <2> QED BY <2>7
<1> HIDE DEF T
<1>3. Len(s) \in T
  BY <1>1, <1>2, NatSetInduction
<1> DEFINE Is(f) == f = [i \in 0..Len(s) |-> IF i = 0
                            THEN [parser |-> [p EXCEPT !.stopped = FALSE], n |-> 0]
                            ELSE Consumed(f[i - 1], s[i])]
<1>4. \A f : Is(f) <=> IsRun(f, p, s, Len(s))
  BY DEF IsRun, Started
<1>5. \E f : Is(f)
  BY <1>3, <1>4 DEF T
<1>6. Execute(p, s) = (CHOOSE f : Is(f))[Len(s)]
  BY DEF Execute
<1>7. Is(CHOOSE f : Is(f))
  BY <1>5
<1> HIDE DEF Is
<1> QED BY <1>4, <1>6, <1>7

\* However many units are received, http_parser_execute leaves the flag alone.
LEMMA ExecuteSpeaksHttp ==
    ASSUME NEW p, SpeaksHttp(p), NEW s, Len(s) \in Nat
    PROVE  LET e == Execute(p, s) IN
           {"parser", "n"} \subseteq DOMAIN e /\ e.n \in Nat /\ SpeaksHttp(e.parser)
<1>1. PICK f : IsRun(f, p, s, Len(s)) /\ Execute(p, s) = f[Len(s)]
  BY ExecuteRuns
<1>2. \A i \in 0..Len(s) : f[i] = IF i = 0 THEN Started(p) ELSE Consumed(f[i - 1], s[i])
  BY <1>1 DEF IsRun
<1> DEFINE Typed(e) == {"parser", "n"} \subseteq DOMAIN e /\ e.n \in Nat /\ SpeaksHttp(e.parser)
           T == {n \in Nat : n <= Len(s) => Typed(f[n])}
<1>3. 0 \in T
  <2>1. Typed(Started(p))
    BY DEF SpeaksHttp, Started
  <2> QED BY <1>2, <2>1
<1>4. ASSUME NEW n \in Nat, n \in T PROVE n + 1 \in T
  <2> SUFFICES ASSUME n + 1 <= Len(s) PROVE Typed(f[n + 1])
    OBVIOUS
  <2>1. Typed(f[n])
    BY <1>4
  <2>2. f[n + 1] = Consumed(f[n], s[n + 1])
    BY <1>2
  <2>3. SpeaksHttp(Feed(f[n].parser, s[n + 1]))
    BY <2>1, FeedSpeaksHttp
  <2> DEFINE q == Feed(f[n].parser, s[n + 1])
             r == [parser |-> q, n |-> IF q.error THEN f[n].n ELSE f[n].n + 1]
  <2>4. Typed(r)
    <3> HIDE DEF q
    <3>1. SpeaksHttp(q)
      BY <2>3 DEF q
    <3> QED BY SMT, <2>1, <3>1
  <2>5. f[n + 1] = f[n] \/ f[n + 1] = r
    BY <2>2 DEF Consumed
  <2> HIDE DEF r, Typed
  <2> QED BY <2>1, <2>4, <2>5
<1> HIDE DEF T, Typed
<1>5. Len(s) \in T
  BY <1>3, <1>4, NatSetInduction
<1> QED BY <1>1, <1>5 DEF T, Typed

\* At the end of the stream, too.
LEMMA EofSpeaksHttp == ASSUME NEW p, SpeaksHttp(p) PROVE SpeaksHttp(ExecuteEof(p))
BY CallbacksSpeakHttp DEF ExecuteEof

\* tryParse: the flag is set for a message that is complete, and not before.
LEMMA AfterExecuteFlags ==
    ASSUME NEW q, SpeaksHttp(q)
    PROVE  LET r == AfterExecute(q) IN
           /\ {"mISCompleted", "mIsWebSocket"} \subseteq DOMAIN r
           /\ r.mIsWebSocket \in BOOLEAN
           /\ r.mIsWebSocket => r.mISCompleted
<1>1. CASE q.mISCompleted
  <2> DEFINE r == [q EXCEPT !.mIsUpgrade = q.upgrade, !.mIsWebSocket = WebSocketUpgrade(q),
                   !.at = "start", !.error = FALSE, !.stopped = FALSE,
                   !.upgrade = FALSE, !.flags = {}, !.length = 0]
  <2>1. AfterExecute(q) = r
    BY <1>1 DEF AfterExecute
  <2>2. WebSocketUpgrade(q) \in BOOLEAN
    BY DEF WebSocketUpgrade
  <2> QED BY <1>1, <2>1, <2>2 DEF SpeaksHttp
<1>2. CASE ~q.mISCompleted
  BY <1>2 DEF AfterExecute, SpeaksHttp
<1> QED BY <1>1, <1>2

-----------------------------------------------------------------------------
(* The callbacks that were called. *)

\* UpgradeOnce, of any sequence of calls.
InTurn(s) ==
    /\ \A i, j \in DOMAIN s : i < j =>
        /\ s[i].cb = "connected" => s[j].cb \notin {"http", "connected", "handshake"}
        /\ s[i].cb = "ws" => s[j].cb \notin {"http", "connected", "handshake"}
    /\ \A i \in DOMAIN s : s[i].cb = "connected" =>
        (<<"Key">> \in DOMAIN s[i].headers <=> i > 1 /\ s[i - 1].cb = "handshake")

\* The user was told of WebSocket.
Turned(s) == \E i \in DOMAIN s : s[i].cb \in {"connected", "ws"}

\* The answer to a client's key is the last thing that was done.
Answering(s) == s # <<>> /\ s[Len(s)].cb = "handshake"

\* What happens to a sequence of calls when one more is made.
LEMMA OneMore ==
    ASSUME NEW S, NEW s \in Seq(S), NEW c
    PROVE  /\ Append(s, c) \in Seq(S \cup {c})
           /\ Len(Append(s, c)) = Len(s) + 1
           /\ DOMAIN s = 1..Len(s) /\ DOMAIN Append(s, c) = 1..Len(s) + 1
           /\ \A i \in 1..Len(s) : Append(s, c)[i] = s[i]
           /\ Append(s, c)[Len(s) + 1] = c
           /\ Append(s, c) # <<>>
<1>1. s \in Seq(S \cup {c}) /\ c \in S \cup {c}
  BY LenProperties, SeqDef
<1> QED BY <1>1, AppendProperties, LenProperties, EmptySeq

\* The end of the session, and a WebSocket message, may follow whatever was
\* called.
LEMMA FollowsAll ==
    ASSUME NEW S, NEW s \in Seq(S), InTurn(s), NEW c, c.cb \in {"closed", "ws"}
    PROVE  InTurn(Append(s, c)) /\ ~Answering(Append(s, c))
                                /\ (Turned(Append(s, c)) => Turned(s) \/ c.cb = "ws")
<1> DEFINE t == Append(s, c)
           n == Len(s)
<1>1. /\ Len(t) = n + 1 /\ DOMAIN s = 1..n /\ DOMAIN t = 1..n + 1 /\ n \in Nat
      /\ \A i \in 1..n : t[i] = s[i]
      /\ t[n + 1] = c
  BY OneMore, LenProperties
<1> HIDE DEF t, n
<1>2. ASSUME NEW i \in DOMAIN t, NEW j \in DOMAIN t, i < j
      PROVE  /\ t[i].cb = "connected" => t[j].cb \notin {"http", "connected", "handshake"}
             /\ t[i].cb = "ws" => t[j].cb \notin {"http", "connected", "handshake"}
  <2>1. CASE j = n + 1
    BY <1>1, <2>1
  <2>2. CASE j # n + 1
    <3>1. i \in DOMAIN s /\ j \in DOMAIN s /\ t[i] = s[i] /\ t[j] = s[j]
      BY <1>1, <1>2, <2>2
    <3> QED BY <1>2, <3>1 DEF InTurn
  <2> QED BY <2>1, <2>2
<1>3. ASSUME NEW i \in DOMAIN t, t[i].cb = "connected"
      PROVE  <<"Key">> \in DOMAIN t[i].headers <=> i > 1 /\ t[i - 1].cb = "handshake"
  <2>1. i \in DOMAIN s /\ t[i] = s[i]
    BY <1>1, <1>3
  <2>2. i > 1 => t[i - 1] = s[i - 1]
    BY <1>1, <2>1
  <2> QED BY <1>3, <2>1, <2>2 DEF InTurn
<1>4. InTurn(t)
  BY <1>2, <1>3 DEF InTurn
<1>5. ~Answering(t)
  BY <1>1 DEF Answering
<1>6. ASSUME Turned(t) PROVE Turned(s) \/ c.cb = "ws"
  <2>1. PICK i \in DOMAIN t : t[i].cb \in {"connected", "ws"}
    BY <1>6 DEF Turned
  <2>2. CASE i = n + 1
    BY <1>1, <2>1, <2>2
  <2>3. CASE i # n + 1
    <3>1. i \in DOMAIN s /\ s[i] = t[i]
      BY <1>1, <2>3
    <3> QED BY <2>1, <3>1 DEF Turned
  <2> QED BY <2>2, <2>3
<1> QED BY <1>4, <1>5, <1>6 DEF t

\* A message of HTTP follows what is not of WebSocket; and it is of WebSocket
\* only if it turns the connection.
LEMMA ReportFollows ==
    ASSUME NEW S, NEW s \in Seq(S), InTurn(s), ~Turned(s), NEW q,
           q.mIsWebSocket \in BOOLEAN,
           (q.mIsWebSocket /\ <<"Key">> \in DOMAIN q.mHeadValues) <=> Answering(s)
    PROVE  LET t == Append(s, HttpCall(q)) IN
           InTurn(t) /\ ~Answering(t) /\ (Turned(t) => q.mIsWebSocket)
<1> DEFINE c == HttpCall(q)
           t == Append(s, c)
           n == Len(s)
<1>1. /\ Len(t) = n + 1 /\ DOMAIN s = 1..n /\ DOMAIN t = 1..n + 1 /\ n \in Nat
      /\ \A i \in 1..n : t[i] = s[i]
      /\ t[n + 1] = c
  BY OneMore, LenProperties
<1>2. /\ c.cb = IF q.mIsWebSocket THEN "connected" ELSE "http"
      /\ c.headers = q.mHeadValues
  BY DEF HttpCall
<1>3. Answering(s) <=> n >= 1 /\ s[n].cb = "handshake"
  BY LenProperties, EmptySeq DEF Answering
<1> HIDE DEF t, n, c
<1>4. ASSUME NEW i \in DOMAIN t, NEW j \in DOMAIN t, i < j
      PROVE  t[i].cb \notin {"connected", "ws"}
  <2>1. i \in DOMAIN s /\ t[i] = s[i]
    BY <1>1, <1>4
  <2> QED BY <2>1 DEF Turned
<1>5. ASSUME NEW i \in DOMAIN t, t[i].cb = "connected"
      PROVE  <<"Key">> \in DOMAIN t[i].headers <=> i > 1 /\ t[i - 1].cb = "handshake"
  <2>1. i \notin DOMAIN s
    BY <1>1, <1>5 DEF Turned
  <2>2. i = n + 1
    BY <1>1, <2>1
  <2>3. q.mIsWebSocket /\ t[i].headers = q.mHeadValues
    BY <1>1, <1>2, <1>5, <2>2
  <2>4. i > 1 /\ t[i - 1].cb = "handshake" <=> n >= 1 /\ s[n].cb = "handshake"
    BY <1>1, <2>2
  <2> QED BY <1>3, <2>3, <2>4
<1>6. InTurn(t)
  BY <1>4, <1>5 DEF InTurn
<1>7. ~Answering(t)
  BY <1>1, <1>2 DEF Answering
<1>8. ASSUME Turned(t) PROVE q.mIsWebSocket
  <2>1. PICK i \in DOMAIN t : t[i].cb \in {"connected", "ws"}
    BY <1>8 DEF Turned
  <2>2. i = n + 1
    BY <1>1, <2>1 DEF Turned
  <2> QED BY <1>1, <1>2, <2>1, <2>2
<1> QED BY <1>6, <1>7, <1>8 DEF t, c

\* The answer to a client's key follows what is not of WebSocket.
LEMMA HandshakeFollows ==
    ASSUME NEW S, NEW s \in Seq(S), InTurn(s), ~Turned(s)
    PROVE  LET t == Append(s, [cb |-> "handshake"]) IN InTurn(t) /\ Answering(t) /\ ~Turned(t)
<1> DEFINE c == [cb |-> "handshake"]
           t == Append(s, c)
           n == Len(s)
<1>1. /\ Len(t) = n + 1 /\ DOMAIN s = 1..n /\ DOMAIN t = 1..n + 1 /\ n \in Nat
      /\ \A i \in 1..n : t[i] = s[i]
      /\ t[n + 1] = c /\ c.cb = "handshake" /\ t # <<>>
  BY OneMore, LenProperties
<1> HIDE DEF t, n, c
<1>2. ASSUME NEW i \in DOMAIN t PROVE t[i].cb \notin {"connected", "ws"}
  <2>1. CASE i = n + 1
    BY <1>1, <2>1
  <2>2. CASE i # n + 1
    BY <1>1, <2>2 DEF Turned
  <2> QED BY <2>1, <2>2
<1>3. InTurn(t)
  BY <1>2 DEF InTurn
<1>4. Answering(t) /\ ~Turned(t)
  BY <1>1, <1>2 DEF Answering, Turned
<1> QED BY <1>3, <1>4 DEF t, c

\* ProcessHttp's calls for a message that is complete.
LEMMA AnswersFollow ==
    ASSUME NEW S, NEW s \in Seq(S), InTurn(s), ~Turned(s), ~Answering(s),
           NEW q, q.mIsWebSocket \in BOOLEAN
    PROVE  LET t == s \o Answers(q) IN
           /\ \E R : t \in Seq(R)
           /\ InTurn(t) /\ ~Answering(t) /\ (Turned(t) => q.mIsWebSocket)
<1> DEFINE key == q.mIsWebSocket /\ <<"Key">> \in DOMAIN q.mHeadValues
           h == [cb |-> "handshake"]
           c == HttpCall(q)
<1>1. CASE key
  <2>1. Answers(q) = <<h>> \o <<c>>
    BY <1>1 DEF Answers
  <2> DEFINE u == Append(s, h)
  <2>2. u \in Seq(S \cup {h})
    BY OneMore
  <2>3. InTurn(u) /\ Answering(u) /\ ~Turned(u)
    BY HandshakeFollows
  <2>4. s \o (<<h>> \o <<c>>) = Append(u, c)
    BY SMT DEF u
  <2> HIDE DEF u, h, c
  <2>5. Append(u, c) \in Seq((S \cup {h}) \cup {c})
    BY <2>2, OneMore
  <2>6. (q.mIsWebSocket /\ <<"Key">> \in DOMAIN q.mHeadValues) <=> Answering(u)
    BY <1>1, <2>3
  <2> HIDE DEF key
  <2>7. LET t == Append(u, c) IN InTurn(t) /\ ~Answering(t) /\ (Turned(t) => q.mIsWebSocket)
    BY <2>2, <2>3, <2>6, ReportFollows DEF c
  <2> QED BY <2>1, <2>4, <2>5, <2>7
<1>2. CASE ~key
  <2>1. Answers(q) = <<>> \o <<c>>
    BY <1>2 DEF Answers
  <2>2. s \o (<<>> \o <<c>>) = Append(s, c)
    BY SMT
  <2> HIDE DEF c
  <2>3. Append(s, c) \in Seq(S \cup {c})
    BY OneMore
  <2>4. LET t == Append(s, c) IN InTurn(t) /\ ~Answering(t) /\ (Turned(t) => q.mIsWebSocket)
    BY <1>2, ReportFollows DEF c
  <2> QED BY <2>1, <2>2, <2>3, <2>4
<1> QED BY <1>1, <1>2

-----------------------------------------------------------------------------
(* The invariant, and its steps. *)

\* As long as HTTP is spoken, what is still to be received and what was received
\* are sequences, and a part of that is used.
StreamTypes ==
    ~parser.mIsWebSocket => /\ \E S : network \in Seq(S) /\ buffer \in Seq(S)
                            /\ used \in Nat

\* What the calls say of the parser: it turned to WebSocket before the user was
\* told so, and with a message that was complete; and of each other: no client
\* waits with its key answered and its connection not reported.
CallsInv(s, p) ==
    /\ \E S : s \in Seq(S)
    /\ {"mISCompleted", "mIsWebSocket"} \subseteq DOMAIN p
    /\ p.mIsWebSocket \in BOOLEAN
    /\ p.mIsWebSocket => p.mISCompleted
    /\ Turned(s) => p.mIsWebSocket
    /\ ~Answering(s)
    /\ InTurn(s)

\* Frames are looked for when the parser knows of WebSocket.
FramesOfWebSocket == pc \in {"frames", "inWs"} => parser.mIsWebSocket

IInv == StreamTypes /\ CallsInv(calls, parser) /\ FramesOfWebSocket

\* It holds when a connection starts.
LEMMA InvInit == Init => IInv
<1> SUFFICES ASSUME Init PROVE IInv
  OBVIOUS
<1> DEFINE S == {Units(sent)[i] : i \in 1..Len(Units(sent))}
<1>1. network \in Seq(S)
  <2> DEFINE u == Units(sent)
  <2>1. Len(u) \in Nat /\ u = [i \in 1..Len(u) |-> u[i]] /\ network = u
    BY UnitsAssumption DEF Init, IsSeq
  <2> HIDE DEF u
  <2>2. u \in Seq({u[i] : i \in 1..Len(u)})
    BY <2>1, SeqDef
  <2> QED BY <2>1, <2>2 DEF u
<1>2. buffer \in Seq(S)
  BY EmptySeq DEF Init
<1>3. CallsInv(calls, parser)
  <2>1. calls = <<>> /\ parser = NewParser
    BY DEF Init
  <2>2. DOMAIN <<>> = {} /\ \A T : <<>> \in Seq(T)
    BY EmptySeq
  <2>3. ~Turned(<<>>) /\ ~Answering(<<>>) /\ InTurn(<<>>)
    BY <2>2 DEF Turned, Answering, InTurn
  <2> QED BY <2>1, <2>2, <2>3, NewParserSpeaksHttp DEF CallsInv, SpeaksHttp
<1>4. FramesOfWebSocket
  BY DEF Init, FramesOfWebSocket
<1>5. used \in Nat
  BY DEF Init
<1> HIDE DEF S
<1> QED BY <1>1, <1>2, <1>3, <1>4, <1>5 DEF IInv, StreamTypes

\* A closed session calls the closed handler, or nothing.
LEMMA ClosedKeeps ==
    ASSUME NEW p, CallsInv(calls, p), Closed(calls)
    PROVE  CallsInv(calls', p)
<1>1. CASE open
  <2>1. calls' = Append(calls, ClosedCall) /\ ClosedCall.cb = "closed"
    BY <1>1 DEF Closed, ClosedCall
  <2>2. PICK S : calls \in Seq(S)
    BY DEF CallsInv
  <2>3. Append(calls, ClosedCall) \in Seq(S \cup {ClosedCall})
    BY <2>2, OneMore
  <2>4. LET t == Append(calls, ClosedCall) IN
        InTurn(t) /\ ~Answering(t) /\ (Turned(t) => Turned(calls))
    BY <2>1, <2>2, FollowsAll DEF CallsInv
  <2> QED BY <2>1, <2>3, <2>4 DEF CallsInv
<1>2. CASE ~open
  BY <1>2 DEF Closed
<1> QED BY <1>1, <1>2

\* A report of a completed message follows HTTP.
LEMMA AnswersKeep ==
    ASSUME NEW s, NEW p, CallsInv(s, p), ~p.mIsWebSocket, NEW q,
           {"mISCompleted", "mIsWebSocket"} \subseteq DOMAIN q,
           q.mIsWebSocket \in BOOLEAN, q.mIsWebSocket => q.mISCompleted
    PROVE  CallsInv(s \o Answers(q), q) /\ CallsInv(s, q)
<1>1. PICK S : s \in Seq(S)
  BY DEF CallsInv
<1>2. InTurn(s) /\ ~Turned(s) /\ ~Answering(s)
  BY DEF CallsInv
<1>3. LET t == s \o Answers(q) IN
      (\E R : t \in Seq(R)) /\ InTurn(t) /\ ~Answering(t) /\ (Turned(t) => q.mIsWebSocket)
  BY <1>1, <1>2, AnswersFollow
<1> QED BY <1>1, <1>2, <1>3 DEF CallsInv

\* What is left of a sequence.
LEMMA DropIsSeq == ASSUME NEW S, NEW s \in Seq(S), NEW n \in Nat PROVE Drop(s, n) \in Seq(S)
<1>1. Len(s) \in Nat /\ \A i \in n + 1..Len(s) : s[i] \in S
  BY LenProperties, ElementOfSeq
<1> QED BY <1>1, SubSeqProperties DEF Drop

\* ProcessHttp, in an HTTP connection.
LEMMA ProcessHttpKeeps ==
    ASSUME CallsInv(calls, parser), ~parser.mIsWebSocket, used \in Nat,
           NEW S, NEW b \in Seq(S), ProcessHttp(b)
    PROVE  /\ CallsInv(calls', parser')
           /\ buffer' \in Seq(S) /\ used' \in Nat
           /\ pc' \notin {"frames", "inWs"}
<1> DEFINE e == Execute(parser, b)
           r == IF parser.mISCompleted THEN [parser |-> parser, n |-> Len(b)]
                ELSE [e EXCEPT !.parser = AfterExecute(e.parser)]
<1>1. /\ {"mISCompleted", "mIsWebSocket"} \subseteq DOMAIN r.parser
      /\ r.parser.mIsWebSocket \in BOOLEAN
      /\ r.parser.mIsWebSocket => r.parser.mISCompleted
  <2>1. CASE parser.mISCompleted
    BY <2>1 DEF CallsInv
  <2>2. CASE ~parser.mISCompleted
    <3>1. SpeaksHttp(parser) /\ Len(b) \in Nat
      BY LenProperties DEF CallsInv, SpeaksHttp
    <3>2. SpeaksHttp(e.parser) /\ "parser" \in DOMAIN e
      BY <3>1, ExecuteSpeaksHttp
    <3> HIDE DEF e
    <3>4. r.parser = AfterExecute(e.parser)
      BY <2>2, <3>2
    <3> QED BY <3>2, <3>4, AfterExecuteFlags
  <2> QED BY <2>1, <2>2
<1>2. /\ parser' = r.parser
      /\ IF Reportable(r.parser)
         THEN /\ calls' = calls \o Answers(r.parser)
              /\ pc' = "inHttp" /\ buffer' = b /\ used' = r.n
         ELSE /\ buffer' = Drop(b, r.n) /\ used' = used
              /\ Closed(calls) \/ calls' = calls
              /\ pc' = Rest(open')
  BY DEF ProcessHttp
<1>3. r.n \in Nat
  <2>1. Len(b) \in Nat
    BY LenProperties
  <2>2. CASE parser.mISCompleted
    BY <2>1, <2>2
  <2>3. CASE ~parser.mISCompleted
    <3>1. SpeaksHttp(parser)
      BY DEF CallsInv, SpeaksHttp
    <3>2. e.n \in Nat /\ "n" \in DOMAIN e
      BY <2>1, <3>1, ExecuteSpeaksHttp
    <3> HIDE DEF e
    <3> QED BY <2>3, <3>2
  <2> QED BY <2>2, <2>3
<1> HIDE DEF r
<1>4. CallsInv(calls \o Answers(r.parser), r.parser) /\ CallsInv(calls, r.parser)
  BY <1>1, AnswersKeep
<1>5. CASE Reportable(r.parser)
  BY <1>2, <1>3, <1>4, <1>5
<1>6. CASE ~Reportable(r.parser)
  <2>1. CallsInv(calls', r.parser)
    BY <1>2, <1>4, <1>6, ClosedKeeps
  <2>2. Drop(b, r.n) \in Seq(S)
    BY <1>3, DropIsSeq
  <2> QED BY <1>2, <1>6, <2>1, <2>2 DEF Rest
<1> QED BY <1>5, <1>6

\* A segment is received.
LEMMA ReceiveStep == ASSUME IInv, NEW n \in 1..Len(network), Receive(n) PROVE IInv'
<1> DEFINE b == buffer \o SubSeq(network, 1, n)
<1>1. network' = Drop(network, n) /\ DataHandler(b)
  BY DEF Receive
<1>2. CASE parser.mIsWebSocket
  <2>1. parser' = parser /\ calls' = calls
    BY <1>1, <1>2 DEF DataHandler
  <2> QED BY <1>2, <2>1 DEF IInv, StreamTypes, FramesOfWebSocket
<1>3. CASE ~parser.mIsWebSocket
  <2>1. used \in Nat
    BY <1>3 DEF IInv, StreamTypes
  <2>2. PICK S : network \in Seq(S) /\ buffer \in Seq(S)
    BY <1>3 DEF IInv, StreamTypes
  <2>3. n \in Nat
    BY <2>2, LenProperties
  <2>4. b \in Seq(S)
    <3>1. Len(network) \in Nat /\ \A i \in 1..Len(network) : network[i] \in S
      BY <2>2, LenProperties, ElementOfSeq
    <3>2. SubSeq(network, 1, n) \in Seq(S)
      BY <2>3, <3>1, SubSeqProperties
    <3> QED BY <2>2, <3>2, ConcatProperties
  <2>5. network' \in Seq(S)
    BY <1>1, <2>2, <2>3, DropIsSeq
  <2> HIDE DEF b
  <2>6. CASE parser.mIsUpgrade
    <3>1. buffer' = b /\ parser' = parser /\ calls' = calls /\ pc' = pc /\ used' = used
      BY <1>1, <1>3, <2>6 DEF DataHandler
    <3> QED BY <2>1, <2>4, <2>5, <3>1 DEF IInv, StreamTypes, FramesOfWebSocket
  <2>7. CASE ~parser.mIsUpgrade
    <3>1. ProcessHttp(b)
      BY <1>1, <1>3, <2>7 DEF DataHandler
    <3>2. /\ CallsInv(calls', parser')
          /\ buffer' \in Seq(S) /\ used' \in Nat
          /\ pc' \notin {"frames", "inWs"}
      BY <1>3, <2>1, <2>4, <3>1, ProcessHttpKeeps DEF IInv
    <3> QED BY <2>5, <3>2 DEF IInv, StreamTypes, FramesOfWebSocket
  <2> QED BY <2>6, <2>7
<1> QED BY <1>2, <1>3

\* The user's callback returns to dataHandler.
LEMMA HttpReturnStep == ASSUME IInv, HttpReturn PROVE IInv'
<1>1. /\ buffer' = Drop(buffer, used) /\ used' = 0 /\ network' = network /\ parser' = parser
      /\ pc' = Rest(open') /\ (calls' = calls \/ Closed(calls))
  BY DEF HttpReturn
<1>2. CallsInv(calls', parser')
  BY <1>1, ClosedKeeps DEF IInv
<1>3. FramesOfWebSocket'
  BY <1>1 DEF FramesOfWebSocket, Rest
<1>4. StreamTypes'
  <2> SUFFICES ASSUME ~parser.mIsWebSocket
               PROVE  (\E S : network' \in Seq(S) /\ buffer' \in Seq(S)) /\ used' \in Nat
    BY <1>1 DEF StreamTypes
  <2>1. PICK S : network \in Seq(S) /\ buffer \in Seq(S)
    BY DEF IInv, StreamTypes
  <2>2. used \in Nat
    BY DEF IInv, StreamTypes
  <2>3. buffer' \in Seq(S)
    BY <1>1, <2>1, <2>2, DropIsSeq
  <2> QED BY <1>1, <2>1, <2>3
<1> QED BY <1>2, <1>3, <1>4 DEF IInv

\* A frame is extracted: the connection is one of WebSocket, and what may be
\* reported is a message of it.
LEMMA FrameStep == ASSUME IInv, Frame PROVE IInv'
<1>1. parser' = parser /\ parser.mIsWebSocket
  BY DEF Frame, IInv, FramesOfWebSocket
<1>2. calls' = calls \/ \E c : c.cb = "ws" /\ calls' = Append(calls, c)
  <2>1. \A type, payload : WsCall(type, payload).cb = "ws"
    BY DEF WsCall
  <2> QED BY <2>1 DEF Frame
<1>3. CallsInv(calls', parser')
  <2>1. CASE calls' = calls
    BY <1>1, <2>1 DEF IInv
  <2>2. CASE \E c : c.cb = "ws" /\ calls' = Append(calls, c)
    <3>1. PICK c : c.cb = "ws" /\ calls' = Append(calls, c)
      BY <2>2
    <3>2. PICK S : calls \in Seq(S)
      BY DEF IInv, CallsInv
    <3>3. calls' \in Seq(S \cup {c})
      BY <3>1, <3>2, OneMore
    <3>4. InTurn(calls') /\ ~Answering(calls')
      BY <3>1, <3>2, FollowsAll DEF IInv, CallsInv
    <3> QED BY <1>1, <3>3, <3>4 DEF IInv, CallsInv
  <2> QED BY <1>2, <2>1, <2>2
<1> QED BY <1>1, <1>3 DEF IInv, StreamTypes, FramesOfWebSocket

\* The end of the stream.
LEMMA EofStep == ASSUME IInv, Eof PROVE IInv'
<1> DEFINE q == AfterExecute(ExecuteEof(parser))
<1>1. network' = network /\ buffer' = buffer /\ used' = used
  BY DEF Eof
<1>2. CASE parser.mISCompleted
  <2>1. parser' = parser /\ calls' = calls /\ pc' = pc
    BY <1>2 DEF Eof
  <2> QED BY <1>1, <2>1 DEF IInv, StreamTypes, FramesOfWebSocket
<1>3. CASE ~parser.mISCompleted
  <2>1. SpeaksHttp(parser)
    BY <1>3 DEF IInv, CallsInv, SpeaksHttp
  <2>2. /\ {"mISCompleted", "mIsWebSocket"} \subseteq DOMAIN q
        /\ q.mIsWebSocket \in BOOLEAN /\ (q.mIsWebSocket => q.mISCompleted)
    BY <2>1, EofSpeaksHttp, AfterExecuteFlags
  <2> HIDE DEF q
  <2>3. /\ parser' = q
        /\ calls' = calls \/ calls' = calls \o Answers(q)
        /\ pc' \in {"inEof", "idle"}
    BY <1>3 DEF Eof, q
  <2>4. CallsInv(calls', parser')
    BY <2>1, <2>2, <2>3, AnswersKeep DEF IInv, SpeaksHttp
  <2>5. StreamTypes'
    BY <1>1, <2>1 DEF IInv, StreamTypes, SpeaksHttp
  <2> QED BY <2>3, <2>4, <2>5 DEF IInv, FramesOfWebSocket
<1> QED BY <1>2, <1>3

\* Every step keeps the invariant.
LEMMA InvNext == IInv /\ [Next]_vars => IInv'
<1> SUFFICES ASSUME IInv, [Next]_vars PROVE IInv'
  OBVIOUS
<1>1. ASSUME NEW n \in 1..Len(network), Receive(n) PROVE IInv'
  BY <1>1, ReceiveStep
<1>2. CASE HttpReturn
  BY <1>2, HttpReturnStep
<1>3. CASE Frame
  BY <1>3, FrameStep
<1>4. CASE WsReturn
  BY <1>4 DEF WsReturn, user, IInv, StreamTypes, FramesOfWebSocket
<1>5. CASE FrameAwaited
  <2>1. parser.mIsWebSocket /\ parser' = parser /\ calls' = calls /\ pc' = Rest(open)
    BY <1>5 DEF FrameAwaited, user, IInv, FramesOfWebSocket
  <2> QED BY <2>1 DEF IInv, StreamTypes, FramesOfWebSocket, Rest
<1>6. CASE Eof
  BY <1>6, EofStep
<1>7. CASE EofReturn
  BY <1>7 DEF EofReturn, user, IInv, StreamTypes, FramesOfWebSocket
<1>8. CASE Close
  <2>1. /\ Closed(calls) /\ parser' = parser /\ network' = network /\ buffer' = buffer
        /\ used' = used /\ pc' = pc
    BY <1>8 DEF Close
  <2>2. CallsInv(calls', parser')
    BY <2>1, ClosedKeeps DEF IInv
  <2> QED BY <2>1, <2>2 DEF IInv, StreamTypes, FramesOfWebSocket
<1>9. CASE UNCHANGED vars
  BY <1>9 DEF vars, handler, user, IInv, StreamTypes, FramesOfWebSocket
<1> QED BY <1>1, <1>2, <1>3, <1>4, <1>5, <1>6, <1>7, <1>8, <1>9 DEF Next

\* The invariant holds of every behaviour.
LEMMA Invariance == Spec => []IInv
BY InvInit, InvNext, PTL DEF Spec

\* Whatever peers send, however it is cut into segments and whenever the user
\* closes the session: a connection turns to WebSocket once.  Nothing is reported
\* as HTTP behind that and no WebSocket message before it; a client's key is
\* answered right before its connection is reported, and not again.
THEOREM UpgradeOnceAlways == Spec => []UpgradeOnce
<1>1. IInv => UpgradeOnce
  BY DEF IInv, CallsInv, InTurn, UpgradeOnce
<1> QED BY <1>1, Invariance, PTL

-----------------------------------------------------------------------------
(* Sequences, whatever they hold. *)

\* A sequence is one over the set of what it holds.
LEMMA SeqIs ==
    /\ \A S : \A s \in Seq(S) : IsSeq(s)
    /\ \A s : IsSeq(s) => s \in Seq({s[i] : i \in 1..Len(s)}) /\ DOMAIN s = 1..Len(s)
<1>1. ASSUME NEW S, NEW s \in Seq(S) PROVE IsSeq(s)
  BY LenProperties DEF IsSeq
<1>2. ASSUME NEW s, IsSeq(s)
      PROVE  s \in Seq({s[i] : i \in 1..Len(s)}) /\ DOMAIN s = 1..Len(s)
  <2> DEFINE n == Len(s)
  <2>1. n \in Nat /\ s = [i \in 1..n |-> s[i]]
    BY <1>2 DEF IsSeq
  <2> HIDE DEF n
  <2>2. s \in [1..n -> {s[i] : i \in 1..n}]
    BY <2>1
  <2>3. DOMAIN s = 1..n
    BY <2>1
  <2>4. s \in Seq({s[i] : i \in 1..n})
    BY <2>1, <2>2, SeqDef
  <2> QED BY <2>3, <2>4 DEF n
<1> QED BY <1>1, <1>2

\* Two sequences are both over a set.
LEMMA OverOneSet ==
    ASSUME NEW s, IsSeq(s), NEW t, IsSeq(t), NEW u, IsSeq(u)
    PROVE  \E S : s \in Seq(S) /\ t \in Seq(S) /\ u \in Seq(S)
<1> DEFINE A == {s[i] : i \in 1..Len(s)}
           B == {t[i] : i \in 1..Len(t)}
           C == {u[i] : i \in 1..Len(u)}
<1>1. s \in Seq(A) /\ t \in Seq(B) /\ u \in Seq(C)
  BY SeqIs
<1> HIDE DEF A, B, C
<1>2. s \in Seq(A \cup B \cup C) /\ t \in Seq(A \cup B \cup C) /\ u \in Seq(A \cup B \cup C)
  <2>1. A \subseteq A \cup B \cup C /\ B \subseteq A \cup B \cup C /\ C \subseteq A \cup B \cup C
    OBVIOUS
  <2> QED BY <1>1, <2>1, SeqMonotonic
<1> QED BY <1>2

\* The elements of a sequence behind another are those of the one and the other.
LEMMA CatIs ==
    ASSUME NEW s, IsSeq(s), NEW t, IsSeq(t)
    PROVE  /\ IsSeq(s \o t) /\ Len(s \o t) = Len(s) + Len(t)
           /\ Len(s) \in Nat /\ Len(t) \in Nat
           /\ \A i \in 1..Len(s) : (s \o t)[i] = s[i]
           /\ \A i \in 1..Len(t) : (s \o t)[Len(s) + i] = t[i]
<1>1. PICK S : s \in Seq(S) /\ t \in Seq(S)
  BY OverOneSet
<1> DEFINE m == Len(s)
           n == Len(t)
           c == s \o t
<1>2. c \in Seq(S) /\ Len(c) = m + n /\ \A i \in 1..m + n : c[i] = IF i <= m THEN s[i] ELSE t[i - m]
  BY <1>1, ConcatProperties
<1>3. m \in Nat /\ n \in Nat
  BY <1>1, LenProperties
<1>4. IsSeq(c)
  BY <1>2, SeqIs
<1> HIDE DEF m, n, c
<1>5. \A i \in 1..m : c[i] = s[i]
  BY <1>2, <1>3
<1>6. ASSUME NEW i \in 1..n PROVE c[m + i] = t[i]
  <2>1. m + i \in 1..m + n /\ ~(m + i <= m) /\ (m + i) - m = i
    BY <1>3
  <2> QED BY <1>2, <2>1
<1> QED BY <1>2, <1>3, <1>4, <1>5, <1>6 DEF m, n, c

\* Of three it does not matter which two are joined first.
Associated(s, t, u) == (s \o t) \o u = s \o (t \o u)

\* All sequences are.
LEMMA CatAssociates ==
    ASSUME NEW s, IsSeq(s), NEW t, IsSeq(t), NEW u, IsSeq(u)
    PROVE  Associated(s, t, u)
<1>1. PICK S : s \in Seq(S) /\ t \in Seq(S) /\ u \in Seq(S)
  BY OverOneSet
<1> QED BY <1>1, ConcatAssociative DEF Associated

\* The empty sequence, and sequences of one.
LEMMA Few ==
    /\ IsSeq(<<>>) /\ Len(<<>>) = 0
    /\ \A s : IsSeq(s) => <<>> \o s = s /\ s \o <<>> = s /\ (s = <<>> <=> Len(s) = 0)
    /\ \A x : IsSeq(<<x>>) /\ Len(<<x>>) = 1 /\ <<x>>[1] = x
    /\ \A s, x : IsSeq(s) => Append(s, x) = s \o <<x>>
<1>1. \A x : <<x>> \in Seq({x}) /\ Len(<<x>>) = 1 /\ <<x>>[1] = x
  OBVIOUS
<1>2. IsSeq(<<>>) /\ Len(<<>>) = 0
  BY EmptySeq, SeqIs
<1>3. ASSUME NEW s, IsSeq(s) PROVE <<>> \o s = s /\ s \o <<>> = s /\ (s = <<>> <=> Len(s) = 0)
  <2>1. PICK S : s \in Seq(S)
    BY <1>3, SeqIs
  <2> QED BY <2>1, ConcatEmptySeq, EmptySeq
<1>4. ASSUME NEW s, NEW x, IsSeq(s) PROVE Append(s, x) = s \o <<x>>
  <2> DEFINE T == {x} \cup {s[i] : i \in 1..Len(s)}
  <2>1. s \in Seq({s[i] : i \in 1..Len(s)})
    BY <1>4, SeqIs
  <2>2. s \in Seq(T) /\ x \in T
    BY <2>1, SeqMonotonic
  <2> HIDE DEF T
  <2> QED BY <2>2, AppendIsConcat
<1> QED BY <1>1, <1>2, <1>3, <1>4, SeqIs

\* A sequence that gets longer by one.
LEMMA AppendIs ==
    ASSUME NEW s, IsSeq(s), NEW x
    PROVE  /\ IsSeq(Append(s, x)) /\ Len(Append(s, x)) = Len(s) + 1 /\ Len(s) \in Nat
           /\ \A i \in 1..Len(s) : Append(s, x)[i] = s[i]
           /\ Append(s, x)[Len(s) + 1] = x
<1>1. Append(s, x) = s \o <<x>> /\ IsSeq(<<x>>) /\ Len(<<x>>) = 1 /\ <<x>>[1] = x
  BY Few
<1>2. 1 \in 1..Len(<<x>>)
  BY <1>1
<1> QED BY <1>1, <1>2, CatIs

\* A part of a sequence.
LEMMA SubSeqIs ==
    ASSUME NEW s, NEW m \in Nat, NEW n \in Nat
    PROVE  LET t == SubSeq(s, m + 1, n) IN
           /\ IsSeq(t) /\ Len(t) = IF m <= n THEN n - m ELSE 0
           /\ \A i \in 1..Len(t) : t[i] = s[m + i]
<1> DEFINE S == {s[i] : i \in m + 1..n}
           t == SubSeq(s, m + 1, n)
<1>1. t \in Seq(S) /\ Len(t) = (IF m + 1 <= n THEN n - (m + 1) + 1 ELSE 0)
      /\ \A i \in 1..n - (m + 1) + 1 : t[i] = s[(m + 1) + i - 1]
  BY SubSeqProperties
<1> HIDE DEF t, S
<1>2. Len(t) = IF m <= n THEN n - m ELSE 0
  BY <1>1
<1>3. ASSUME NEW i \in 1..Len(t) PROVE t[i] = s[m + i]
  <2>1. i \in 1..n - (m + 1) + 1 /\ (m + 1) + i - 1 = m + i
    BY <1>2
  <2> QED BY <1>1, <2>1
<1>4. IsSeq(t)
  BY <1>1, SeqIs
<1> QED BY <1>2, <1>3, <1>4 DEF t

\* Sequences with the same elements are the same.
LEMMA Same ==
    ASSUME NEW s, IsSeq(s), NEW t, IsSeq(t), Len(s) = Len(t), \A i \in 1..Len(s) : s[i] = t[i]
    PROVE  s = t
BY DEF IsSeq

\* What is written as a function of places is a sequence.
LEMMA WrittenIs ==
    ASSUME NEW n \in Nat, NEW s, DOMAIN s = 1..n, s = [i \in 1..n |-> s[i]]
    PROVE  IsSeq(s) /\ Len(s) = n
<1>1. s \in [1..n -> {s[i] : i \in 1..n}]
  OBVIOUS
<1>2. s \in Seq({s[i] : i \in 1..n})
  BY <1>1, SeqDef
<1>3. Len(s) \in Nat /\ DOMAIN s = 1..Len(s)
  BY <1>2, LenProperties
<1>4. Len(s) = n
  BY <1>3
<1> QED BY <1>2, <1>4, SeqIs

\* FlattenSeq up to each of the first n sequences.
IsFlat(f, ss, n) == f = [i \in 1..n |-> IF i = 1 THEN ss[i] ELSE f[i - 1] \o ss[i]]

\* Such a function exists, and there are no two.
LEMMA FlatExists == ASSUME NEW ss, NEW n \in Nat PROVE \E f : IsFlat(f, ss, n)
<1> DEFINE T == {k \in Nat : \E f : IsFlat(f, ss, k)}
<1>1. 0 \in T
  <2> DEFINE f == [i \in 1..0 |-> ss[i]]
  <2>1. IsFlat(f, ss, 0)
    BY DEF IsFlat
  <2> QED BY <2>1
<1>2. ASSUME NEW k \in Nat, k \in T PROVE k + 1 \in T
  <2>1. PICK f : IsFlat(f, ss, k)
    BY <1>2
  <2> DEFINE g == [i \in 1..k + 1 |-> IF i = k + 1
                     THEN IF i = 1 THEN ss[i] ELSE f[k] \o ss[i] ELSE f[i]]
  <2>2. \A i \in 1..k : g[i] = f[i]
    BY SMT
  <2>3. g[k + 1] = IF k + 1 = 1 THEN ss[k + 1] ELSE f[k] \o ss[k + 1]
    OBVIOUS
  <2>4. \A i \in 1..k : f[i] = IF i = 1 THEN ss[i] ELSE f[i - 1] \o ss[i]
    BY <2>1 DEF IsFlat
  <2>5. ASSUME NEW i \in 1..k + 1
        PROVE  g[i] = IF i = 1 THEN ss[i] ELSE g[i - 1] \o ss[i]
    <3>1. CASE i = k + 1
      <4>1. i # 1 => i - 1 = k /\ k \in 1..k
        BY <3>1, SMT
      <4> QED BY <2>2, <2>3, <3>1, <4>1
    <3>2. CASE i # k + 1
      <4>1. i \in 1..k /\ (i # 1 => i - 1 \in 1..k)
        BY <3>2, SMT
      <4> QED BY <2>2, <2>4, <4>1
    <3> QED BY <3>1, <3>2
  <2>6. IsFlat(g, ss, k + 1)
    BY <2>5 DEF IsFlat
  <2> HIDE DEF g
  <2> QED BY <2>6
<1> HIDE DEF T
<1>3. n \in T
  BY <1>1, <1>2, NatSetInduction
<1> QED BY <1>3 DEF T

\* Two of them are the same where their sequences are.
LEMMA FlatUnique ==
    ASSUME NEW ss, NEW tt, NEW m \in Nat, NEW n \in Nat, m <= n, NEW f, NEW g,
           IsFlat(f, ss, m), IsFlat(g, tt, n), \A i \in 1..m : ss[i] = tt[i]
    PROVE  \A i \in 1..m : f[i] = g[i]
<1> DEFINE T == {k \in Nat : k + 1 \in 1..m => f[k + 1] = g[k + 1]}
<1>0. /\ \A i \in 1..m : f[i] = IF i = 1 THEN ss[i] ELSE f[i - 1] \o ss[i]
      /\ \A i \in 1..n : g[i] = IF i = 1 THEN tt[i] ELSE g[i - 1] \o tt[i]
  BY DEF IsFlat
<1>1. 0 \in T
  <2> SUFFICES ASSUME 1 \in 1..m PROVE f[1] = g[1]
    OBVIOUS
  <2>1. 1 \in 1..n
    BY SMT
  <2> QED BY <1>0, <2>1
<1>2. ASSUME NEW k \in Nat, k \in T PROVE k + 1 \in T
  <2> SUFFICES ASSUME (k + 1) + 1 \in 1..m PROVE f[(k + 1) + 1] = g[(k + 1) + 1]
    OBVIOUS
  <2> DEFINE i == (k + 1) + 1
  <2>1. /\ i \in 1..m /\ i \in 1..n /\ i # 1 /\ i - 1 = k + 1 /\ k + 1 \in 1..m
    BY SMT
  <2>2. f[k + 1] = g[k + 1]
    BY <1>2, <2>1
  <2> HIDE DEF i
  <2>3. f[i] = f[k + 1] \o ss[i] /\ g[i] = g[k + 1] \o tt[i]
    BY <1>0, <2>1
  <2> QED BY <2>1, <2>2, <2>3 DEF i
<1> HIDE DEF T
<1>3. Nat \subseteq T
  BY <1>1, <1>2, NatSetInduction
<1>4. ASSUME NEW i \in 1..m PROVE f[i] = g[i]
  <2>1. i - 1 \in Nat /\ (i - 1) + 1 = i
    BY SMT
  <2> QED BY <1>3, <2>1 DEF T
<1> QED BY <1>4

\* FlattenSeq is the last value of such a function.
LEMMA FlattenIsFlat ==
    ASSUME NEW ss, Len(ss) \in Nat
    PROVE  \E f : IsFlat(f, ss, Len(ss)) /\ (Len(ss) # 0 => FlattenSeq(ss) = f[Len(ss)])
<1> DEFINE Is(f) == f = [i \in 1..Len(ss) |-> IF i = 1 THEN ss[i] ELSE f[i - 1] \o ss[i]]
<1>1. \E f : Is(f)
  BY FlatExists DEF IsFlat
<1>2. Is(CHOOSE f : Is(f))
  BY <1>1
<1>3. Len(ss) # 0 => FlattenSeq(ss) = (CHOOSE f : Is(f))[Len(ss)]
  BY DEF FlattenSeq
<1>4. IsFlat(CHOOSE f : Is(f), ss, Len(ss))
  BY <1>2 DEF IsFlat
<1> HIDE DEF Is
<1> QED BY <1>3, <1>4

\* A sequence of sequences.
SeqsIn(ss) == IsSeq(ss) /\ \A i \in 1..Len(ss) : IsSeq(ss[i])
\* Its first k members.
Upto(ss, k) == SubSeq(ss, 1, k)

\* The first members of a sequence.
LEMMA UptoIs ==
    ASSUME NEW ss, IsSeq(ss), NEW k \in 0..Len(ss)
    PROVE  /\ IsSeq(Upto(ss, k)) /\ Len(Upto(ss, k)) = k
           /\ \A i \in 1..k : Upto(ss, k)[i] = ss[i]
           /\ k = Len(ss) => Upto(ss, k) = ss
<1>1. Len(ss) \in Nat /\ k \in Nat
  BY SMT DEF IsSeq
<1>2. IsSeq(Upto(ss, k)) /\ Len(Upto(ss, k)) = k /\ \A i \in 1..k : Upto(ss, k)[i] = ss[i]
  <2> DEFINE t == SubSeq(ss, 0 + 1, k)
  <2>1. IsSeq(t) /\ Len(t) = (IF 0 <= k THEN k - 0 ELSE 0) /\ \A i \in 1..Len(t) : t[i] = ss[0 + i]
    <3>1. 0 \in Nat
      OBVIOUS
    <3> QED BY <1>1, <3>1, SubSeqIs, Zenon
  <2>2. t = Upto(ss, k)
    BY DEF Upto
  <2> HIDE DEF t
  <2> QED BY <1>1, <2>1, <2>2
<1>3. k = Len(ss) => Upto(ss, k) = ss
  BY <1>2, Same
<1> QED BY <1>2, <1>3

\* What is flattened is a sequence, one member more is joined at its end.
LEMMA FlattenStep ==
    ASSUME NEW ss, SeqsIn(ss)
    PROVE  /\ FlattenSeq(Upto(ss, 0)) = <<>>
           /\ \A k \in 1..Len(ss) :
                 FlattenSeq(Upto(ss, k)) = FlattenSeq(Upto(ss, k - 1)) \o ss[k]
           /\ \A k \in 0..Len(ss) : IsSeq(FlattenSeq(Upto(ss, k)))
<1>0. Len(ss) \in Nat
  BY DEF SeqsIn, IsSeq
<1>1. FlattenSeq(Upto(ss, 0)) = <<>>
  <2>1. IsSeq(Upto(ss, 0)) /\ Len(Upto(ss, 0)) = 0
    BY <1>0, UptoIs DEF SeqsIn
  <2>2. Upto(ss, 0) = <<>>
    BY <2>1, Few
  <2> QED BY <2>1, <2>2 DEF FlattenSeq
<1>2. ASSUME NEW k \in 1..Len(ss)
      PROVE  FlattenSeq(Upto(ss, k)) = FlattenSeq(Upto(ss, k - 1)) \o ss[k]
  <2>0. k \in 0..Len(ss) /\ k - 1 \in 0..Len(ss) /\ k \in Nat /\ k - 1 \in Nat /\ k # 0
    BY <1>0, SMT
  <2> DEFINE s == Upto(ss, k)
             t == Upto(ss, k - 1)
  <2>1. /\ Len(s) = k /\ Len(t) = k - 1
        /\ \A i \in 1..k : s[i] = ss[i]
        /\ \A i \in 1..k - 1 : t[i] = ss[i]
    BY <2>0, UptoIs DEF SeqsIn
  <2> HIDE DEF s, t
  <2>2. PICK f : IsFlat(f, s, k) /\ FlattenSeq(s) = f[k]
    BY <2>0, <2>1, FlattenIsFlat
  <2>3. \A i \in 1..k : f[i] = IF i = 1 THEN s[i] ELSE f[i - 1] \o s[i]
    BY <2>2 DEF IsFlat
  <2>4. k \in 1..k
    BY <2>0, SMT
  <2>5. s[k] = ss[k]
    BY <2>1, <2>4
  <2>6. CASE k = 1
    <3>1. FlattenSeq(t) = <<>>
      BY <1>1, <2>6 DEF t
    <3>2. FlattenSeq(s) = ss[k]
      BY <2>2, <2>3, <2>4, <2>5, <2>6
    <3>3. IsSeq(ss[k])
      BY DEF SeqsIn
    <3> QED BY <3>1, <3>2, <3>3, Few DEF s, t
  <2>7. CASE k # 1
    <3>1. k - 1 # 0 /\ k - 1 \in 1..k - 1 /\ k - 1 <= k
      BY <2>0, <2>7, SMT
    <3>2. PICK g : IsFlat(g, t, k - 1) /\ FlattenSeq(t) = g[k - 1]
      BY <2>0, <2>1, <3>1, FlattenIsFlat
    <3>3. \A i \in 1..k - 1 : t[i] = s[i]
      BY <2>1, <2>0, SMT
    <3>4. g[k - 1] = f[k - 1]
      <4>1. PICK j : j = k - 1
        OBVIOUS
      <4>2. /\ j \in Nat /\ k \in Nat /\ j <= k /\ IsFlat(g, t, j) /\ IsFlat(f, s, k)
            /\ \A i \in 1..j : t[i] = s[i]
        BY <2>0, <2>2, <3>1, <3>2, <3>3, <4>1
      <4>3. \A i \in 1..j : g[i] = f[i]
        BY ONLY <4>2, FlatUnique
      <4> QED BY <3>1, <4>1, <4>3
    <3>5. FlattenSeq(s) = f[k - 1] \o ss[k]
      BY <2>2, <2>3, <2>4, <2>5, <2>7
    <3> QED BY <3>2, <3>4, <3>5 DEF s, t
  <2> QED BY <2>6, <2>7
<1> DEFINE T == {k \in Nat : k <= Len(ss) => IsSeq(FlattenSeq(Upto(ss, k)))}
<1>3. 0 \in T
  BY <1>1, Few
<1>4. ASSUME NEW k \in Nat, k \in T PROVE k + 1 \in T
  <2> SUFFICES ASSUME k + 1 <= Len(ss) PROVE IsSeq(FlattenSeq(Upto(ss, k + 1)))
    OBVIOUS
  <2>1. k + 1 \in 1..Len(ss) /\ k <= Len(ss) /\ (k + 1) - 1 = k
    BY <1>0, SMT
  <2>2. IsSeq(FlattenSeq(Upto(ss, k))) /\ IsSeq(ss[k + 1])
    BY <1>4, <2>1 DEF SeqsIn
  <2>3. FlattenSeq(Upto(ss, k + 1)) = FlattenSeq(Upto(ss, k)) \o ss[k + 1]
    BY <1>2, <2>1
  <2>4. IsSeq(FlattenSeq(Upto(ss, k)) \o ss[k + 1])
    BY <2>2, CatIs
  <2> QED BY <2>3, <2>4
<1> HIDE DEF T
<1>5. Nat \subseteq T
  BY <1>3, <1>4, NatSetInduction
<1>6. ASSUME NEW k \in 0..Len(ss) PROVE IsSeq(FlattenSeq(Upto(ss, k)))
  <2>1. k \in Nat /\ k <= Len(ss)
    BY <1>0, SMT
  <2> QED BY <1>5, <2>1 DEF T
<1> QED BY <1>1, <1>2, <1>6

\* So is all of it.
LEMMA FlattenIs == ASSUME NEW ss, SeqsIn(ss) PROVE IsSeq(FlattenSeq(ss))
<1>1. Len(ss) \in 0..Len(ss) /\ Upto(ss, Len(ss)) = ss
  BY UptoIs, SMT DEF SeqsIn, IsSeq
<1> QED BY <1>1, FlattenStep

\* What is behind the first members of a sequence.
LEMMA DropIs ==
    ASSUME NEW ss, IsSeq(ss), NEW k \in 0..Len(ss)
    PROVE  /\ IsSeq(Drop(ss, k)) /\ Len(Drop(ss, k)) = Len(ss) - k
           /\ \A i \in 1..Len(ss) - k : Drop(ss, k)[i] = ss[k + i]
           /\ Upto(ss, k) \o Drop(ss, k) = ss
<1>0. Len(ss) \in Nat /\ k \in Nat /\ k <= Len(ss)
  BY SMT DEF IsSeq
<1> DEFINE a == Upto(ss, k)
           b == Drop(ss, k)
<1>1. IsSeq(b) /\ Len(b) = Len(ss) - k /\ \A i \in 1..Len(ss) - k : b[i] = ss[k + i]
  BY <1>0, SubSeqIs DEF Drop
<1>2. IsSeq(a) /\ Len(a) = k /\ \A i \in 1..k : a[i] = ss[i]
  BY UptoIs
<1> HIDE DEF a, b
<1>3. /\ IsSeq(a \o b) /\ Len(a \o b) = Len(ss)
      /\ \A i \in 1..k : (a \o b)[i] = a[i]
      /\ \A i \in 1..Len(ss) - k : (a \o b)[k + i] = b[i]
  <2> DEFINE c == a \o b
  <2>1. k + (Len(ss) - k) = Len(ss)
    BY <1>0, SMT
  <2>2. /\ IsSeq(c) /\ Len(c) = Len(a) + Len(b)
        /\ \A i \in 1..Len(a) : c[i] = a[i]
        /\ \A i \in 1..Len(b) : c[Len(a) + i] = b[i]
    <3>1. IsSeq(a) /\ IsSeq(b)
      BY <1>1, <1>2
    <3> QED BY ONLY <3>1, CatIs
  <2> HIDE DEF c
  <2>3. Len(a) = k /\ Len(b) = Len(ss) - k
    BY <1>1, <1>2
  <2> QED BY <2>1, <2>2, <2>3 DEF c
<1>4. ASSUME NEW i \in 1..Len(ss) PROVE (a \o b)[i] = ss[i]
  <2>1. CASE i <= k
    <3>1. i \in 1..k
      BY <1>0, <2>1, SMT
    <3> QED BY <1>2, <1>3, <3>1
  <2>2. CASE ~(i <= k)
    <3>1. i - k \in 1..Len(ss) - k /\ k + (i - k) = i
      BY <1>0, <2>2, SMT
    <3>2. (a \o b)[k + (i - k)] = ss[k + (i - k)]
      BY <1>1, <1>3, <3>1
    <3> QED BY <3>1, <3>2
  <2> QED BY <2>1, <2>2
<1>5. a \o b = ss
  BY <1>3, <1>4, Same
<1> QED BY <1>1, <1>5 DEF a, b

\* What is flattened behind the first members starts with the next.
LEMMA FlattenDrop ==
    ASSUME NEW ss, SeqsIn(ss), NEW k \in 0..Len(ss)
    PROVE  /\ IsSeq(FlattenSeq(Drop(ss, k)))
           /\ FlattenSeq(Upto(ss, k)) \o FlattenSeq(Drop(ss, k)) = FlattenSeq(ss)
<1>0. Len(ss) \in Nat /\ k \in Nat /\ k <= Len(ss) /\ Len(ss) - k \in Nat
  BY SMT DEF IsSeq, SeqsIn
<1> DEFINE t == Drop(ss, k)
           n == Len(ss) - k
<1>1. IsSeq(t) /\ Len(t) = n /\ \A i \in 1..n : t[i] = ss[k + i]
  BY DropIs DEF SeqsIn
<1> HIDE DEF t
<1>2. SeqsIn(t)
  <2>1. \A i \in 1..n : k + i \in 1..Len(ss)
    BY <1>0, SMT
  <2> QED BY <1>1, <2>1 DEF SeqsIn
<1> DEFINE F(i) == FlattenSeq(Upto(ss, i))
           G(i) == FlattenSeq(Upto(t, i))
           T == {i \in Nat : i <= n => F(k) \o G(i) = F(k + i)}
<1>3. /\ \A i \in 1..Len(ss) : F(i) = F(i - 1) \o ss[i]
      /\ \A i \in 0..Len(ss) : IsSeq(F(i))
  BY FlattenStep
<1>4. /\ G(0) = <<>> /\ \A i \in 1..n : G(i) = G(i - 1) \o t[i]
      /\ \A i \in 0..n : IsSeq(G(i))
  BY <1>1, <1>2, FlattenStep
<1> HIDE DEF F, G
<1>5. 0 \in T
  <2>1. k + 0 = k /\ k \in 0..Len(ss)
    BY <1>0, SMT
  <2>2. IsSeq(F(k)) /\ G(0) = <<>>
    BY <1>3, <1>4
  <2>3. F(k) \o <<>> = F(k)
    BY <2>2, Few
  <2> QED BY <2>1, <2>2, <2>3
<1>6. ASSUME NEW i \in Nat, i \in T PROVE i + 1 \in T
  <2> SUFFICES ASSUME i + 1 <= n PROVE F(k) \o G(i + 1) = F(k + (i + 1))
    OBVIOUS
  <2>1. /\ i <= n /\ i + 1 \in 1..n /\ (i + 1) - 1 = i /\ i \in 0..n
        /\ k + (i + 1) \in 1..Len(ss) /\ (k + (i + 1)) - 1 = k + i /\ k + i \in 0..Len(ss)
    BY <1>0, SMT
  <2>2. F(k) \o G(i) = F(k + i)
    BY <1>6, <2>1
  <2>3. G(i + 1) = G(i) \o t[i + 1] /\ F(k + (i + 1)) = F(k + i) \o t[i + 1]
    BY <1>1, <1>3, <1>4, <2>1
  <2>4. IsSeq(F(k)) /\ IsSeq(G(i)) /\ IsSeq(t[i + 1])
    BY <1>0, <1>1, <1>2, <1>3, <1>4, <2>1 DEF SeqsIn
  <2>5. Associated(F(k), G(i), t[i + 1])
    BY <2>4, CatAssociates
  <2> QED BY <2>2, <2>3, <2>5 DEF Associated
<1>7. n \in T
  <2> HIDE DEF T
  <2> QED BY <1>0, <1>5, <1>6, NatSetInduction
<1>8. F(k) \o G(n) = F(k + n) /\ k + n = Len(ss)
  BY <1>0, <1>7, SMT
<1>9. Upto(t, n) = t /\ Upto(ss, k + n) = ss
  <2>1. n \in 0..Len(t) /\ k + n \in 0..Len(ss)
    BY <1>0, <1>1, SMT
  <2>2. IsSeq(ss)
    BY DEF SeqsIn
  <2> QED BY <1>1, <1>8, <2>1, <2>2, UptoIs
<1>10. IsSeq(FlattenSeq(t))
  BY <1>2, FlattenIs
<1> QED BY <1>8, <1>9, <1>10 DEF F, G, t

\* The places of a sequence that At chooses from its first n.
IsKept(f, s, places, n) ==
    f = [i \in 0..n |-> IF i = 0 THEN <<>>
                        ELSE IF i \in places THEN Append(f[i - 1], s[i]) ELSE f[i - 1]]

\* Such a function exists.
LEMMA KeptExists == ASSUME NEW s, NEW P, NEW n \in Nat PROVE \E f : IsKept(f, s, P, n)
<1> DEFINE T == {k \in Nat : \E f : IsKept(f, s, P, k)}
<1>1. 0 \in T
  <2> DEFINE f == [i \in 0..0 |-> <<>>]
  <2>1. IsKept(f, s, P, 0)
    BY DEF IsKept
  <2> QED BY <2>1
<1>2. ASSUME NEW k \in Nat, k \in T PROVE k + 1 \in T
  <2>1. PICK f : IsKept(f, s, P, k)
    BY <1>2
  <2> DEFINE g == [i \in 0..k + 1 |-> IF i = k + 1
                     THEN IF k + 1 \in P THEN Append(f[k], s[k + 1]) ELSE f[k] ELSE f[i]]
  <2>2. \A i \in 0..k : g[i] = f[i]
    BY SMT
  <2>3. g[k + 1] = IF k + 1 \in P THEN Append(f[k], s[k + 1]) ELSE f[k]
    OBVIOUS
  <2>4. \A i \in 0..k : f[i] = IF i = 0 THEN <<>>
                               ELSE IF i \in P THEN Append(f[i - 1], s[i]) ELSE f[i - 1]
    BY <2>1 DEF IsKept
  <2>5. ASSUME NEW i \in 0..k + 1
        PROVE  g[i] = IF i = 0 THEN <<>>
                      ELSE IF i \in P THEN Append(g[i - 1], s[i]) ELSE g[i - 1]
    <3>1. CASE i = k + 1
      <4>1. i - 1 = k /\ k \in 0..k /\ i # 0
        BY <3>1, SMT
      <4> QED BY <2>2, <2>3, <3>1, <4>1
    <3>2. CASE i # k + 1
      <4>1. i \in 0..k /\ (i # 0 => i - 1 \in 0..k)
        BY <3>2, SMT
      <4> QED BY <2>2, <2>4, <4>1
    <3> QED BY <3>1, <3>2
  <2>6. IsKept(g, s, P, k + 1)
    BY <2>5 DEF IsKept
  <2> HIDE DEF g
  <2> QED BY <2>6
<1> HIDE DEF T
<1>3. n \in T
  BY <1>1, <1>2, NatSetInduction
<1> QED BY <1>3 DEF T

\* Two of them are the same where their places and elements are.
LEMMA KeptUnique ==
    ASSUME NEW s, NEW t, NEW P, NEW Q, NEW m \in Nat, NEW n \in Nat, m <= n, NEW f, NEW g,
           IsKept(f, s, P, m), IsKept(g, t, Q, n),
           \A i \in 1..m : (i \in P <=> i \in Q) /\ (i \in P => s[i] = t[i])
    PROVE  f[m] = g[m]
<1> DEFINE T == {k \in Nat : k <= m => f[k] = g[k]}
<1>0. /\ \A i \in 0..m : f[i] = IF i = 0 THEN <<>>
                                ELSE IF i \in P THEN Append(f[i - 1], s[i]) ELSE f[i - 1]
      /\ \A i \in 0..n : g[i] = IF i = 0 THEN <<>>
                                ELSE IF i \in Q THEN Append(g[i - 1], t[i]) ELSE g[i - 1]
  BY DEF IsKept
<1>1. 0 \in T
  <2>1. 0 \in 0..m /\ 0 \in 0..n
    BY SMT
  <2> QED BY <1>0, <2>1
<1>2. ASSUME NEW k \in Nat, k \in T PROVE k + 1 \in T
  <2> SUFFICES ASSUME k + 1 <= m PROVE f[k + 1] = g[k + 1]
    OBVIOUS
  <2>1. /\ k + 1 \in 0..m /\ k + 1 \in 0..n /\ k + 1 # 0 /\ (k + 1) - 1 = k /\ k + 1 \in 1..m
        /\ k <= m
    BY SMT
  <2>2. f[k] = g[k]
    BY <1>2, <2>1
  <2>3. /\ f[k + 1] = IF k + 1 \in P THEN Append(f[k], s[k + 1]) ELSE f[k]
        /\ g[k + 1] = IF k + 1 \in Q THEN Append(g[k], t[k + 1]) ELSE g[k]
    BY <1>0, <2>1
  <2> QED BY <2>1, <2>2, <2>3
<1> HIDE DEF T
<1>3. m \in T
  BY <1>1, <1>2, NatSetInduction
<1> QED BY <1>3 DEF T

\* At is the last value of such a function.
LEMMA AtIsKept ==
    ASSUME NEW s, NEW P, Len(s) \in Nat
    PROVE  \E f : IsKept(f, s, P, Len(s)) /\ At(s, P) = f[Len(s)]
<1> DEFINE Is(f) == f = [i \in 0..Len(s) |-> IF i = 0 THEN <<>>
                        ELSE IF i \in P THEN Append(f[i - 1], s[i]) ELSE f[i - 1]]
<1>1. \E f : Is(f)
  <2>1. \E f : IsKept(f, s, P, Len(s))
    BY KeptExists
  <2> QED BY <2>1 DEF IsKept
<1>2. Is(CHOOSE f : Is(f))
  BY <1>1
<1>3. At(s, P) = (CHOOSE f : Is(f))[Len(s)]
  BY DEF At
<1>4. IsKept(CHOOSE f : Is(f), s, P, Len(s))
  BY <1>2 DEF IsKept
<1> HIDE DEF Is
<1> QED BY <1>3, <1>4

\* At takes nothing from nothing, and what it takes from a sequence is what it
\* takes from all but its last element, and that if it is wanted.
LEMMA AtStep ==
    /\ \A P : At(<<>>, P) = <<>>
    /\ \A s, t, P, Q :
          /\ IsSeq(s) /\ IsSeq(t) /\ Len(t) = Len(s) + 1
          /\ \A i \in 1..Len(s) : (i \in P <=> i \in Q) /\ (i \in P => s[i] = t[i])
          => At(t, Q) = IF Len(t) \in Q THEN Append(At(s, P), t[Len(t)]) ELSE At(s, P)
<1>1. ASSUME NEW P PROVE At(<<>>, P) = <<>>
  <2>1. Len(<<>>) = 0
    BY Few
  <2>2. PICK f : IsKept(f, <<>>, P, 0) /\ At(<<>>, P) = f[0]
    BY <2>1, AtIsKept
  <2> QED BY <2>2 DEF IsKept
<1>2. ASSUME NEW s, NEW t, NEW P, NEW Q, IsSeq(s), IsSeq(t), Len(t) = Len(s) + 1,
             \A i \in 1..Len(s) : (i \in P <=> i \in Q) /\ (i \in P => s[i] = t[i])
      PROVE  At(t, Q) = IF Len(t) \in Q THEN Append(At(s, P), t[Len(t)]) ELSE At(s, P)
  <2> DEFINE m == Len(s)
             n == Len(t)
  <2>1. m \in Nat /\ n = m + 1 /\ n \in Nat /\ m <= n /\ n \in 0..n /\ n # 0 /\ n - 1 = m
    BY <1>2, SMT DEF IsSeq
  <2>2. PICK f : IsKept(f, s, P, m) /\ At(s, P) = f[m]
    BY <2>1, AtIsKept
  <2>3. PICK g : IsKept(g, t, Q, n) /\ At(t, Q) = g[n]
    BY <2>1, AtIsKept
  <2>4. f[m] = g[m]
    BY <1>2, <2>1, <2>2, <2>3, KeptUnique
  <2>5. g[n] = IF n \in Q THEN Append(g[n - 1], t[n]) ELSE g[n - 1]
    <3> HIDE DEF n
    <3> QED BY <2>1, <2>3 DEF IsKept
  <2> QED BY <2>1, <2>2, <2>3, <2>4, <2>5
<1> QED BY <1>1, <1>2

\* What At takes is a sequence, and depends on what it takes only.
LEMMA AtIs ==
    /\ \A s, P : IsSeq(s) => IsSeq(At(s, P))
    /\ \A s, t, P, Q :
          /\ IsSeq(s) /\ IsSeq(t) /\ Len(t) = Len(s)
          /\ \A i \in 1..Len(s) : (i \in P <=> i \in Q) /\ (i \in P => s[i] = t[i])
          => At(t, Q) = At(s, P)
<1>1. ASSUME NEW s, NEW P, IsSeq(s) PROVE IsSeq(At(s, P))
  <2>0. Len(s) \in Nat
    BY <1>1 DEF IsSeq
  <2>1. PICK f : IsKept(f, s, P, Len(s)) /\ At(s, P) = f[Len(s)]
    BY <2>0, AtIsKept
  <2>2. \A i \in 0..Len(s) : f[i] = IF i = 0 THEN <<>>
                               ELSE IF i \in P THEN Append(f[i - 1], s[i]) ELSE f[i - 1]
    BY <2>1 DEF IsKept
  <2> DEFINE T == {k \in Nat : k <= Len(s) => IsSeq(f[k])}
  <2>3. 0 \in T
    BY <2>0, <2>2, Few
  <2>4. ASSUME NEW k \in Nat, k \in T PROVE k + 1 \in T
    <3> SUFFICES ASSUME k + 1 <= Len(s) PROVE IsSeq(f[k + 1])
      OBVIOUS
    <3>1. k + 1 \in 0..Len(s) /\ k + 1 # 0 /\ (k + 1) - 1 = k /\ k <= Len(s)
      BY <2>0, SMT
    <3>2. IsSeq(f[k]) /\ f[k + 1] = IF k + 1 \in P THEN Append(f[k], s[k + 1]) ELSE f[k]
      BY <2>2, <2>4, <3>1
    <3>3. IsSeq(Append(f[k], s[k + 1]))
      BY <3>2, AppendIs
    <3> QED BY <3>2, <3>3
  <2> HIDE DEF T
  <2>5. Len(s) \in T
    BY <2>0, <2>3, <2>4, NatSetInduction
  <2> QED BY <2>1, <2>5 DEF T
<1>2. ASSUME NEW s, NEW t, NEW P, NEW Q, IsSeq(s), IsSeq(t), Len(t) = Len(s),
             \A i \in 1..Len(s) : (i \in P <=> i \in Q) /\ (i \in P => s[i] = t[i])
      PROVE  At(t, Q) = At(s, P)
  <2>1. Len(s) \in Nat /\ Len(s) <= Len(s)
    BY <1>2, SMT DEF IsSeq
  <2>2. PICK f : IsKept(f, s, P, Len(s)) /\ At(s, P) = f[Len(s)]
    BY <2>1, AtIsKept
  <2>3. PICK g : IsKept(g, t, Q, Len(s)) /\ At(t, Q) = g[Len(s)]
    BY <1>2, <2>1, AtIsKept
  <2>4. f[Len(s)] = g[Len(s)]
    BY <1>2, <2>1, <2>2, <2>3, KeptUnique
  <2> QED BY <2>2, <2>3, <2>4
<1> QED BY <1>1, <1>2

-----------------------------------------------------------------------------
(* What http_parser makes of a sequence of units. *)

\* No error was found, and no end of a message.
Quiet(q) == ~q.error /\ ~q.stopped /\ ~q.mISCompleted

\* f is what becomes of the parser p with each of the units s.
IsFeed(f, p, s) == f = [i \in 0..Len(s) |-> IF i = 0 THEN p ELSE Feed(f[i - 1], s[i])]

\* The parser p is quiet up to q, where all of the units were looked at or an
\* error is.
Eats(p, s, q) ==
    /\ IsSeq(s)
    /\ \E f : /\ IsFeed(f, p, s)
              /\ \E n \in 0..Len(s) : /\ f[n] = q /\ (n = Len(s) \/ q.error)
                                      /\ \A i \in 1..n - 1 : Quiet(f[i])

\* Such a function exists.
LEMMA FeedExists == ASSUME NEW p, NEW s, Len(s) \in Nat PROVE \E f : IsFeed(f, p, s)
<1> DEFINE Is(f, n) == f = [i \in 0..n |-> IF i = 0 THEN p ELSE Feed(f[i - 1], s[i])]
           T == {n \in Nat : \E f : Is(f, n)}
<1>1. 0 \in T
  <2> DEFINE f == [i \in 0..0 |-> p]
  <2>1. Is(f, 0)
    OBVIOUS
  <2> QED BY <2>1
<1>2. ASSUME NEW n \in Nat, n \in T PROVE n + 1 \in T
  <2>1. PICK f : Is(f, n)
    BY <1>2
  <2> DEFINE g == [i \in 0..n + 1 |-> IF i = n + 1 THEN Feed(f[n], s[n + 1]) ELSE f[i]]
  <2>2. \A i \in 0..n : g[i] = f[i]
    BY SMT
  <2>3. g[n + 1] = Feed(f[n], s[n + 1])
    OBVIOUS
  <2>4. \A i \in 0..n : f[i] = IF i = 0 THEN p ELSE Feed(f[i - 1], s[i])
    BY <2>1
  <2>5. \A i \in 0..n + 1 : g[i] = IF i = 0 THEN p ELSE Feed(g[i - 1], s[i])
    BY <2>2, <2>3, <2>4
  <2>6. Is(g, n + 1)
    BY <2>5
  <2> HIDE DEF g, Is
  <2> QED BY <2>6
<1> HIDE DEF T
<1>3. Len(s) \in T
  BY <1>1, <1>2, NatSetInduction
<1> QED BY <1>3 DEF T, IsFeed

\* What it does at each place.
LEMMA FeedIs ==
    ASSUME NEW p, NEW s, NEW f, IsFeed(f, p, s), Len(s) \in Nat
    PROVE  f[0] = p /\ \A i \in 1..Len(s) : f[i] = Feed(f[i - 1], s[i])
<1>1. 0 \in 0..Len(s) /\ \A i \in 1..Len(s) : i \in 0..Len(s) /\ i # 0
  BY SMT
<1>2. \A i \in 0..Len(s) : f[i] = IF i = 0 THEN p ELSE Feed(f[i - 1], s[i])
  BY DEF IsFeed
<1> QED BY <1>1, <1>2

\* The units t are those of s behind the first k.
GoesOn(f, p, s, k, g, q, t) ==
    /\ IsFeed(f, p, s) /\ Len(s) \in Nat /\ IsFeed(g, q, t) /\ Len(t) \in Nat
    /\ k \in Nat /\ k + Len(t) <= Len(s) /\ f[k] = q
    /\ \A i \in 1..Len(t) : s[k + i] = t[i]

\* The parser makes of them there what it makes of them alone.
LEMMA FeedShift ==
    ASSUME NEW f, NEW p, NEW s, NEW k, NEW g, NEW q, NEW t, GoesOn(f, p, s, k, g, q, t)
    PROVE  \A i \in 0..Len(t) : f[k + i] = g[i]
<1>0. /\ IsFeed(f, p, s) /\ Len(s) \in Nat /\ IsFeed(g, q, t) /\ Len(t) \in Nat
      /\ k \in Nat /\ k + Len(t) <= Len(s) /\ f[k] = q
      /\ \A i \in 1..Len(t) : s[k + i] = t[i]
  BY DEF GoesOn
<1> DEFINE T == {i \in Nat : i <= Len(t) => f[k + i] = g[i]}
<1>1. 0 \in T
  <2>1. k + 0 = k
    BY <1>0
  <2> QED BY <1>0, <2>1, FeedIs
<1>2. ASSUME NEW i \in Nat, i \in T PROVE i + 1 \in T
  <2> SUFFICES ASSUME i + 1 <= Len(t) PROVE f[k + (i + 1)] = g[i + 1]
    OBVIOUS
  <2>1. /\ i <= Len(t) /\ i + 1 \in 1..Len(t) /\ (i + 1) - 1 = i
        /\ k + (i + 1) \in 1..Len(s) /\ (k + (i + 1)) - 1 = k + i
    BY <1>0, SMT
  <2>2. g[i + 1] = Feed(g[i], t[i + 1])
    BY <1>0, <2>1, FeedIs
  <2>3. f[k + (i + 1)] = Feed(f[k + i], s[k + (i + 1)])
    BY <1>0, <2>1, FeedIs
  <2>4. f[k + i] = g[i] /\ s[k + (i + 1)] = t[i + 1]
    BY <1>0, <1>2, <2>1
  <2> QED BY <2>2, <2>3, <2>4
<1> HIDE DEF T
<1>3. Nat \subseteq T
  BY <1>1, <1>2, NatSetInduction
<1>4. ASSUME NEW i \in 0..Len(t) PROVE f[k + i] = g[i]
  <2>1. i \in Nat /\ i <= Len(t)
    BY <1>0, SMT
  <2> QED BY <1>3, <2>1 DEF T
<1> QED BY <1>4

\* From nothing nothing comes, from one unit what Feed makes of it.
LEMMA EatsFew ==
    /\ \A p : Eats(p, <<>>, p)
    /\ \A p, u : Eats(p, <<u>>, Feed(p, u))
<1>1. ASSUME NEW p PROVE Eats(p, <<>>, p)
  <2>1. Len(<<>>) = 0 /\ IsSeq(<<>>) /\ Len(<<>>) \in Nat
    BY Few
  <2>2. PICK f : IsFeed(f, p, <<>>)
    BY <2>1, FeedExists
  <2>3. f[0] = p
    BY <2>1, <2>2, FeedIs
  <2>4. 0 \in 0..0 /\ \A i \in 1..0 - 1 : Quiet(f[i])
    BY SMT
  <2> QED BY <2>1, <2>2, <2>3, <2>4 DEF Eats
<1>2. ASSUME NEW p, NEW u PROVE Eats(p, <<u>>, Feed(p, u))
  <2> DEFINE s == <<u>>
             q == Feed(p, u)
  <2>1. Len(s) = 1 /\ IsSeq(s) /\ s[1] = u /\ Len(s) \in Nat
    BY Few
  <2> HIDE DEF s
  <2>2. PICK f : IsFeed(f, p, s)
    BY <2>1, FeedExists
  <2>3. 1 \in 1..1 /\ 1 - 1 = 0 /\ 1 \in 0..1
    OBVIOUS
  <2>4. f[1] = q
    BY <2>1, <2>2, <2>3, FeedIs
  <2>5. \A i \in 1..1 - 1 : Quiet(f[i])
    BY SMT
  <2> HIDE DEF q
  <2>6. Eats(p, s, q)
    BY <2>1, <2>2, <2>3, <2>4, <2>5 DEF Eats
  <2> QED BY <2>6 DEF s, q
<1> QED BY <1>1, <1>2

\* The units of one sequence and then those of another.
LEMMA EatsCat ==
    ASSUME NEW p, NEW q, NEW r, NEW s, NEW t, Eats(p, s, q), Eats(q, t, r), Quiet(q)
    PROVE  Eats(p, s \o t, r)
<1> DEFINE m == Len(s)
           c == s \o t
<1>1. IsSeq(s) /\ IsSeq(t)
  BY DEF Eats
<1>2. /\ IsSeq(c) /\ Len(c) = m + Len(t) /\ m \in Nat /\ Len(t) \in Nat
      /\ \A i \in 1..m : c[i] = s[i]
      /\ \A i \in 1..Len(t) : c[m + i] = t[i]
  BY ONLY <1>1, CatIs
<1>3. PICK f : IsFeed(f, p, s) /\ f[m] = q /\ \A i \in 1..m - 1 : Quiet(f[i])
  BY DEF Eats, Quiet
<1>41. PICK g : /\ IsFeed(g, q, t)
               /\ \E n \in 0..Len(t) : /\ g[n] = r /\ (n = Len(t) \/ r.error)
                                       /\ \A i \in 1..n - 1 : Quiet(g[i])
  BY DEF Eats
<1>4. PICK n \in 0..Len(t) : /\ g[n] = r /\ (n = Len(t) \/ r.error)
                             /\ \A i \in 1..n - 1 : Quiet(g[i])
  BY <1>41
<1> HIDE DEF c, m
<1>5. PICK h : IsFeed(h, p, c)
  <2>1. Len(c) \in Nat
    BY <1>2, SMT
  <2> QED BY <2>1, FeedExists
<1>6. \A i \in 0..m : h[i] = f[i]
  <2>1. /\ 0 \in Nat /\ 0 + m <= Len(c) /\ Len(c) \in Nat /\ m \in Nat
        /\ \A i \in 0..m : 0 + i = i
    BY <1>2, SMT
  <2>2. h[0] = p
    BY <1>5, <2>1, FeedIs
  <2>3. \A i \in 1..m : c[0 + i] = s[i]
    BY <1>2, SMT
  <2>4. GoesOn(h, p, c, 0, f, p, s)
    BY <1>3, <1>5, <2>1, <2>2, <2>3 DEF GoesOn, m
  <2>5. \A i \in 0..m : h[0 + i] = f[i]
    BY <2>4, FeedShift DEF m
  <2> QED BY <2>1, <2>5
<1>7. h[m] = q
  <2>1. m \in 0..m
    BY <1>2, SMT
  <2> QED BY <1>3, <1>6, <2>1
<1>8. \A i \in 0..Len(t) : h[m + i] = g[i]
  <2>1. Len(c) \in Nat /\ m + Len(t) <= Len(c) /\ m \in Nat /\ Len(t) \in Nat
    BY <1>2, SMT
  <2>2. \A i \in 1..Len(t) : c[m + i] = t[i]
    BY <1>2
  <2>3. IsFeed(g, q, t) /\ IsFeed(h, p, c) /\ h[m] = q
    BY <1>41, <1>5, <1>7
  <2>4. GoesOn(h, p, c, m, g, q, t)
    BY <2>1, <2>2, <2>3 DEF GoesOn
  <2> QED BY ONLY <2>4, FeedShift
<1>9. h[m + n] = r
  BY <1>4, <1>8
<1>10. ASSUME NEW i \in 1..(m + n) - 1 PROVE Quiet(h[i])
  <2>1. CASE i < m
    <3>1. i \in 0..m /\ i \in 1..m - 1
      BY <1>2, <2>1, SMT
    <3> QED BY <1>3, <1>6, <3>1
  <2>2. CASE i = m
    BY <1>7, <2>2
  <2>3. CASE m < i
    <3>1. i - m \in 0..Len(t) /\ i - m \in 1..n - 1 /\ m + (i - m) = i
      BY <1>2, <1>4, <2>3, SMT
    <3> QED BY <1>4, <1>8, <3>1
  <2>4. i < m \/ i = m \/ m < i
    BY <1>2, SMT
  <2> QED BY <2>1, <2>2, <2>3, <2>4
<1>11. m + n \in 0..Len(c) /\ (m + n = Len(c) \/ r.error)
  <2>1. m + n \in 0..Len(c) /\ (n = Len(t) => m + n = Len(c))
    BY <1>2, <1>4, SMT
  <2> QED BY <1>4, <2>1
<1> QED BY <1>2, <1>5, <1>9, <1>10, <1>11 DEF Eats, c

\* What is behind an error is not looked at.
LEMMA EatsError ==
    ASSUME NEW p, NEW q, NEW s, NEW t, Eats(p, s, q), q.error, IsSeq(t)
    PROVE  Eats(p, s \o t, q)
<1> DEFINE m == Len(s)
           c == s \o t
<1>1. IsSeq(s)
  BY DEF Eats
<1>2. /\ IsSeq(c) /\ Len(c) = m + Len(t) /\ m \in Nat /\ Len(t) \in Nat
      /\ \A i \in 1..m : c[i] = s[i]
  BY ONLY <1>1, IsSeq(t), CatIs
<1>31. PICK f : /\ IsFeed(f, p, s)
               /\ \E n \in 0..m : f[n] = q /\ \A i \in 1..n - 1 : Quiet(f[i])
  BY DEF Eats
<1>3. PICK n \in 0..m : f[n] = q /\ \A i \in 1..n - 1 : Quiet(f[i])
  BY <1>31
<1> HIDE DEF c, m
<1>5. PICK h : IsFeed(h, p, c)
  <2>1. Len(c) \in Nat
    BY <1>2, SMT
  <2> QED BY <2>1, FeedExists
<1>6. \A i \in 0..m : h[i] = f[i]
  <2>1. /\ 0 \in Nat /\ 0 + m <= Len(c) /\ Len(c) \in Nat /\ m \in Nat
        /\ \A i \in 0..m : 0 + i = i
    BY <1>2, SMT
  <2>2. h[0] = p
    BY <1>5, <2>1, FeedIs
  <2>3. \A i \in 1..m : c[0 + i] = s[i]
    BY <1>2, SMT
  <2>4. GoesOn(h, p, c, 0, f, p, s)
    BY <1>31, <1>5, <2>1, <2>2, <2>3 DEF GoesOn, m
  <2>5. \A i \in 0..m : h[0 + i] = f[i]
    BY <2>4, FeedShift DEF m
  <2> QED BY <2>1, <2>5
<1>7. n \in 0..Len(c) /\ \A i \in 1..n - 1 : i \in 0..m
  BY <1>2, <1>3, SMT
<1>8. h[n] = q /\ \A i \in 1..n - 1 : Quiet(h[i])
  BY <1>3, <1>6, <1>7
<1> QED BY <1>2, <1>5, <1>7, <1>8 DEF Eats, c

\* The units that write more than one place, with the states between them.
LEMMA EatsAll ==
    ASSUME NEW p, NEW s, IsSeq(s), NEW f, IsFeed(f, p, s),
           \A i \in 1..Len(s) - 1 : Quiet(f[i])
    PROVE  Eats(p, s, f[Len(s)])
<1>1. Len(s) \in 0..Len(s)
  BY SMT DEF IsSeq
<1> QED BY <1>1 DEF Eats

\* The members of a parser.
Members == {"at", "error", "stopped", "request", "status", "http11", "flags", "length", "upgrade",
            "mISCompleted", "mIsUpgrade", "mIsWebSocket", "mLastWasValue", "mCurrentField",
            "mHeadValues", "mUrl", "mBody"}
IsParser(p) == p = [x \in Members |-> p[x]]

\* q is a parser that agrees with p but for some members.
Like(q, p, names) == IsParser(q) /\ \A x \in Members \ names : q[x] = p[x]

\* So do parsers that agree with one that does.
LEMMA LikeLike ==
    ASSUME NEW p, NEW q, NEW r, NEW names, NEW more, Like(q, p, names), Like(r, q, more)
    PROVE  Like(r, p, names \cup more)
BY DEF Like

\* What Feed is of each unit.
LEMMA Fed ==
    ASSUME NEW p, NEW v
    PROVE  /\ p.at = "start" => Feed(p, Unit("start", v)) = Start(p, v)
           /\ p.at = "head" =>
                /\ Feed(p, Unit("url", v)) = [p EXCEPT !.mUrl = v]
                /\ Feed(p, Unit("field", v)) = HeadField(p, v)
                /\ Feed(p, Unit("value", v)) = HeadValue(p, <<v>>)
                /\ Feed(p, Unit("line", v)) = Line(p, v)
                /\ Feed(p, Unit("headersEnd", v)) = HeadersEnd(p)
           /\ p.at \in {"identity", "eof", "chunkData"} => Feed(p, Unit("data", v)) = Data(p, v)
           /\ p.at = "chunkSize" => Feed(p, Unit("chunkSize", v)) = ChunkSize(p, v)
           /\ p.at = "chunkEnd" => Feed(p, Unit("chunkEnd", v)) = [p EXCEPT !.at = "chunkSize"]
           /\ p.at # "start" => Feed(p, Unit("start", v)) = Failed(p)
           /\ Feed(p, Unit("byte", v)) = Failed(p)
<1>1. \A k : Unit(k, v).kind = k /\ Unit(k, v).v = v
  BY DEF Unit
<1>2. p.at = "start" => Feed(p, Unit("start", v)) = Start(p, v)
  BY <1>1 DEF Feed
<1>3. p.at = "head" => /\ Feed(p, Unit("url", v)) = [p EXCEPT !.mUrl = v]
                       /\ Feed(p, Unit("field", v)) = HeadField(p, v)
  BY <1>1 DEF Feed
<1>4. p.at = "head" => /\ Feed(p, Unit("value", v)) = HeadValue(p, <<v>>)
                       /\ Feed(p, Unit("line", v)) = Line(p, v)
  BY <1>1 DEF Feed
<1>5. p.at = "head" => Feed(p, Unit("headersEnd", v)) = HeadersEnd(p)
  BY <1>1 DEF Feed
<1>6. p.at \in {"identity", "eof", "chunkData"} => Feed(p, Unit("data", v)) = Data(p, v)
  BY <1>1 DEF Feed
<1>7. /\ p.at = "chunkSize" => Feed(p, Unit("chunkSize", v)) = ChunkSize(p, v)
      /\ p.at = "chunkEnd" => Feed(p, Unit("chunkEnd", v)) = [p EXCEPT !.at = "chunkSize"]
  BY <1>1 DEF Feed
<1>8. /\ p.at # "start" => Feed(p, Unit("start", v)) = Failed(p)
      /\ Feed(p, Unit("byte", v)) = Failed(p)
  BY <1>1 DEF Feed
<1> QED BY <1>2, <1>3, <1>4, <1>5, <1>6, <1>7, <1>8

\* A list of header fields and their values with one more, or with a new value.
LEMMA WithIs ==
    /\ \A headers, field, value : ValueOf(With(headers, field, value), field) = value
    /\ \A headers, field, value, other :
          With(With(headers, field, value), field, other) = With(headers, field, other)
    /\ \A headers, field : field \notin DOMAIN headers => ValueOf(headers, field) = <<>>
BY DEF With, ValueOf

\* One member more of a sequence.
LEMMA UptoMore ==
    ASSUME NEW s, IsSeq(s), NEW k \in Nat, k + 1 <= Len(s)
    PROVE  /\ Upto(s, k + 1) = Append(Upto(s, k), s[k + 1])
           /\ Upto(s, k + 1) = Upto(s, k) \o <<s[k + 1]>>
           /\ Upto(s, 0) = <<>> /\ Upto(s, 1) = <<s[1]>>
<1>0. Len(s) \in Nat
  BY DEF IsSeq
<1>1. 0 \in 0..Len(s) /\ k \in 0..Len(s) /\ k + 1 \in 0..Len(s) /\ 1 \in 0..Len(s)
  BY <1>0, SMT
<1>2. /\ \A j \in {0, 1, k, k + 1} : IsSeq(Upto(s, j)) /\ Len(Upto(s, j)) = j
                                     /\ \A i \in 1..j : Upto(s, j)[i] = s[i]
  BY <1>1, UptoIs
<1>3. Upto(s, 0) = <<>>
  BY <1>2, Few
<1>4. Upto(s, 1) = <<s[1]>>
  <2>1. IsSeq(<<s[1]>>) /\ Len(<<s[1]>>) = 1 /\ <<s[1]>>[1] = s[1]
    BY Few
  <2>2. \A i \in 1..1 : i = 1
    OBVIOUS
  <2>3. \A i \in 1..1 : Upto(s, 1)[i] = <<s[1]>>[i]
    BY <1>2, <2>1, <2>2
  <2> QED BY <1>2, <2>1, <2>3, Same
<1>5. Upto(s, k + 1) = Append(Upto(s, k), s[k + 1])
  <2> DEFINE a == Append(Upto(s, k), s[k + 1])
  <2>1. IsSeq(a) /\ Len(a) = k + 1 /\ (\A i \in 1..k : a[i] = Upto(s, k)[i]) /\ a[k + 1] = s[k + 1]
    BY <1>2, AppendIs
  <2> HIDE DEF a
  <2>2. \A i \in 1..k + 1 : i \in 1..k \/ i = k + 1
    OBVIOUS
  <2>3. \A i \in 1..k + 1 : Upto(s, k + 1)[i] = a[i]
    <3>1. k + 1 \in 1..k + 1 /\ \A i \in 1..k : i \in 1..k + 1
      OBVIOUS
    <3> QED BY <1>2, <2>1, <2>2, <3>1
  <2>4. Upto(s, k + 1) = a
    BY <1>2, <2>1, <2>3, Same
  <2> QED BY <2>4 DEF a
<1> QED BY <1>2, <1>3, <1>4, <1>5, Few

\* A sequence that is written place by place after another one.
LEMMA UnitsOf ==
    ASSUME NEW s, IsSeq(s), NEW kind
    PROVE  LET t == [i \in DOMAIN s |-> Unit(kind, s[i])] IN
           IsSeq(t) /\ Len(t) = Len(s) /\ \A i \in 1..Len(s) : t[i] = Unit(kind, s[i])
<1> DEFINE t == [i \in DOMAIN s |-> Unit(kind, s[i])]
<1>1. DOMAIN s = 1..Len(s) /\ Len(s) \in Nat
  BY SeqIs DEF IsSeq
<1>2. DOMAIN t = 1..Len(s) /\ t = [i \in 1..Len(s) |-> t[i]]
      /\ \A i \in 1..Len(s) : t[i] = Unit(kind, s[i])
  BY <1>1
<1> HIDE DEF t
<1>3. IsSeq(t) /\ Len(t) = Len(s)
  BY <1>1, <1>2, WrittenIs
<1> QED BY <1>2, <1>3 DEF t

-----------------------------------------------------------------------------
(* The lines of the headers. *)

\* The pieces of a field.
LEMMA FieldEaten ==
    ASSUME NEW p, IsParser(p), p.at = "head", Quiet(p), p.mLastWasValue,
           NEW field, IsSeq(field), field # <<>>
    PROVE  \E q : /\ Eats(p, [i \in DOMAIN field |-> Unit("field", field[i])], q)
                  /\ Like(q, p, {"mCurrentField", "mLastWasValue"})
                  /\ q.mCurrentField = field /\ ~q.mLastWasValue
<1> DEFINE s == [i \in DOMAIN field |-> Unit("field", field[i])]
           n == Len(field)
           names == {"mCurrentField", "mLastWasValue"}
<1>1. n \in Nat /\ n # 0
  BY Few DEF IsSeq
<1>2. IsSeq(s) /\ Len(s) = n /\ \A i \in 1..n : s[i] = Unit("field", field[i])
  BY UnitsOf
<1> HIDE DEF s, n
<1>3. PICK f : IsFeed(f, p, s)
  BY <1>1, <1>2, FeedExists
<1>4. f[0] = p /\ \A i \in 1..n : f[i] = Feed(f[i - 1], s[i])
  BY <1>1, <1>2, <1>3, FeedIs
<1> DEFINE Is(q, k) == Like(q, p, names) /\ q.mCurrentField = Upto(field, k) /\ ~q.mLastWasValue
           T == {k \in Nat : k + 1 <= n => Is(f[k + 1], k + 1)}
<1>5. ASSUME NEW q, NEW v, IsParser(q), q.at = "head"
      PROVE  /\ Like(Feed(q, Unit("field", v)), q, names)
             /\ q.mLastWasValue => Feed(q, Unit("field", v)).mCurrentField = <<v>>
             /\ ~q.mLastWasValue =>
                    Feed(q, Unit("field", v)).mCurrentField = Append(q.mCurrentField, v)
             /\ ~Feed(q, Unit("field", v)).mLastWasValue
  <2>1. Feed(q, Unit("field", v)) = HeadField(q, v)
    BY <1>5, Fed
  <2> QED BY <1>5, <2>1 DEF HeadField, IsParser, Like, Members
<1>6. 0 \in T
  <2> SUFFICES ASSUME 0 + 1 <= n PROVE Is(f[1], 1)
    BY SMT
  <2>1. 1 \in 1..n /\ 1 - 1 = 0
    BY <1>1, SMT
  <2>2. f[1] = Feed(p, Unit("field", field[1]))
    BY <1>2, <1>4, <2>1
  <2>3. Upto(field, 1) = <<field[1]>>
    <3>1. 0 \in Nat /\ 0 + 1 <= Len(field)
      BY <1>1, SMT DEF n
    <3> QED BY <3>1, UptoMore
  <2> HIDE DEF names
  <2> QED BY <1>5, <2>2, <2>3
<1>7. ASSUME NEW k \in Nat, k \in T PROVE k + 1 \in T
  <2> SUFFICES ASSUME (k + 1) + 1 <= n PROVE Is(f[(k + 1) + 1], (k + 1) + 1)
    OBVIOUS
  <2> DEFINE l == k + 1
  <2>1. l \in Nat /\ l + 1 \in 1..n /\ (l + 1) - 1 = l /\ l <= n /\ l + 1 <= n
    BY <1>1, SMT
  <2>2. Is(f[l], l)
    BY <1>7, <2>1
  <2> HIDE DEF l
  <2>3. f[l + 1] = Feed(f[l], Unit("field", field[l + 1]))
    BY <1>2, <1>4, <2>1
  <2>4. Upto(field, l + 1) = Append(Upto(field, l), field[l + 1])
    BY <2>1, UptoMore DEF n
  <2>5. f[l].at = "head" /\ IsParser(f[l])
    BY <2>2 DEF Like, Members
  <2> HIDE DEF names
  <2>6. Like(f[l + 1], p, names)
    <3>1. names \cup names = names
      OBVIOUS
    <3>2. Like(f[l], p, names) /\ Like(f[l + 1], f[l], names)
      BY <1>5, <2>2, <2>3, <2>5
    <3>3. Like(f[l + 1], p, names \cup names)
      BY ONLY <3>2, LikeLike
    <3> QED BY <3>1, <3>3
  <2>7. Is(f[l + 1], l + 1)
    <3>1. f[l].mCurrentField = Upto(field, l) /\ ~f[l].mLastWasValue
      BY <2>2
    <3>2. /\ f[l + 1].mCurrentField = Append(f[l].mCurrentField, field[l + 1])
          /\ ~f[l + 1].mLastWasValue
      BY <1>5, <2>3, <2>5, <3>1
    <3> QED BY <2>4, <2>6, <3>1, <3>2
  <2> QED BY <2>7 DEF l
<1>8. \A k \in 1..n : Is(f[k], k)
  <2> HIDE DEF T
  <2>1. Nat \subseteq T
    BY <1>6, <1>7, NatSetInduction
  <2> SUFFICES ASSUME NEW k \in 1..n PROVE Is(f[k], k)
    OBVIOUS
  <2>2. k - 1 \in Nat /\ (k - 1) + 1 = k /\ k <= n
    BY <1>1, SMT
  <2>3. k - 1 \in T
    BY <2>1, <2>2
  <2> HIDE DEF Is
  <2> QED BY <2>2, <2>3 DEF T
<1>9. \A k \in 1..n : Quiet(f[k])
  BY <1>8 DEF Like, Members, Quiet
<1>10. Eats(p, s, f[n])
  <2>1. \A k \in 1..n - 1 : k \in 1..n
    BY <1>1, SMT
  <2> QED BY <1>2, <1>3, <1>9, <2>1, EatsAll
<1>11. Is(f[n], n) /\ Upto(field, n) = field
  <2>1. n \in 1..n /\ n \in 0..n
    BY <1>1, SMT
  <2> QED BY <1>8, <2>1, UptoIs DEF n
<1> QED BY <1>10, <1>11 DEF s

\* The pieces of a value.
LEMMA ValueEaten ==
    ASSUME NEW p, IsParser(p), p.at = "head", Quiet(p), ~p.mLastWasValue,
           NEW value, IsSeq(value)
    PROVE  \E q : /\ Eats(p, [i \in DOMAIN value |-> Unit("value", value[i])], q)
                  /\ Like(q, p, {"mHeadValues", "mLastWasValue"})
                  /\ value = <<>> => q = p
                  /\ value # <<>> =>
                       /\ q.mLastWasValue
                       /\ p.mCurrentField \notin DOMAIN p.mHeadValues =>
                            q.mHeadValues = With(p.mHeadValues, p.mCurrentField, value)
<1> DEFINE s == [i \in DOMAIN value |-> Unit("value", value[i])]
           n == Len(value)
           names == {"mHeadValues", "mLastWasValue"}
           fresh == p.mCurrentField \notin DOMAIN p.mHeadValues
           Had(v) == With(p.mHeadValues, p.mCurrentField, v)
<1>1. n \in Nat
  BY DEF IsSeq
<1>2. IsSeq(s) /\ Len(s) = n /\ \A i \in 1..n : s[i] = Unit("value", value[i])
  BY UnitsOf
<1>20. value = <<>> <=> n = 0
  BY Few
<1>21. Like(p, p, names)
  BY DEF Like
<1> HIDE DEF s, n
<1>3. CASE n = 0
  <2>1. s = <<>>
    BY <1>2, <1>3, Few
  <2>2. Eats(p, s, p)
    BY <2>1, EatsFew
  <2> QED BY <1>3, <1>20, <1>21, <2>2 DEF s
<1>4. CASE n # 0
  <2>1. PICK f : IsFeed(f, p, s)
    BY <1>1, <1>2, FeedExists
  <2>2. f[0] = p /\ \A i \in 1..n : f[i] = Feed(f[i - 1], s[i])
    BY <1>1, <1>2, <2>1, FeedIs
  <2> DEFINE Is(q, k) == /\ Like(q, p, names) /\ q.mLastWasValue
                         /\ fresh => q.mHeadValues = Had(Upto(value, k))
             T == {k \in Nat : k + 1 <= n => Is(f[k + 1], k + 1)}
  <2>3. ASSUME NEW q, NEW v, IsParser(q), q.at = "head"
        PROVE  /\ Like(Feed(q, Unit("value", v)), q, names)
               /\ Feed(q, Unit("value", v)).mLastWasValue
               /\ Feed(q, Unit("value", v)).mHeadValues
                    = With(q.mHeadValues, q.mCurrentField,
                           ValueOf(q.mHeadValues, q.mCurrentField) \o <<v>>)
    <3>1. Feed(q, Unit("value", v)) = HeadValue(q, <<v>>)
      BY <2>3, Fed
    <3> QED BY <2>3, <3>1 DEF HeadValue, IsParser, Like, Members
  <2>4. 0 \in T
    <3> SUFFICES ASSUME 0 + 1 <= n PROVE Is(f[1], 1)
      BY SMT
    <3>1. 1 \in 1..n /\ 1 - 1 = 0
      BY <1>1, SMT
    <3>2. f[1] = Feed(p, Unit("value", value[1]))
      BY <1>2, <2>2, <3>1
    <3>3. Upto(value, 1) = <<value[1]>>
      <4>1. 0 \in Nat /\ 0 + 1 <= Len(value)
        BY <1>1, SMT DEF n
      <4> QED BY <4>1, UptoMore
    <3>4. <<>> \o <<value[1]>> = <<value[1]>>
      BY Few
    <3>5. fresh => ValueOf(p.mHeadValues, p.mCurrentField) = <<>>
      BY WithIs
    <3> HIDE DEF names
    <3>6. /\ Like(f[1], p, names) /\ f[1].mLastWasValue
          /\ f[1].mHeadValues = With(p.mHeadValues, p.mCurrentField,
                           ValueOf(p.mHeadValues, p.mCurrentField) \o <<value[1]>>)
      BY <2>3, <3>2
    <3> QED BY <3>3, <3>4, <3>5, <3>6
  <2>5. ASSUME NEW k \in Nat, k \in T PROVE k + 1 \in T
    <3> SUFFICES ASSUME (k + 1) + 1 <= n PROVE Is(f[(k + 1) + 1], (k + 1) + 1)
      OBVIOUS
    <3> DEFINE l == k + 1
    <3>1. l \in Nat /\ l + 1 \in 1..n /\ (l + 1) - 1 = l /\ l <= n /\ l + 1 <= n
      BY <1>1, SMT
    <3>2. Is(f[l], l)
      BY <2>5, <3>1
    <3> HIDE DEF l
    <3>3. f[l + 1] = Feed(f[l], Unit("value", value[l + 1]))
      BY <1>2, <2>2, <3>1
    <3>4. Upto(value, l + 1) = Upto(value, l) \o <<value[l + 1]>>
      BY <3>1, UptoMore DEF n
    <3>5. /\ f[l].at = "head" /\ IsParser(f[l])
          /\ f[l].mCurrentField = p.mCurrentField
      BY <3>2 DEF Like, Members
    <3> HIDE DEF names
    <3>6. /\ Like(f[l + 1], f[l], names) /\ f[l + 1].mLastWasValue
          /\ f[l + 1].mHeadValues = With(f[l].mHeadValues, p.mCurrentField,
                           ValueOf(f[l].mHeadValues, p.mCurrentField) \o <<value[l + 1]>>)
      BY <2>3, <3>3, <3>5
    <3>7. Like(f[l + 1], p, names)
      <4>1. names \cup names = names
        OBVIOUS
      <4>2. Like(f[l], p, names) /\ Like(f[l + 1], f[l], names)
        BY <3>2, <3>6
      <4>3. Like(f[l + 1], p, names \cup names)
        BY ONLY <4>2, LikeLike
      <4> QED BY <4>1, <4>3
    <3>8. ASSUME fresh PROVE f[l + 1].mHeadValues = Had(Upto(value, l + 1))
      <4>1. f[l].mHeadValues = Had(Upto(value, l))
        BY <3>2, <3>8
      <4>2. ValueOf(f[l].mHeadValues, p.mCurrentField) = Upto(value, l)
        BY <4>1, WithIs
      <4>3. f[l + 1].mHeadValues = With(Had(Upto(value, l)), p.mCurrentField, Upto(value, l + 1))
        BY <3>4, <3>6, <4>1, <4>2
      <4> QED BY <4>3, WithIs
    <3>9. Is(f[l + 1], l + 1)
      BY <3>6, <3>7, <3>8
    <3> QED BY <3>9 DEF l
  <2>6. \A k \in 1..n : Is(f[k], k)
    <3> HIDE DEF T
    <3>1. Nat \subseteq T
      BY <2>4, <2>5, NatSetInduction
    <3> SUFFICES ASSUME NEW k \in 1..n PROVE Is(f[k], k)
      OBVIOUS
    <3>2. k - 1 \in Nat /\ (k - 1) + 1 = k /\ k <= n
      BY <1>1, SMT
    <3>3. k - 1 \in T
      BY <3>1, <3>2
    <3> HIDE DEF Is
    <3> QED BY <3>2, <3>3 DEF T
  <2>7. \A k \in 1..n : Quiet(f[k])
    BY <2>6 DEF Like, Members, Quiet
  <2>8. Eats(p, s, f[n])
    <3>1. \A k \in 1..n - 1 : k \in 1..n
      BY <1>1, SMT
    <3> QED BY <1>2, <2>1, <2>7, <3>1, EatsAll
  <2>9. Is(f[n], n) /\ Upto(value, n) = value
    <3>1. n \in 1..n /\ n \in 0..n
      BY <1>1, <1>4, SMT
    <3> QED BY <2>6, <3>1, UptoIs DEF n
  <2> QED BY <1>4, <1>20, <2>8, <2>9 DEF s
<1> QED BY <1>3, <1>4

\* What a header line changes.
LineMembers == {"mCurrentField", "mHeadValues", "mLastWasValue", "flags", "length", "error"}

\* What the line of the header h makes of p: it contradicts what was said of the
\* length, or is kept.
IsRead(q, p, h) ==
    /\ Like(q, p, LineMembers) /\ q.mLastWasValue
    /\ IF "length" \in h.flags /\ "length" \in p.flags THEN q.error
       ELSE /\ ~q.error
            /\ q.flags = p.flags \cup h.flags
            /\ q.length = IF "length" \in h.flags THEN h.length ELSE p.length
            /\ h.field \notin DOMAIN p.mHeadValues =>
                 q.mHeadValues = With(p.mHeadValues, h.field, h.value)

\* The end of a line of which the value was kept already.
LEMMA LineOfValue ==
    ASSUME NEW p, IsParser(p), p.mLastWasValue, ~p.error, NEW v
    PROVE  /\ Like(Line(p, v), p, {"flags", "length", "error"}) /\ Line(p, v).mLastWasValue
           /\ IF "length" \in v.flags /\ "length" \in p.flags THEN Line(p, v).error
              ELSE /\ ~Line(p, v).error
                   /\ Line(p, v).flags = p.flags \cup v.flags
                   /\ Line(p, v).length = IF "length" \in v.flags THEN v.length ELSE p.length
<1> DEFINE r == [p EXCEPT !.flags = @ \cup v.flags,
                          !.length = IF "length" \in v.flags THEN v.length ELSE @]
<1>1. Line(p, v) = IF "length" \in v.flags /\ "length" \in p.flags THEN Failed(p) ELSE r
  BY DEF Line
<1>2. Like(Failed(p), p, {"flags", "length", "error"}) /\ Failed(p).error /\ Failed(p).mLastWasValue
  BY DEF Failed, IsParser, Like, Members
<1>3. /\ Like(r, p, {"flags", "length", "error"}) /\ r.mLastWasValue /\ ~r.error
      /\ r.flags = p.flags \cup v.flags
      /\ r.length = IF "length" \in v.flags THEN v.length ELSE p.length
  BY DEF IsParser, Like, Members
<1> HIDE DEF r
<1> QED BY <1>1, <1>2, <1>3

\* The end of a line without a value: an empty one is kept first.
LEMMA LineOfNothing ==
    ASSUME NEW p, IsParser(p), ~p.mLastWasValue, ~p.error, NEW v
    PROVE  \E q : /\ Line(p, v) = Line(q, v)
                  /\ Like(q, p, {"mHeadValues", "mLastWasValue"}) /\ q.mLastWasValue
                  /\ p.mCurrentField \notin DOMAIN p.mHeadValues =>
                       q.mHeadValues = With(p.mHeadValues, p.mCurrentField, <<>>)
<1> DEFINE q == HeadValue(p, <<>>)
<1>1. /\ Like(q, p, {"mHeadValues", "mLastWasValue"}) /\ q.mLastWasValue
      /\ q.mHeadValues = With(p.mHeadValues, p.mCurrentField,
                              ValueOf(p.mHeadValues, p.mCurrentField) \o <<>>)
  BY DEF HeadValue, IsParser, Like, Members
<1>2. <<>> \o <<>> = <<>>
  BY Few
<1> DEFINE Body(x) == IF "length" \in v.flags \cap p.flags THEN Failed(x)
                      ELSE [x EXCEPT !.flags = @ \cup v.flags,
                                     !.length = IF "length" \in v.flags THEN v.length ELSE @]
<1>3. Line(p, v) = Body(q)
  BY DEF Line
<1>4. Line(q, v) = Body(q)
  <2> HIDE DEF q
  <2>1. q.flags = p.flags /\ q.mLastWasValue
    BY <1>1 DEF Like, Members
  <2> QED BY <2>1 DEF Line
<1>5. Line(p, v) = Line(q, v)
  BY <1>3, <1>4
<1> HIDE DEF q
<1> QED BY <1>1, <1>2, <1>5, WithIs

\* One line of the headers.
LEMMA HeaderEaten ==
    ASSUME NEW p, IsParser(p), p.at = "head", Quiet(p), p.mLastWasValue,
           NEW h, ProperHeader(h)
    PROVE  \E q : Eats(p, HeaderUnits(h), q) /\ IsRead(q, p, h)
<1> DEFINE s == [i \in DOMAIN h.field |-> Unit("field", h.field[i])]
           t == [i \in DOMAIN h.value |-> Unit("value", h.value[i])]
           v == [flags |-> h.flags, length |-> h.length]
           u == Unit("line", v)
           fresh == h.field \notin DOMAIN p.mHeadValues
<1>1. IsSeq(h.field) /\ h.field # <<>> /\ IsSeq(h.value)
  BY DEF ProperHeader
<1>2. HeaderUnits(h) = (s \o t) \o <<u>>
  BY DEF HeaderUnits
<1>3. v.flags = h.flags /\ v.length = h.length
  OBVIOUS
<1>4. PICK a : /\ Eats(p, s, a) /\ Like(a, p, {"mCurrentField", "mLastWasValue"})
               /\ a.mCurrentField = h.field /\ ~a.mLastWasValue
  BY <1>1, FieldEaten
<1>5. /\ IsParser(a) /\ a.at = "head" /\ Quiet(a) /\ a.mHeadValues = p.mHeadValues
  BY <1>4 DEF Like, Members, Quiet
<1>6. PICK b : /\ Eats(a, t, b) /\ Like(b, a, {"mHeadValues", "mLastWasValue"})
               /\ h.value = <<>> => b = a
               /\ h.value # <<>> =>
                    /\ b.mLastWasValue
                    /\ a.mCurrentField \notin DOMAIN a.mHeadValues =>
                         b.mHeadValues = With(a.mHeadValues, a.mCurrentField, h.value)
  BY <1>1, <1>4, <1>5, ValueEaten
<1> HIDE DEF s, t, v
<1>7. IsParser(b) /\ b.at = "head" /\ Quiet(b)
  BY <1>5, <1>6 DEF Like, Members, Quiet
<1>8. Eats(p, s \o t, b)
  BY <1>4, <1>5, <1>6, EatsCat
<1>9. Feed(b, u) = Line(b, v)
  BY <1>7, Fed
<1> HIDE DEF u
<1>10. Eats(p, HeaderUnits(h), Line(b, v))
  <2>1. Eats(b, <<u>>, Line(b, v))
    BY <1>9, EatsFew
  <2>2. Eats(p, (s \o t) \o <<u>>, Line(b, v))
    BY ONLY <1>7, <1>8, <2>1, EatsCat
  <2> QED BY <1>2, <2>2
<1>11. PICK c : /\ Line(b, v) = Line(c, v) /\ c.mLastWasValue
                /\ Like(c, a, {"mHeadValues", "mLastWasValue"})
                /\ fresh => c.mHeadValues = With(p.mHeadValues, h.field, h.value)
  <2>1. CASE h.value = <<>>
    <3>1. b = a /\ ~a.error
      BY <1>5, <1>6, <2>1 DEF Quiet
    <3>2. PICK c : /\ Line(a, v) = Line(c, v)
                   /\ Like(c, a, {"mHeadValues", "mLastWasValue"}) /\ c.mLastWasValue
                   /\ a.mCurrentField \notin DOMAIN a.mHeadValues =>
                        c.mHeadValues = With(a.mHeadValues, a.mCurrentField, <<>>)
      BY <1>4, <1>5, <3>1, LineOfNothing
    <3> QED BY <1>4, <1>5, <2>1, <3>1, <3>2
  <2>2. CASE h.value # <<>>
    <3>1. fresh => b.mHeadValues = With(p.mHeadValues, h.field, h.value)
      BY <1>4, <1>5, <1>6, <2>2
    <3> QED BY <1>6, <2>2, <3>1
  <2> QED BY <2>1, <2>2
<1> DEFINE r == Line(c, v)
<1>12. /\ IsParser(c) /\ ~c.error /\ c.flags = p.flags /\ c.length = p.length
       /\ Like(c, p, LineMembers)
  BY <1>4, <1>5, <1>11 DEF Like, Members, Quiet, LineMembers
<1>13. /\ Like(r, c, {"flags", "length", "error"}) /\ r.mLastWasValue
       /\ IF "length" \in h.flags /\ "length" \in p.flags THEN r.error
          ELSE /\ ~r.error
               /\ r.flags = p.flags \cup h.flags
               /\ r.length = IF "length" \in h.flags THEN h.length ELSE p.length
  BY <1>3, <1>11, <1>12, LineOfValue
<1> HIDE DEF r
<1>14. Like(r, p, LineMembers) /\ r.mHeadValues = c.mHeadValues
  BY <1>12, <1>13 DEF Like, Members, LineMembers
<1>15. IsRead(r, p, h)
  BY <1>11, <1>13, <1>14 DEF IsRead
<1> QED BY <1>10, <1>11, <1>15 DEF r

\* The headers of a set in which no field comes twice, with one more.
Unique(S) == \A g, h \in S : g.field = h.field => g = h

\* That header is added to what the others say.
LEMMA HeadersInMore ==
    ASSUME NEW S, NEW h, Unique(S \cup {h}), h.field \notin {g.field : g \in S}
    PROVE  With(HeadersIn(S), h.field, h.value) = HeadersIn(S \cup {h})
<1> DEFINE R == S \cup {h}
           Of(Q, field) == CHOOSE g \in Q : g.field = field
<1>1. ASSUME NEW Q, Unique(Q), NEW g \in Q PROVE Of(Q, g.field) = g
  BY <1>1 DEF Unique
<1>2. Unique(S)
  BY DEF Unique
<1>3. {g.field : g \in R} = {h.field} \cup {g.field : g \in S}
  OBVIOUS
<1>4. DOMAIN HeadersIn(S) = {g.field : g \in S}
  BY DEF HeadersIn
<1>5. ASSUME NEW field \in {g.field : g \in R}
      PROVE  (IF field = h.field THEN h.value ELSE HeadersIn(S)[field]) = Of(R, field).value
  <2>1. PICK g \in R : g.field = field
    OBVIOUS
  <2>2. Of(R, field) = g
    BY <1>1, <2>1
  <2> HIDE DEF Of
  <2>3. CASE field = h.field
    <3>1. g = h
      BY <2>1, <2>3 DEF Unique
    <3> QED BY <2>2, <2>3, <3>1
  <2>4. CASE field # h.field
    <3>1. g \in S
      BY <2>1, <2>4
    <3>2. Of(S, field) = g
      BY <1>1, <1>2, <2>1, <3>1
    <3>3. HeadersIn(S)[field] = Of(S, field).value
      BY <2>1, <3>1 DEF HeadersIn, Of
    <3> QED BY <2>2, <2>4, <3>2, <3>3
  <2> QED BY <2>3, <2>4
<1>6. With(HeadersIn(S), h.field, h.value)
        = [field \in {g.field : g \in R} |->
              IF field = h.field THEN h.value ELSE HeadersIn(S)[field]]
  BY <1>3, <1>4 DEF With
<1>7. HeadersIn(R) = [field \in {g.field : g \in R} |-> Of(R, field).value]
  BY DEF HeadersIn
<1> HIDE DEF Of, R
<1> QED BY <1>5, <1>6, <1>7 DEF R

\* No headers are no values.
LEMMA NoHeaders == HeadersIn({}) = <<>>
<1>1. IsSeq(<<>>) /\ Len(<<>>) = 0
  BY Few
<1>2. <<>> = [i \in 1..0 |-> <<>>[i]]
  BY <1>1 DEF IsSeq
<1>3. {h.field : h \in {}} = {} /\ 1..0 = {}
  OBVIOUS
<1>4. HeadersIn({}) = [field \in {} |-> (CHOOSE h \in {} : h.field = field).value]
  BY <1>3 DEF HeadersIn
<1>5. <<>> = [i \in {} |-> <<>>[i]]
  BY <1>2, <1>3
<1> QED BY <1>4, <1>5

\* No field of the headers hs is one of the set S, or comes twice.
Apart(S, hs) ==
    /\ Unique(S)
    /\ \A i \in DOMAIN hs, g \in S : g.field # hs[i].field
    /\ \A i, j \in DOMAIN hs : i # j => hs[i].field # hs[j].field

\* Among the first k headers hs there are two that tell a length.
Twice(hs, k) ==
    \E i, j \in 1..k : i # j /\ "length" \in hs[i].flags /\ "length" \in hs[j].flags

\* What the first k headers hs make of p.
AreRead(q, p, hs, k) ==
    /\ Like(q, p, LineMembers) /\ q.mLastWasValue
    /\ IF Twice(hs, k) THEN q.error
       ELSE /\ ~q.error
            /\ q.flags = p.flags \cup UNION {hs[i].flags : i \in 1..k}
            /\ (\A i \in 1..k : "length" \notin hs[i].flags) => q.length = p.length
            /\ \A i \in 1..k : "length" \in hs[i].flags => q.length = hs[i].length
            /\ \A S : p.mHeadValues = HeadersIn(S) /\ Apart(S, hs) =>
                        q.mHeadValues = HeadersIn(S \cup {hs[i] : i \in 1..k})

\* One header more.
LEMMA OneMoreRead ==
    ASSUME NEW p, "length" \notin p.flags, NEW hs, IsSeq(hs), NEW k \in Nat, k + 1 \in 1..Len(hs),
           NEW q, AreRead(q, p, hs, k), ~Twice(hs, k), NEW r, IsRead(r, q, hs[k + 1])
    PROVE  AreRead(r, p, hs, k + 1)
<1> DEFINE h == hs[k + 1]
<1>1. /\ Like(q, p, LineMembers) /\ ~q.error
      /\ q.flags = p.flags \cup UNION {hs[i].flags : i \in 1..k}
      /\ (\A i \in 1..k : "length" \notin hs[i].flags) => q.length = p.length
      /\ \A i \in 1..k : "length" \in hs[i].flags => q.length = hs[i].length
      /\ \A S : p.mHeadValues = HeadersIn(S) /\ Apart(S, hs) =>
                  q.mHeadValues = HeadersIn(S \cup {hs[i] : i \in 1..k})
  BY DEF AreRead
<1>2. /\ Like(r, q, LineMembers) /\ r.mLastWasValue
      /\ IF "length" \in h.flags /\ "length" \in q.flags THEN r.error
         ELSE /\ ~r.error
              /\ r.flags = q.flags \cup h.flags
              /\ r.length = IF "length" \in h.flags THEN h.length ELSE q.length
              /\ h.field \notin DOMAIN q.mHeadValues =>
                   r.mHeadValues = With(q.mHeadValues, h.field, h.value)
  BY DEF IsRead
<1>3. /\ 1..k + 1 = 1..k \cup {k + 1} /\ k + 1 \notin 1..k
      /\ DOMAIN hs = 1..Len(hs) /\ 1..k + 1 \subseteq DOMAIN hs
  <2>1. DOMAIN hs = 1..Len(hs) /\ Len(hs) \in Nat
    BY SeqIs DEF IsSeq
  <2>2. 1..k + 1 = 1..k \cup {k + 1} /\ k + 1 \notin 1..k /\ 1..k + 1 \subseteq 1..Len(hs)
    BY <2>1, SMT
  <2> QED BY <2>1, <2>2
<1>4. Like(r, p, LineMembers)
  BY <1>1, <1>2 DEF Like
<1>5. Twice(hs, k + 1) <=> ("length" \in h.flags /\ "length" \in q.flags)
  <2>1. "length" \in q.flags <=> \E i \in 1..k : "length" \in hs[i].flags
    BY <1>1
  <2> HIDE DEF h
  <2>2. ASSUME Twice(hs, k + 1) PROVE "length" \in h.flags /\ "length" \in q.flags
    <3>1. PICK i \in 1..k + 1, j \in 1..k + 1 :
               i # j /\ "length" \in hs[i].flags /\ "length" \in hs[j].flags
      BY <2>2 DEF Twice
    <3>2. ~(i \in 1..k /\ j \in 1..k)
      BY <3>1 DEF Twice
    <3>3. i \in 1..k \/ i = k + 1
      BY <1>3
    <3>4. j \in 1..k \/ j = k + 1
      BY <1>3
    <3>5. (i = k + 1 /\ j \in 1..k) \/ (j = k + 1 /\ i \in 1..k)
      BY <3>1, <3>2, <3>3, <3>4
    <3> QED BY <2>1, <3>1, <3>5 DEF h
  <2>3. ASSUME "length" \in h.flags, "length" \in q.flags PROVE Twice(hs, k + 1)
    <3>1. PICK i \in 1..k : "length" \in hs[i].flags
      BY <2>1, <2>3
    <3>2. i \in 1..k + 1 /\ k + 1 \in 1..k + 1 /\ i # k + 1
      BY <1>3
    <3> QED BY <2>3, <3>1, <3>2 DEF Twice, h
  <2> QED BY <2>2, <2>3
<1>6. CASE Twice(hs, k + 1)
  BY <1>2, <1>4, <1>5, <1>6 DEF AreRead
<1>7. CASE ~Twice(hs, k + 1)
  <2>1. /\ ~r.error
        /\ r.flags = q.flags \cup h.flags
        /\ r.length = IF "length" \in h.flags THEN h.length ELSE q.length
        /\ h.field \notin DOMAIN q.mHeadValues =>
             r.mHeadValues = With(q.mHeadValues, h.field, h.value)
    BY <1>2, <1>5, <1>7
  <2>2. r.flags = p.flags \cup UNION {hs[i].flags : i \in 1..k + 1}
    <3>1. UNION {hs[i].flags : i \in 1..k + 1} = (UNION {hs[i].flags : i \in 1..k}) \cup h.flags
      <4>1. {hs[i].flags : i \in 1..k + 1} = {hs[i].flags : i \in 1..k} \cup {h.flags}
        BY <1>3
      <4> QED BY <4>1
    <3> HIDE DEF h
    <3> QED BY <1>1, <2>1, <3>1
  <2>3. (\A i \in 1..k + 1 : "length" \notin hs[i].flags) => r.length = p.length
    BY <1>1, <1>3, <2>1
  <2>4. ASSUME NEW i \in 1..k + 1, "length" \in hs[i].flags PROVE r.length = hs[i].length
    <3>1. CASE i = k + 1
      BY <2>1, <2>4, <3>1
    <3>2. CASE i # k + 1
      <4>1. i \in 1..k /\ k + 1 \in 1..k + 1
        BY <1>3, <3>2
      <4>2. "length" \notin h.flags
        BY <1>7, <2>4, <3>2, <4>1 DEF Twice
      <4> QED BY <1>1, <2>1, <2>4, <4>1, <4>2
    <3> QED BY <3>1, <3>2
  <2>5. ASSUME NEW S, p.mHeadValues = HeadersIn(S), Apart(S, hs)
        PROVE  r.mHeadValues = HeadersIn(S \cup {hs[i] : i \in 1..k + 1})
    <3> DEFINE R == S \cup {hs[i] : i \in 1..k}
    <3>1. q.mHeadValues = HeadersIn(R)
      BY <1>1, <2>5
    <3>2. S \cup {hs[i] : i \in 1..k + 1} = R \cup {h}
      BY <1>3
    <3>3. \A i \in 1..k : i \in DOMAIN hs /\ i # k + 1 /\ k + 1 \in DOMAIN hs
      BY <1>3
    <3>4. k + 1 \in DOMAIN hs
      BY <1>3
    <3>5. h.field \notin {g.field : g \in R}
      <4> SUFFICES ASSUME NEW g \in R PROVE g.field # h.field
        OBVIOUS
      <4>1. CASE g \in S
        BY <2>5, <3>4, <4>1 DEF Apart
      <4>2. CASE g \notin S
        <5>1. PICK i \in 1..k : g = hs[i]
          BY <4>2
        <5> QED BY <2>5, <3>3, <5>1 DEF Apart
      <4> QED BY <4>1, <4>2
    <3>6. Unique(R \cup {h})
      <4> SUFFICES ASSUME NEW f \in R \cup {h}, NEW g \in R \cup {h}, f.field = g.field
                   PROVE  f = g
        BY DEF Unique
      <4>1. CASE f \in S /\ g \in S
        BY <2>5, <4>1 DEF Apart, Unique
      <4>2. CASE f \notin S \/ g \notin S
        <5>1. \A x \in R \cup {h} : x \in S \/ \E i \in DOMAIN hs : x = hs[i]
          BY <3>3, <3>4
        <5> QED BY <2>5, <4>2, <5>1 DEF Apart
      <4> QED BY <4>1, <4>2
    <3>7. DOMAIN HeadersIn(R) = {g.field : g \in R}
      BY DEF HeadersIn
    <3> HIDE DEF R, h
    <3>8. r.mHeadValues = With(HeadersIn(R), h.field, h.value)
      BY <2>1, <3>1, <3>5, <3>7
    <3> QED BY <3>2, <3>5, <3>6, <3>8, HeadersInMore
  <2> QED BY <1>2, <1>4, <1>7, <2>1, <2>2, <2>3, <2>4, <2>5 DEF AreRead
<1> QED BY <1>6, <1>7

\* All the lines of the headers.
LEMMA HeadersEaten ==
    ASSUME NEW p, IsParser(p), p.at = "head", Quiet(p), p.mLastWasValue, "length" \notin p.flags,
           NEW hs, IsSeq(hs), \A i \in DOMAIN hs : ProperHeader(hs[i])
    PROVE  \E q : /\ Eats(p, FlattenSeq([i \in DOMAIN hs |-> HeaderUnits(hs[i])]), q)
                  /\ AreRead(q, p, hs, Len(hs))
<1> DEFINE ss == [i \in DOMAIN hs |-> HeaderUnits(hs[i])]
           n == Len(hs)
           F(k) == FlattenSeq(Upto(ss, k))
<1>1. DOMAIN hs = 1..n /\ n \in Nat
  BY SeqIs DEF IsSeq
<1>2. \A i \in 1..n : IsSeq(HeaderUnits(hs[i]))
  <2> SUFFICES ASSUME NEW i \in 1..n PROVE IsSeq(HeaderUnits(hs[i]))
    OBVIOUS
  <2>1. ProperHeader(hs[i])
    BY <1>1
  <2> QED BY <2>1, HeaderEaten DEF Eats
<1>3. SeqsIn(ss) /\ Len(ss) = n /\ \A i \in 1..n : ss[i] = HeaderUnits(hs[i])
  <2>1. DOMAIN ss = 1..n /\ ss = [i \in 1..n |-> ss[i]] /\ \A i \in 1..n : ss[i] = HeaderUnits(hs[i])
    BY <1>1
  <2> HIDE DEF ss
  <2>2. IsSeq(ss) /\ Len(ss) = n
    BY <1>1, <2>1, WrittenIs
  <2> QED BY <1>2, <2>1, <2>2 DEF SeqsIn
<1> HIDE DEF ss, n
<1>4. /\ F(0) = <<>> /\ \A k \in 1..n : F(k) = F(k - 1) \o ss[k]
  BY <1>3, FlattenStep
<1> HIDE DEF F
<1> DEFINE T == {k \in Nat : k <= n => \E q : Eats(p, F(k), q) /\ AreRead(q, p, hs, k)}
<1>5. 0 \in T
  <2>1. AreRead(p, p, hs, 0)
    <3>1. 1..0 = {} /\ ~p.error
      BY SMT DEF Quiet
    <3>2. ~Twice(hs, 0) /\ Like(p, p, LineMembers)
      BY <3>1 DEF Twice, Like
    <3>3. UNION {hs[i].flags : i \in 1..0} = {} /\ \A S : S \cup {hs[i] : i \in 1..0} = S
      BY <3>1
    <3> QED BY <3>1, <3>2, <3>3 DEF AreRead
  <2>2. Eats(p, F(0), p)
    BY <1>4, EatsFew
  <2> QED BY <2>1, <2>2
<1>6. ASSUME NEW k \in Nat, k \in T PROVE k + 1 \in T
  <2> SUFFICES ASSUME k + 1 <= n
               PROVE  \E q : Eats(p, F(k + 1), q) /\ AreRead(q, p, hs, k + 1)
    OBVIOUS
  <2>1. k + 1 \in 1..n /\ k <= n /\ (k + 1) - 1 = k
    BY <1>1, SMT
  <2>2. PICK q : Eats(p, F(k), q) /\ AreRead(q, p, hs, k)
    BY <1>6, <2>1
  <2>3. F(k + 1) = F(k) \o ss[k + 1] /\ ss[k + 1] = HeaderUnits(hs[k + 1])
    BY <1>3, <1>4, <2>1
  <2>4. ProperHeader(hs[k + 1])
    BY <1>1, <2>1
  <2>5. CASE Twice(hs, k)
    <3>1. q.error /\ IsSeq(ss[k + 1]) /\ Like(q, p, LineMembers) /\ q.mLastWasValue
      BY <1>3, <2>1, <2>2, <2>5 DEF AreRead, SeqsIn
    <3>2. Eats(p, F(k + 1), q)
      BY <2>2, <2>3, <3>1, EatsError
    <3>3. Twice(hs, k + 1)
      <4>1. \A i \in 1..k : i \in 1..k + 1
        BY SMT
      <4> QED BY <2>5, <4>1 DEF Twice
    <3> QED BY <3>1, <3>2, <3>3 DEF AreRead
  <2>6. CASE ~Twice(hs, k)
    <3>1. Like(q, p, LineMembers) /\ ~q.error /\ q.mLastWasValue
      BY <2>2, <2>6 DEF AreRead
    <3>2. IsParser(q) /\ q.at = "head" /\ Quiet(q)
      BY <3>1 DEF Like, Members, LineMembers, Quiet
    <3>3. PICK r : Eats(q, HeaderUnits(hs[k + 1]), r) /\ IsRead(r, q, hs[k + 1])
      BY <2>4, <3>1, <3>2, HeaderEaten
    <3>4. Eats(p, F(k + 1), r)
      BY <2>2, <2>3, <3>2, <3>3, EatsCat
    <3>5. AreRead(r, p, hs, k + 1)
      BY <2>1, <2>2, <2>6, <3>3, OneMoreRead DEF n
    <3> QED BY <3>4, <3>5
  <2> QED BY <2>5, <2>6
<1> HIDE DEF T
<1>7. n \in T
  BY <1>1, <1>5, <1>6, NatSetInduction
<1>8. PICK q : Eats(p, F(n), q) /\ AreRead(q, p, hs, n)
  BY <1>1, <1>7 DEF T
<1>9. F(n) = FlattenSeq(ss)
  <2>1. Upto(ss, n) = ss
    <3>1. n \in 0..n
      BY <1>1, SMT
    <3> QED BY <1>3, <3>1, UptoIs DEF SeqsIn
  <2> QED BY <2>1 DEF F
<1> QED BY <1>8, <1>9 DEF ss, n

-----------------------------------------------------------------------------
(* Bodies. *)

\* The end of a message.
EndMembers == {"mISCompleted", "stopped", "at"}

\* http_parser is stopped there when what follows is not HTTP.
LEMMA CompleteIs ==
    ASSUME NEW p, IsParser(p)
    PROVE  /\ Like(Complete(p), p, EndMembers) /\ Complete(p).mISCompleted
           /\ Complete(p).stopped = p.upgrade /\ Complete(p).at \in {"start", "dead"}
BY DEF Complete, MessageEnd, Like, IsParser, Members, EndMembers

\* What a byte of a body changes.
BodyMembers == {"mBody", "length"}
Grown(p, byte) ==
    [p EXCEPT !.mBody = Append(@, byte), !.length = IF @ = NoLength THEN @ ELSE @ - 1]

\* Nothing else, and what is left of the length goes down.
LEMMA GrownIs ==
    ASSUME NEW p, IsParser(p), NEW byte
    PROVE  /\ Like(Grown(p, byte), p, BodyMembers)
           /\ Grown(p, byte).mBody = Append(p.mBody, byte)
           /\ Grown(p, byte).length = IF p.length = NoLength THEN NoLength ELSE p.length - 1
BY DEF Grown, Like, IsParser, Members, BodyMembers

\* Where one byte is expected.
InBody(p) == p.at \in {"identity", "eof", "chunkData"}

\* The last one of a body or chunk ends it.
LEMMA DataIs ==
    ASSUME NEW p, InBody(p), NEW byte
    PROVE  /\ p.length # 1 \/ p.at = "eof" => Feed(p, Unit("data", byte)) = Grown(p, byte)
           /\ p.length = 1 /\ p.at = "identity" =>
                 Feed(p, Unit("data", byte)) = Complete(Grown(p, byte))
           /\ p.length = 1 /\ p.at = "chunkData" =>
                 Feed(p, Unit("data", byte)) = [Grown(p, byte) EXCEPT !.at = "chunkEnd"]
<1>1. Feed(p, Unit("data", byte)) = Data(p, byte)
  BY Fed DEF InBody
<1> QED BY <1>1 DEF Data, LastByte, Grown, InBody

\* Bytes of which none is the last one.
LEMMA BytesEaten ==
    ASSUME NEW p, IsParser(p), Quiet(p), InBody(p), IsSeq(p.mBody), NEW bytes, IsSeq(bytes),
           \/ p.at = "eof" /\ p.length = NoLength
           \/ p.length \in Nat /\ p.length > Len(bytes)
    PROVE  \E q : /\ Eats(p, DataUnits(bytes), q) /\ Like(q, p, BodyMembers)
                  /\ q.mBody = p.mBody \o bytes
                  /\ q.length = IF p.length = NoLength THEN NoLength ELSE p.length - Len(bytes)
<1> DEFINE s == DataUnits(bytes)
           n == Len(bytes)
<1>1. n \in Nat
  BY DEF IsSeq
<1>2. IsSeq(s) /\ Len(s) = n /\ \A i \in 1..n : s[i] = Unit("data", bytes[i])
  BY UnitsOf DEF DataUnits
<1> HIDE DEF s, n
<1>3. PICK f : IsFeed(f, p, s)
  BY <1>1, <1>2, FeedExists
<1>4. f[0] = p /\ \A i \in 1..n : f[i] = Feed(f[i - 1], s[i])
  BY <1>1, <1>2, <1>3, FeedIs
<1> DEFINE Is(q, k) == /\ Like(q, p, BodyMembers) /\ q.mBody = p.mBody \o Upto(bytes, k)
                       /\ q.length = IF p.length = NoLength THEN NoLength ELSE p.length - k
           T == {k \in Nat : k <= n => Is(f[k], k)}
<1>5. 0 \in T
  <2>1. Upto(bytes, 0) = <<>> /\ p.mBody \o <<>> = p.mBody
    <3>1. 0 \in 0..n
      BY <1>1, SMT
    <3>2. IsSeq(Upto(bytes, 0)) /\ Len(Upto(bytes, 0)) = 0
      BY <3>1, UptoIs DEF n
    <3> QED BY <3>2, Few
  <2>2. p.length # NoLength => p.length - 0 = p.length
    BY SMT
  <2>3. Like(p, p, BodyMembers)
    BY DEF Like
  <2>4. Is(f[0], 0)
    BY <1>4, <2>1, <2>2, <2>3
  <2> QED BY <2>4
<1>6. ASSUME NEW k \in Nat, k \in T PROVE k + 1 \in T
  <2> HIDE DEF Is
  <2> SUFFICES ASSUME k + 1 <= n PROVE Is(f[k + 1], k + 1)
    OBVIOUS
  <2> USE DEF Is
  <2>1. k + 1 \in 1..n /\ k <= n /\ (k + 1) - 1 = k /\ k \in 0..n
    BY <1>1, SMT
  <2>2. Is(f[k], k)
    BY <1>6, <2>1
  <2>3. f[k + 1] = Feed(f[k], Unit("data", bytes[k + 1]))
    BY <1>2, <1>4, <2>1
  <2>4. InBody(f[k]) /\ IsParser(f[k]) /\ f[k].at = p.at
    BY <2>2 DEF Like, Members, BodyMembers, InBody
  <2>5. f[k].length # 1 \/ f[k].at = "eof"
    <3>1. CASE p.length = NoLength
      BY <2>2, <2>4, <3>1 DEF NoLength
    <3>2. CASE p.length # NoLength
      <4>1. p.length \in Nat /\ p.length > n
        BY <3>2 DEF n
      <4>2. f[k].length = p.length - k
        BY <2>2, <3>2
      <4> QED BY <1>1, <4>1, <4>2, SMT
    <3> QED BY <3>1, <3>2
  <2>6. f[k + 1] = Grown(f[k], bytes[k + 1])
    BY <2>3, <2>4, <2>5, DataIs
  <2>7. /\ Like(f[k + 1], f[k], BodyMembers)
        /\ f[k + 1].mBody = Append(f[k].mBody, bytes[k + 1])
        /\ f[k + 1].length = IF f[k].length = NoLength THEN NoLength ELSE f[k].length - 1
    BY <2>4, <2>6, GrownIs
  <2>8. Like(f[k + 1], p, BodyMembers)
    BY <2>2, <2>7 DEF Like
  <2>9. f[k + 1].mBody = p.mBody \o Upto(bytes, k + 1)
    <3>1. Upto(bytes, k + 1) = Upto(bytes, k) \o <<bytes[k + 1]>>
      BY <2>1, UptoMore DEF n
    <3>2. IsSeq(Upto(bytes, k)) /\ IsSeq(<<bytes[k + 1]>>)
      BY <2>1, UptoIs, Few DEF n
    <3>3. Associated(p.mBody, Upto(bytes, k), <<bytes[k + 1]>>)
      BY <3>2, CatAssociates
    <3>4. IsSeq(p.mBody \o Upto(bytes, k))
      BY <3>2, CatIs
    <3>5. Append(p.mBody \o Upto(bytes, k), bytes[k + 1])
            = (p.mBody \o Upto(bytes, k)) \o <<bytes[k + 1]>>
      BY <3>4, Few
    <3> QED BY <2>2, <2>7, <3>1, <3>3, <3>5 DEF Associated
  <2>10. f[k + 1].length = IF p.length = NoLength THEN NoLength ELSE p.length - (k + 1)
    <3>1. CASE p.length = NoLength
      BY <2>2, <2>7, <3>1
    <3>2. CASE p.length # NoLength
      <4>1. p.length \in Nat /\ p.length > n
        BY <3>2 DEF n
      <4>2. f[k].length = p.length - k
        BY <2>2, <3>2
      <4>3. f[k].length # NoLength /\ f[k].length - 1 = p.length - (k + 1)
        BY <1>1, <4>1, <4>2, SMT DEF NoLength
      <4> QED BY <2>7, <3>2, <4>3
    <3> QED BY <3>1, <3>2
  <2> QED BY <2>8, <2>9, <2>10
<1>7. \A k \in 0..n : Is(f[k], k)
  <2> HIDE DEF T
  <2>1. Nat \subseteq T
    BY <1>5, <1>6, NatSetInduction
  <2> SUFFICES ASSUME NEW k \in 0..n PROVE Is(f[k], k)
    OBVIOUS
  <2>2. k \in Nat /\ k <= n
    BY <1>1, SMT
  <2>3. k \in T
    BY <2>1, <2>2
  <2> HIDE DEF Is
  <2> QED BY <2>2, <2>3 DEF T
<1>8. Eats(p, s, f[n])
  <2>1. \A k \in 1..n - 1 : k \in 0..n
    BY <1>1, SMT
  <2>2. \A k \in 0..n : Quiet(f[k])
    BY <1>7 DEF Like, Members, BodyMembers, Quiet
  <2> QED BY <1>2, <1>3, <2>1, <2>2, EatsAll
<1>9. Is(f[n], n) /\ Upto(bytes, n) = bytes
  <2>1. n \in 0..n
    BY <1>1, SMT
  <2> QED BY <1>7, <2>1, UptoIs DEF n
<1> QED BY <1>8, <1>9 DEF s, n

\* Bytes of which the last one is the last of its kind.
LEMMA LastEaten ==
    ASSUME NEW p, IsParser(p), Quiet(p), p.at \in {"identity", "chunkData"}, IsSeq(p.mBody),
           NEW bytes, IsSeq(bytes), bytes # <<>>, p.length = Len(bytes)
    PROVE  \E q : /\ Like(q, p, BodyMembers) /\ q.mBody = p.mBody \o bytes
                  /\ Eats(p, DataUnits(bytes), IF p.at = "identity" THEN Complete(q)
                                               ELSE [q EXCEPT !.at = "chunkEnd"])
<1> DEFINE n == Len(bytes)
           k == n - 1
           t == Upto(bytes, k)
           x == bytes[n]
<1>1. n \in Nat /\ n # 0
  BY Few DEF IsSeq
<1>2. k \in Nat /\ k + 1 = n /\ k \in 0..n /\ n \in 1..n /\ k + 1 <= n
  BY <1>1, SMT
<1>3. IsSeq(t) /\ Len(t) = k /\ \A i \in 1..k : t[i] = bytes[i]
  BY <1>2, UptoIs
<1>4. Upto(bytes, k + 1) = t \o <<x>> /\ Upto(bytes, n) = bytes
  <2>1. n \in 0..n
    BY <1>1, SMT
  <2>2. Upto(bytes, n) = bytes
    BY <2>1, UptoIs
  <2>3. Upto(bytes, k + 1) = Upto(bytes, k) \o <<bytes[k + 1]>>
    BY <1>2, UptoMore
  <2> QED BY <1>2, <2>2, <2>3
<1>5. bytes = t \o <<x>>
  BY <1>2, <1>4
<1> HIDE DEF n, k, t, x
<1>6. DataUnits(bytes) = DataUnits(t) \o <<Unit("data", x)>>
  <2> DEFINE a == DataUnits(bytes)
             b == DataUnits(t)
             u == Unit("data", x)
             c == b \o <<u>>
  <2>1. IsSeq(a) /\ Len(a) = n /\ \A i \in 1..n : a[i] = Unit("data", bytes[i])
    BY UnitsOf DEF DataUnits, n
  <2>2. IsSeq(b) /\ Len(b) = k /\ \A i \in 1..k : b[i] = Unit("data", t[i])
    BY <1>3, UnitsOf DEF DataUnits
  <2> HIDE DEF a, b, u
  <2>3. IsSeq(c) /\ Len(c) = k + 1 /\ (\A i \in 1..k : c[i] = b[i]) /\ c[k + 1] = u
    <3>1. c = Append(b, u)
      BY <2>2, Few
    <3> HIDE DEF c
    <3>2. /\ IsSeq(Append(b, u)) /\ Len(Append(b, u)) = Len(b) + 1
          /\ \A i \in 1..Len(b) : Append(b, u)[i] = b[i]
          /\ Append(b, u)[Len(b) + 1] = u
      BY <2>2, AppendIs
    <3>3. Len(b) = k
      BY <2>2
    <3> QED BY <3>1, <3>2, <3>3
  <2> HIDE DEF c
  <2>4. \A i \in 1..n : i \in 1..k \/ i = k + 1
    BY <1>2, SMT
  <2>5. \A i \in 1..n : a[i] = c[i]
    BY <1>2, <1>3, <2>1, <2>2, <2>3, <2>4 DEF u, x
  <2>6. a = c
    BY <1>2, <2>1, <2>3, <2>5, Same
  <2> QED BY <2>6 DEF a, b, c, u
<1>7. PICK r : /\ Eats(p, DataUnits(t), r) /\ Like(r, p, BodyMembers)
               /\ r.mBody = p.mBody \o t /\ r.length = 1
  <2>1. InBody(p) /\ p.length \in Nat /\ p.length > Len(t) /\ p.length # NoLength
        /\ p.length - Len(t) = 1
    BY <1>1, <1>2, <1>3, SMT DEF InBody, NoLength, n
  <2>2. PICK r : /\ Eats(p, DataUnits(t), r) /\ Like(r, p, BodyMembers)
                 /\ r.mBody = p.mBody \o t
                 /\ r.length = IF p.length = NoLength THEN NoLength ELSE p.length - Len(t)
    BY <1>3, <2>1, BytesEaten
  <2> QED BY <2>1, <2>2
<1>8. IsParser(r) /\ r.at = p.at /\ Quiet(r) /\ InBody(r)
  BY <1>7 DEF Like, Members, BodyMembers, Quiet, InBody
<1> DEFINE q == Grown(r, x)
<1>9. Like(q, r, BodyMembers) /\ q.mBody = Append(r.mBody, x)
  BY <1>8, GrownIs
<1>10. q.mBody = p.mBody \o bytes
  <2>1. IsSeq(<<x>>)
    BY Few
  <2>2. Associated(p.mBody, t, <<x>>)
    BY <1>3, <2>1, CatAssociates
  <2>3. IsSeq(p.mBody \o t)
    BY <1>3, CatIs
  <2>4. Append(p.mBody \o t, x) = (p.mBody \o t) \o <<x>>
    BY <2>3, Few
  <2> QED BY <1>5, <1>7, <1>9, <2>2, <2>4 DEF Associated
<1>11. Feed(r, Unit("data", x)) = IF p.at = "identity" THEN Complete(q)
                                  ELSE [q EXCEPT !.at = "chunkEnd"]
  <2> HIDE DEF q
  <2>1. /\ p.at = "identity" => Feed(r, Unit("data", x)) = Complete(q)
        /\ p.at = "chunkData" => Feed(r, Unit("data", x)) = [q EXCEPT !.at = "chunkEnd"]
    BY <1>7, <1>8, DataIs DEF q
  <2>2. p.at = "identity" \/ (p.at # "identity" /\ p.at = "chunkData")
    OBVIOUS
  <2> QED BY <2>1, <2>2
<1> DEFINE z == IF p.at = "identity" THEN Complete(q) ELSE [q EXCEPT !.at = "chunkEnd"]
<1> HIDE DEF q
<1>12. Eats(p, DataUnits(bytes), z)
  <2>1. Eats(r, <<Unit("data", x)>>, z)
    BY <1>11, EatsFew
  <2> HIDE DEF z
  <2> QED BY <1>6, <1>7, <1>8, <2>1, EatsCat
<1>13. Like(q, p, BodyMembers)
  BY <1>7, <1>9 DEF Like
<1> QED BY <1>10, <1>12, <1>13

\* A chunk.
LEMMA ChunkEaten ==
    ASSUME NEW p, IsParser(p), Quiet(p), p.at = "chunkSize", IsSeq(p.mBody),
           NEW chunk, IsSeq(chunk), chunk # <<>>
    PROVE  \E q : /\ Eats(p, ChunkUnits(chunk), q) /\ Like(q, p, BodyMembers)
                  /\ q.mBody = p.mBody \o chunk
<1> DEFINE n == Len(chunk)
           u == Unit("chunkSize", n)
           w == Unit("chunkEnd", 0)
           a == [p EXCEPT !.length = n, !.at = "chunkData"]
<1>1. n \in Nat /\ n # 0
  BY Few DEF IsSeq
<1>2. ChunkUnits(chunk) = (<<u>> \o DataUnits(chunk)) \o <<w>>
  BY DEF ChunkUnits
<1>3. Feed(p, u) = a
  <2>1. Feed(p, u) = ChunkSize(p, n)
    BY Fed
  <2> QED BY <1>1, <2>1 DEF ChunkSize
<1>4. /\ IsParser(a) /\ Quiet(a) /\ a.at = "chunkData" /\ a.mBody = p.mBody /\ a.length = n
      /\ Like(a, p, {"length", "at"})
  BY DEF IsParser, Members, Quiet, Like
<1> HIDE DEF a, u, w
<1>5. PICK q : /\ Like(q, a, BodyMembers) /\ q.mBody = a.mBody \o chunk
               /\ Eats(a, DataUnits(chunk), IF a.at = "identity" THEN Complete(q)
                                            ELSE [q EXCEPT !.at = "chunkEnd"])
  BY <1>4, LastEaten DEF n
<1> DEFINE b == [q EXCEPT !.at = "chunkEnd"]
           c == [b EXCEPT !.at = "chunkSize"]
<1>6. Eats(a, DataUnits(chunk), b)
  BY <1>4, <1>5
<1>7. /\ IsParser(b) /\ Quiet(b) /\ b.at = "chunkEnd" /\ b.mBody = q.mBody
      /\ Like(b, q, {"at"})
  BY <1>4, <1>5 DEF IsParser, Members, Quiet, Like, BodyMembers
<1> HIDE DEF b
<1>8. Feed(b, w) = c
  BY <1>7, Fed DEF w
<1>9. Like(c, b, {"at"}) /\ c.at = "chunkSize"
  BY <1>7 DEF IsParser, Members, Like
<1> HIDE DEF c
<1>10. Like(c, p, BodyMembers) /\ c.mBody = p.mBody \o chunk
  <2>1. c.mBody = b.mBody
    BY <1>9 DEF Like, Members
  <2>2. ASSUME NEW x \in Members \ BodyMembers PROVE c[x] = p[x]
    <3>1. CASE x = "at"
      <4>1. c["at"] = "chunkSize" /\ p["at"] = "chunkSize"
        BY <1>9
      <4> QED BY <3>1, <4>1
    <3>2. CASE x # "at"
      <4>1. c[x] = b[x] /\ b[x] = q[x]
        BY <1>7, <1>9, <3>2 DEF Like
      <4>2. q[x] = a[x]
        BY <1>5 DEF Like
      <4>3. a[x] = p[x]
        BY <1>4, <3>2 DEF Like, BodyMembers
      <4> QED BY <4>1, <4>2, <4>3
    <3> QED BY <3>1, <3>2
  <2> QED BY <1>4, <1>5, <1>7, <1>9, <2>1, <2>2 DEF Like
<1>11. Eats(p, <<u>>, a) /\ Eats(b, <<w>>, c)
  BY <1>3, <1>8, EatsFew
<1>12. Eats(p, <<u>> \o DataUnits(chunk), b)
  BY <1>4, <1>6, <1>11, EatsCat
<1>13. Eats(p, (<<u>> \o DataUnits(chunk)) \o <<w>>, c)
  BY ONLY <1>7, <1>11, <1>12, EatsCat
<1> QED BY <1>2, <1>10, <1>13

\* All the chunks of a body.
LEMMA ChunksEaten ==
    ASSUME NEW p, IsParser(p), Quiet(p), p.at = "chunkSize", IsSeq(p.mBody),
           NEW body, IsSeq(body), \A i \in DOMAIN body : IsSeq(body[i]) /\ body[i] # <<>>
    PROVE  \E q : /\ Eats(p, FlattenSeq([i \in DOMAIN body |-> ChunkUnits(body[i])]), q)
                  /\ Like(q, p, BodyMembers) /\ q.mBody = p.mBody \o FlattenSeq(body)
<1> DEFINE ss == [i \in DOMAIN body |-> ChunkUnits(body[i])]
           n == Len(body)
           F(k) == FlattenSeq(Upto(ss, k))
           B(k) == FlattenSeq(Upto(body, k))
<1>1. DOMAIN body = 1..n /\ n \in Nat
  BY SeqIs DEF IsSeq
<1>2. ASSUME NEW i \in 1..n PROVE IsSeq(ChunkUnits(body[i]))
  <2>1. IsSeq(body[i]) /\ body[i] # <<>>
    BY <1>1
  <2> QED BY <2>1, ChunkEaten DEF Eats
<1>3. SeqsIn(ss) /\ Len(ss) = n /\ \A i \in 1..n : ss[i] = ChunkUnits(body[i])
  <2>1. DOMAIN ss = 1..n /\ ss = [i \in 1..n |-> ss[i]] /\ \A i \in 1..n : ss[i] = ChunkUnits(body[i])
    BY <1>1
  <2> HIDE DEF ss
  <2>2. IsSeq(ss) /\ Len(ss) = n
    BY <1>1, <2>1, WrittenIs
  <2> QED BY <1>2, <2>1, <2>2 DEF SeqsIn
<1>4. SeqsIn(body)
  BY <1>1 DEF SeqsIn
<1> HIDE DEF ss, n
<1>5. F(0) = <<>> /\ \A k \in 1..n : F(k) = F(k - 1) \o ss[k]
  BY <1>3, FlattenStep
<1>6. /\ B(0) = <<>> /\ \A k \in 1..n : B(k) = B(k - 1) \o body[k]
      /\ \A k \in 0..n : IsSeq(B(k))
  BY <1>4, FlattenStep DEF n
<1> HIDE DEF F, B
<1> DEFINE Is(k) == \E q : /\ Eats(p, F(k), q) /\ Like(q, p, BodyMembers)
                           /\ q.mBody = p.mBody \o B(k)
           T == {k \in Nat : k <= n => Is(k)}
<1>7. 0 \in T
  <2>1. Like(p, p, BodyMembers) /\ p.mBody \o <<>> = p.mBody
    BY Few DEF Like
  <2> QED BY <1>5, <1>6, <2>1, EatsFew
<1>8. ASSUME NEW k \in Nat, k \in T PROVE k + 1 \in T
  <2> HIDE DEF Is
  <2> SUFFICES ASSUME k + 1 <= n PROVE Is(k + 1)
    OBVIOUS
  <2> USE DEF Is
  <2>1. k + 1 \in 1..n /\ k <= n /\ (k + 1) - 1 = k /\ k \in 0..n
    BY <1>1, SMT
  <2>2. PICK q : Eats(p, F(k), q) /\ Like(q, p, BodyMembers) /\ q.mBody = p.mBody \o B(k)
    BY <1>8, <2>1
  <2>3. F(k + 1) = F(k) \o ChunkUnits(body[k + 1]) /\ B(k + 1) = B(k) \o body[k + 1]
    BY <1>3, <1>5, <1>6, <2>1
  <2>4. IsSeq(body[k + 1]) /\ body[k + 1] # <<>> /\ IsSeq(B(k))
    BY <1>1, <1>6, <2>1
  <2>5. IsParser(q) /\ Quiet(q) /\ q.at = "chunkSize"
    BY <2>2 DEF Like, Members, BodyMembers, Quiet
  <2>6. IsSeq(q.mBody)
    BY <2>2, <2>4, CatIs
  <2>7. PICK r : /\ Eats(q, ChunkUnits(body[k + 1]), r) /\ Like(r, q, BodyMembers)
                 /\ r.mBody = q.mBody \o body[k + 1]
    BY <2>4, <2>5, <2>6, ChunkEaten
  <2>8. Eats(p, F(k + 1), r)
    BY <2>2, <2>3, <2>5, <2>7, EatsCat
  <2>9. r.mBody = p.mBody \o B(k + 1)
    <3>1. Associated(p.mBody, B(k), body[k + 1])
      BY <2>4, CatAssociates
    <3> QED BY <2>2, <2>3, <2>7, <3>1 DEF Associated
  <2>10. Like(r, p, BodyMembers)
    BY <2>2, <2>7 DEF Like
  <2> QED BY <2>8, <2>9, <2>10
<1> HIDE DEF T
<1>9. n \in T
  BY <1>1, <1>7, <1>8, NatSetInduction
<1>10. PICK q : Eats(p, F(n), q) /\ Like(q, p, BodyMembers) /\ q.mBody = p.mBody \o B(n)
  BY <1>1, <1>9 DEF T
<1>11. F(n) = FlattenSeq(ss) /\ B(n) = FlattenSeq(body)
  <2>1. n \in 0..n
    BY <1>1, SMT
  <2>2. Upto(ss, n) = ss
    BY <1>3, <2>1, UptoIs DEF SeqsIn
  <2>3. Upto(body, n) = body
    BY <2>1, UptoIs DEF n
  <2> QED BY <2>2, <2>3 DEF F, B
<1> QED BY <1>10, <1>11 DEF ss

-----------------------------------------------------------------------------
(* Messages. *)

\* e is the parser that has read the headers of the message m and looks for its body.
Opened(e, m) ==
    /\ IsParser(e) /\ Quiet(e) /\ e.at = "head" /\ e.mLastWasValue
    /\ e.request = m.request /\ e.status = m.status
    /\ e.flags = FlagsOf(m.head)
    /\ LengthLines(m.head) = {} => e.length = NoLength
    /\ \A i \in LengthLines(m.head) : e.length = m.head[i].length
    /\ e.upgrade = Upgrading(m)
    /\ e.mHeadValues = HeadersIn(ToSet(m.head)) /\ e.mBody = <<>>

\* What a parser carries at the end of the message m.
Carries(q, m) == q.mHeadValues = HeadersOf(m) /\ q.mBody = FlattenSeq(m.body)

\* What a message ends in.
Outcome(q, m) ==
    /\ IsParser(q)
    /\ ~Good(m) => q.error /\ ~q.mISCompleted /\ ~q.stopped
    /\ Good(m) =>
         /\ ~q.error /\ Carries(q, m)
         /\ m.framing = "eof" => q.at = "eof" /\ ~q.mISCompleted /\ ~q.stopped
         /\ m.framing # "eof" => /\ q.mISCompleted /\ q.at \in {"start", "dead"}
                                 /\ q.stopped = Upgrading(m) /\ q.upgrade = Upgrading(m)

\* The units of a body.
BodyUnits(m) ==
    IF m.framing = "chunked"
    THEN FlattenSeq([i \in DOMAIN m.body |-> ChunkUnits(m.body[i])])
         \o <<Unit("chunkSize", 0)>> \o HeadUnits(m, m.trailer, FALSE)
    ELSE DataUnits(FlattenSeq(m.body))

\* A message that completes in a state like that behind its headers.
LEMMA Completed ==
    ASSUME NEW m, Good(m), m.framing # "eof", NEW e, Opened(e, m), NEW q,
           Like(q, e, {"at", "length", "flags", "mBody", "mHeadValues", "mCurrentField",
                       "mLastWasValue", "error"}),
           ~q.error, Carries(q, m)
    PROVE  Outcome(Complete(q), m)
<1>1. IsParser(q) /\ q.upgrade = Upgrading(m)
  BY DEF Like, Members, Opened
<1>2. /\ Like(Complete(q), q, EndMembers) /\ Complete(q).mISCompleted
      /\ Complete(q).stopped = q.upgrade /\ Complete(q).at \in {"start", "dead"}
  BY <1>1, CompleteIs
<1>3. IsParser(Complete(q)) /\ ~Complete(q).error /\ Complete(q).upgrade = q.upgrade
      /\ Complete(q).mHeadValues = q.mHeadValues /\ Complete(q).mBody = q.mBody
  BY <1>2 DEF Like, Members, EndMembers
<1> QED BY <1>1, <1>2, <1>3 DEF Outcome, Carries

\* What the headers of a message say of its body.
LEMMA FramingIs ==
    ASSUME NEW m, ProperMessage(m)
    PROVE  /\ "length" \in FlagsOf(m.head) <=> LengthLines(m.head) # {}
           /\ "trailing" \notin FlagsOf(m.head)
           /\ m.framing # "bad" => /\ ~Twice(m.head, Len(m.head))
                                   /\ ~({"chunked", "length"} \subseteq FlagsOf(m.head))
           /\ m.framing = "bad" => \/ Twice(m.head, Len(m.head))
                                   \/ {"chunked", "length"} \subseteq FlagsOf(m.head)
<1>1. DOMAIN m.head = 1..Len(m.head)
  BY SeqIs DEF ProperMessage
<1>2. "length" \in FlagsOf(m.head) <=> LengthLines(m.head) # {}
  BY DEF FlagsOf, LengthLines
<1>3. "trailing" \notin FlagsOf(m.head)
  <2> SUFFICES ASSUME NEW i \in DOMAIN m.head PROVE "trailing" \notin m.head[i].flags
    BY DEF FlagsOf
  <2>1. m.head[i].flags \subseteq
            {"length", "chunked", "close", "keepAlive", "upgrade", "connectionUpgrade"}
    BY DEF ProperMessage, ProperHeader
  <2> QED BY <2>1
<1>4. Twice(m.head, Len(m.head)) <=> \E i, j \in LengthLines(m.head) : i # j
  BY <1>1 DEF Twice, LengthLines
<1>5. ASSUME m.framing # "bad"
      PROVE  /\ \A i, j \in LengthLines(m.head) : i = j
             /\ "chunked" \in FlagsOf(m.head) => LengthLines(m.head) = {}
  <2>1. ProperFraming(m)
    BY DEF ProperMessage
  <2> HIDE DEF LengthLines, FlagsOf
  <2> QED BY <1>5, <2>1 DEF ProperFraming
<1>6. ASSUME m.framing = "bad"
      PROVE  \/ "chunked" \in FlagsOf(m.head) /\ LengthLines(m.head) # {}
             \/ \E i, j \in LengthLines(m.head) : i # j
  <2>1. ProperFraming(m)
    BY DEF ProperMessage
  <2> QED BY <1>6, <2>1 DEF ProperFraming
<1> QED BY <1>2, <1>3, <1>4, <1>5, <1>6

\* The start of a message.
StartUnit(m) == Unit("start", [request |-> m.request, status |-> m.status, http11 |-> m.http11])

\* http_parser takes it whatever the message is.
LEMMA StartIs ==
    ASSUME NEW p, IsParser(p), p.at = "start", ~p.error, ~p.stopped, NEW m
    PROVE  LET a == Feed(p, StartUnit(m)) IN
           /\ IsParser(a) /\ Quiet(a) /\ a.at = "head" /\ a.mLastWasValue
           /\ a.request = m.request /\ a.status = m.status
           /\ a.flags = {} /\ a.length = NoLength
           /\ a.mHeadValues = <<>> /\ a.mBody = <<>> /\ a.mUrl = "none"
<1> DEFINE v == [request |-> m.request, status |-> m.status, http11 |-> m.http11]
           b == ClearParse(p)
           a == Start(p, v)
<1>1. v.request = m.request /\ v.status = m.status
  OBVIOUS
<1>2. Feed(p, StartUnit(m)) = a
  <2>1. StartUnit(m) = Unit("start", v)
    BY DEF StartUnit
  <2>2. p.at = "start"
    OBVIOUS
  <2> HIDE DEF v
  <2>3. Feed(p, Unit("start", v)) = a
    BY ONLY <2>2, Fed
  <2> QED BY <2>1, <2>3
<1>3. /\ IsParser(b) /\ Quiet(b) /\ b.mLastWasValue
      /\ b.mHeadValues = <<>> /\ b.mBody = <<>> /\ b.mUrl = "none"
  BY DEF ClearParse, IsParser, Members, Quiet
<1> HIDE DEF b, v
<1>4. /\ IsParser(a) /\ Quiet(a) /\ a.at = "head" /\ a.mLastWasValue
      /\ a.request = v.request /\ a.status = v.status
      /\ a.flags = {} /\ a.length = NoLength
      /\ a.mHeadValues = <<>> /\ a.mBody = <<>> /\ a.mUrl = "none"
  BY <1>3 DEF Start, IsParser, Members, Quiet, b
<1> HIDE DEF a
<1> QED BY <1>1, <1>2, <1>4

\* The head of a message.
HeadOf(m) ==
    <<StartUnit(m)>> \o (IF m.request THEN <<Unit("url", m.url)>> ELSE <<>>)
    \o HeadUnits(m, m.head, m.waits)

\* It ends in an error, or where the body is looked for.
LEMMA HeadEaten ==
    ASSUME NEW m, ProperMessage(m), NEW p, IsParser(p), p.at = "start", ~p.error, ~p.stopped
    PROVE  \E d : /\ Eats(p, HeadOf(m), d)
                  /\ ~Good(m) => IsParser(d) /\ d.error /\ ~d.mISCompleted /\ ~d.stopped
                  /\ Good(m) => \E e : d = BodyStarts(e) /\ Opened(e, m)
<1> DEFINE a == Feed(p, StartUnit(m))
           b == IF m.request THEN [a EXCEPT !.mUrl = m.url] ELSE a
           url == IF m.request THEN <<Unit("url", m.url)>> ELSE <<>>
           lines == FlattenSeq([i \in DOMAIN m.head |-> HeaderUnits(m.head[i])])
           end == Unit("headersEnd", m.waits)
           n == Len(m.head)
<1>1. /\ IsParser(a) /\ Quiet(a) /\ a.at = "head" /\ a.mLastWasValue
      /\ a.request = m.request /\ a.status = m.status
      /\ a.flags = {} /\ a.length = NoLength
      /\ a.mHeadValues = <<>> /\ a.mBody = <<>> /\ a.mUrl = "none"
  BY StartIs
<1>2. Eats(p, <<StartUnit(m)>>, a)
  BY EatsFew
<1> HIDE DEF a
<1>3. /\ IsParser(b) /\ Quiet(b) /\ b.at = "head" /\ b.mLastWasValue
      /\ b.request = m.request /\ b.status = m.status
      /\ b.flags = {} /\ b.length = NoLength
      /\ b.mHeadValues = <<>> /\ b.mBody = <<>>
      /\ b.mUrl = "noPath" <=> m.url = "noPath"
  <2>1. CASE m.request
    <3> DEFINE r == [a EXCEPT !.mUrl = m.url]
    <3>1. /\ IsParser(r) /\ Quiet(r) /\ r.at = "head" /\ r.mLastWasValue
          /\ r.request = m.request /\ r.status = m.status
          /\ r.flags = {} /\ r.length = NoLength
          /\ r.mHeadValues = <<>> /\ r.mBody = <<>> /\ r.mUrl = m.url
      BY <1>1 DEF IsParser, Members, Quiet
    <3>2. b = r
      BY <2>1
    <3> HIDE DEF r, b
    <3> QED BY <3>1, <3>2
  <2>2. CASE ~m.request
    <3>1. m.url # "noPath"
      BY <2>2 DEF ProperMessage
    <3> QED BY <1>1, <2>2, <3>1
  <2> QED BY <2>1, <2>2
<1>4. Eats(a, url, b)
  <2>1. CASE m.request
    <3>1. Feed(a, Unit("url", m.url)) = [a EXCEPT !.mUrl = m.url]
      BY <1>1, Fed
    <3>2. b = Feed(a, Unit("url", m.url)) /\ url = <<Unit("url", m.url)>>
      BY <2>1, <3>1
    <3> QED BY <3>2, EatsFew
  <2>2. CASE ~m.request
    BY <2>2, EatsFew
  <2> QED BY <2>1, <2>2
<1>5. Eats(p, <<StartUnit(m)>> \o url, b)
  BY <1>1, <1>2, <1>4, EatsCat
<1> HIDE DEF b, url
<1>6. PICK c : Eats(b, lines, c) /\ AreRead(c, b, m.head, n)
  <2>1. IsSeq(m.head) /\ \A i \in DOMAIN m.head : ProperHeader(m.head[i])
    BY DEF ProperMessage
  <2>2. "length" \notin b.flags
    BY <1>3
  <2> QED BY <1>3, <2>1, <2>2, HeadersEaten
<1>7. DOMAIN m.head = 1..n /\ IsSeq(<<end>>)
  BY SeqIs, Few DEF ProperMessage
<1>8. /\ "length" \in FlagsOf(m.head) <=> LengthLines(m.head) # {}
      /\ "trailing" \notin FlagsOf(m.head)
      /\ m.framing # "bad" => ~Twice(m.head, n) /\ ~({"chunked", "length"} \subseteq FlagsOf(m.head))
      /\ m.framing = "bad" => Twice(m.head, n) \/ {"chunked", "length"} \subseteq FlagsOf(m.head)
  BY FramingIs
<1>9. HeadOf(m) = (<<StartUnit(m)>> \o url) \o (lines \o <<end>>)
  BY DEF HeadOf, HeadUnits, url
<1> HIDE DEF lines, end, n
<1>10. Like(c, b, LineMembers) /\ c.mLastWasValue
  BY <1>6 DEF AreRead
<1>11. /\ IsParser(c) /\ c.at = "head" /\ ~c.mISCompleted /\ ~c.stopped
       /\ c.request = m.request /\ c.status = m.status /\ c.mBody = <<>>
       /\ c.mUrl = "noPath" <=> m.url = "noPath"
  BY <1>3, <1>10 DEF Like, Members, LineMembers, Quiet
<1>12. CASE Twice(m.head, n)
  <2>1. c.error
    BY <1>6, <1>12 DEF AreRead
  <2>2. Eats(b, lines \o <<end>>, c)
    BY <1>6, <1>7, <2>1, EatsError
  <2>3. Eats(p, HeadOf(m), c)
    BY <1>3, <1>5, <1>9, <2>2, EatsCat
  <2>4. ~Good(m)
    BY <1>8, <1>12 DEF Good
  <2> QED BY <1>11, <2>1, <2>3, <2>4
<1>13. CASE ~Twice(m.head, n)
  <2>1. /\ ~c.error
        /\ c.flags = b.flags \cup UNION {m.head[i].flags : i \in 1..n}
        /\ (\A i \in 1..n : "length" \notin m.head[i].flags) => c.length = b.length
        /\ \A i \in 1..n : "length" \in m.head[i].flags => c.length = m.head[i].length
        /\ \A S : b.mHeadValues = HeadersIn(S) /\ Apart(S, m.head) =>
                    c.mHeadValues = HeadersIn(S \cup {m.head[i] : i \in 1..n})
    BY <1>6, <1>13 DEF AreRead
  <2>2. Quiet(c)
    BY <1>11, <2>1 DEF Quiet
  <2>3. c.flags = FlagsOf(m.head)
    BY <1>3, <1>7, <2>1 DEF FlagsOf
  <2>4. /\ LengthLines(m.head) = {} => c.length = NoLength
        /\ \A i \in LengthLines(m.head) : c.length = m.head[i].length
    BY <1>3, <1>7, <2>1 DEF LengthLines
  <2>5. Feed(c, end) = HeadersEnd(c)
    BY <1>11, Fed DEF end
  <2>6. Eats(p, HeadOf(m), HeadersEnd(c))
    <3>1. Eats(c, <<end>>, HeadersEnd(c))
      BY <2>5, EatsFew
    <3>2. Eats(b, lines \o <<end>>, HeadersEnd(c))
      BY <1>6, <2>2, <3>1, EatsCat
    <3> QED BY <1>3, <1>5, <1>9, <3>2, EatsCat
  <2>7. CASE ~Good(m)
    <3>1. {"chunked", "length"} \subseteq c.flags \/ c.mUrl = "noPath"
      BY <1>8, <1>11, <1>13, <2>3, <2>7 DEF Good
    <3>2. HeadersEnd(c) = Failed(c)
      BY <1>8, <2>3, <3>1 DEF HeadersEnd
    <3>3. /\ IsParser(Failed(c)) /\ Failed(c).error /\ ~Failed(c).mISCompleted
          /\ ~Failed(c).stopped
      BY <1>11 DEF Failed, IsParser, Members
    <3> QED BY <2>6, <2>7, <3>2, <3>3
  <2>8. CASE Good(m)
    <3> DEFINE e == [c EXCEPT !.upgrade = Upgrades(c)]
    <3>1. ~({"chunked", "length"} \subseteq c.flags \/ c.mUrl = "noPath")
      BY <1>8, <1>11, <2>3, <2>8 DEF Good
    <3>2. HeadersEnd(c) = BodyStarts(e)
      BY <1>8, <2>3, <3>1 DEF HeadersEnd
    <3>3. Upgrades(c) = Upgrading(m)
      BY <1>11, <2>3 DEF Upgrades, Upgrading
    <3>4. c.mHeadValues = HeadersIn(ToSet(m.head))
      <4>1. b.mHeadValues = HeadersIn({})
        BY <1>3, NoHeaders
      <4>2. Apart({}, m.head)
        BY <2>8 DEF Apart, Unique, ProperMessage, Good
      <4>3. ToSet(m.head) = {} \cup {m.head[i] : i \in 1..n}
        BY <1>7 DEF ToSet
      <4> QED BY <2>1, <4>1, <4>2, <4>3
    <3>5. /\ Like(e, c, {"upgrade"}) /\ e.upgrade = Upgrades(c)
      BY <1>11 DEF Like, IsParser, Members
    <3> HIDE DEF e
    <3>6. /\ IsParser(e) /\ Quiet(e) /\ e.at = "head" /\ e.mLastWasValue
          /\ e.request = c.request /\ e.status = c.status
          /\ e.flags = c.flags /\ e.length = c.length
          /\ e.mHeadValues = c.mHeadValues /\ e.mBody = c.mBody
      BY <1>10, <1>11, <2>2, <3>5 DEF Like, Members, Quiet
    <3>7. Opened(e, m)
      BY <1>11, <2>3, <2>4, <3>3, <3>4, <3>5, <3>6 DEF Opened
    <3> QED BY <2>6, <2>8, <3>2, <3>7
  <2> QED BY <2>7, <2>8
<1> QED BY <1>12, <1>13

\* A message without a trailer has the headers of its head.
LEMMA NoTrailer ==
    ASSUME NEW m, m.trailer = <<>> PROVE HeadersOf(m) = HeadersIn(ToSet(m.head))
<1>1. DOMAIN <<>> = {}
  BY Few, SeqIs, SMT
<1>2. ToSet(<<>>) = {}
  BY <1>1 DEF ToSet
<1>3. ToSet(m.head) \cup ToSet(m.trailer) = ToSet(m.head)
  BY <1>2
<1> QED BY <1>3 DEF HeadersOf

\* Of no byte there is no unit.
LEMMA NoData == DataUnits(<<>>) = <<>>
<1>1. IsSeq(DataUnits(<<>>)) /\ Len(DataUnits(<<>>)) = 0
  BY UnitsOf, Few DEF DataUnits
<1> QED BY <1>1, Few

\* What the headers of a message with a body of known length, or none, say of it.
LEMMA LengthToldBy ==
    ASSUME NEW m, ProperMessage(m), NEW e, Opened(e, m)
    PROVE  /\ "chunked" \in e.flags <=> "chunked" \in FlagsOf(m.head)
           /\ m.framing = "chunked" => "chunked" \in e.flags
           /\ m.framing \in {"length", "eof", "none"} => "chunked" \notin e.flags
           /\ m.framing = "length" => e.length = Len(FlattenSeq(m.body)) /\ FlattenSeq(m.body) # <<>>
           /\ m.framing = "eof" => e.length = NoLength /\ NeedsEof(e) /\ ~Upgrading(m)
           /\ m.framing = "none" => /\ FlattenSeq(m.body) = <<>>
                                    /\ e.length = 0 \/ (e.length = NoLength /\ ~NeedsEof(e))
<1>1. ProperFraming(m) /\ m.request \in BOOLEAN
  BY DEF ProperMessage
<1>2. /\ e.flags = FlagsOf(m.head)
      /\ e.request = m.request /\ e.status = m.status
      /\ LengthLines(m.head) = {} => e.length = NoLength
      /\ \A i \in LengthLines(m.head) : e.length = m.head[i].length
  BY DEF Opened
<1>3. "chunked" \notin e.flags /\ e.length = NoLength => (NeedsEof(e) <=> ~Bodiless(m))
  BY <1>1, <1>2 DEF NeedsEof, Bodiless
<1> DEFINE Says(n) == \E i \in DOMAIN m.head : LengthLines(m.head) = {i} /\ m.head[i].length = n
<1>4. \A n : Says(n) => e.length = n
  BY <1>2
<1> HIDE DEF Says
<1>5. CASE m.framing = "chunked"
  BY <1>1, <1>2, <1>5 DEF ProperFraming
<1>6. CASE m.framing = "length"
  <2>1. "chunked" \notin FlagsOf(m.head) /\ FlattenSeq(m.body) # <<>> /\ Says(Len(FlattenSeq(m.body)))
    BY <1>1, <1>6 DEF ProperFraming, Says
  <2> QED BY <1>2, <1>4, <1>6, <2>1
<1>7. CASE m.framing = "eof"
  <2>1. "chunked" \notin FlagsOf(m.head) /\ LengthLines(m.head) = {} /\ ~Bodiless(m)
    BY <1>1, <1>7 DEF ProperFraming
  <2>2. ~Upgrading(m)
    <3>1. 101 \div 100 = 1
      BY SMT
    <3>2. m.status # 101
      BY <2>1, <3>1 DEF Bodiless
    <3> QED BY <2>1, <3>2 DEF Bodiless, Upgrading
  <2> QED BY <1>2, <1>3, <1>7, <2>1, <2>2
<1>8. CASE m.framing = "none"
  <2>1. /\ "chunked" \notin FlagsOf(m.head) /\ FlattenSeq(m.body) = <<>>
        /\ Says(0) \/ (LengthLines(m.head) = {} /\ Bodiless(m))
    BY <1>1, <1>8 DEF ProperFraming, Says
  <2> QED BY <1>2, <1>3, <1>4, <1>8, <2>1
<1> QED BY <1>2, <1>5, <1>6, <1>7, <1>8

\* The choices of BodyStarts.
BodyChosen(e) ==
    LET chunked == "chunked" \in e.flags IN
    /\ chunked => BodyStarts(e) = [e EXCEPT !.at = "chunkSize"]
    /\ ~chunked /\ e.length = 0 => BodyStarts(e) = Complete(e)
    /\ ~chunked /\ e.length # 0 /\ e.length # NoLength => BodyStarts(e) = [e EXCEPT !.at = "identity"]
    /\ ~chunked /\ e.length = NoLength /\ ~e.upgrade /\ NeedsEof(e) =>
           BodyStarts(e) = [e EXCEPT !.at = "eof"]
    /\ ~chunked /\ e.length = NoLength /\ ~NeedsEof(e) => BodyStarts(e) = Complete(e)

\* There are no others.
LEMMA BodyChosenIs == ASSUME NEW e PROVE BodyChosen(e)
<1>1. NoLength # 0
  BY SMT DEF NoLength
<1>2. NeedsEof(e) => "chunked" \notin e.flags /\ e.length = NoLength
  BY DEF NeedsEof
<1>3. "chunked" \in e.flags => BodyStarts(e) = [e EXCEPT !.at = "chunkSize"]
  BY <1>2, Zenon DEF BodyStarts
<1>4. "chunked" \notin e.flags /\ e.length = 0 => BodyStarts(e) = Complete(e)
  BY <1>1, <1>2, Zenon DEF BodyStarts
<1>5. "chunked" \notin e.flags /\ e.length # 0 /\ e.length # NoLength =>
          BodyStarts(e) = [e EXCEPT !.at = "identity"]
  BY <1>2, Zenon DEF BodyStarts
<1>6. "chunked" \notin e.flags /\ e.length = NoLength /\ ~e.upgrade /\ NeedsEof(e) =>
          BodyStarts(e) = [e EXCEPT !.at = "eof"]
  BY Zenon DEF BodyStarts
<1>7. "chunked" \notin e.flags /\ e.length = NoLength /\ ~NeedsEof(e) => BodyStarts(e) = Complete(e)
  BY Zenon DEF BodyStarts
<1> QED BY <1>3, <1>4, <1>5, <1>6, <1>7 DEF BodyChosen

\* A message without a body.
LEMMA NoneEaten ==
    ASSUME NEW m, ProperMessage(m), Good(m), m.framing = "none", NEW e, Opened(e, m)
    PROVE  \E q : Eats(BodyStarts(e), BodyUnits(m), q) /\ Outcome(q, m) /\ BodyUnits(m) = <<>>
<1>1. /\ "chunked" \notin e.flags /\ FlattenSeq(m.body) = <<>>
      /\ e.length = 0 \/ (e.length = NoLength /\ ~NeedsEof(e))
  BY LengthToldBy
<1>2. BodyStarts(e) = Complete(e)
  BY <1>1, BodyChosenIs, Zenon DEF BodyChosen
<1>3. BodyUnits(m) = <<>>
  BY <1>1, NoData DEF BodyUnits
<1>4. m.trailer = <<>>
  BY DEF ProperMessage
<1>5. Carries(e, m)
  BY <1>1, <1>4, NoTrailer DEF Carries, Opened
<1>6. Outcome(Complete(e), m)
  <2>1. ~e.error /\ IsParser(e)
    BY DEF Opened, Quiet
  <2> QED BY <1>5, <2>1, Completed DEF Like
<1> QED BY <1>2, <1>3, <1>6, EatsFew

\* A message whose length is told.
LEMMA LengthEaten ==
    ASSUME NEW m, ProperMessage(m), Good(m), m.framing = "length", NEW e, Opened(e, m)
    PROVE  \E q : Eats(BodyStarts(e), BodyUnits(m), q) /\ Outcome(q, m) /\ Quiet(BodyStarts(e))
<1> DEFINE body == FlattenSeq(m.body)
           d == [e EXCEPT !.at = "identity"]
<1>1. "chunked" \notin e.flags /\ e.length = Len(body) /\ body # <<>>
  BY LengthToldBy
<1>2. IsSeq(body)
  <2>1. SeqsIn(m.body)
    BY SeqIs DEF ProperMessage, SeqsIn
  <2> QED BY <2>1, FlattenIs
<1>3. BodyUnits(m) = DataUnits(body) /\ m.trailer = <<>>
  BY DEF BodyUnits, ProperMessage
<1> HIDE DEF body
<1>4. Len(body) \in Nat /\ Len(body) # 0 /\ Len(body) # NoLength
  BY <1>1, <1>2, Few DEF IsSeq, NoLength
<1>5. BodyStarts(e) = d
  BY <1>1, <1>4, BodyChosenIs, Zenon DEF BodyChosen
<1>6. /\ Like(d, e, {"at"}) /\ d.at = "identity"
  BY DEF Opened, Like, IsParser, Members
<1> HIDE DEF d
<1>7. /\ IsParser(d) /\ Quiet(d) /\ d.length = Len(body) /\ d.mBody = <<>>
      /\ d.mHeadValues = e.mHeadValues
  BY <1>1, <1>6 DEF Opened, Like, Members, Quiet
<1>8. PICK q : /\ Like(q, d, BodyMembers) /\ q.mBody = d.mBody \o body
               /\ Eats(d, DataUnits(body), IF d.at = "identity" THEN Complete(q)
                                           ELSE [q EXCEPT !.at = "chunkEnd"])
  BY <1>1, <1>2, <1>6, <1>7, Few, LastEaten
<1>9. q.mBody = body /\ ~q.error /\ q.mHeadValues = e.mHeadValues
  BY <1>2, <1>7, <1>8, Few DEF Like, Members, BodyMembers, Quiet
<1>10. Carries(q, m)
  BY <1>3, <1>9, NoTrailer DEF Carries, Opened, body
<1>11. Like(q, e, {"at", "length", "flags", "mBody", "mHeadValues", "mCurrentField",
                   "mLastWasValue", "error"})
  BY <1>6, <1>8 DEF Like, BodyMembers
<1>12. Outcome(Complete(q), m)
  BY <1>9, <1>10, <1>11, Completed
<1> QED BY <1>3, <1>5, <1>6, <1>7, <1>8, <1>12

\* A message that ends with the stream.
LEMMA EofEaten ==
    ASSUME NEW m, ProperMessage(m), Good(m), m.framing = "eof", NEW e, Opened(e, m)
    PROVE  \E q : Eats(BodyStarts(e), BodyUnits(m), q) /\ Outcome(q, m) /\ Quiet(BodyStarts(e))
<1> DEFINE body == FlattenSeq(m.body)
           d == [e EXCEPT !.at = "eof"]
<1>1. "chunked" \notin e.flags /\ e.length = NoLength /\ NeedsEof(e) /\ ~e.upgrade
  BY LengthToldBy DEF Opened
<1>2. IsSeq(body)
  <2>1. SeqsIn(m.body)
    BY SeqIs DEF ProperMessage, SeqsIn
  <2> QED BY <2>1, FlattenIs
<1>3. BodyUnits(m) = DataUnits(body) /\ m.trailer = <<>>
  BY DEF BodyUnits, ProperMessage
<1> HIDE DEF body
<1>5. BodyStarts(e) = d
  BY <1>1, BodyChosenIs, Zenon DEF BodyChosen
<1>6. /\ Like(d, e, {"at"}) /\ d.at = "eof"
  BY DEF Opened, Like, IsParser, Members
<1> HIDE DEF d
<1>7. /\ IsParser(d) /\ Quiet(d) /\ d.length = NoLength /\ d.mBody = <<>>
      /\ d.mHeadValues = e.mHeadValues
  BY <1>1, <1>6 DEF Opened, Like, Members, Quiet
<1>8. PICK q : /\ Eats(d, DataUnits(body), q) /\ Like(q, d, BodyMembers)
               /\ q.mBody = d.mBody \o body
  <2>1. InBody(d) /\ IsSeq(d.mBody)
    BY <1>6, <1>7, Few DEF InBody
  <2> QED BY <1>2, <1>6, <1>7, <2>1, BytesEaten
<1>9. /\ q.mBody = body /\ ~q.error /\ ~q.stopped /\ ~q.mISCompleted /\ q.at = "eof"
      /\ IsParser(q) /\ q.mHeadValues = e.mHeadValues
  BY <1>2, <1>6, <1>7, <1>8, Few DEF Like, Members, BodyMembers, Quiet
<1>10. Carries(q, m)
  BY <1>3, <1>9, NoTrailer DEF Carries, Opened, body
<1> QED BY <1>3, <1>5, <1>7, <1>8, <1>9, <1>10 DEF Outcome

\* Where the last chunk is expected: the line of its size opens the trailer.
LEMMA TrailerStarts ==
    ASSUME NEW p, IsParser(p), Quiet(p), p.at = "chunkSize"
    PROVE  \E r : /\ Eats(p, <<Unit("chunkSize", 0)>>, r)
                  /\ Like(r, p, {"at", "length", "flags"}) /\ Quiet(r)
                  /\ r.at = "head" /\ r.flags = p.flags \cup {"trailing"}
<1> DEFINE r == [p EXCEPT !.length = 0, !.flags = @ \cup {"trailing"}, !.at = "head"]
<1>1. Feed(p, Unit("chunkSize", 0)) = r
  BY Fed DEF ChunkSize
<1>2. /\ Like(r, p, {"at", "length", "flags"})
      /\ r.at = "head" /\ r.flags = p.flags \cup {"trailing"}
  BY DEF IsParser, Members, Like
<1> HIDE DEF r
<1>3. Quiet(r)
  BY <1>2 DEF Like, Members, Quiet
<1> QED BY <1>1, <1>2, <1>3, EatsFew

\* The trailer of a message, and its end.
LEMMA TrailerEaten ==
    ASSUME NEW m, ProperMessage(m), m.framing = "chunked", NEW r, IsParser(r), Quiet(r),
           r.at = "head", r.mLastWasValue, r.flags = FlagsOf(m.head) \cup {"trailing"},
           r.mHeadValues = HeadersIn(ToSet(m.head))
    PROVE  \E c : /\ Eats(r, HeadUnits(m, m.trailer, FALSE), Complete(c))
                  /\ Like(c, r, LineMembers) /\ ~c.error /\ c.mHeadValues = HeadersOf(m)
<1> DEFINE hs == m.trailer
           n == Len(hs)
           lines == FlattenSeq([i \in DOMAIN hs |-> HeaderUnits(hs[i])])
           end == Unit("headersEnd", FALSE)
<1>1. /\ IsSeq(hs) /\ DOMAIN hs = 1..n
      /\ \A i \in 1..n : ProperHeader(hs[i]) /\ hs[i].flags = {}
  BY SeqIs DEF ProperMessage
<1>2. "length" \notin r.flags
  <2>1. LengthLines(m.head) = {}
    BY DEF ProperMessage, ProperFraming
  <2> QED BY <2>1, FramingIs
<1>3. PICK c : Eats(r, lines, c) /\ AreRead(c, r, hs, n)
  BY <1>1, <1>2, HeadersEaten
<1>4. ~Twice(hs, n)
  BY <1>1 DEF Twice
<1>5. /\ Like(c, r, LineMembers) /\ ~c.error
      /\ c.flags = r.flags \cup UNION {hs[i].flags : i \in 1..n}
      /\ \A S : r.mHeadValues = HeadersIn(S) /\ Apart(S, hs) =>
                    c.mHeadValues = HeadersIn(S \cup {hs[i] : i \in 1..n})
  BY <1>3, <1>4 DEF AreRead
<1>6. Apart(ToSet(m.head), hs)
  <2>1. \A i, j \in DOMAIN m.head : i # j => m.head[i].field # m.head[j].field
    BY DEF ProperMessage
  <2>2. Unique(ToSet(m.head))
    BY <2>1 DEF ToSet, Unique
  <2>3. /\ \A i, j \in DOMAIN hs : i # j => hs[i].field # hs[j].field
        /\ \A i \in DOMAIN m.head, j \in DOMAIN hs : m.head[i].field # hs[j].field
    BY DEF ProperMessage
  <2>4. \A i \in DOMAIN hs, g \in ToSet(m.head) : g.field # hs[i].field
    BY <2>3 DEF ToSet
  <2> QED BY <2>2, <2>3, <2>4 DEF Apart
<1>7. c.mHeadValues = HeadersOf(m)
  <2>1. {hs[i] : i \in 1..n} = ToSet(hs)
    BY <1>1 DEF ToSet
  <2> QED BY <1>5, <1>6, <2>1 DEF HeadersOf
<1>8. /\ IsParser(c) /\ Quiet(c) /\ c.at = "head" /\ "trailing" \in c.flags
  <2>1. IsParser(c) /\ ~c.stopped /\ ~c.mISCompleted /\ c.at = "head"
    BY <1>5 DEF Like, Members, LineMembers, Quiet
  <2> QED BY <1>5, <2>1 DEF Quiet
<1>9. Feed(c, end) = Complete(c)
  BY <1>8, Fed DEF HeadersEnd
<1>10. Eats(r, lines \o <<end>>, Complete(c))
  <2> HIDE DEF lines, end
  <2>1. Eats(c, <<end>>, Complete(c))
    <3>1. Eats(c, <<end>>, Feed(c, end))
      BY EatsFew
    <3> QED BY <1>9, <3>1
  <2> QED BY <1>3, <1>8, <2>1, EatsCat
<1> QED BY <1>5, <1>7, <1>10 DEF HeadUnits

\* A message in chunks.
LEMMA ChunkedEaten ==
    ASSUME NEW m, ProperMessage(m), Good(m), m.framing = "chunked", NEW e, Opened(e, m)
    PROVE  \E q : Eats(BodyStarts(e), BodyUnits(m), q) /\ Outcome(q, m) /\ Quiet(BodyStarts(e))
<1> DEFINE body == FlattenSeq(m.body)
           d == [e EXCEPT !.at = "chunkSize"]
           chunks == FlattenSeq([i \in DOMAIN m.body |-> ChunkUnits(m.body[i])])
           last == Unit("chunkSize", 0)
           tail == HeadUnits(m, m.trailer, FALSE)
<1>1. BodyStarts(e) = d
  BY LengthToldBy, BodyChosenIs DEF BodyChosen
<1>2. Like(d, e, {"at"}) /\ d.at = "chunkSize"
  BY DEF Opened, Like, IsParser, Members
<1> HIDE DEF d
<1>3. /\ IsParser(d) /\ Quiet(d) /\ d.mBody = <<>> /\ d.mHeadValues = e.mHeadValues
      /\ d.flags = e.flags /\ d.mLastWasValue
  BY <1>2 DEF Opened, Like, Members, Quiet
<1>4. IsSeq(m.body) /\ \A i \in DOMAIN m.body : IsSeq(m.body[i]) /\ m.body[i] # <<>>
  BY DEF ProperMessage, ProperFraming
<1>5. PICK q : Eats(d, chunks, q) /\ Like(q, d, BodyMembers) /\ q.mBody = d.mBody \o body
  <2>1. IsSeq(d.mBody)
    BY <1>3, Few
  <2>2. IsParser(d) /\ Quiet(d) /\ d.at = "chunkSize"
    BY <1>2, <1>3
  <2>3. \E q : /\ Eats(d, FlattenSeq([i \in DOMAIN m.body |-> ChunkUnits(m.body[i])]), q)
               /\ Like(q, d, BodyMembers) /\ q.mBody = d.mBody \o FlattenSeq(m.body)
    BY ONLY <1>4, <2>1, <2>2, ChunksEaten, Zenon
  <2> QED BY <2>3
<1>6. IsSeq(body)
  <2>1. SeqsIn(m.body)
    BY SeqIs DEF ProperMessage, SeqsIn
  <2> QED BY <2>1, FlattenIs
<1> HIDE DEF chunks
<1>7. /\ IsParser(q) /\ Quiet(q) /\ q.at = "chunkSize" /\ q.mBody = body
      /\ q.mHeadValues = e.mHeadValues /\ q.flags = e.flags /\ q.mLastWasValue
  <2>1. d.mBody \o body = body
    BY <1>3, <1>6, Few
  <2> HIDE DEF body
  <2> QED BY <1>2, <1>3, <1>5, <2>1 DEF Like, Members, BodyMembers, Quiet
<1>8. PICK r : /\ Eats(q, <<last>>, r)
               /\ Like(r, q, {"at", "length", "flags"}) /\ Quiet(r)
               /\ r.at = "head" /\ r.flags = q.flags \cup {"trailing"}
  BY <1>7, TrailerStarts
<1>9. /\ IsParser(r) /\ r.mLastWasValue /\ r.mHeadValues = HeadersIn(ToSet(m.head))
      /\ r.flags = FlagsOf(m.head) \cup {"trailing"} /\ r.mBody = q.mBody
  <2>1. IsParser(r) /\ r.mLastWasValue /\ r.mHeadValues = q.mHeadValues /\ r.mBody = q.mBody
    BY <1>7, <1>8 DEF Like, Members
  <2> QED BY <1>7, <1>8, <2>1 DEF Opened
<1>10. PICK c : /\ Eats(r, tail, Complete(c))
                /\ Like(c, r, LineMembers) /\ ~c.error /\ c.mHeadValues = HeadersOf(m)
  BY <1>8, <1>9, TrailerEaten
<1>11. BodyUnits(m) = (chunks \o <<last>>) \o tail
  BY DEF BodyUnits, chunks
<1> HIDE DEF last, tail
<1>12. Eats(d, BodyUnits(m), Complete(c))
  <2>1. Eats(d, chunks \o <<last>>, r)
    BY <1>5, <1>7, <1>8, EatsCat
  <2> QED BY <1>8, <1>10, <1>11, <2>1, EatsCat
<1>13. Carries(c, m)
  <2>1. c.mBody = r.mBody
    BY <1>10 DEF Like, Members, LineMembers
  <2> QED BY <1>7, <1>9, <1>10, <2>1 DEF Carries
<1>14. Like(c, e, {"at", "length", "flags", "mBody", "mHeadValues", "mCurrentField",
                   "mLastWasValue", "error"})
  BY <1>2, <1>5, <1>8, <1>10 DEF Like, BodyMembers, LineMembers
<1>15. Outcome(Complete(c), m)
  BY <1>10, <1>13, <1>14, Completed
<1> QED BY <1>1, <1>3, <1>12, <1>15

\* The units of a header are a sequence.
LEMMA HeaderUnitsIs == ASSUME NEW h, ProperHeader(h) PROVE IsSeq(HeaderUnits(h))
<1> DEFINE s == [i \in DOMAIN h.field |-> Unit("field", h.field[i])]
           t == [i \in DOMAIN h.value |-> Unit("value", h.value[i])]
           u == <<Unit("line", [flags |-> h.flags, length |-> h.length])>>
<1>1. IsSeq(s) /\ IsSeq(t) /\ IsSeq(u)
  BY UnitsOf, Few DEF ProperHeader
<1>2. HeaderUnits(h) = (s \o t) \o u
  BY DEF HeaderUnits
<1> HIDE DEF s, t, u
<1> QED BY <1>1, <1>2, CatIs

\* The units of a body are a sequence.
LEMMA BodyUnitsIs == ASSUME NEW m, ProperMessage(m) PROVE IsSeq(BodyUnits(m))
<1>1. \A chunk : IsSeq(chunk) => IsSeq(DataUnits(chunk)) /\ IsSeq(ChunkUnits(chunk))
  <2> SUFFICES ASSUME NEW chunk, IsSeq(chunk)
               PROVE  IsSeq(DataUnits(chunk)) /\ IsSeq(ChunkUnits(chunk))
    OBVIOUS
  <2>1. IsSeq(DataUnits(chunk))
    BY UnitsOf DEF DataUnits
  <2> QED BY <2>1, CatIs, Few DEF ChunkUnits
<1>2. \A h : ProperHeader(h) => IsSeq(HeaderUnits(h))
  BY HeaderUnitsIs
<1>3. SeqsIn(m.body) /\ IsSeq(m.trailer) /\ DOMAIN m.body = 1..Len(m.body)
      /\ Len(m.body) \in Nat /\ Len(m.trailer) \in Nat
      /\ DOMAIN m.trailer = 1..Len(m.trailer) /\ \A i \in DOMAIN m.trailer : ProperHeader(m.trailer[i])
  BY SeqIs DEF ProperMessage, SeqsIn, IsSeq
<1>4. IsSeq(DataUnits(FlattenSeq(m.body)))
  BY <1>1, <1>3, FlattenIs
<1>5. IsSeq(FlattenSeq([i \in DOMAIN m.body |-> ChunkUnits(m.body[i])]))
  <2> DEFINE ss == [i \in DOMAIN m.body |-> ChunkUnits(m.body[i])]
  <2>1. DOMAIN ss = 1..Len(m.body) /\ ss = [i \in 1..Len(m.body) |-> ss[i]]
    BY <1>3
  <2>2. \A i \in 1..Len(m.body) : IsSeq(ss[i])
    BY <1>1, <1>3 DEF SeqsIn
  <2> HIDE DEF ss
  <2>3. SeqsIn(ss)
    BY <1>3, <2>1, <2>2, WrittenIs DEF SeqsIn
  <2> QED BY <2>3, FlattenIs DEF ss
<1>6. IsSeq(HeadUnits(m, m.trailer, FALSE))
  <2> DEFINE ss == [i \in DOMAIN m.trailer |-> HeaderUnits(m.trailer[i])]
  <2>1. DOMAIN ss = 1..Len(m.trailer) /\ ss = [i \in 1..Len(m.trailer) |-> ss[i]]
    BY <1>3
  <2>2. \A i \in 1..Len(m.trailer) : IsSeq(ss[i])
    BY <1>2, <1>3
  <2> HIDE DEF ss
  <2>3. SeqsIn(ss)
    BY <1>3, <2>1, <2>2, WrittenIs DEF SeqsIn
  <2>4. IsSeq(FlattenSeq(ss)) /\ IsSeq(<<Unit("headersEnd", FALSE)>>)
    BY <2>3, FlattenIs, Few
  <2> QED BY <2>4, CatIs DEF HeadUnits, ss
<1> QED BY <1>4, <1>5, <1>6, CatIs, Few DEF BodyUnits

\* What a parser makes of a whole message that keeps to the rules, wherever it
\* begins one: it fails within a message whose headers contradict each other or
\* whose target has no path, and is quiet within every other one.  Behind that
\* it carries its headers and its body, and reports it unless its body ends with
\* the stream.
THEOREM MessageEaten ==
    ASSUME NEW m, ProperMessage(m), NEW p, IsParser(p), p.at = "start", ~p.error, ~p.stopped
    PROVE  \E q : Eats(p, MessageUnits(m), q) /\ Outcome(q, m)
<1>1. MessageUnits(m) = HeadOf(m) \o BodyUnits(m)
  BY Zenon DEF MessageUnits, HeadOf, BodyUnits, StartUnit
<1>2. PICK d : /\ Eats(p, HeadOf(m), d)
               /\ ~Good(m) => IsParser(d) /\ d.error /\ ~d.mISCompleted /\ ~d.stopped
               /\ Good(m) => \E e : d = BodyStarts(e) /\ Opened(e, m)
  BY HeadEaten
<1>3. CASE ~Good(m)
  <2>1. Eats(p, HeadOf(m) \o BodyUnits(m), d)
    BY <1>2, <1>3, BodyUnitsIs, EatsError
  <2> QED BY <1>1, <1>2, <1>3, <2>1 DEF Outcome
<1>4. CASE Good(m)
  <2>1. PICK e : d = BodyStarts(e) /\ Opened(e, m)
    BY <1>2, <1>4
  <2>2. m.framing \in {"chunked", "length", "eof", "none"}
    BY <1>4 DEF Good, ProperMessage, ProperFraming
  <2>3. CASE m.framing = "none"
    <3>1. PICK q : Eats(d, BodyUnits(m), q) /\ Outcome(q, m) /\ BodyUnits(m) = <<>>
      BY <1>4, <2>1, <2>3, NoneEaten
    <3>2. IsSeq(HeadOf(m)) /\ HeadOf(m) \o <<>> = HeadOf(m)
      BY <1>2, Few DEF Eats
    <3>3. d = q
      <4>1. PICK f : IsFeed(f, d, <<>>) /\ \E n \in 0..Len(<<>>) : f[n] = q
        BY <3>1 DEF Eats
      <4>2. Len(<<>>) = 0
        BY Few
      <4>3. f[0] = d
        BY <4>1, <4>2, FeedIs
      <4> QED BY <4>1, <4>2, <4>3
    <3> QED BY <1>1, <1>2, <3>1, <3>2, <3>3
  <2>4. CASE m.framing # "none"
    <3>1. PICK q : Eats(d, BodyUnits(m), q) /\ Outcome(q, m) /\ Quiet(d)
      BY <1>4, <2>1, <2>2, <2>4, LengthEaten, EofEaten, ChunkedEaten
    <3>2. Eats(p, HeadOf(m) \o BodyUnits(m), q)
      BY <1>2, <3>1, EatsCat
    <3> QED BY <1>1, <3>1, <3>2
  <2> QED BY <2>3, <2>4
<1> QED BY <1>3, <1>4

\* Where the parts of a sequence begin and end.
Until(ss, k) == Len(FlattenSeq(Upto(ss, k)))
PlacedIn(u, ss, t) ==
    /\ IsSeq(u) /\ Len(u) \in Nat /\ Len(ss) \in Nat
    /\ Until(ss, 0) = 0 /\ Until(ss, Len(ss)) = Len(FlattenSeq(ss))
    /\ Len(FlattenSeq(ss)) \in Nat /\ Len(u) = Len(FlattenSeq(ss)) + Len(t) /\ Len(t) \in Nat
    /\ \A k \in 0..Len(ss) : Until(ss, k) \in 0..Len(FlattenSeq(ss))
    /\ \A k \in 1..Len(ss) :
         /\ Until(ss, k) = Until(ss, k - 1) + Len(ss[k]) /\ Len(ss[k]) \in Nat
         /\ \A i \in 1..Len(ss[k]) : u[Until(ss, k - 1) + i] = ss[k][i]
    /\ \A i \in 1..Len(t) : u[Len(FlattenSeq(ss)) + i] = t[i]

\* They are placed behind each other, and what follows them behind the last.
LEMMA Placed ==
    ASSUME NEW ss, SeqsIn(ss), NEW t, IsSeq(t), NEW u, u = FlattenSeq(ss) \o t
    PROVE  PlacedIn(u, ss, t)
<1> DEFINE F(k) == FlattenSeq(Upto(ss, k))
           all == FlattenSeq(ss)
<1>1. IsSeq(all) /\ Len(ss) \in Nat
  BY FlattenIs DEF SeqsIn, IsSeq
<1>2. /\ IsSeq(u) /\ Len(u) = Len(all) + Len(t) /\ Len(all) \in Nat /\ Len(t) \in Nat
      /\ \A i \in 1..Len(all) : u[i] = all[i]
      /\ \A i \in 1..Len(t) : u[Len(all) + i] = t[i]
  <2> HIDE DEF all
  <2> QED BY <1>1, CatIs DEF all
<1>3. F(0) = <<>> /\ F(Len(ss)) = all
  <2>1. Upto(ss, Len(ss)) = ss
    BY <1>1, UptoIs, SMT DEF SeqsIn
  <2> QED BY <2>1, FlattenStep
<1>4. /\ \A k \in 0..Len(ss) : IsSeq(F(k))
      /\ \A k \in 1..Len(ss) : F(k) = F(k - 1) \o ss[k] /\ IsSeq(ss[k])
  BY FlattenStep DEF SeqsIn
<1>5. ASSUME NEW k \in 0..Len(ss)
      PROVE  Len(F(k)) \in 0..Len(all) /\ \A i \in 1..Len(F(k)) : u[i] = F(k)[i]
  <2>1. IsSeq(FlattenSeq(Drop(ss, k))) /\ F(k) \o FlattenSeq(Drop(ss, k)) = all
    BY FlattenDrop
  <2> DEFINE a == FlattenSeq(Drop(ss, k))
  <2> HIDE DEF a, F, all
  <2>2. /\ Len(all) = Len(F(k)) + Len(a) /\ Len(F(k)) \in Nat /\ Len(a) \in Nat
        /\ \A i \in 1..Len(F(k)) : all[i] = F(k)[i]
    BY <1>4, <2>1, CatIs DEF a
  <2>3. Len(F(k)) \in 0..Len(all) /\ \A i \in 1..Len(F(k)) : i \in 1..Len(all)
    BY <2>2, SMT
  <2> QED BY <1>2, <2>2, <2>3
<1>6. ASSUME NEW k \in 1..Len(ss)
      PROVE  /\ Len(F(k)) = Len(F(k - 1)) + Len(ss[k]) /\ Len(ss[k]) \in Nat
             /\ \A i \in 1..Len(ss[k]) : u[Len(F(k - 1)) + i] = ss[k][i]
  <2>0. k - 1 \in 0..Len(ss) /\ k \in 0..Len(ss)
    BY <1>1, SMT
  <2>1. IsSeq(F(k - 1)) /\ IsSeq(ss[k]) /\ F(k) = F(k - 1) \o ss[k]
    BY <1>4, <2>0
  <2> HIDE DEF F
  <2>2. /\ Len(F(k)) = Len(F(k - 1)) + Len(ss[k])
        /\ Len(ss[k]) \in Nat /\ Len(F(k - 1)) \in Nat
        /\ \A i \in 1..Len(ss[k]) : F(k)[Len(F(k - 1)) + i] = ss[k][i]
    <3> DEFINE x == F(k - 1)
               y == ss[k]
    <3>1. IsSeq(x) /\ IsSeq(y) /\ F(k) = x \o y
      BY <2>1
    <3> HIDE DEF x, y
    <3>2. /\ Len(x \o y) = Len(x) + Len(y) /\ Len(y) \in Nat /\ Len(x) \in Nat
          /\ \A i \in 1..Len(y) : (x \o y)[Len(x) + i] = y[i]
      BY <3>1, CatIs
    <3> QED BY <3>1, <3>2 DEF x, y
  <2>3. \A i \in 1..Len(F(k)) : u[i] = F(k)[i]
    BY <1>5, <2>0
  <2>4. \A i \in 1..Len(ss[k]) : Len(F(k - 1)) + i \in 1..Len(F(k))
    BY <2>2, SMT
  <2> QED BY <2>2, <2>3, <2>4
<1>7. Len(F(0)) = 0 /\ Len(F(Len(ss))) = Len(all)
  BY <1>3, Few
<1>8. \A k : Until(ss, k) = Len(F(k))
  BY DEF Until
<1>9. Len(u) \in Nat /\ \A k \in 0..Len(ss) : Len(F(k)) \in 0..Len(all)
  BY <1>2, <1>5
<1> HIDE DEF all, F
<1>10. \A k \in 1..Len(ss) :
         /\ Until(ss, k) = Until(ss, k - 1) + Len(ss[k]) /\ Len(ss[k]) \in Nat
         /\ \A i \in 1..Len(ss[k]) : u[Until(ss, k - 1) + i] = ss[k][i]
  <2>1. ASSUME NEW k \in 1..Len(ss)
        PROVE  /\ Until(ss, k) = Until(ss, k - 1) + Len(ss[k]) /\ Len(ss[k]) \in Nat
               /\ \A i \in 1..Len(ss[k]) : u[Until(ss, k - 1) + i] = ss[k][i]
    <3>1. Until(ss, k) = Len(F(k)) /\ Until(ss, k - 1) = Len(F(k - 1))
      BY <1>8
    <3> QED BY <1>6, <3>1
  <2> QED BY <2>1
<1>11. /\ Until(ss, 0) = 0 /\ Until(ss, Len(ss)) = Len(all)
       /\ \A k \in 0..Len(ss) : Until(ss, k) \in 0..Len(all)
  BY <1>7, <1>8, <1>9
<1> QED BY <1>1, <1>2, <1>9, <1>10, <1>11 DEF all, PlacedIn

\* A parser that tryParse told nothing of an upgrade.
HttpOnly(p) ==
    IsParser(p) /\ p.stopped \in BOOLEAN /\ p.upgrade \in BOOLEAN /\ ~p.mIsUpgrade /\ ~p.mIsWebSocket

\* Whatever it is given, it remains one.
LEMMA FeedIsHttpOnly == ASSUME NEW p, HttpOnly(p), NEW u PROVE HttpOnly(Feed(p, u))
<1>0. ASSUME NEW q, HttpOnly(q), NEW r, IsParser(r),
             {r.stopped, r.upgrade} \subseteq {q.stopped, q.upgrade},
             r.mIsUpgrade \in {q.mIsUpgrade, FALSE}, r.mIsWebSocket \in {q.mIsWebSocket, FALSE}
      PROVE  HttpOnly(r)
  BY <1>0 DEF HttpOnly
<1>1. \A q : HttpOnly(q) => HttpOnly(Failed(q)) /\ HttpOnly(Complete(q))
  <2> SUFFICES ASSUME NEW q, HttpOnly(q) PROVE HttpOnly(Failed(q)) /\ HttpOnly(Complete(q))
    OBVIOUS
  <2>0. IsParser(q)
    BY DEF HttpOnly
  <2>1. IsParser(Failed(q)) /\ Failed(q).stopped = q.stopped /\ Failed(q).upgrade = q.upgrade
        /\ Failed(q).mIsUpgrade = q.mIsUpgrade /\ Failed(q).mIsWebSocket = q.mIsWebSocket
    BY <2>0 DEF IsParser, Members, Failed
  <2>2. IsParser(Complete(q)) /\ Complete(q).stopped = q.upgrade /\ Complete(q).upgrade = q.upgrade
        /\ Complete(q).mIsUpgrade = q.mIsUpgrade /\ Complete(q).mIsWebSocket = q.mIsWebSocket
    BY <2>0 DEF IsParser, Members, Complete, MessageEnd
  <2> QED BY <1>0, <2>1, <2>2
<1>2. \A v : HttpOnly(Start(p, v))
  <2> SUFFICES ASSUME NEW v PROVE HttpOnly(Start(p, v))
    OBVIOUS
  <2> DEFINE b == ClearParse(p)
             s == Start(p, v)
  <2>1. IsParser(b) /\ b.stopped = p.stopped /\ b.upgrade = p.upgrade
        /\ b.mIsUpgrade = FALSE /\ b.mIsWebSocket = FALSE
    BY DEF HttpOnly, IsParser, Members, ClearParse
  <2> HIDE DEF b
  <2>2. IsParser(s) /\ s.stopped = p.stopped /\ s.upgrade = p.upgrade
        /\ s.mIsUpgrade = FALSE /\ s.mIsWebSocket = FALSE
    BY <2>1 DEF IsParser, Members, Start, b
  <2> HIDE DEF s
  <2> QED BY <1>0, <2>2 DEF s
<1>3. /\ \A v : HttpOnly([p EXCEPT !.mUrl = v])
      /\ \A v : HttpOnly([p EXCEPT !.at = v])
      /\ \A v \in BOOLEAN : HttpOnly([p EXCEPT !.upgrade = v])
      /\ \A v : HttpOnly(HeadField(p, v)) /\ HttpOnly(HeadValue(p, v))
      /\ \A v : HttpOnly(ChunkSize(p, v))
  <2> DEFINE Alike(r) == /\ IsParser(r) /\ r.stopped = p.stopped /\ r.upgrade = p.upgrade
                        /\ r.mIsUpgrade = p.mIsUpgrade /\ r.mIsWebSocket = p.mIsWebSocket
  <2>0. IsParser(p)
    BY DEF HttpOnly
  <2>1. (\A v : Alike([p EXCEPT !.mUrl = v])) /\ (\A v : Alike([p EXCEPT !.at = v]))
    BY <2>0 DEF IsParser, Members
  <2>2. ASSUME NEW v PROVE Alike(HeadField(p, v)) /\ Alike(HeadValue(p, v))
    <3>1. IsParser(HeadField(p, v)) /\ IsParser(HeadValue(p, v))
      BY <2>0 DEF IsParser, Members, HeadField, HeadValue
    <3> QED BY <2>0, <3>1 DEF IsParser, Members, HeadField, HeadValue
  <2>3. ASSUME NEW v PROVE Alike(ChunkSize(p, v))
    <3>1. IsParser(ChunkSize(p, v))
      BY <2>0 DEF IsParser, Members, ChunkSize
    <3> QED BY <2>0, <3>1 DEF IsParser, Members, ChunkSize
  <2>4. \A r : Alike(r) => HttpOnly(r)
    BY <1>0
  <2>5. ASSUME NEW v \in BOOLEAN PROVE HttpOnly([p EXCEPT !.upgrade = v])
    <3> DEFINE r == [p EXCEPT !.upgrade = v]
    <3>1. IsParser(r) /\ r.stopped = p.stopped /\ r.upgrade = v
          /\ r.mIsUpgrade = p.mIsUpgrade /\ r.mIsWebSocket = p.mIsWebSocket
      BY <2>0 DEF IsParser, Members
    <3> HIDE DEF r
    <3>2. HttpOnly(r)
      BY <3>1 DEF HttpOnly
    <3> QED BY <3>2 DEF r
  <2> HIDE DEF Alike
  <2> QED BY <2>1, <2>2, <2>3, <2>4, <2>5
<1>4. \A v : HttpOnly(Line(p, v))
  <2> SUFFICES ASSUME NEW v PROVE HttpOnly(Line(p, v))
    OBVIOUS
  <2> DEFINE q == IF p.mLastWasValue THEN p ELSE HeadValue(p, <<>>)
             r == [q EXCEPT !.flags = @ \cup v.flags,
                            !.length = IF "length" \in v.flags THEN v.length ELSE @]
  <2>1. HttpOnly(q)
    BY <1>3
  <2>2. Line(p, v) = IF "length" \in v.flags \cap p.flags THEN Failed(q) ELSE r
    BY DEF Line
  <2> HIDE DEF q
  <2>3. HttpOnly(r)
    BY <2>1 DEF HttpOnly, IsParser, Members
  <2> QED BY <1>1, <2>1, <2>2, <2>3
<1>5. \A q : HttpOnly(q) => HttpOnly(BodyStarts(q))
  <2> SUFFICES ASSUME NEW q, HttpOnly(q) PROVE HttpOnly(BodyStarts(q))
    OBVIOUS
  <2>1. \A v : HttpOnly([q EXCEPT !.at = v])
    BY DEF HttpOnly, IsParser, Members
  <2> QED BY <1>1, <2>1 DEF BodyStarts
<1>6. HttpOnly(HeadersEnd(p))
  <2>1. Upgrades(p) \in BOOLEAN
    BY DEF Upgrades
  <2> QED BY <1>1, <1>3, <1>5, <2>1 DEF HeadersEnd
<1>7. \A v : HttpOnly(Data(p, v))
  <2> SUFFICES ASSUME NEW v PROVE HttpOnly(Data(p, v))
    OBVIOUS
  <2> DEFINE q == Grown(p, v)
  <2>1. HttpOnly(q)
    BY DEF HttpOnly, IsParser, Members, Grown
  <2>2. Data(p, v) \in {Complete(q), [q EXCEPT !.at = "chunkEnd"], q}
    BY DEF Data, Grown
  <2> HIDE DEF q
  <2>3. HttpOnly([q EXCEPT !.at = "chunkEnd"])
    BY <2>1 DEF HttpOnly, IsParser, Members
  <2> QED BY <1>1, <2>1, <2>2, <2>3
<1> QED BY <1>1, <1>2, <1>3, <1>4, <1>6, <1>7, Zenon DEF Feed

\* Nothing happened before k that http_parser_execute stops at.
Live(f, k) == \A j \in 0..k - 1 : ~f[j].error /\ ~f[j].stopped

\* A message that begins behind the first k units.
BeginsAt(f, p, u, k, m) ==
    /\ IsFeed(f, p, u) /\ Len(u) \in Nat /\ ProperMessage(m)
    /\ k \in Nat /\ k + Len(MessageUnits(m)) <= Len(u)
    /\ \A i \in 1..Len(MessageUnits(m)) : u[k + i] = MessageUnits(m)[i]
    /\ IsParser(f[k]) /\ f[k].at = "start" /\ ~f[k].error /\ ~f[k].stopped

\* What becomes of the parser with its units, up to its end or an error.
LEMMA MessagePart ==
    ASSUME NEW f, NEW p, NEW u, NEW k, NEW m, BeginsAt(f, p, u, k, m),
           NEW i, i \in 1..Len(MessageUnits(m)), Live(f, k + i)
    PROVE  \/ Quiet(f[k + i]) /\ i # Len(MessageUnits(m))
           \/ Outcome(f[k + i], m) /\ (i = Len(MessageUnits(m)) \/ f[k + i].error)
<1> IsFeed(f, p, u) /\ Len(u) \in Nat /\ k \in Nat
  BY DEF BeginsAt
<1>0. PICK t : t = MessageUnits(m)
  OBVIOUS
<1>1. PICK q : Eats(f[k], t, q) /\ Outcome(q, m)
  BY <1>0, MessageEaten DEF BeginsAt
<1>2. IsSeq(t) /\ Len(t) \in Nat
  BY <1>1 DEF Eats, IsSeq
<1>3. PICK g : /\ IsFeed(g, f[k], t)
               /\ \E n \in 0..Len(t) : /\ g[n] = q /\ (n = Len(t) \/ q.error)
                                       /\ \A j \in 1..n - 1 : Quiet(g[j])
  BY <1>1 DEF Eats
<1>5. \A j \in 0..Len(t) : f[k + j] = g[j]
  <2>1. /\ k + Len(t) <= Len(u)
        /\ \A j \in 1..Len(t) : u[k + j] = t[j]
    BY <1>0 DEF BeginsAt
  <2>2. IsFeed(f, p, u) /\ Len(u) \in Nat /\ k \in Nat
    OBVIOUS
  <2>3. IsFeed(g, f[k], t) /\ Len(t) \in Nat
    BY <1>2, <1>3
  <2>4. GoesOn(f, p, u, k, g, f[k], t)
    BY <2>1, <2>2, <2>3 DEF GoesOn
  <2> QED BY ONLY <2>4, FeedShift
<1>4. PICK n \in 0..Len(t) : /\ g[n] = q /\ (n = Len(t) \/ q.error)
                             /\ \A j \in 1..n - 1 : Quiet(g[j])
  BY <1>3
<1>6. i \in 1..Len(t) /\ i \in 0..Len(t)
  BY <1>2, <1>0, SMT
<1>7. CASE i < n
  <2>1. i \in 1..n - 1 /\ i # Len(t)
    BY <1>2, <1>6, <1>7, SMT
  <2> QED BY <1>4, <1>5, <1>6, <2>1, <1>0
<1>8. CASE i = n
  BY <1>1, <1>4, <1>5, <1>6, <1>8, <1>0
<1>9. CASE i > n
  <2>1. q.error
    BY <1>2, <1>4, <1>6, <1>9, SMT
  <2>2. k + n \in 0..(k + i) - 1
    BY <1>2, <1>6, <1>9, SMT
  <2>3. ~f[k + n].error
    BY <2>2 DEF Live
  <2> QED BY <1>4, <1>5, <2>1, <2>3
<1> QED BY <1>2, <1>6, <1>7, <1>8, <1>9, SMT

\* Where no message is accepted any more, the next unit is an error.
LEMMA FailedPart ==
    ASSUME NEW p, NEW u, NEW f, IsFeed(f, p, u), Len(u) \in Nat,
           NEW k \in Nat, k + 1 <= Len(u), Feed(f[k], u[k + 1]) = Failed(f[k]),
           IsParser(f[k]), NEW i \in Nat \ {0}, Live(f, k + i)
    PROVE  i = 1 /\ f[k + 1] = Failed(f[k])
<1>1. f[k + 1] = Failed(f[k])
  BY FeedIs, SMT
<1>2. Failed(f[k]).error
  BY DEF Failed, IsParser, Members
<1>3. i # 1 => k + 1 \in 0..(k + i) - 1
  BY SMT
<1> QED BY <1>1, <1>2, <1>3 DEF Live

\* The units of the messages and of the frames of a conversation.
PartsOfMessages(c) == [i \in DOMAIN c.messages |-> MessageUnits(c.messages[i])]
PartsOfFrames(c) == [i \in DOMAIN c.frames |-> FrameUnits(c.frames[i])]
HttpUnits(c) == FlattenSeq(PartsOfMessages(c))
WsUnits(c) == FlattenSeq(PartsOfFrames(c))

\* A sequence that is two behind each other.
IsCat(c, s, t) == IsSeq(s) /\ IsSeq(t) /\ c = s \o t

\* What it holds is what they hold.
LEMMA CatOf ==
    ASSUME NEW s, NEW t, NEW c, IsCat(c, s, t)
    PROVE  /\ IsSeq(c) /\ Len(c) = Len(s) + Len(t) /\ Len(s) \in Nat /\ Len(t) \in Nat /\ Len(c) \in Nat
           /\ \A i \in 1..Len(s) : c[i] = s[i]
           /\ \A i \in 1..Len(t) : c[Len(s) + i] = t[i]
           /\ s # <<>> => c[1] = s[1]
<1>1. /\ IsSeq(c) /\ Len(c) = Len(s) + Len(t) /\ Len(s) \in Nat /\ Len(t) \in Nat
      /\ \A i \in 1..Len(s) : c[i] = s[i]
      /\ \A i \in 1..Len(t) : c[Len(s) + i] = t[i]
  BY CatIs DEF IsCat
<1>2. s # <<>> => Len(s) # 0
  BY Few DEF IsCat
<1>3. Len(c) \in Nat /\ (s # <<>> => 1 \in 1..Len(s))
  BY <1>1, <1>2, SMT
<1> QED BY <1>1, <1>3

\* A message is a sequence of units that begins with its start.
LEMMA MessageUnitsIs ==
    ASSUME NEW m, ProperMessage(m)
    PROVE  /\ IsSeq(MessageUnits(m)) /\ Len(MessageUnits(m)) \in Nat \ {0}
           /\ MessageUnits(m)[1] = StartUnit(m)
<1>1. IsParser(NewParser) /\ NewParser.at = "start" /\ ~NewParser.error /\ ~NewParser.stopped
  BY DEF NewParser, IsParser, Members
<1>2. IsSeq(HeadOf(m)) /\ IsSeq(BodyUnits(m))
  BY <1>1, HeadEaten, BodyUnitsIs DEF Eats
<1>3. MessageUnits(m) = HeadOf(m) \o BodyUnits(m)
  BY Zenon DEF MessageUnits, HeadOf, BodyUnits, StartUnit
<1> DEFINE s == <<StartUnit(m)>>
           url == IF m.request THEN <<Unit("url", m.url)>> ELSE <<>>
           h == HeadUnits(m, m.head, m.waits)
<1>4. HeadOf(m) = (s \o url) \o h
  BY DEF HeadOf
<1>5. IsSeq(s) /\ Len(s) = 1 /\ s[1] = StartUnit(m) /\ IsSeq(url)
  BY Few
<1>6. IsSeq(h)
  <2> DEFINE hs == m.head
             ss == [i \in DOMAIN hs |-> HeaderUnits(hs[i])]
             end == <<Unit("headersEnd", m.waits)>>
  <2>1. IsSeq(hs) /\ Len(hs) \in Nat /\ DOMAIN hs = 1..Len(hs)
        /\ \A i \in 1..Len(hs) : ProperHeader(hs[i])
    BY SeqIs DEF ProperMessage, IsSeq
  <2>2. \A i \in 1..Len(hs) : IsSeq(ss[i])
    BY <2>1, HeaderUnitsIs
  <2>3. DOMAIN ss = 1..Len(hs) /\ ss = [i \in 1..Len(hs) |-> ss[i]]
    BY <2>1
  <2> HIDE DEF ss
  <2>4. SeqsIn(ss)
    BY <2>1, <2>2, <2>3, WrittenIs DEF SeqsIn
  <2>5. IsSeq(FlattenSeq(ss)) /\ IsSeq(end)
    BY <2>4, FlattenIs, Few
  <2> QED BY <2>5, CatIs DEF HeadUnits, ss
<1> HIDE DEF s, url, h
<1>7. PICK a : a = s \o url
  OBVIOUS
<1>8. PICK b : b = a \o h
  OBVIOUS
<1>9. PICK c : c = b \o BodyUnits(m)
  OBVIOUS
<1>10. b = HeadOf(m) /\ c = MessageUnits(m)
  BY <1>3, <1>4, <1>7, <1>8, <1>9
<1>11. IsSeq(a) /\ Len(a) = Len(s) + Len(url) /\ Len(url) \in Nat /\ (s # <<>> => a[1] = s[1])
  <2>1. IsCat(a, s, url)
    BY <1>5, <1>7 DEF IsCat
  <2> QED BY <2>1, CatOf
<1>12. IsSeq(b) /\ Len(b) = Len(a) + Len(h) /\ Len(h) \in Nat /\ (a # <<>> => b[1] = a[1])
  <2>1. IsCat(b, a, h)
    BY <1>6, <1>8, <1>11 DEF IsCat
  <2> QED BY <2>1, CatOf
<1>13. /\ IsSeq(c) /\ Len(c) = Len(b) + Len(BodyUnits(m)) /\ Len(BodyUnits(m)) \in Nat
       /\ b # <<>> => c[1] = b[1]
  <2>1. IsCat(c, b, BodyUnits(m))
    BY <1>2, <1>9, <1>12 DEF IsCat
  <2> QED BY <2>1, CatOf
<1>14. Len(a) # 0 /\ Len(b) # 0 /\ Len(c) \in Nat \ {0}
  BY <1>5, <1>11, <1>12, <1>13, SMT
<1>15. s # <<>> /\ a # <<>> /\ b # <<>>
  BY <1>5, <1>14, Few
<1> QED BY <1>5, <1>10, <1>11, <1>12, <1>13, <1>14, <1>15

\* A frame is a sequence of bytes.
LEMMA FrameUnitsIs ==
    ASSUME NEW g, ProperFrame(g, TRUE)
    PROVE  LET head == FrameHead(g.length, g.type, g.fin, g.mask)
               payload == Masked(g.payload, g.mask)
           IN /\ IsSeq(head) /\ Len(head) \in Nat /\ Len(head) >= 2
              /\ IsSeq(payload) /\ Len(payload) = Len(g.payload)
              /\ IsSeq(FrameUnits(g)) /\ Len(FrameUnits(g)) = Len(head) + Len(g.payload)
              /\ \A i \in 1..Len(FrameUnits(g)) :
                    FrameUnits(g)[i] = Unit("byte", (head \o payload)[i])
<1> DEFINE n == g.length
           two == <<g.type + (IF g.fin THEN Half ELSE 0),
                    LengthCode(n) + (IF g.mask # <<>> THEN Half ELSE 0)>>
           head == FrameHead(n, g.type, g.fin, g.mask)
           payload == Masked(g.payload, g.mask)
           bytes == head \o payload
<1>1. IsSeq(g.mask) /\ IsSeq(g.payload) /\ Len(g.payload) \in Nat /\ Len(g.mask) \in Nat
  BY SeqIs, LenProperties DEF ProperFrame
<1>2. IsSeq(two) /\ Len(two) = 2
  <2>1. \A x, y : <<x, y>> \in Seq({x, y}) /\ Len(<<x, y>>) = 2
    OBVIOUS
  <2> QED BY <2>1, SeqIs
<1>3. IsSeq(ExtendedLength(n)) /\ Len(ExtendedLength(n)) \in Nat
  <2>1. \A x, y : <<x, y>> \in Seq({x, y})
    OBVIOUS
  <2>2. \A x1, x2, x3, x4, x5, x6, x7, x8 :
            <<x1, x2, x3, x4, x5, x6, x7, x8>> \in Seq({x1, x2, x3, x4, x5, x6, x7, x8})
    OBVIOUS
  <2>3. IsSeq(ExtendedLength(n))
    BY <2>1, <2>2, SeqIs, Few, Zenon DEF ExtendedLength
  <2> QED BY <2>3 DEF IsSeq
<1>4. head = (two \o ExtendedLength(n)) \o g.mask
  BY DEF FrameHead
<1> HIDE DEF two
<1>5. IsSeq(head) /\ Len(head) \in Nat /\ Len(head) >= 2
  <2> HIDE DEF head
  <2>1. PICK a : a = two \o ExtendedLength(n)
    OBVIOUS
  <2>2. head = a \o g.mask
    BY <1>4, <2>1
  <2>3. IsSeq(a) /\ Len(a) = Len(two) + Len(ExtendedLength(n))
    <3>1. IsCat(a, two, ExtendedLength(n))
      BY <1>2, <1>3, <2>1 DEF IsCat
    <3> QED BY <3>1, CatOf
  <2>4. IsSeq(head) /\ Len(head) = Len(a) + Len(g.mask)
    <3>1. IsCat(head, a, g.mask)
      BY <1>1, <2>2, <2>3 DEF IsCat
    <3> QED BY <3>1, CatOf
  <2>5. /\ Len(two) = 2 /\ Len(ExtendedLength(n)) \in Nat /\ Len(g.mask) \in Nat
        /\ Len(a) = Len(two) + Len(ExtendedLength(n)) /\ Len(head) = Len(a) + Len(g.mask)
    BY <1>1, <1>2, <1>3, <2>3, <2>4
  <2>6. Len(head) \in Nat /\ Len(head) >= 2
    <3> DEFINE x == Len(ExtendedLength(n))
               y == Len(g.mask)
               z == Len(head)
    <3>1. x \in Nat /\ y \in Nat /\ z = (2 + x) + y
      BY <2>5
    <3> HIDE DEF x, y, z
    <3>2. z \in Nat /\ z >= 2
      BY ONLY <3>1, SMT
    <3> QED BY <3>2 DEF z
  <2> QED BY <2>4, <2>6
<1>6. IsSeq(payload) /\ Len(payload) = Len(g.payload)
  <2>1. CASE g.mask = <<>>
    BY <1>1, <2>1 DEF Masked
  <2>2. CASE g.mask # <<>>
    <3>1. payload = [i \in 1..Len(g.payload) |-> payload[i]] /\ DOMAIN payload = 1..Len(g.payload)
      BY <2>2 DEF Masked
    <3> HIDE DEF payload
    <3> QED BY <1>1, <3>1, WrittenIs
  <2> QED BY <2>1, <2>2
<1> HIDE DEF head, payload
<1>71. FrameUnits(g) = [i \in DOMAIN bytes |-> Unit("byte", bytes[i])]
  BY DEF FrameUnits, head, payload
<1>72. PICK all : all = head \o payload
  OBVIOUS
<1>7. IsSeq(all) /\ Len(all) = Len(head) + Len(g.payload)
  <2>1. IsCat(all, head, payload)
    BY <1>5, <1>6, <1>72 DEF IsCat
  <2> QED BY <1>6, <2>1, CatOf
<1>8. FrameUnits(g) = [i \in DOMAIN all |-> Unit("byte", all[i])]
  BY <1>71, <1>72
<1> HIDE DEF bytes
<1>9. /\ IsSeq(FrameUnits(g)) /\ Len(FrameUnits(g)) = Len(all)
      /\ \A i \in 1..Len(all) : FrameUnits(g)[i] = Unit("byte", all[i])
  BY <1>7, <1>8, UnitsOf
<1>10. /\ IsSeq(FrameUnits(g)) /\ Len(FrameUnits(g)) = Len(head) + Len(g.payload)
       /\ \A i \in 1..Len(FrameUnits(g)) : FrameUnits(g)[i] = Unit("byte", (head \o payload)[i])
  BY <1>7, <1>72, <1>9
<1> QED BY <1>5, <1>6, <1>10 DEF head, payload

\* The units of a conversation.
LEMMA UnitsAre ==
    ASSUME NEW c, Proper(c)
    PROVE  /\ Units(c) = HttpUnits(c) \o WsUnits(c)
           /\ SeqsIn(PartsOfMessages(c)) /\ SeqsIn(PartsOfFrames(c))
           /\ IsSeq(HttpUnits(c)) /\ IsSeq(WsUnits(c))
           /\ Len(PartsOfMessages(c)) = Len(c.messages) /\ Len(c.messages) \in Nat
           /\ Len(PartsOfFrames(c)) = Len(c.frames) /\ Len(c.frames) \in Nat
           /\ DOMAIN c.messages = 1..Len(c.messages) /\ DOMAIN c.frames = 1..Len(c.frames)
           /\ \A i \in 1..Len(c.messages) :
                 PartsOfMessages(c)[i] = MessageUnits(c.messages[i]) /\ ProperMessage(c.messages[i])
           /\ \A i \in 1..Len(c.frames) :
                 PartsOfFrames(c)[i] = FrameUnits(c.frames[i]) /\ ProperFrame(c.frames[i], TRUE)
<1>1. IsSeq(c.messages) /\ IsSeq(c.frames)
  BY DEF Proper, ProperMessages, ProperFrames
<1>2. /\ DOMAIN c.messages = 1..Len(c.messages) /\ DOMAIN c.frames = 1..Len(c.frames)
      /\ Len(c.messages) \in Nat /\ Len(c.frames) \in Nat
  BY <1>1, SeqIs DEF IsSeq
<1>3. /\ \A i \in 1..Len(c.messages) : ProperMessage(c.messages[i])
      /\ \A i \in 1..Len(c.frames) : ProperFrame(c.frames[i], TRUE)
  BY <1>2 DEF Proper, ProperMessages, ProperFrames, ProperFrame
<1> DEFINE mu == PartsOfMessages(c)
           fu == PartsOfFrames(c)
<1>4. /\ \A i \in 1..Len(c.messages) : mu[i] = MessageUnits(c.messages[i])
      /\ DOMAIN mu = 1..Len(c.messages) /\ mu = [i \in 1..Len(c.messages) |-> mu[i]]
  BY <1>2 DEF PartsOfMessages
<1>5. /\ \A i \in 1..Len(c.frames) : fu[i] = FrameUnits(c.frames[i])
      /\ DOMAIN fu = 1..Len(c.frames) /\ fu = [i \in 1..Len(c.frames) |-> fu[i]]
  BY <1>2 DEF PartsOfFrames
<1>6. Units(c) = FlattenSeq(mu) \o FlattenSeq(fu)
  BY DEF Units, PartsOfMessages, PartsOfFrames
<1> HIDE DEF mu, fu
<1>7. /\ \A i \in 1..Len(c.messages) : IsSeq(mu[i])
      /\ \A i \in 1..Len(c.frames) : IsSeq(fu[i])
  <2>1. \A i \in 1..Len(c.messages) : IsSeq(mu[i])
    BY <1>3, <1>4, MessageUnitsIs
  <2>2. \A g : ProperFrame(g, TRUE) => IsSeq(FrameUnits(g))
    BY FrameUnitsIs
  <2> QED BY <1>3, <1>5, <2>1, <2>2
<1>8. IsSeq(mu) /\ Len(mu) = Len(c.messages) /\ IsSeq(fu) /\ Len(fu) = Len(c.frames)
  BY <1>2, <1>4, <1>5, WrittenIs
<1>9. SeqsIn(mu) /\ SeqsIn(fu)
  BY <1>7, <1>8 DEF SeqsIn
<1>10. IsSeq(FlattenSeq(mu)) /\ IsSeq(FlattenSeq(fu))
  BY <1>9, FlattenIs
<1> QED BY <1>2, <1>3, <1>4, <1>5, <1>6, <1>8, <1>9, <1>10 DEF HttpUnits, WsUnits, mu, fu

\* What an HTTP parser makes of a message that it does not accept any more: it
\* fails with what it carries, the message before.
NotTaken(q, c) ==
    \E j \in DOMAIN c.messages :
        \E p : /\ q = Failed(p) /\ Outcome(p, c.messages[j]) /\ p.mISCompleted
               /\ ~p.stopped /\ ~p.error
               /\ Len(c.messages) # 1 \/ c.frames # <<>>

\* What became of a parser at k, if it was looked at all the units before: it is
\* within a message, at the start, at the end of a message or where one failed,
\* where what follows is refused, or it failed without a message.
Passed(f, c, k) ==
    \/ Quiet(f[k]) /\ k < Len(HttpUnits(c))
    \/ f[k] = NewParser /\ k = 0
    \/ \E j \in DOMAIN c.messages :
          Outcome(f[k], c.messages[j]) /\ (k = Until(PartsOfMessages(c), j) \/ f[k].error)
    \/ NotTaken(f[k], c)
    \/ f[k].error /\ ~f[k].mISCompleted /\ ~f[k].stopped

\* Where a message ends, there is an error, or what the message ends in.
EndsIn(f, c, j) ==
    LET q == f[Until(PartsOfMessages(c), j)] IN
    q.error \/ (j = 0 /\ q = NewParser) \/ (j # 0 /\ Outcome(q, c.messages[j]))

\* What is known of the first j messages.
PassedUntil(f, c, j) ==
    /\ \A k \in 0..Until(PartsOfMessages(c), j) : Live(f, k) => Passed(f, c, k)
    /\ Live(f, Until(PartsOfMessages(c), j)) => EndsIn(f, c, j)

\* Live goes backwards.
LEMMA LiveBefore ==
    ASSUME NEW f, NEW k \in Nat, NEW j \in 0..k, Live(f, k)
    PROVE  Live(f, j) /\ (j < k => ~f[j].error /\ ~f[j].stopped)
<1>1. \A i \in 0..j - 1 : i \in 0..k - 1
  BY SMT
<1>2. j < k => j \in 0..k - 1
  BY SMT
<1> QED BY <1>1, <1>2 DEF Live

\* Where a parser is when a message ended that it goes on behind.
LEMMA WhereItGoesOn ==
    ASSUME NEW c, Proper(c), NEW f, NEW j \in 0..Len(c.messages), j < Len(c.messages),
           EndsIn(f, c, j), NEW q, q = f[Until(PartsOfMessages(c), j)], ~q.error, ~q.stopped
    PROVE  /\ IsParser(q) /\ q.at \in {"start", "dead"}
           /\ q.at = "dead" => j # 0 /\ Outcome(q, c.messages[j]) /\ q.mISCompleted
<1>1. CASE j = 0
  <2>1. q = NewParser \/ q.error
    BY <1>1 DEF EndsIn
  <2> QED BY <1>1, <2>1 DEF NewParser, IsParser, Members
<1>2. CASE j # 0
  <2>1. Outcome(q, c.messages[j])
    BY <1>2 DEF EndsIn
  <2>2. Len(c.messages) \in Nat /\ DOMAIN c.messages = 1..Len(c.messages)
    BY UnitsAre
  <2>3. j \in 1..Len(c.messages) /\ j # Len(c.messages)
    BY <1>2, <2>2, SMT
  <2>4. c.messages[j].framing # "eof"
    BY <2>2, <2>3 DEF Proper, ProperMessages
  <2>5. Good(c.messages[j])
    BY <2>1 DEF Outcome
  <2> QED BY <1>2, <2>1, <2>4, <2>5 DEF Outcome
<1> QED BY <1>1, <1>2

\* One message more.
LEMMA PassedMore ==
    ASSUME NEW c, Proper(c), NEW f, IsFeed(f, NewParser, Units(c)),
           NEW j \in Nat, j < Len(c.messages), PassedUntil(f, c, j)
    PROVE  PassedUntil(f, c, j + 1)
<1> DEFINE mu == PartsOfMessages(c)
           u == Units(c)
           b == Until(mu, j)
           m == c.messages[j + 1]
           n == Len(MessageUnits(m))
           q == f[b]
<1>1. /\ Len(c.messages) \in Nat /\ DOMAIN c.messages = 1..Len(c.messages)
      /\ Len(mu) = Len(c.messages) /\ SeqsIn(mu) /\ IsSeq(WsUnits(c))
      /\ u = FlattenSeq(mu) \o WsUnits(c)
      /\ \A i \in 1..Len(c.messages) : mu[i] = MessageUnits(c.messages[i]) /\ ProperMessage(c.messages[i])
  BY UnitsAre DEF HttpUnits
<1>2. j + 1 \in 1..Len(c.messages) /\ (j + 1) - 1 = j /\ j \in 0..Len(c.messages)
      /\ j + 1 \in 0..Len(c.messages) /\ j + 1 # 0
  BY <1>1, SMT
<1>3. mu[j + 1] = MessageUnits(m) /\ ProperMessage(m)
  BY <1>1, <1>2
<1> HIDE DEF mu, u
<1>4. /\ Len(u) \in Nat /\ \A k \in 0..Len(mu) : Until(mu, k) \in 0..Len(FlattenSeq(mu))
      /\ \A k \in 1..Len(mu) :
           /\ Until(mu, k) = Until(mu, k - 1) + Len(mu[k]) /\ Len(mu[k]) \in Nat
           /\ \A i \in 1..Len(mu[k]) : u[Until(mu, k - 1) + i] = mu[k][i]
      /\ Len(u) = Len(FlattenSeq(mu)) + Len(WsUnits(c)) /\ Len(WsUnits(c)) \in Nat
      /\ Len(FlattenSeq(mu)) \in Nat
  <2>1. SeqsIn(mu) /\ IsSeq(WsUnits(c)) /\ u = FlattenSeq(mu) \o WsUnits(c)
    BY <1>1
  <2> USE <2>1
  <2>2. PlacedIn(u, mu, WsUnits(c))
    BY ONLY Placed, SeqsIn(mu), IsSeq(WsUnits(c)), u = FlattenSeq(mu) \o WsUnits(c)
  <2> QED BY <2>2 DEF PlacedIn
<1>5. /\ Until(mu, j + 1) = b + n /\ n \in Nat \ {0}
      /\ \A i \in 1..n : u[b + i] = MessageUnits(m)[i]
      /\ MessageUnits(m)[1] = StartUnit(m)
  <2> DEFINE x == MessageUnits(m)
  <2>1. Len(x) \in Nat \ {0} /\ x[1] = StartUnit(m)
    BY <1>3, MessageUnitsIs
  <2>2. j + 1 \in 1..Len(mu) /\ mu[j + 1] = x
    BY <1>1, <1>2, <1>3
  <2> HIDE DEF x, m
  <2>3. /\ Until(mu, j + 1) = Until(mu, (j + 1) - 1) + Len(mu[j + 1])
        /\ \A i \in 1..Len(mu[j + 1]) : u[Until(mu, (j + 1) - 1) + i] = mu[j + 1][i]
    BY <1>4, <2>2
  <2> QED BY <1>2, <2>1, <2>2, <2>3 DEF x
<1>6. /\ b \in 0..Len(FlattenSeq(mu)) /\ b + n \in 0..Len(FlattenSeq(mu))
  BY <1>1, <1>2, <1>4, <1>5
<1> DEFINE h == Len(FlattenSeq(mu))
<1>7. h = Len(HttpUnits(c))
  BY DEF HttpUnits, mu
<1> HIDE DEF h, n, b
<1>8. h \in Nat /\ b \in Nat /\ n \in Nat \ {0} /\ b + n <= h /\ b + n <= Len(u)
  BY <1>4, <1>5, <1>6, SMT DEF h
<1>9. ASSUME NEW i, i \in 1..n, Live(f, b + i)
      PROVE  /\ Passed(f, c, b + i)
             /\ i = n => f[b + n].error \/ Outcome(f[b + n], m)
  <2>0. b + i \in Nat /\ b \in 0..b + i /\ b < b + i
    BY <1>8, <1>9, SMT
  <2>1. Live(f, b) /\ ~q.error /\ ~q.stopped
    BY <1>9, <2>0, LiveBefore
  <2>2. EndsIn(f, c, j)
    BY <2>1 DEF PassedUntil, b, mu
  <2>3. /\ IsParser(q) /\ q.at \in {"start", "dead"}
        /\ q.at = "dead" => j # 0 /\ Outcome(q, c.messages[j]) /\ q.mISCompleted
    BY <1>2, <2>1, <2>2, WhereItGoesOn DEF b, mu
  <2>4. IsFeed(f, NewParser, u)
    BY DEF u
  <2>5. CASE q.at = "start"
    <3>1. \/ Quiet(f[b + i]) /\ i # n
          \/ Outcome(f[b + i], m) /\ (i = n \/ f[b + i].error)
      <4>1. b + Len(MessageUnits(m)) <= Len(u)
            /\ \A k \in 1..Len(MessageUnits(m)) : u[b + k] = MessageUnits(m)[k]
            /\ i \in 1..Len(MessageUnits(m))
        BY <1>5, <1>8, <1>9 DEF n
      <4>2. IsParser(f[b]) /\ f[b].at = "start" /\ ~f[b].error /\ ~f[b].stopped
        BY <2>1, <2>3, <2>5
      <4>3. BeginsAt(f, NewParser, u, b, m)
        BY <1>3, <1>4, <1>8, <2>4, <4>1, <4>2 DEF BeginsAt
      <4> QED BY ONLY <1>9, <4>1, <4>3, MessagePart DEF n
    <3>2. CASE Quiet(f[b + i]) /\ i # n
      <4>1. b + i < h
        <5>1. i \in 1..n /\ i # n
          BY <1>9, <3>2
        <5> HIDE DEF q, m
        <5> QED BY <1>8, <5>1, SMT
      <4> QED BY <1>7, <3>2, <4>1 DEF Passed
    <3>3. CASE Outcome(f[b + i], m) /\ (i = n \/ f[b + i].error)
      <4>1. i = n => b + i = Until(PartsOfMessages(c), j + 1)
        BY <1>5 DEF mu
      <4> QED BY <1>1, <1>2, <3>3, <4>1 DEF Passed
    <3> QED BY <3>1, <3>2, <3>3
  <2>6. CASE q.at = "dead"
    <3>1. j # 0 /\ Outcome(q, c.messages[j]) /\ q.mISCompleted
      BY <2>3, <2>6
    <3>2. u[b + 1] = StartUnit(m)
      <4>1. 1 \in 1..n
        BY <1>8, SMT
      <4> QED BY <1>5, <4>1
    <3>3. Feed(q, u[b + 1]) = Failed(q)
      <4>1. PICK v : StartUnit(m) = Unit("start", v)
        BY DEF StartUnit
      <4>2. q.at # "start"
        BY <2>6
      <4>3. Feed(q, Unit("start", v)) = Failed(q)
        BY <4>2, Fed
      <4> QED BY <3>2, <4>1, <4>3
    <3>4. i = 1 /\ f[b + 1] = Failed(q)
      <4>1. b + 1 <= Len(u) /\ i \in Nat \ {0}
        BY <1>4, <1>8, <1>9, SMT
      <4> USE <1>4, <1>8, <1>9, <2>3, <2>4, <3>3, <4>1
      <4> QED BY ONLY FailedPart, IsFeed(f, NewParser, u), Len(u) \in Nat, b \in Nat,
                      b + 1 <= Len(u), Feed(f[b], u[b + 1]) = Failed(f[b]), IsParser(f[b]),
                      i \in Nat \ {0}, Live(f, b + i)
    <3>5. j \in DOMAIN c.messages /\ Len(c.messages) # 1
      BY <1>1, <1>2, <3>1, SMT
    <3>6. NotTaken(f[b + i], c)
      BY <2>1, <3>1, <3>4, <3>5 DEF NotTaken
    <3>7. f[b + i].error
      BY <2>3, <3>4 DEF Failed, IsParser, Members
    <3> QED BY <3>6, <3>7 DEF Passed
  <2> QED BY <2>3, <2>5, <2>6
<1>10. \A k \in 0..b + n : Live(f, k) => Passed(f, c, k)
  <2> SUFFICES ASSUME NEW k \in 0..b + n, Live(f, k) PROVE Passed(f, c, k)
    OBVIOUS
  <2>1. CASE k \in 0..b
    BY <2>1 DEF PassedUntil, b, mu
  <2>2. CASE k \notin 0..b
    <3>1. k - b \in 1..n /\ b + (k - b) = k
      BY <1>8, <2>2, SMT
    <3> QED BY <1>9, <3>1
  <2> QED BY <2>1, <2>2
<1>11. Live(f, b + n) => f[b + n].error \/ Outcome(f[b + n], m)
  <2>1. n \in 1..n
    BY <1>8, SMT
  <2> QED BY <1>9, <2>1
<1> QED BY <1>2, <1>5, <1>10, <1>11 DEF PassedUntil, EndsIn, mu

\* What is known of all the messages.
LEMMA PassedMessages ==
    ASSUME NEW c, Proper(c), NEW f, IsFeed(f, NewParser, Units(c))
    PROVE  PassedUntil(f, c, Len(c.messages))
<1> DEFINE n == Len(c.messages)
           T == {j \in Nat : j <= n => PassedUntil(f, c, j)}
<1>1. n \in Nat
  BY UnitsAre
<1>2. 0 \in T
  <2>1. SeqsIn(PartsOfMessages(c)) /\ IsSeq(WsUnits(c))
        /\ Units(c) = FlattenSeq(PartsOfMessages(c)) \o WsUnits(c)
    BY UnitsAre DEF HttpUnits
  <2>2. PlacedIn(Units(c), PartsOfMessages(c), WsUnits(c))
    BY <2>1, Placed
  <2>3. Until(PartsOfMessages(c), 0) = 0 /\ Len(Units(c)) \in Nat
    BY <2>2 DEF PlacedIn
  <2>4. f[0] = NewParser
    BY <2>3, FeedIs
  <2>5. \A k \in 0..0 : k = 0
    OBVIOUS
  <2>6. \A k \in 0..0 : Passed(f, c, k)
    BY <2>4, <2>5 DEF Passed
  <2>7. EndsIn(f, c, 0)
    BY <2>3, <2>4 DEF EndsIn
  <2>8. PassedUntil(f, c, 0)
    BY <2>3, <2>6, <2>7 DEF PassedUntil
  <2> QED BY <2>8
<1>3. ASSUME NEW j \in Nat, j \in T PROVE j + 1 \in T
  <2> SUFFICES ASSUME j + 1 <= n PROVE PassedUntil(f, c, j + 1)
    OBVIOUS
  <2>1. j < n /\ j <= n
    BY <1>1, SMT
  <2> QED BY <1>3, <2>1, PassedMore
<1> HIDE DEF T
<1>4. n \in T
  BY <1>1, <1>2, <1>3, NatSetInduction
<1>5. n <= n
  BY <1>1, SMT
<1> HIDE DEF n
<1>6. PassedUntil(f, c, n)
  BY <1>4, <1>5 DEF T
<1> QED BY <1>6 DEF n

\* Where there are frames, their first unit is a byte.
LEMMA WsStarts ==
    ASSUME NEW c, Proper(c)
    PROVE  /\ c.frames = <<>> => WsUnits(c) = <<>>
           /\ c.frames # <<>> => \E v : WsUnits(c)[1] = Unit("byte", v)
<1> DEFINE fu == PartsOfFrames(c)
           w == WsUnits(c)
<1>1. /\ SeqsIn(fu) /\ IsSeq(w) /\ Len(fu) = Len(c.frames) /\ Len(c.frames) \in Nat
      /\ \A i \in 1..Len(c.frames) : fu[i] = FrameUnits(c.frames[i]) /\ ProperFrame(c.frames[i], TRUE)
  BY UnitsAre
<1>2. w = FlattenSeq(fu) \o <<>>
  <2>1. IsSeq(FlattenSeq(fu))
    BY <1>1, FlattenIs
  <2> QED BY <2>1, Few DEF WsUnits
<1>3. IsSeq(c.frames)
  BY DEF Proper, ProperFrames
<1> HIDE DEF fu, w
<1>4. PlacedIn(w, fu, <<>>)
  BY <1>1, <1>2, Placed, Few
<1>5. CASE c.frames = <<>>
  <2>1. Len(fu) = 0
    BY <1>1, <1>5, Few
  <2>2. Len(w) = 0
    BY <1>4, <2>1, Few, SMT DEF PlacedIn
  <2> QED BY <1>1, <1>5, <2>2, Few DEF w
<1>6. CASE c.frames # <<>>
  <2>1. Len(c.frames) # 0
    BY <1>3, <1>6, Few
  <2>2. 1 \in 1..Len(c.frames) /\ 1 - 1 = 0
    BY <1>1, <2>1, SMT
  <2>3. fu[1] = FrameUnits(c.frames[1]) /\ ProperFrame(c.frames[1], TRUE)
    BY <1>1, <2>2
  <2> DEFINE g == c.frames[1]
  <2>4. /\ Len(FrameUnits(g)) = Len(FrameHead(g.length, g.type, g.fin, g.mask)) + Len(g.payload)
        /\ Len(FrameHead(g.length, g.type, g.fin, g.mask)) \in Nat
        /\ Len(FrameHead(g.length, g.type, g.fin, g.mask)) >= 2
        /\ \A i \in 1..Len(FrameUnits(g)) : \E v : FrameUnits(g)[i] = Unit("byte", v)
    BY <2>3, FrameUnitsIs
  <2>5. Len(g.payload) \in Nat
    BY <2>3, LenProperties DEF ProperFrame
  <2>6. 1 \in 1..Len(FrameUnits(g))
    <3> DEFINE x == Len(FrameHead(g.length, g.type, g.fin, g.mask))
               y == Len(g.payload)
               l == Len(FrameUnits(g))
    <3>1. l = x + y /\ x \in Nat /\ x >= 2 /\ y \in Nat
      BY <2>4, <2>5
    <3> HIDE DEF x, y, l
    <3>2. 1 \in 1..l
      BY ONLY <3>1, SMT
    <3> QED BY <3>2 DEF l
  <2>7. PICK v : fu[1][1] = Unit("byte", v)
    BY <2>3, <2>4, <2>6
  <2>8. w[Until(fu, 0) + 1] = fu[1][1] /\ Until(fu, 0) = 0
    BY <1>1, <1>4, <2>2, <2>3, <2>6 DEF PlacedIn
  <2> QED BY <1>6, <2>7, <2>8 DEF w
<1> QED BY <1>5, <1>6

\* What became of a parser, wherever it is.
LEMMA PassedAll ==
    ASSUME NEW c, Proper(c), NEW f, IsFeed(f, NewParser, Units(c)),
           NEW k \in 0..Len(Units(c)), Live(f, k)
    PROVE  Passed(f, c, k) /\ (k > Len(HttpUnits(c)) => f[k].error)
<1> DEFINE u == Units(c)
           mu == PartsOfMessages(c)
           w == WsUnits(c)
           n == Len(c.messages)
           h == Len(HttpUnits(c))
           z == f[h]
<1>1. /\ SeqsIn(mu) /\ IsSeq(w) /\ u = FlattenSeq(mu) \o w
      /\ Len(mu) = n /\ n \in Nat /\ DOMAIN c.messages = 1..n
      /\ \A i \in 1..n : ProperMessage(c.messages[i])
  BY UnitsAre DEF HttpUnits
<1> HIDE DEF u, mu, w
<1>2. PlacedIn(u, mu, w)
  BY <1>1, Placed
<1>3. Until(mu, n) = h /\ h \in Nat /\ Len(u) = h + Len(w) /\ Len(w) \in Nat /\ Len(u) \in Nat
      /\ \A i \in 1..Len(w) : u[h + i] = w[i]
  BY <1>1, <1>2 DEF PlacedIn, HttpUnits, mu
<1>4. PassedUntil(f, c, n)
  BY PassedMessages
<1> HIDE DEF h
<1>5. k \in 0..h \/ h < k
  BY <1>3, SMT DEF u
<1>6. CASE k \in 0..h
  <2>1. Passed(f, c, k)
    BY <1>3, <1>4, <1>6 DEF PassedUntil, mu
  <2>2. ~(k > h)
    BY <1>3, <1>6, SMT
  <2> QED BY <2>1, <2>2 DEF h
<1>7. CASE h < k
  <2>1. /\ k \in Nat /\ h \in 0..k /\ k - h \in Nat \ {0} /\ h + (k - h) = k /\ h + 1 <= Len(u)
        /\ 1 \in 1..Len(w)
    BY <1>3, <1>7, SMT DEF u
  <2>2. Live(f, h) /\ ~z.error /\ ~z.stopped
    BY <1>7, <2>1, LiveBefore
  <2>3. EndsIn(f, c, n)
    BY <1>3, <1>4, <2>2 DEF PassedUntil, mu
  <2>4. (n = 0 /\ z = NewParser) \/ (n # 0 /\ Outcome(z, c.messages[n]))
    BY <1>3, <2>2, <2>3 DEF EndsIn, mu
  <2>5. c.frames # <<>>
    <3>1. w # <<>>
      BY <2>1, Few
    <3> QED BY <3>1, WsStarts DEF w
  <2>6. PICK v : u[h + 1] = Unit("byte", v)
    BY <1>3, <2>1, <2>5, WsStarts DEF w
  <2>7. Feed(z, u[h + 1]) = Failed(z)
    <3>1. Feed(z, Unit("byte", v)) = Failed(z)
      BY Fed
    <3> QED BY <2>6, <3>1
  <2>8. IsParser(z)
    BY <2>4 DEF Outcome, NewParser, IsParser, Members
  <2>9. f[k] = Failed(z) /\ k = h + 1
    <3>1. IsFeed(f, NewParser, u) /\ Live(f, h + (k - h))
      BY <2>1 DEF u
    <3>2. PICK i : i = k - h
      OBVIOUS
    <3>3. /\ Feed(f[h], u[h + 1]) = Failed(f[h]) /\ IsParser(f[h]) /\ Live(f, h + i)
          /\ i \in Nat \ {0} /\ Len(u) \in Nat /\ h \in Nat /\ h + 1 <= Len(u)
      BY <1>3, <2>1, <2>7, <2>8, <3>1, <3>2
    <3> HIDE DEF z
    <3> USE <3>1, <3>3
    <3>4. i = 1 /\ f[h + 1] = Failed(f[h])
      BY ONLY FailedPart, IsFeed(f, NewParser, u), Len(u) \in Nat, h \in Nat,
              h + 1 <= Len(u), Feed(f[h], u[h + 1]) = Failed(f[h]), IsParser(f[h]),
              i \in Nat \ {0}, Live(f, h + i)
    <3>5. k = h + 1
      BY ONLY <2>1, <3>2, <3>4, h \in Nat, k \in Nat, SMT
    <3> QED BY <3>4, <3>5 DEF z
  <2> HIDE DEF z
  <2>10. f[k].error
    BY <2>8, <2>9 DEF Failed, IsParser, Members
  <2>11. CASE n = 0 /\ z = NewParser
    <3>1. ~f[k].mISCompleted /\ ~f[k].stopped
      BY <2>9, <2>11 DEF NewParser, Failed
    <3> QED BY <2>10, <3>1 DEF Passed, h
  <2>12. CASE n # 0 /\ Outcome(z, c.messages[n])
    <3>1. n \in 1..n
      BY <1>1, <2>12, SMT
    <3>2. Good(c.messages[n])
      BY <2>2, <2>12 DEF Outcome, z
    <3>3. c.messages[n].framing # "eof"
      BY <1>1, <2>5, <3>1 DEF Proper
    <3>4. z.mISCompleted
      BY <2>12, <3>2, <3>3 DEF Outcome
    <3>5. NotTaken(f[k], c)
      BY <1>1, <2>2, <2>5, <2>9, <2>12, <3>1, <3>4 DEF NotTaken, z
    <3> QED BY <2>10, <3>5 DEF Passed, h
  <2> QED BY <2>4, <2>11, <2>12
<1> QED BY <1>5, <1>6, <1>7

\* A parser that looked at the first k units of a conversation, one by one.
Reached(p, c, k) ==
    \E f : /\ IsFeed(f, NewParser, Units(c)) /\ k \in 0..Len(Units(c))
           /\ Live(f, k) /\ f[k] = p

\* It knows of no upgrade yet.
LEMMA ReachedHttpOnly ==
    ASSUME NEW c, Proper(c), NEW p, NEW k, Reached(p, c, k)
    PROVE  HttpOnly(p)
<1> DEFINE u == Units(c)
<1>1. PICK f : IsFeed(f, NewParser, u) /\ k \in 0..Len(u) /\ f[k] = p
  BY DEF Reached
<1>2. Len(u) \in Nat
  <2>1. IsSeq(HttpUnits(c)) /\ IsSeq(WsUnits(c)) /\ u = HttpUnits(c) \o WsUnits(c)
    BY UnitsAre
  <2>2. IsSeq(u)
    BY <2>1, CatIs
  <2> QED BY <2>2 DEF IsSeq
<1> HIDE DEF u
<1> DEFINE T == {i \in Nat : i <= Len(u) => HttpOnly(f[i])}
<1>3. 0 \in T
  <2>1. f[0] = NewParser
    BY <1>1, <1>2, FeedIs
  <2>2. HttpOnly(NewParser)
    BY DEF HttpOnly, NewParser, IsParser, Members
  <2> QED BY <2>1, <2>2
<1>4. ASSUME NEW i \in Nat, i \in T PROVE i + 1 \in T
  <2> SUFFICES ASSUME i + 1 <= Len(u) PROVE HttpOnly(f[i + 1])
    OBVIOUS
  <2>1. i <= Len(u) /\ i + 1 \in 1..Len(u) /\ (i + 1) - 1 = i
    BY <1>2, SMT
  <2>2. f[i + 1] = Feed(f[i], u[i + 1])
    BY <1>1, <1>2, <2>1, FeedIs
  <2>3. HttpOnly(f[i])
    BY <1>4, <2>1
  <2> QED BY <2>2, <2>3, FeedIsHttpOnly
<1> HIDE DEF T
<1>5. Nat \subseteq T
  BY <1>3, <1>4, NatSetInduction
<1>6. k \in Nat /\ k <= Len(u)
  BY <1>1, <1>2, SMT
<1> QED BY <1>1, <1>5, <1>6 DEF T

\* A conversation of one message.
Single(c) == Len(c.messages) = 1 /\ c.frames = <<>>

\* What a parser carries that has completed a message: one that was sent and that
\* is good; and where one stops, and where the body of the last message ends with
\* the stream.
LEMMA ReachedIs ==
    ASSUME NEW c, Proper(c), NEW p, NEW k, Reached(p, c, k)
    PROVE  /\ k \in 0..Len(Units(c)) /\ Len(Units(c)) \in Nat
           /\ p.mISCompleted =>
                /\ \E j \in DOMAIN c.messages : Carries(p, c.messages[j]) /\ Good(c.messages[j])
                /\ p.upgrade => p.stopped
           /\ p.stopped => p.mISCompleted /\ ~p.error /\ k = Len(HttpUnits(c))
           /\ k = Len(Units(c)) /\ ~p.error /\ p.at = "eof" =>
                /\ c.frames = <<>>
                /\ \E j \in DOMAIN c.messages : Carries(p, c.messages[j]) /\ Good(c.messages[j])
           /\ Single(c) =>
                /\ p.mISCompleted => k = Len(Units(c)) /\ Good(c.messages[1])
                /\ k = Len(Units(c)) /\ ~p.error /\ Good(c.messages[1]) =>
                      IF c.messages[1].framing = "eof" THEN p.at = "eof" ELSE p.mISCompleted
<1> DEFINE u == Units(c)
           mu == PartsOfMessages(c)
           w == WsUnits(c)
           n == Len(c.messages)
           h == Len(HttpUnits(c))
<1>1. PICK f : IsFeed(f, NewParser, u) /\ k \in 0..Len(u) /\ Live(f, k) /\ f[k] = p
  BY DEF Reached
<1>2. /\ SeqsIn(mu) /\ IsSeq(w) /\ u = FlattenSeq(mu) \o w
      /\ Len(mu) = n /\ n \in Nat /\ DOMAIN c.messages = 1..n
      /\ \A i \in 1..n : ProperMessage(c.messages[i]) /\ mu[i] = MessageUnits(c.messages[i])
  BY UnitsAre DEF HttpUnits
<1>3. Passed(f, c, k) /\ (k > h => p.error)
  BY <1>1, PassedAll
<1> HIDE DEF u, mu, w
<1>4. PlacedIn(u, mu, w)
  BY <1>2, Placed
<1>5. Until(mu, n) = h /\ h \in Nat /\ Len(u) = h + Len(w) /\ Len(w) \in Nat /\ Len(u) \in Nat
      /\ Until(mu, 0) = 0
      /\ \A i \in 1..n : Until(mu, i) = Until(mu, i - 1) + Len(mu[i]) /\ Len(mu[i]) \in Nat
  BY <1>2, <1>4 DEF PlacedIn, HttpUnits, mu
<1>6. k \in Nat /\ k <= Len(u) /\ h <= Len(u)
  BY <1>1, <1>5, SMT
<1>7. Single(c) => n = 1 /\ c.frames = <<>> /\ Len(u) = h /\ h # 0 /\ Until(mu, 1) = h
                   /\ \A j \in DOMAIN c.messages : j = 1
  <2> SUFFICES ASSUME Single(c)
               PROVE  n = 1 /\ c.frames = <<>> /\ Len(u) = h /\ h # 0 /\ Until(mu, 1) = h
                      /\ \A j \in DOMAIN c.messages : j = 1
    OBVIOUS
  <2>1. n = 1 /\ c.frames = <<>> /\ 1 \in 1..n /\ 1 - 1 = 0
    BY DEF Single
  <2>2. Len(w) = 0
    BY <2>1, WsStarts, Few DEF w
  <2>3. Len(mu[1]) \in Nat \ {0}
    BY <1>2, <2>1, MessageUnitsIs
  <2>4. Until(mu, 1) = Until(mu, 0) + Len(mu[1])
    BY <1>5, <2>1
  <2>5. Len(u) = h /\ h # 0
    BY <1>5, <2>1, <2>2, <2>3, <2>4, SMT
  <2> QED BY <1>2, <1>5, <2>1, <2>5
<1> HIDE DEF h
<1>8. CASE Quiet(p) /\ k < h
  <2>1. k # Len(u) /\ k # h
    BY <1>5, <1>6, <1>8, SMT
  <2> QED BY <1>1, <1>5, <1>7, <1>8, <2>1 DEF Quiet, u, h
<1>9. CASE p = NewParser /\ k = 0
  <2>1. ~p.mISCompleted /\ ~p.stopped /\ p.at = "start"
    BY <1>9 DEF NewParser
  <2> QED BY <1>1, <1>5, <1>7, <1>9, <2>1 DEF u
<1>10. ASSUME NEW j \in DOMAIN c.messages, Outcome(p, c.messages[j]),
              k = Until(mu, j) \/ p.error
       PROVE  /\ p.mISCompleted => /\ Carries(p, c.messages[j]) /\ Good(c.messages[j])
                                   /\ p.upgrade => p.stopped
              /\ p.stopped => p.mISCompleted /\ ~p.error /\ k = h
              /\ ~p.error /\ p.at = "eof" =>
                   c.frames = <<>> /\ Carries(p, c.messages[j]) /\ Good(c.messages[j])
              /\ Single(c) =>
                   /\ p.mISCompleted => k = Len(u) /\ Good(c.messages[1])
                   /\ ~p.error /\ Good(c.messages[1]) =>
                      IF c.messages[1].framing = "eof" THEN p.at = "eof" ELSE p.mISCompleted
  <2> DEFINE m == c.messages[j]
  <2>1. /\ ~Good(m) => p.error /\ ~p.mISCompleted /\ ~p.stopped
        /\ Good(m) =>
             /\ ~p.error /\ Carries(p, m)
             /\ m.framing = "eof" => p.at = "eof" /\ ~p.mISCompleted /\ ~p.stopped
             /\ m.framing # "eof" => /\ p.mISCompleted /\ p.at \in {"start", "dead"}
                                     /\ p.stopped = Upgrading(m) /\ p.upgrade = Upgrading(m)
    BY <1>10 DEF Outcome
  <2>2. Upgrading(m) => j = n
    BY <1>2, <1>10 DEF Proper, ProperMessages
  <2>3. m.framing = "eof" => c.frames = <<>>
    BY <1>10 DEF Proper
  <2>4. Single(c) => m = c.messages[1] /\ j = 1
    BY <1>7, <1>10
  <2> HIDE DEF m
  <2>5. p.stopped => p.mISCompleted /\ ~p.error /\ j = n /\ m.framing # "eof"
    BY <2>1, <2>2
  <2>6. Good(m) => k = Until(mu, j)
    BY <1>10, <2>1
  <2>7. p.mISCompleted => Good(m) /\ Carries(p, m) /\ (p.upgrade => p.stopped)
    BY <2>1
  <2>8. ~p.error /\ p.at = "eof" => c.frames = <<>> /\ Carries(p, m) /\ Good(m)
    BY <2>1, <2>3
  <2>9. p.stopped => k = h
    BY <1>5, <2>1, <2>5, <2>6
  <2>10. ASSUME Single(c)
         PROVE  /\ p.mISCompleted => k = Len(u) /\ Good(c.messages[1])
                /\ ~p.error /\ Good(c.messages[1]) =>
                      IF c.messages[1].framing = "eof" THEN p.at = "eof" ELSE p.mISCompleted
    BY <1>7, <2>1, <2>4, <2>6, <2>7, <2>10
  <2> QED BY <2>5, <2>7, <2>8, <2>9, <2>10 DEF m
<1>11. CASE NotTaken(p, c)
  <2>1. PICK j \in DOMAIN c.messages :
             \E z : /\ p = Failed(z) /\ Outcome(z, c.messages[j]) /\ z.mISCompleted
                    /\ ~z.stopped /\ ~z.error
                    /\ Len(c.messages) # 1 \/ c.frames # <<>>
    BY <1>11 DEF NotTaken
  <2>2. PICK z : /\ p = Failed(z) /\ Outcome(z, c.messages[j]) /\ z.mISCompleted
                 /\ ~z.stopped /\ ~z.error
                 /\ Len(c.messages) # 1 \/ c.frames # <<>>
    BY <2>1
  <2> DEFINE m == c.messages[j]
  <2>3. IsParser(z) /\ Good(m) /\ m.framing # "eof" /\ Carries(z, m) /\ ~z.upgrade
    BY <2>2 DEF Outcome
  <2>4. p.error /\ ~p.stopped /\ ~p.upgrade /\ p.mHeadValues = z.mHeadValues /\ p.mBody = z.mBody
    BY <2>2, <2>3 DEF Failed, IsParser, Members
  <2>5. Carries(p, m)
    BY <2>3, <2>4 DEF Carries
  <2> QED BY <1>1, <1>5, <2>2, <2>3, <2>4, <2>5 DEF Single, u
<1>12. CASE p.error /\ ~p.mISCompleted /\ ~p.stopped
  BY <1>1, <1>5, <1>12 DEF u
<1>13. CASE \E j \in DOMAIN c.messages :
               Outcome(p, c.messages[j]) /\ (k = Until(mu, j) \/ p.error)
  <2>1. PICK j \in DOMAIN c.messages :
               Outcome(p, c.messages[j]) /\ (k = Until(mu, j) \/ p.error)
    BY <1>13
  <2> QED BY <1>1, <1>5, <1>10, <2>1 DEF u, h
<1>14. \/ Quiet(p) /\ k < h
       \/ p = NewParser /\ k = 0
       \/ \E j \in DOMAIN c.messages :
               Outcome(p, c.messages[j]) /\ (k = Until(mu, j) \/ p.error)
       \/ NotTaken(p, c)
       \/ p.error /\ ~p.mISCompleted /\ ~p.stopped
  BY <1>1, <1>3 DEF Passed, mu, h
<1> QED BY <1>8, <1>9, <1>11, <1>12, <1>13, <1>14

\* What http_parser_execute makes of the units that come next: it looks at them
\* up to an error, to an upgrade or to their end, and has used all that it looked
\* at but for what is an error.
LEMMA ExecuteReaches ==
    ASSUME NEW c, Proper(c), NEW p, NEW k, Reached(p, c, k), ~p.error, ~p.stopped,
           NEW b, Len(b) \in Nat, k + Len(b) <= Len(Units(c)),
           \A i \in 1..Len(b) : b[i] = Units(c)[k + i]
    PROVE  LET e == Execute(p, b) IN
           /\ {"parser", "n"} \subseteq DOMAIN e /\ e = [parser |-> e.parser, n |-> e.n]
           /\ \E s \in 0..Len(b) :
                /\ Reached(e.parser, c, k + s)
                /\ e.parser.error \/ e.parser.stopped \/ s = Len(b)
                /\ e.parser.error => s # 0 /\ e.n = s - 1
                /\ ~e.parser.error => e.n = s
<1> DEFINE u == Units(c)
           l == Len(b)
<1>1. PICK f : IsFeed(f, NewParser, u) /\ k \in 0..Len(u) /\ Live(f, k) /\ f[k] = p
  BY DEF Reached
<1>2. Len(u) \in Nat
  BY ReachedIs
<1>3. PICK g : IsRun(g, p, b, l) /\ Execute(p, b) = g[l]
  BY ExecuteRuns
<1>4. \A i \in 0..l : g[i] = IF i = 0 THEN Started(p) ELSE Consumed(g[i - 1], b[i])
  BY <1>3 DEF IsRun
<1> HIDE DEF u, l
<1>5. k \in Nat /\ l \in Nat /\ k + l <= Len(u) /\ \A i \in 1..l : b[i] = u[k + i]
  BY <1>1, <1>2, SMT DEF u, l
<1> DEFINE Is(r, i) ==
             /\ {"parser", "n"} \subseteq DOMAIN r /\ r = [parser |-> r.parser, n |-> r.n]
             /\ \E s \in 0..i :
                  /\ Live(f, k + s) /\ f[k + s] = r.parser
                  /\ r.parser.error \/ r.parser.stopped \/ s = i
                  /\ r.parser.error => s # 0 /\ r.n = s - 1
                  /\ ~r.parser.error => r.n = s
           T == {i \in Nat : i <= l => Is(g[i], i)}
<1>6. 0 \in T
  <2>1. IsParser(p) /\ p.stopped = FALSE
    BY ReachedHttpOnly DEF HttpOnly
  <2>2. [p EXCEPT !.stopped = FALSE] = p
    BY <2>1 DEF IsParser, Members
  <2>3. g[0] = [parser |-> p, n |-> 0]
    <3>1. g[0] = Started(p)
      <4>1. 0 \in 0..l
        BY <1>5, SMT
      <4> QED BY <1>4, <4>1
    <3> QED BY <2>2, <3>1 DEF Started
  <2>4. Live(f, k + 0) /\ f[k + 0] = p /\ 0 \in 0..0
    <3>1. k + 0 = k
      BY <1>5, SMT
    <3> QED BY <1>1, <3>1
  <2>5. Is(g[0], 0)
    BY <2>3, <2>4
  <2> HIDE DEF Is
  <2> QED BY <2>5
<1>7. ASSUME NEW i \in Nat, i \in T PROVE i + 1 \in T
  <2> SUFFICES ASSUME i + 1 <= l PROVE Is(g[i + 1], i + 1)
    OBVIOUS
  <2>1. /\ i <= l /\ i + 1 \in 0..l /\ i + 1 # 0 /\ (i + 1) - 1 = i /\ i + 1 \in 1..l
        /\ k + (i + 1) \in 1..Len(u) /\ (k + (i + 1)) - 1 = k + i /\ k + i \in Nat
    BY <1>2, <1>5, SMT
  <2>2. Is(g[i], i)
    BY <1>7, <2>1
  <2> DEFINE r == g[i]
  <2>3. g[i + 1] = Consumed(r, b[i + 1])
    BY <1>4, <2>1
  <2>4. PICK s \in 0..i : /\ Live(f, k + s) /\ f[k + s] = r.parser
                          /\ r.parser.error \/ r.parser.stopped \/ s = i
                          /\ r.parser.error => s # 0 /\ r.n = s - 1
                          /\ ~r.parser.error => r.n = s
    BY <2>2
  <2>5. {"parser", "n"} \subseteq DOMAIN r /\ r = [parser |-> r.parser, n |-> r.n]
    BY <2>2
  <2> HIDE DEF r, Is
  <2>6. CASE r.parser.error \/ r.parser.stopped
    <3>1. g[i + 1] = r
      BY <2>3, <2>6 DEF Consumed
    <3>2. s \in 0..i + 1
      BY SMT
    <3> QED BY <2>4, <2>5, <2>6, <3>1, <3>2 DEF Is
  <2>7. CASE ~r.parser.error /\ ~r.parser.stopped
    <3> DEFINE q == Feed(r.parser, b[i + 1])
               o == [parser |-> q, n |-> IF q.error THEN r.n ELSE r.n + 1]
    <3>1. g[i + 1] = o
      BY <2>3, <2>7 DEF Consumed
    <3>2. s = i /\ r.n = i /\ f[k + i] = r.parser /\ Live(f, k + i)
      BY <2>4, <2>7
    <3>3. f[k + (i + 1)] = q
      BY <1>1, <1>2, <1>5, <2>1, <3>2, FeedIs
    <3>4. Live(f, k + (i + 1))
      <4>1. \A j \in 0..(k + (i + 1)) - 1 : j \in 0..(k + i) - 1 \/ j = k + i
        BY <2>1, SMT
      <4> QED BY <2>7, <3>2, <4>1 DEF Live
    <3> HIDE DEF q
    <3>5. /\ {"parser", "n"} \subseteq DOMAIN o /\ o = [parser |-> o.parser, n |-> o.n]
          /\ o.parser = q /\ (q.error => o.n = (i + 1) - 1) /\ (~q.error => o.n = i + 1)
      BY <2>1, <3>2
    <3> HIDE DEF o
    <3>6. i + 1 \in 0..i + 1 /\ i + 1 # 0
      BY SMT
    <3>7. Is(o, i + 1)
      BY <3>3, <3>4, <3>5, <3>6 DEF Is
    <3> QED BY <3>1, <3>7
  <2> QED BY <2>6, <2>7
<1> HIDE DEF T
<1>8. l \in T /\ l <= l
  <2>1. Nat \subseteq T
    BY <1>6, <1>7, NatSetInduction
  <2>2. l \in Nat /\ l <= l
    BY <1>5, SMT
  <2> QED BY <2>1, <2>2
<1> HIDE DEF Is
<1>9. Is(g[l], l)
  BY <1>8 DEF T
<1> DEFINE e == g[l]
<1>10. e = Execute(p, b)
  BY <1>3
<1> HIDE DEF e
<1>11. Is(e, l)
  BY <1>9 DEF e
<1>12. /\ {"parser", "n"} \subseteq DOMAIN e /\ e = [parser |-> e.parser, n |-> e.n]
       /\ \E s \in 0..l :
            /\ Live(f, k + s) /\ f[k + s] = e.parser
            /\ e.parser.error \/ e.parser.stopped \/ s = l
            /\ e.parser.error => s # 0 /\ e.n = s - 1
            /\ ~e.parser.error => e.n = s
  BY <1>11 DEF Is
<1>13. ASSUME NEW s \in 0..l, Live(f, k + s), f[k + s] = e.parser
       PROVE  Reached(e.parser, c, k + s)
  <2>1. k + s \in 0..Len(u)
    BY <1>2, <1>5, SMT
  <2> QED BY <1>1, <1>13, <2>1 DEF Reached, u
<1>14. /\ {"parser", "n"} \subseteq DOMAIN e /\ e = [parser |-> e.parser, n |-> e.n]
       /\ \E s \in 0..l :
            /\ Reached(e.parser, c, k + s)
            /\ e.parser.error \/ e.parser.stopped \/ s = l
            /\ e.parser.error => s # 0 /\ e.n = s - 1
            /\ ~e.parser.error => e.n = s
  BY <1>12, <1>13
<1> QED BY <1>10, <1>14 DEF l

-----------------------------------------------------------------------------
(* The calls of some of the callbacks. *)

\* Those of the callbacks cbs; and the two that report a message.
Of(s, cbs) == At(s, {i \in DOMAIN s : s[i].cb \in cbs})
Reports == {"http", "connected"}

\* One call more, of one of them or of another one.
LEMMA OfMore ==
    ASSUME NEW s, IsSeq(s), NEW x, NEW cbs
    PROVE  /\ IsSeq(Of(s, cbs)) /\ IsSeq(Append(s, x))
           /\ x.cb \in cbs => Of(Append(s, x), cbs) = Append(Of(s, cbs), x)
           /\ x.cb \notin cbs => Of(Append(s, x), cbs) = Of(s, cbs)
<1> DEFINE t == Append(s, x)
           P == {i \in DOMAIN s : s[i].cb \in cbs}
           Q == {i \in DOMAIN t : t[i].cb \in cbs}
           n == Len(s)
<1>1. IsSeq(t) /\ Len(t) = n + 1 /\ n \in Nat /\ (\A i \in 1..n : t[i] = s[i]) /\ t[n + 1] = x
  BY AppendIs
<1>2. DOMAIN s = 1..n /\ DOMAIN t = 1..n + 1
  BY <1>1, SeqIs
<1> HIDE DEF t, n
<1>3. n + 1 \in 1..n + 1 /\ \A i \in 1..n : i \in 1..n + 1
  BY <1>1, SMT
<1>4. /\ \A i \in 1..n : (i \in P <=> i \in Q) /\ (i \in P => s[i] = t[i])
      /\ n + 1 \in Q <=> x.cb \in cbs
  BY <1>1, <1>2, <1>3
<1> HIDE DEF P, Q
<1>5. At(t, Q) = IF Len(t) \in Q THEN Append(At(s, P), t[Len(t)]) ELSE At(s, P)
  BY <1>1, <1>4, AtStep DEF n
<1>6. IsSeq(At(s, P)) /\ Of(s, cbs) = At(s, P) /\ Of(t, cbs) = At(t, Q)
  BY AtIs DEF Of, P, Q
<1> QED BY <1>1, <1>4, <1>5, <1>6 DEF t

\* ProcessHttp's calls are one report.
LEMMA Answered ==
    ASSUME NEW s, IsSeq(s), NEW q
    PROVE  LET t == s \o Answers(q) IN
           /\ IsSeq(t) /\ Of(t, Reports) = Append(Of(s, Reports), HttpCall(q))
           /\ Of(t, {"ws"}) = Of(s, {"ws"})
<1> DEFINE h == [cb |-> "handshake"]
           c == HttpCall(q)
           key == q.mIsWebSocket /\ <<"Key">> \in DOMAIN q.mHeadValues
           t == s \o Answers(q)
<1>1. h.cb = "handshake" /\ c.cb \in Reports /\ "handshake" \notin Reports
      /\ "handshake" \notin {"ws"} /\ \A x \in Reports : x \notin {"ws"}
  BY DEF HttpCall, Reports
<1>2. Answers(q) = (IF key THEN <<h>> ELSE <<>>) \o <<c>>
  BY DEF Answers
<1>3. IsSeq(<<h>>) /\ IsSeq(<<c>>) /\ <<>> \o <<c>> = <<c>>
  BY Few
<1> HIDE DEF h, c, key
<1>4. CASE key
  <2>1. s \o (<<h>> \o <<c>>) = (s \o <<h>>) \o <<c>>
    BY <1>3, CatAssociates DEF Associated
  <2>2. PICK r : r = Append(s, h)
    OBVIOUS
  <2>3. s \o <<h>> = r /\ IsSeq(r) /\ Of(r, Reports) = Of(s, Reports) /\ Of(r, {"ws"}) = Of(s, {"ws"})
    BY <1>1, <2>2, OfMore, Few
  <2>4. t = Append(r, c)
    <3>1. t = r \o <<c>>
      BY <1>2, <1>4, <2>1, <2>3
    <3> QED BY <2>3, <3>1, Few
  <2> HIDE DEF t
  <2>5. IsSeq(t) /\ Of(t, Reports) = Append(Of(r, Reports), c) /\ Of(t, {"ws"}) = Of(r, {"ws"})
    <3>1. c.cb \in Reports /\ c.cb \notin {"ws"}
      BY <1>1
    <3>2. IsSeq(Append(r, c)) /\ Of(Append(r, c), Reports) = Append(Of(r, Reports), c)
      BY <2>3, <3>1, OfMore
    <3>3. Of(Append(r, c), {"ws"}) = Of(r, {"ws"})
      BY <2>3, <3>1, OfMore
    <3> QED BY <2>4, <3>2, <3>3
  <2> QED BY <2>3, <2>5 DEF t, c
<1>5. CASE ~key
  <2>1. t = Append(s, c)
    BY <1>2, <1>3, <1>5, Few
  <2> HIDE DEF t
  <2>2. IsSeq(t) /\ Of(t, Reports) = Append(Of(s, Reports), c) /\ Of(t, {"ws"}) = Of(s, {"ws"})
    BY <1>1, <2>1, OfMore
  <2> QED BY <2>2 DEF t, c
<1> QED BY <1>4, <1>5

\* The closed handler is none of them.
LEMMA ClosedOf ==
    ASSUME IsSeq(calls), Closed(calls)
    PROVE  /\ IsSeq(calls') /\ ~open'
           /\ Of(calls', Reports) = Of(calls, Reports) /\ Of(calls', {"ws"}) = Of(calls, {"ws"})
<1>1. ~open' /\ calls' = IF open THEN Append(calls, ClosedCall) ELSE calls
  BY DEF Closed
<1>2. ClosedCall.cb \notin Reports /\ ClosedCall.cb \notin {"ws"}
  BY DEF ClosedCall, Reports
<1>3. /\ IsSeq(Append(calls, ClosedCall)) /\ Of(Append(calls, ClosedCall), Reports) = Of(calls, Reports)
      /\ Of(Append(calls, ClosedCall), {"ws"}) = Of(calls, {"ws"})
  BY <1>2, OfMore
<1> QED BY <1>1, <1>3

-----------------------------------------------------------------------------
(* ProcessHttp, as long as no message is complete. *)

\* tryParse leaves what a parser carries alone.
LEMMA AfterExecuteIs ==
    ASSUME NEW q, IsParser(q)
    PROVE  LET r == AfterExecute(q) IN
           /\ ~q.mISCompleted => r = q
           /\ q.mISCompleted =>
                /\ r.mISCompleted /\ r.mHeadValues = q.mHeadValues /\ r.mBody = q.mBody
                /\ r.mIsWebSocket => q.upgrade
<1>1. CASE q.mISCompleted
  <2> DEFINE r == [q EXCEPT !.mIsUpgrade = q.upgrade, !.mIsWebSocket = WebSocketUpgrade(q),
                   !.at = "start", !.error = FALSE, !.stopped = FALSE,
                   !.upgrade = FALSE, !.flags = {}, !.length = 0]
  <2>1. AfterExecute(q) = r
    BY <1>1 DEF AfterExecute
  <2>2. r.mISCompleted = q.mISCompleted /\ r.mHeadValues = q.mHeadValues /\ r.mBody = q.mBody
        /\ r.mIsWebSocket = WebSocketUpgrade(q)
    BY DEF IsParser, Members
  <2>3. WebSocketUpgrade(q) => q.upgrade
    BY DEF WebSocketUpgrade
  <2> HIDE DEF r
  <2> QED BY <1>1, <2>1, <2>2, <2>3
<1>2. CASE ~q.mISCompleted
  BY <1>2 DEF AfterExecute
<1> QED BY <1>1, <1>2

\* What ProcessHttp makes of the units that come next.
LEMMA Parsed ==
    ASSUME Proper(sent), NEW k, Reached(parser, sent, k),
           ~parser.error, ~parser.stopped, ~parser.mISCompleted,
           NEW b, IsSeq(b), k + Len(b) <= Len(Units(sent)),
           \A i \in 1..Len(b) : b[i] = Units(sent)[k + i], ProcessHttp(b)
    PROVE  /\ parser'.mISCompleted =>
                /\ \E j \in DOMAIN sent.messages : Carries(parser', sent.messages[j])
                /\ calls' = calls \o Answers(parser') /\ pc' = "inHttp" /\ buffer' = b
                /\ parser'.mIsWebSocket =>
                      used' \in 0..Len(b) /\ k + used' = Len(HttpUnits(sent))
                /\ Single(sent) => k + Len(b) = Len(Units(sent)) /\ Good(sent.messages[1])
           /\ ~parser'.mISCompleted =>
                /\ calls' = calls \/ Closed(calls)
                /\ pc' = Rest(open') /\ used' = used
                /\ open' => /\ buffer' = <<>> /\ Reached(parser', sent, k + Len(b))
                            /\ ~parser'.error /\ ~parser'.stopped
<1> DEFINE e == Execute(parser, b)
           u == Units(sent)
           q == e.parser
           r == [e EXCEPT !.parser = AfterExecute(e.parser)]
           n == Len(b)
<1>1. k \in Nat /\ Len(u) \in Nat /\ n \in Nat /\ k + n <= Len(u)
  BY ReachedIs, SMT DEF IsSeq
<1>2. /\ {"parser", "n"} \subseteq DOMAIN e /\ e = [parser |-> e.parser, n |-> e.n]
      /\ \E s \in 0..n :
           /\ Reached(e.parser, sent, k + s)
           /\ e.parser.error \/ e.parser.stopped \/ s = n
           /\ e.parser.error => s # 0 /\ e.n = s - 1
           /\ ~e.parser.error => e.n = s
  BY <1>1, ExecuteReaches
<1>3. /\ parser' = r.parser
      /\ IF r.parser.mISCompleted
         THEN calls' = calls \o Answers(r.parser) /\ pc' = "inHttp" /\ used' = r.n /\ buffer' = b
         ELSE /\ buffer' = Drop(b, r.n) /\ used' = used
              /\ IF r.n # n THEN Closed(calls) ELSE calls' = calls
              /\ pc' = Rest(open')
  BY DEF ProcessHttp, Reportable
<1> HIDE DEF e, n, u
<1>4. r.parser = AfterExecute(q) /\ r.n = e.n
  BY <1>2
<1>5. PICK s \in 0..n : /\ Reached(q, sent, k + s)
                        /\ q.error \/ q.stopped \/ s = n
                        /\ q.error => s # 0 /\ e.n = s - 1
                        /\ ~q.error => e.n = s
  BY <1>2
<1> HIDE DEF r, q
<1>6. IsParser(q)
  BY <1>5, ReachedHttpOnly DEF HttpOnly
<1>7. /\ q.mISCompleted =>
           /\ \E j \in DOMAIN sent.messages : Carries(q, sent.messages[j])
           /\ q.upgrade => q.stopped
      /\ q.stopped => q.mISCompleted /\ ~q.error /\ k + s = Len(HttpUnits(sent))
      /\ Single(sent) => (q.mISCompleted => k + s = Len(u) /\ Good(sent.messages[1]))
  BY <1>5, ReachedIs DEF u
<1>8. CASE q.mISCompleted
  <2>1. /\ parser'.mISCompleted /\ parser'.mHeadValues = q.mHeadValues /\ parser'.mBody = q.mBody
        /\ parser'.mIsWebSocket => q.upgrade
    BY <1>3, <1>4, <1>6, <1>8, AfterExecuteIs
  <2>2. calls' = calls \o Answers(parser') /\ pc' = "inHttp" /\ used' = e.n /\ buffer' = b
    BY <1>3, <1>4, <2>1
  <2>3. \E j \in DOMAIN sent.messages : Carries(parser', sent.messages[j])
    BY <1>7, <1>8, <2>1 DEF Carries
  <2>4. parser'.mIsWebSocket => used' \in 0..n /\ k + used' = Len(HttpUnits(sent))
    BY <1>5, <1>7, <1>8, <2>1, <2>2
  <2>5. Single(sent) => k + n = Len(u) /\ Good(sent.messages[1])
    <3>1. k + s = Len(u) => k + n = Len(u)
      BY <1>1, <1>5, SMT
    <3> QED BY <1>7, <1>8, <3>1
  <2> QED BY <2>1, <2>2, <2>3, <2>4, <2>5 DEF n, u
<1>9. CASE ~q.mISCompleted
  <2>1. parser' = q
    BY <1>3, <1>4, <1>6, <1>9, AfterExecuteIs
  <2>2. /\ buffer' = Drop(b, e.n) /\ used' = used /\ pc' = Rest(open')
        /\ IF e.n # n THEN Closed(calls) ELSE calls' = calls
    BY <1>3, <1>4, <1>9, <2>1
  <2>3. ASSUME open'
        PROVE  buffer' = <<>> /\ Reached(q, sent, k + n) /\ ~q.error /\ ~q.stopped
    <3>1. e.n = n
      BY <2>2, <2>3 DEF Closed
    <3>2. q.error => e.n < n
      BY <1>1, <1>5, SMT
    <3>3. ~q.error /\ ~q.stopped /\ s = n
      BY <1>1, <1>5, <1>7, <1>9, <3>1, <3>2
    <3>4. buffer' = <<>>
      <4>1. n \in 0..Len(b)
        BY <1>1, SMT DEF n
      <4>2. IsSeq(Drop(b, n)) /\ Len(Drop(b, n)) = n - n
        BY <4>1, DropIs DEF n
      <4>3. Len(Drop(b, n)) = 0
        BY <1>1, <4>2, SMT
      <4> QED BY <2>2, <3>1, <4>2, <4>3, Few
    <3> QED BY <1>5, <3>3, <3>4
  <2> QED BY <1>9, <2>1, <2>2, <2>3 DEF n
<1> QED BY <1>8, <1>9

-----------------------------------------------------------------------------
(* What is invariant as long as HTTP is spoken, and its steps. *)

\* The first k units were received.  As long as no message is complete, the
\* parser looked at all of them, one by one, and no error was found.
AtUnit(k) ==
    /\ k \in 0..Len(Units(sent)) /\ network = Drop(Units(sent), k)
    /\ ~parser.mISCompleted /\ pc = "idle" /\ ~ended =>
         buffer = <<>> /\ Reached(parser, sent, k) /\ ~parser.error /\ ~parser.stopped

\* No callback runs before a message is complete.
NoneBefore == ~parser.mISCompleted => pc \in {"idle", "done"}

\* A parser that has completed a message carries one that was sent.
CarriesOne ==
    parser.mISCompleted => \E j \in DOMAIN sent.messages : Carries(parser, sent.messages[j])

\* A message that is the only one was reported as soon as it was complete, and
\* is at the latest with the end of the stream.
ReportedOnce ==
    Single(sent) =>
        /\ parser.mISCompleted => Len(HttpCalls) = 1 /\ Good(sent.messages[1]) /\ network = <<>>
        /\ ~parser.mISCompleted => Len(HttpCalls) = 0
        /\ ended /\ Good(sent.messages[1]) => parser.mISCompleted

\* The invariant of the parser and the reports.
HInv == Proper(sent) /\ (\E k : AtUnit(k)) /\ NoneBefore /\ CarriesOne /\ ReportedOnce /\ WholeMessages

\* The reports of a session.
LEMMA HttpCallsAre == HttpCalls = Of(calls, Reports) /\ HttpCalls' = Of(calls', Reports)
BY DEF HttpCalls, CallsOf, Of, Reports

\* Calls are a sequence.
LEMMA CallsAre == ASSUME IInv PROVE IsSeq(calls)
BY SeqIs DEF IInv, CallsInv

\* One report more, of a parser that carries a message that was sent.
LEMMA WholeMessagesMore ==
    ASSUME Proper(sent), sent' = sent, WholeMessages, IsSeq(calls), NEW q,
           calls' = calls \o Answers(q),
           \E j \in DOMAIN sent.messages : Carries(q, sent.messages[j])
    PROVE  WholeMessages' /\ Len(HttpCalls') = Len(HttpCalls) + 1
<1> DEFINE s == Of(calls, Reports)
           x == HttpCall(q)
           t == Append(s, x)
<1>1. HttpCalls = s /\ HttpCalls' = t
  BY HttpCallsAre, Answered
<1>2. IsSeq(s)
  <2>1. \A y : IsSeq(Of(calls, Reports))
    BY OfMore
  <2> QED BY <2>1
<1>3. x.headers = q.mHeadValues /\ x.body = q.mBody
  BY DEF HttpCall
<1> HIDE DEF s, x
<1>4. IsSeq(t) /\ Len(t) = Len(s) + 1 /\ Len(s) \in Nat /\ (\A i \in 1..Len(s) : t[i] = s[i])
      /\ t[Len(s) + 1] = x
  BY <1>2, AppendIs
<1> HIDE DEF t
<1>5. DOMAIN s = 1..Len(s) /\ DOMAIN t = 1..Len(t)
  BY <1>2, <1>4, SeqIs
<1>6. ToSet(t) \subseteq ToSet(s) \cup {x}
  <2> SUFFICES ASSUME NEW i \in 1..Len(t) PROVE t[i] \in ToSet(s) \cup {x}
    BY <1>5 DEF ToSet
  <2>1. i \in 1..Len(s) \/ i = Len(s) + 1
    BY <1>4, SMT
  <2> QED BY <1>4, <1>5, <2>1 DEF ToSet
<1> DEFINE Is(c) == \E m \in ToSet(sent.messages) : c.headers = HeadersOf(m) /\ c.body = FlattenSeq(m.body)
<1>7. Is(x)
  <2>1. PICK j \in DOMAIN sent.messages : Carries(q, sent.messages[j])
    OBVIOUS
  <2>2. sent.messages[j] \in ToSet(sent.messages)
    BY DEF ToSet
  <2> QED BY <1>3, <2>1, <2>2 DEF Carries
<1>8. \A c \in ToSet(s) : Is(c)
  BY <1>1 DEF WholeMessages
<1>9. WholeMessages' <=> \A c \in ToSet(t) : Is(c)
  BY <1>1 DEF WholeMessages
<1> HIDE DEF Is
<1>10. WholeMessages'
  BY <1>6, <1>7, <1>8, <1>9
<1> QED BY <1>1, <1>4, <1>10

\* It holds when a connection starts.
LEMMA HInvInit ==
    ASSUME \A c \in Conversations : Proper(c)
    PROVE  Init => HInv
<1> SUFFICES ASSUME Init PROVE HInv
  OBVIOUS
<1> DEFINE u == Units(sent)
<1>1. /\ Proper(sent) /\ network = u /\ ended = FALSE /\ buffer = <<>> /\ parser = NewParser
      /\ pc = "idle" /\ calls = <<>>
  BY DEF Init
<1>2. /\ ~parser.mISCompleted /\ ~parser.error /\ ~parser.stopped
  BY <1>1 DEF NewParser
<1>3. IsSeq(u) /\ Len(u) \in Nat
  <2>1. IsSeq(HttpUnits(sent)) /\ IsSeq(WsUnits(sent)) /\ u = HttpUnits(sent) \o WsUnits(sent)
    BY <1>1, UnitsAre
  <2>2. IsSeq(u)
    BY <2>1, CatIs
  <2> QED BY <2>2 DEF IsSeq
<1>4. AtUnit(0)
  <2> HIDE DEF u
  <2>1. 0 \in 0..Len(u)
    BY <1>3, SMT
  <2>2. Drop(u, 0) = u
    <3>1. IsSeq(Drop(u, 0)) /\ Len(Drop(u, 0)) = Len(u) - 0 /\ Upto(u, 0) \o Drop(u, 0) = u
      BY <1>3, <2>1, DropIs
    <3>2. Upto(u, 0) = <<>>
      BY <1>3, <2>1, UptoIs, Few
    <3> QED BY <3>1, <3>2, Few
  <2>3. PICK f : IsFeed(f, NewParser, u)
    BY <1>3, FeedExists
  <2>4. f[0] = NewParser
    BY <1>3, <2>3, FeedIs
  <2>5. Live(f, 0)
    <3>1. 0..0 - 1 = {}
      BY SMT
    <3> QED BY <3>1 DEF Live
  <2>6. Reached(parser, sent, 0)
    BY <1>1, <2>1, <2>3, <2>4, <2>5 DEF Reached, u
  <2> QED BY <1>1, <1>2, <2>1, <2>2, <2>6 DEF AtUnit, u
<1>5. HttpCalls = <<>> /\ Len(HttpCalls) = 0
  <2>1. HttpCalls = <<>>
    BY <1>1, AtStep DEF HttpCalls, CallsOf
  <2> QED BY <2>1, Few
<1>6. WholeMessages
  <2>1. ToSet(<<>>) = {}
    BY DEF ToSet
  <2> QED BY <1>5, <2>1 DEF WholeMessages
<1> QED BY <1>1, <1>2, <1>4, <1>5, <1>6 DEF HInv, NoneBefore, CarriesOne, ReportedOnce

\* Steps that leave the parser alone, and what was reported.
LEMMA HInvOther ==
    ASSUME HInv, sent' = sent, network' = network, parser' = parser, ended' = ended,
           Of(calls', Reports) = Of(calls, Reports),
           parser.mISCompleted \/ (pc' \in {pc, "done"} /\ buffer' = buffer)
    PROVE  HInv'
<1>1. HttpCalls' = HttpCalls
  BY HttpCallsAre
<1>2. WholeMessages' /\ ReportedOnce' /\ CarriesOne'
  BY <1>1 DEF HInv, WholeMessages, ReportedOnce, CarriesOne
<1>3. NoneBefore'
  BY DEF HInv, NoneBefore
<1>4. \E k : AtUnit(k)'
  <2>1. PICK k : AtUnit(k)
    BY DEF HInv
  <2>2. AtUnit(k)'
    BY <2>1 DEF AtUnit, HInv, NoneBefore
  <2> QED BY <2>2
<1> QED BY <1>2, <1>3, <1>4 DEF HInv

\* What is received next, and what is left to be received.
LEMMA ReceivedIs ==
    ASSUME NEW u, IsSeq(u), NEW k \in 0..Len(u), NEW t, t = Drop(u, k), NEW n \in 1..Len(t)
    PROVE  /\ k \in Nat /\ n \in Nat /\ Len(t) = Len(u) - k /\ k + n \in 0..Len(u) /\ k + n <= Len(u)
           /\ IsSeq(SubSeq(t, 1, n)) /\ Len(SubSeq(t, 1, n)) = n
           /\ \A i \in 1..n : SubSeq(t, 1, n)[i] = u[k + i]
           /\ Drop(t, n) = Drop(u, k + n)
           /\ k + n = Len(u) => Drop(t, n) = <<>>
<1>1. Len(u) \in Nat
  BY DEF IsSeq
<1>2. IsSeq(t) /\ Len(t) = Len(u) - k /\ \A i \in 1..Len(u) - k : t[i] = u[k + i]
  BY DropIs
<1>3. k \in Nat /\ n \in Nat /\ k + n \in 0..Len(u) /\ k + n <= Len(u) /\ n \in 0..Len(t)
      /\ \A i \in 1..n : i \in 1..Len(u) - k
  BY <1>1, <1>2, SMT
<1>4. /\ IsSeq(Upto(t, n)) /\ Len(Upto(t, n)) = n /\ \A i \in 1..n : Upto(t, n)[i] = t[i]
  BY <1>2, <1>3, UptoIs
<1>5. \A i \in 1..n : SubSeq(t, 1, n)[i] = u[k + i]
  BY <1>2, <1>3, <1>4 DEF Upto
<1> DEFINE a == Drop(t, n)
           b == Drop(u, k + n)
<1>6. IsSeq(a) /\ Len(a) = Len(t) - n /\ \A i \in 1..Len(t) - n : a[i] = t[n + i]
  <2>1. IsSeq(t) /\ n \in 0..Len(t)
    BY <1>2, <1>3
  <2> QED BY ONLY <2>1, DropIs
<1>7. IsSeq(b) /\ Len(b) = Len(u) - (k + n) /\ \A i \in 1..Len(u) - (k + n) : b[i] = u[(k + n) + i]
  BY <1>3, DropIs
<1> HIDE DEF a, b
<1>8. Len(a) = Len(b) /\ (k + n = Len(u) => Len(a) = 0)
  BY <1>1, <1>2, <1>3, <1>6, <1>7, SMT
<1>9. ASSUME NEW i \in 1..Len(a) PROVE a[i] = b[i]
  <2>1. i \in 1..Len(t) - n /\ i \in 1..Len(u) - (k + n) /\ n + i \in 1..Len(u) - k
        /\ k + (n + i) = (k + n) + i
    BY <1>1, <1>2, <1>3, <1>6, SMT
  <2> QED BY <1>2, <1>6, <1>7, <2>1
<1>10. a = b
  BY <1>6, <1>7, <1>8, <1>9, Same
<1>11. k + n = Len(u) => a = <<>>
  BY <1>6, <1>8, Few
<1> QED BY <1>2, <1>3, <1>4, <1>5, <1>10, <1>11 DEF Upto, a, b

\* The units of a conversation are a sequence.
LEMMA UnitsIsSeq == ASSUME NEW c, Proper(c) PROVE IsSeq(Units(c)) /\ Len(Units(c)) \in Nat
<1>1. IsSeq(HttpUnits(c)) /\ IsSeq(WsUnits(c)) /\ Units(c) = HttpUnits(c) \o WsUnits(c)
  BY UnitsAre
<1>2. IsSeq(Units(c))
  BY <1>1, CatIs
<1> QED BY <1>2 DEF IsSeq

\* A segment is received.
LEMMA HInvReceive ==
    ASSUME HInv, IInv, NEW n \in 1..Len(network), Receive(n)
    PROVE  HInv'
<1> DEFINE u == Units(sent)
           seg == SubSeq(network, 1, n)
           b == buffer \o seg
<1>1. /\ pc = "idle" /\ open /\ ~ended /\ network' = Drop(network, n) /\ DataHandler(b)
      /\ sent' = sent /\ ended' = ended
  BY DEF Receive
<1>2. PICK k : AtUnit(k)
  BY DEF HInv
<1>3. Proper(sent) /\ IsSeq(u) /\ Len(u) \in Nat /\ IsSeq(calls)
  BY UnitsIsSeq, CallsAre DEF HInv
<1>4. k \in 0..Len(u) /\ network = Drop(u, k)
  BY <1>2 DEF AtUnit
<1> HIDE DEF u
<1>5. /\ k \in Nat /\ n \in Nat /\ Len(network) = Len(u) - k /\ k + n \in 0..Len(u) /\ k + n <= Len(u)
      /\ IsSeq(seg) /\ Len(seg) = n /\ \A i \in 1..n : seg[i] = u[k + i]
      /\ Drop(network, n) = Drop(u, k + n)
      /\ k + n = Len(u) => Drop(network, n) = <<>>
  BY <1>3, <1>4, ReceivedIs
<1> HIDE DEF seg
<1>6. CASE ~parser.mISCompleted
  <2>1. buffer = <<>> /\ Reached(parser, sent, k) /\ ~parser.error /\ ~parser.stopped
    BY <1>1, <1>2, <1>6 DEF AtUnit
  <2>2. b = seg
    BY <1>5, <2>1, Few
  <2>3. ProcessHttp(seg)
    <3>1. ~parser.mIsUpgrade /\ ~parser.mIsWebSocket
      BY <1>3, <2>1, ReachedHttpOnly DEF HttpOnly
    <3> QED BY <1>1, <2>2, <3>1 DEF DataHandler
  <2>4. /\ parser'.mISCompleted =>
             /\ \E j \in DOMAIN sent.messages : Carries(parser', sent.messages[j])
             /\ calls' = calls \o Answers(parser') /\ pc' = "inHttp"
             /\ Single(sent) => k + n = Len(u) /\ Good(sent.messages[1])
        /\ ~parser'.mISCompleted =>
             /\ calls' = calls \/ Closed(calls)
             /\ pc' = Rest(open')
             /\ open' => /\ buffer' = <<>> /\ Reached(parser', sent, k + n)
                         /\ ~parser'.error /\ ~parser'.stopped
    BY <1>3, <1>5, <1>6, <2>1, <2>3, Parsed DEF u
  <2>5. CASE parser'.mISCompleted
    <3>1. WholeMessages' /\ Len(HttpCalls') = Len(HttpCalls) + 1
      BY <1>1, <1>3, <2>4, <2>5, WholeMessagesMore DEF HInv
    <3>2. ReportedOnce'
      <4> SUFFICES ASSUME Single(sent)
                   PROVE  Len(HttpCalls') = 1 /\ Good(sent.messages[1]) /\ network' = <<>>
        BY <1>1, <2>5 DEF ReportedOnce
      <4>1. Len(HttpCalls) = 0
        BY <1>6 DEF HInv, ReportedOnce
      <4> QED BY <1>1, <1>5, <2>4, <2>5, <3>1, <4>1
    <3>3. AtUnit(k + n)'
      BY <1>1, <1>5, <2>5 DEF AtUnit, u
    <3> QED BY <1>1, <1>3, <2>4, <2>5, <3>1, <3>2, <3>3 DEF HInv, NoneBefore, CarriesOne
  <2>6. CASE ~parser'.mISCompleted
    <3>1. HttpCalls' = HttpCalls
      BY <1>3, <2>4, <2>6, ClosedOf, HttpCallsAre
    <3>2. WholeMessages' /\ ReportedOnce' /\ CarriesOne'
      BY <1>1, <1>6, <2>6, <3>1 DEF HInv, WholeMessages, ReportedOnce, CarriesOne
    <3>3. pc' \in {"idle", "done"} /\ (pc' = "idle" => open')
      BY <2>4, <2>6 DEF Rest
    <3>4. AtUnit(k + n)'
      BY <1>1, <1>5, <2>4, <2>6, <3>3 DEF AtUnit, u
    <3> QED BY <1>1, <1>3, <3>2, <3>3, <3>4 DEF HInv, NoneBefore
  <2> QED BY <2>5, <2>6
<1>7. CASE parser.mISCompleted
  <2>1. ~Single(sent)
    <3> SUFFICES ASSUME Single(sent) PROVE FALSE
      OBVIOUS
    <3>1. network = <<>>
      BY <1>7 DEF HInv, ReportedOnce
    <3>2. Len(network) = 0
      BY <3>1, Few
    <3> QED BY <3>2, SMT
  <2>2. parser' = parser
    BY <1>1, <1>7 DEF DataHandler, ProcessHttp
  <2>3. calls' = calls \/ calls' = calls \o Answers(parser)
    BY <1>1, <1>7 DEF DataHandler, ProcessHttp, Reportable
  <2>4. \E j \in DOMAIN sent.messages : Carries(parser, sent.messages[j])
    BY <1>7 DEF HInv, CarriesOne
  <2>5. WholeMessages'
    <3>1. CASE calls' = calls
      BY <1>1, <3>1, HttpCallsAre DEF HInv, WholeMessages
    <3>2. CASE calls' = calls \o Answers(parser)
      BY <1>1, <1>3, <2>4, <3>2, WholeMessagesMore DEF HInv
    <3> QED BY <2>3, <3>1, <3>2
  <2>6. AtUnit(k + n)'
    BY <1>1, <1>5, <1>7, <2>2 DEF AtUnit, u
  <2>7. ReportedOnce' /\ CarriesOne' /\ NoneBefore'
    BY <1>1, <1>7, <2>1, <2>2, <2>4 DEF ReportedOnce, CarriesOne, NoneBefore
  <2> QED BY <1>1, <1>3, <2>5, <2>6, <2>7 DEF HInv
<1> QED BY <1>6, <1>7

\* The end of the stream.
LEMMA HInvEof == ASSUME HInv, IInv, Eof PROVE HInv'
<1> DEFINE u == Units(sent)
           e == ExecuteEof(parser)
           q == AfterExecute(e)
           m == sent.messages[1]
<1>1. pc = "idle" /\ ~ended /\ ended' /\ network = <<>> /\ network' = network /\ sent' = sent
      /\ buffer' = buffer
  BY DEF Eof
<1>2. PICK k : AtUnit(k)
  BY DEF HInv
<1>3. Proper(sent) /\ IsSeq(u) /\ Len(u) \in Nat /\ IsSeq(calls)
  BY UnitsIsSeq, CallsAre DEF HInv
<1>4. k \in 0..Len(u) /\ network = Drop(u, k)
  BY <1>2 DEF AtUnit
<1>5. k = Len(u)
  <2>1. Len(Drop(u, k)) = Len(u) - k /\ Len(Drop(u, k)) = 0
    BY <1>1, <1>3, <1>4, DropIs, Few
  <2> HIDE DEF u
  <2> QED BY <1>3, <1>4, <2>1, SMT
<1>6. CASE parser.mISCompleted
  <2>1. parser' = parser /\ calls' = calls /\ pc' = pc
    BY <1>6 DEF Eof
  <2>2. AtUnit(k)'
    BY <1>1, <1>4, <1>6, <2>1 DEF AtUnit
  <2>3. HttpCalls' = HttpCalls
    BY <2>1, HttpCallsAre
  <2> QED BY <1>1, <1>6, <2>1, <2>2, <2>3
          DEF HInv, NoneBefore, CarriesOne, ReportedOnce, WholeMessages
<1>7. CASE ~parser.mISCompleted
  <2>1. Reached(parser, sent, k) /\ ~parser.error
    BY <1>1, <1>2, <1>7 DEF AtUnit
  <2>2. IsParser(parser)
    BY <1>3, <2>1, ReachedHttpOnly DEF HttpOnly
  <2>3. /\ parser.at = "eof" =>
             \E j \in DOMAIN sent.messages : Carries(parser, sent.messages[j]) /\ Good(sent.messages[j])
        /\ Single(sent) /\ Good(m) => parser.at = "eof"
    BY <1>3, <1>5, <1>7, <2>1, ReachedIs
  <2>4. /\ parser' = q
        /\ calls' = IF q.mISCompleted THEN calls \o Answers(q) ELSE calls
        /\ pc' = IF q.mISCompleted THEN "inEof" ELSE "idle"
    BY <1>7 DEF Eof, Reportable
  <2> HIDE DEF u, m
  <2>5. CASE parser.at = "eof"
    <3>1. e = MessageEnd(parser)
      <4>1. ~(parser.error \/ parser.at \in {"start", "dead"})
        BY <2>1, <2>5
      <4> QED BY <2>1, <2>5, <4>1 DEF ExecuteEof
    <3> HIDE DEF e
    <3>2. IsParser(e) /\ e.mISCompleted /\ e.mHeadValues = parser.mHeadValues /\ e.mBody = parser.mBody
      BY <2>2, <3>1 DEF MessageEnd, IsParser, Members
    <3>3. q.mISCompleted /\ q.mHeadValues = parser.mHeadValues /\ q.mBody = parser.mBody
      BY <3>2, AfterExecuteIs
    <3> HIDE DEF q
    <3>4. PICK j \in DOMAIN sent.messages : Carries(parser, sent.messages[j]) /\ Good(sent.messages[j])
      BY <2>3, <2>5
    <3>5. Carries(q, sent.messages[j])
      BY <3>3, <3>4 DEF Carries
    <3>6. WholeMessages' /\ Len(HttpCalls') = Len(HttpCalls) + 1
      BY <1>1, <1>3, <2>4, <3>3, <3>5, WholeMessagesMore DEF HInv
    <3>7. ReportedOnce'
      <4> SUFFICES ASSUME Single(sent)
                   PROVE  Len(HttpCalls') = 1 /\ Good(sent.messages[1]) /\ network' = <<>>
        BY <1>1, <2>4, <3>3 DEF ReportedOnce
      <4>1. Len(HttpCalls) = 0
        BY <1>7 DEF HInv, ReportedOnce
      <4>2. DOMAIN sent.messages = 1..1
        BY <1>3, UnitsAre DEF Single
      <4>3. j = 1
        BY <4>2
      <4> QED BY <1>1, <3>4, <3>6, <4>1, <4>3
    <3>8. AtUnit(k)'
      BY <1>1, <1>4, <2>4, <3>3 DEF AtUnit, u
    <3> QED BY <1>1, <1>3, <2>4, <3>3, <3>5, <3>6, <3>7, <3>8 DEF HInv, NoneBefore, CarriesOne
  <2>6. CASE parser.at # "eof"
    <3>1. ~q.mISCompleted
      <4>1. e \in {parser, Failed(parser)}
        BY <2>6 DEF ExecuteEof
      <4>2. IsParser(Failed(parser)) /\ Failed(parser).mISCompleted = parser.mISCompleted
        BY <2>2 DEF Failed, IsParser, Members
      <4>3. IsParser(e) /\ ~e.mISCompleted
        BY <1>7, <2>2, <4>1, <4>2
      <4> HIDE DEF e
      <4> QED BY <4>3, AfterExecuteIs
    <3> HIDE DEF q
    <3>2. calls' = calls /\ pc' = "idle" /\ ~parser'.mISCompleted
      BY <2>4, <3>1
    <3>3. HttpCalls' = HttpCalls
      BY <3>2, HttpCallsAre
    <3>4. ReportedOnce'
      BY <1>1, <1>7, <2>3, <2>6, <3>2, <3>3 DEF HInv, ReportedOnce, m
    <3>5. AtUnit(k)'
      BY <1>1, <1>4, <3>2 DEF AtUnit, u
    <3> QED BY <1>1, <3>2, <3>3, <3>4, <3>5 DEF HInv, NoneBefore, CarriesOne, WholeMessages
  <2> QED BY <2>5, <2>6
<1> QED BY <1>6, <1>7

\* Every step keeps the invariant.
LEMMA HInvNext == HInv /\ IInv /\ [Next]_vars => HInv'
<1> SUFFICES ASSUME HInv, IInv, [Next]_vars PROVE HInv'
  OBVIOUS
<1>0. IsSeq(calls)
  BY CallsAre
<1>1. ASSUME NEW n \in 1..Len(network), Receive(n) PROVE HInv'
  BY <1>1, HInvReceive
<1>2. CASE HttpReturn
  <2>1. /\ sent' = sent /\ network' = network /\ parser' = parser /\ ended' = ended
        /\ calls' = calls \/ Closed(calls)
        /\ parser.mISCompleted
    BY <1>2 DEF HttpReturn, HInv, NoneBefore
  <2>2. Of(calls', Reports) = Of(calls, Reports)
    BY <1>0, <2>1, ClosedOf
  <2> QED BY <2>1, <2>2, HInvOther
<1>3. CASE Frame
  <2>1. /\ sent' = sent /\ network' = network /\ parser' = parser /\ ended' = ended
        /\ parser.mISCompleted
    BY <1>3 DEF Frame, HInv, NoneBefore
  <2>2. calls' = calls \/ \E x : x.cb = "ws" /\ calls' = Append(calls, x)
    <3>1. \A type, payload : WsCall(type, payload).cb = "ws"
      BY DEF WsCall
    <3> QED BY <1>3, <3>1 DEF Frame
  <2>3. "ws" \notin Reports
    BY DEF Reports
  <2>4. Of(calls', Reports) = Of(calls, Reports)
    <3>1. CASE calls' = calls
      BY <3>1
    <3>2. CASE \E x : x.cb = "ws" /\ calls' = Append(calls, x)
      <4>1. PICK x : x.cb = "ws" /\ calls' = Append(calls, x)
        BY <3>2
      <4>2. x.cb \notin Reports
        BY <2>3, <4>1
      <4>3. Of(Append(calls, x), Reports) = Of(calls, Reports)
        BY <1>0, <4>2, OfMore
      <4> QED BY <4>1, <4>3
    <3> QED BY <2>2, <3>1, <3>2
  <2> QED BY <2>1, <2>4, HInvOther
<1>4. CASE WsReturn \/ FrameAwaited \/ EofReturn
  <2>1. /\ sent' = sent /\ network' = network /\ parser' = parser /\ ended' = ended /\ calls' = calls
        /\ parser.mISCompleted
    BY <1>4 DEF WsReturn, FrameAwaited, EofReturn, user, HInv, NoneBefore
  <2> QED BY <2>1, HInvOther
<1>5. CASE Eof
  BY <1>5, HInvEof
<1>6. CASE Close
  <2>1. /\ sent' = sent /\ network' = network /\ parser' = parser /\ ended' = ended
        /\ Closed(calls) /\ pc' = pc /\ buffer' = buffer
    BY <1>6 DEF Close
  <2>2. Of(calls', Reports) = Of(calls, Reports)
    BY <1>0, <2>1, ClosedOf
  <2> QED BY <2>1, <2>2, HInvOther
<1>7. CASE UNCHANGED vars
  <2>1. /\ sent' = sent /\ network' = network /\ parser' = parser /\ ended' = ended
        /\ calls' = calls /\ pc' = pc /\ buffer' = buffer
    BY <1>7 DEF vars, handler, user
  <2> QED BY <2>1, HInvOther
<1> QED BY <1>1, <1>2, <1>3, <1>4, <1>5, <1>6, <1>7 DEF Next

\* It holds of every behaviour.
LEMMA HInvariance == ASSUME \A c \in Conversations : Proper(c) PROVE Spec => []HInv
<1>1. Init => HInv
  BY HInvInit
<1> QED BY <1>1, HInvNext, Invariance, PTL DEF Spec

\* Whatever a peer sends that keeps to the rules, however it is cut into segments
\* and whenever the user closes the session: a callback gets the headers and the
\* body of one message that was sent, whole, and never those of two.
THEOREM WholeMessagesAlways ==
    ASSUME \A c \in Conversations : Proper(c) PROVE Spec => []WholeMessages
<1>1. HInv => WholeMessages
  BY DEF HInv
<1>2. Spec => []HInv
  BY HInvariance
<1> QED BY <1>1, <1>2, PTL

\* And a message that is the only one on its connection is reported once: by the
\* time that all of it was received, and the end of the stream if its body ends
\* with that; but not if its headers contradict each other or its target has no
\* path.
THEOREM OneMessageOneCallAlways ==
    ASSUME \A c \in Conversations : Proper(c) PROVE Spec => []OneMessageOneCall
<1>1. ASSUME HInv PROVE OneMessageOneCall
  <2> DEFINE m == sent.messages[1]
  <2> SUFFICES ASSUME Single(sent)
               PROVE  /\ Len(HttpCalls) <= IF Good(m) THEN 1 ELSE 0
                      /\ Good(m) /\ pc = "idle" /\ open /\ network = <<>> /\ (m.framing = "eof" => ended)
                            => Len(HttpCalls) = 1
    BY DEF OneMessageOneCall, Single
  <2>1. Len(HttpCalls) <= IF Good(m) THEN 1 ELSE 0
    <3>1. /\ parser.mISCompleted => Len(HttpCalls) = 1 /\ Good(m)
          /\ ~parser.mISCompleted => Len(HttpCalls) = 0
      BY <1>1 DEF HInv, ReportedOnce
    <3> DEFINE l == Len(HttpCalls)
    <3>2. CASE parser.mISCompleted
      <4>1. l = 1 /\ Good(m)
        BY <3>1, <3>2
      <4> HIDE DEF l
      <4>2. l <= 1
        BY <4>1, SMT
      <4> QED BY <4>1, <4>2 DEF l
    <3>3. CASE ~parser.mISCompleted
      <4>1. l = 0
        BY <3>1, <3>3
      <4> HIDE DEF l
      <4>2. l <= 1 /\ l <= 0
        BY <4>1, SMT
      <4> QED BY <4>2 DEF l
    <3> QED BY <3>2, <3>3
  <2>2. ASSUME Good(m), pc = "idle", network = <<>>, m.framing = "eof" => ended
        PROVE  parser.mISCompleted
    <3>1. CASE ended
      BY <1>1, <2>2, <3>1 DEF HInv, ReportedOnce
    <3>2. CASE ~ended
      <4> SUFFICES ASSUME ~parser.mISCompleted PROVE FALSE
        OBVIOUS
      <4>1. Proper(sent) /\ IsSeq(Units(sent)) /\ Len(Units(sent)) \in Nat
        BY <1>1, UnitsIsSeq DEF HInv
      <4>2. PICK k : AtUnit(k)
        BY <1>1 DEF HInv
      <4>3. /\ k \in 0..Len(Units(sent)) /\ network = Drop(Units(sent), k)
            /\ Reached(parser, sent, k) /\ ~parser.error
        BY <2>2, <3>2, <4>2 DEF AtUnit
      <4>4. Len(Drop(Units(sent), k)) = Len(Units(sent)) - k /\ Len(Drop(Units(sent), k)) = 0
        BY <2>2, <4>1, <4>3, DropIs, Few
      <4>5. k = Len(Units(sent))
        BY <4>1, <4>3, <4>4, SMT
      <4> QED BY <2>2, <3>2, <4>1, <4>3, <4>5, ReachedIs
    <3> QED BY <3>1, <3>2
  <2> QED BY <1>1, <2>1, <2>2 DEF HInv, ReportedOnce
<1>2. Spec => []HInv
  BY HInvariance
<1> QED BY <1>1, <1>2, PTL

-----------------------------------------------------------------------------
(* What frames say, put together to messages. *)

\* The last frame up to i that starts a message is frame j.
IsFirst(frames, j, i) ==
    /\ j \in 1..i /\ frames[j].type \in {TextFrame, BinaryFrame}
    /\ \A k \in j + 1..i : frames[k].type \notin {TextFrame, BinaryFrame}

\* There is no other.
LEMMA FirstIs ==
    ASSUME NEW frames, NEW i \in Nat, NEW j, IsFirst(frames, j, i)
    PROVE  First(frames, i) = j
<1> DEFINE S == {k \in 1..i : frames[k].type \in {TextFrame, BinaryFrame}}
<1>1. j \in S /\ j \in Nat
  BY SMT DEF IsFirst
<1>2. \A k \in S : k \in Nat /\ j >= k
  <2> SUFFICES ASSUME NEW k \in 1..i, frames[k].type \in {TextFrame, BinaryFrame}, ~(j >= k)
               PROVE  FALSE
    BY SMT
  <2>1. k \in j + 1..i
    BY <1>1, SMT
  <2> QED BY <2>1 DEF IsFirst
<1>3. First(frames, i) = Max(S)
  BY DEF First
<1> HIDE DEF S
<1>4. Max(S) \in S /\ \A k \in S : Max(S) >= k
  BY <1>1, <1>2 DEF Max
<1>5. Max(S) >= j /\ j >= Max(S) /\ Max(S) \in Nat
  BY <1>1, <1>2, <1>4
<1>6. PICK x : x = Max(S)
  OBVIOUS
<1>7. x = j
  BY ONLY <1>1, <1>5, <1>6, SMT
<1> QED BY <1>3, <1>6, <1>7

\* What At takes is among what it may take.
LEMMA AtHolds ==
    ASSUME NEW s, IsSeq(s), NEW P, NEW S, \A i \in 1..Len(s) : i \in P => s[i] \in S
    PROVE  At(s, P) \in Seq(S)
<1>1. Len(s) \in Nat
  BY DEF IsSeq
<1>2. PICK f : IsKept(f, s, P, Len(s)) /\ At(s, P) = f[Len(s)]
  BY <1>1, AtIsKept
<1> DEFINE T == {n \in Nat : n <= Len(s) => f[n] \in Seq(S)}
<1>3. \A i \in 0..Len(s) :
        f[i] = IF i = 0 THEN <<>> ELSE IF i \in P THEN Append(f[i - 1], s[i]) ELSE f[i - 1]
  BY <1>2 DEF IsKept
<1>4. 0 \in T
  <2>1. 0 \in 0..Len(s)
    BY <1>1, SMT
  <2>2. f[0] = <<>>
    BY <1>3, <2>1
  <2> QED BY <2>2, EmptySeq
<1>5. ASSUME NEW n \in Nat, n \in T PROVE n + 1 \in T
  <2> SUFFICES ASSUME n + 1 <= Len(s) PROVE f[n + 1] \in Seq(S)
    OBVIOUS
  <2>1. n <= Len(s) /\ n + 1 \in 1..Len(s) /\ n + 1 \in 0..Len(s) /\ (n + 1) - 1 = n /\ n + 1 # 0
    BY <1>1, SMT
  <2>2. f[n + 1] = IF n + 1 \in P THEN Append(f[n], s[n + 1]) ELSE f[n]
    BY <1>3, <2>1
  <2>3. f[n] \in Seq(S)
    BY <1>5, <2>1
  <2>4. n + 1 \in P => s[n + 1] \in S
    BY <2>1
  <2> HIDE <1>3
  <2>5. CASE n + 1 \in P
    BY <2>2, <2>3, <2>4, <2>5, AppendProperties
  <2> QED BY <2>2, <2>3, <2>5
<1> HIDE DEF T
<1>6. Nat \subseteq T
  BY <1>4, <1>5, NatSetInduction
<1>7. Len(s) <= Len(s)
  BY <1>1, SMT
<1> QED BY <1>1, <1>2, <1>6, <1>7 DEF T

\* What is flattened with one sequence more ends with that.
LEMMA FlattenAppend ==
    ASSUME NEW ss, SeqsIn(ss), NEW x, IsSeq(x)
    PROVE  SeqsIn(Append(ss, x)) /\ FlattenSeq(Append(ss, x)) = FlattenSeq(ss) \o x
<1> DEFINE n == Len(ss)
<1>1. PICK t : t = Append(ss, x)
  OBVIOUS
<1>2. IsSeq(ss) /\ n \in Nat /\ IsSeq(t) /\ Len(t) = n + 1 /\ (\A i \in 1..n : t[i] = ss[i])
      /\ t[n + 1] = x
  BY <1>1, AppendIs DEF SeqsIn
<1> HIDE DEF n
<1>3. /\ n \in 0..Len(t) /\ n + 1 \in 0..Len(t) /\ n + 1 \in 1..Len(t) /\ (n + 1) - 1 = n
      /\ \A i \in 1..Len(t) : i \in 1..n \/ i = n + 1
  BY <1>2, SMT
<1>4. SeqsIn(t)
  BY <1>2, <1>3 DEF SeqsIn, n
<1>5. Upto(t, n) = ss
  <2>1. IsSeq(Upto(t, n)) /\ Len(Upto(t, n)) = n /\ \A i \in 1..n : Upto(t, n)[i] = t[i]
    BY <1>2, <1>3, UptoIs
  <2> QED BY <1>2, <2>1, Same DEF n
<1>6. Upto(t, n + 1) = t
  BY <1>2, <1>3, UptoIs
<1>7. FlattenSeq(Upto(t, n + 1)) = FlattenSeq(Upto(t, n)) \o t[n + 1]
  BY <1>3, <1>4, FlattenStep
<1> QED BY <1>1, <1>2, <1>4, <1>5, <1>6, <1>7

\* What is flattened of nothing.
LEMMA EmptyFlat == FlattenSeq(<<>>) = <<>>
<1>1. SeqsIn(<<>>) /\ IsSeq(<<>>) /\ Len(<<>>) = 0
  BY Few DEF SeqsIn
<1>2. 0 \in 0..Len(<<>>) /\ 0 = Len(<<>>)
  BY <1>1, SMT
<1>3. Upto(<<>>, 0) = <<>>
  BY <1>1, <1>2, UptoIs
<1> QED BY <1>1, <1>3, FlattenStep

\* A frame starts a message, or leaves the start where it is.
LEMMA FirstMore ==
    ASSUME NEW frames, NEW i \in Nat
    PROVE  /\ frames[i + 1].type \in {TextFrame, BinaryFrame} => IsFirst(frames, i + 1, i + 1)
           /\ frames[i + 1].type \notin {TextFrame, BinaryFrame} =>
                 \A j : IsFirst(frames, j, i) => IsFirst(frames, j, i + 1)
<1>1. i + 1 \in 1..i + 1 /\ (\A k : k \notin (i + 1) + 1..i + 1) /\ \A j \in 1..i : j \in 1..i + 1
  BY SMT
<1>2. \A j \in 1..i : \A k \in j + 1..i + 1 : k \in j + 1..i \/ k = i + 1
  BY SMT
<1> QED BY <1>1, <1>2 DEF IsFirst

\* A message goes on behind a fragment that is not its last one, and behind a
\* frame that holds no data.
LEMMA UnderwayMore ==
    ASSUME NEW frames, NEW i \in Nat
    PROVE  /\ Underway(frames, i + 1) <=>
                 ~frames[i + 1].fin \/ (Underway(frames, i) /\ ~HoldsData(frames[i + 1]))
           /\ ~Underway(frames, 0)
<1>1. /\ i + 1 \in 1..i + 1 /\ (\A k : k \notin (i + 1) + 1..i + 1)
      /\ \A j \in 1..i : j \in 1..i + 1 /\ i + 1 \in j + 1..i + 1 /\ \A k \in j + 1..i : k \in j + 1..i + 1
      /\ \A j \in 1..i + 1 : j \in 1..i \/ j = i + 1
      /\ \A j : j \notin 1..0
  BY SMT
<1>2. \A j \in 1..i : \A k \in j + 1..i + 1 : k \in j + 1..i \/ k = i + 1
  BY SMT
<1>3. ASSUME ~frames[i + 1].fin PROVE Underway(frames, i + 1)
  BY <1>1, <1>3 DEF Underway
<1>4. ASSUME Underway(frames, i), ~HoldsData(frames[i + 1]) PROVE Underway(frames, i + 1)
  <2>1. PICK j \in 1..i : ~frames[j].fin /\ \A k \in j + 1..i : ~HoldsData(frames[k])
    BY <1>4 DEF Underway
  <2>2. \A k \in j + 1..i + 1 : ~HoldsData(frames[k])
    BY <1>2, <1>4, <2>1
  <2> QED BY <1>1, <2>1, <2>2 DEF Underway
<1>5. ASSUME Underway(frames, i + 1), frames[i + 1].fin
      PROVE  Underway(frames, i) /\ ~HoldsData(frames[i + 1])
  <2>1. PICK j \in 1..i + 1 : ~frames[j].fin /\ \A k \in j + 1..i + 1 : ~HoldsData(frames[k])
    BY <1>5 DEF Underway
  <2>2. j \in 1..i
    BY <1>1, <1>5, <2>1
  <2> QED BY <1>1, <2>1, <2>2 DEF Underway
<1> QED BY <1>1, <1>3, <1>4, <1>5 DEF Underway

\* A message that goes on has a first frame, and so has one that ends.
LEMMA FirstExists ==
    ASSUME NEW frames, ProperFrames(frames), NEW i \in 1..Len(frames), HoldsData(frames[i])
    PROVE  \E j : IsFirst(frames, j, i)
<1> DEFINE n == Len(frames)
           T == {k \in Nat : k <= n => (Underway(frames, k) => \E j : IsFirst(frames, j, k))}
<1>1. IsSeq(frames) /\ n \in Nat /\ DOMAIN frames = 1..n
  BY SeqIs DEF ProperFrames, IsSeq
<1>2. \A k \in 1..n :
        /\ frames[k].fin \/ HoldsData(frames[k])
        /\ HoldsData(frames[k]) => (frames[k].type = ContinuationFrame <=> Underway(frames, k - 1))
  BY <1>1 DEF ProperFrames
<1> HIDE DEF n
<1>3. ASSUME NEW k \in Nat, k + 1 <= n, HoldsData(frames[k + 1]),
             Underway(frames, k) => \E j : IsFirst(frames, j, k)
      PROVE  \E j : IsFirst(frames, j, k + 1)
  <2>1. k + 1 \in 1..n /\ (k + 1) - 1 = k
    BY <1>1, <1>3, SMT
  <2>2. frames[k + 1].type = ContinuationFrame <=> Underway(frames, k)
    BY <1>2, <1>3, <2>1
  <2>3. CASE frames[k + 1].type \in {TextFrame, BinaryFrame}
    BY <2>3, FirstMore
  <2>4. CASE frames[k + 1].type \notin {TextFrame, BinaryFrame}
    <3>1. Underway(frames, k)
      BY <1>3, <2>2, <2>4 DEF HoldsData
    <3> QED BY <1>3, <2>4, <3>1, FirstMore
  <2> QED BY <2>3, <2>4
<1>4. 0 \in T
  BY UnderwayMore
<1>5. ASSUME NEW k \in Nat, k \in T PROVE k + 1 \in T
  <2> SUFFICES ASSUME k + 1 <= n, Underway(frames, k + 1) PROVE \E j : IsFirst(frames, j, k + 1)
    OBVIOUS
  <2>1. k <= n /\ k + 1 \in 1..n
    BY <1>1, SMT
  <2>2. Underway(frames, k) => \E j : IsFirst(frames, j, k)
    BY <1>5, <2>1
  <2>3. CASE HoldsData(frames[k + 1])
    BY <1>3, <2>2, <2>3
  <2>4. CASE ~HoldsData(frames[k + 1])
    <3>1. frames[k + 1].fin
      BY <1>2, <2>1, <2>4
    <3>2. Underway(frames, k)
      BY <3>1, UnderwayMore
    <3>3. frames[k + 1].type \notin {TextFrame, BinaryFrame}
      BY <2>4 DEF HoldsData
    <3> QED BY <2>2, <3>2, <3>3, FirstMore
  <2> QED BY <2>3, <2>4
<1> HIDE DEF T
<1>6. Nat \subseteq T
  BY <1>4, <1>5, NatSetInduction
<1>7. i - 1 \in Nat /\ i - 1 <= n /\ (i - 1) + 1 = i /\ (i - 1) + 1 <= n
  BY <1>1, SMT DEF n
<1>8. Underway(frames, i - 1) => \E j : IsFirst(frames, j, i - 1)
  BY <1>6, <1>7 DEF T
<1>9. PICK k : k = i - 1
  OBVIOUS
<1>10. k \in Nat /\ k + 1 <= n /\ HoldsData(frames[k + 1]) /\ k + 1 = i
       /\ (Underway(frames, k) => \E j : IsFirst(frames, j, k))
  BY <1>7, <1>8, <1>9
<1>11. \E j : IsFirst(frames, j, k + 1)
  BY <1>3, <1>10
<1> QED BY <1>10, <1>11

\* The payloads of the fragments from frame j up to frame i.
Kept(frames, j, i) ==
    At([k \in 1..i |-> frames[k].payload], {k \in 1..i : k >= j /\ HoldsData(frames[k])})

\* Payloads that are sequences.
Payloads(frames, i) == \A k \in 1..i : IsSeq(frames[k].payload)

\* They are sequences, and get one more with each frame that holds data.
LEMMA KeptIs ==
    ASSUME NEW frames, NEW i \in Nat, Payloads(frames, i + 1), NEW j \in Nat
    PROVE  /\ SeqsIn(Kept(frames, j, i))
           /\ j = i + 1 => Kept(frames, j, i) = <<>>
           /\ Kept(frames, j, i + 1) =
                IF i + 1 >= j /\ HoldsData(frames[i + 1])
                THEN Append(Kept(frames, j, i), frames[i + 1].payload) ELSE Kept(frames, j, i)
<1> DEFINE s == [k \in 1..i |-> frames[k].payload]
           t == [k \in 1..i + 1 |-> frames[k].payload]
           P == {k \in 1..i : k >= j /\ HoldsData(frames[k])}
           Q == {k \in 1..i + 1 : k >= j /\ HoldsData(frames[k])}
<1>1. IsSeq(s) /\ Len(s) = i
  <2>1. DOMAIN s = 1..i /\ s = [k \in 1..i |-> s[k]]
    OBVIOUS
  <2> HIDE DEF s
  <2> QED BY <2>1, WrittenIs
<1>2. IsSeq(t) /\ Len(t) = i + 1
  <2>1. DOMAIN t = 1..i + 1 /\ t = [k \in 1..i + 1 |-> t[k]]
    OBVIOUS
  <2>2. i + 1 \in Nat
    OBVIOUS
  <2> HIDE DEF t
  <2> QED BY <2>1, <2>2, WrittenIs
<1>3. i + 1 \in 1..i + 1 /\ \A k \in 1..i : k \in 1..i + 1
  BY SMT
<1>4. /\ \A k \in 1..i : (k \in P <=> k \in Q) /\ (k \in P => s[k] = t[k])
      /\ i + 1 \in Q <=> i + 1 >= j /\ HoldsData(frames[i + 1])
      /\ t[i + 1] = frames[i + 1].payload
  BY <1>3
<1>5. Kept(frames, j, i) = At(s, P) /\ Kept(frames, j, i + 1) = At(t, Q)
  BY DEF Kept
<1>6. \A k \in 1..i : IsSeq(s[k])
  BY <1>3 DEF Payloads
<1>7. \A k \in 1..i : k \in P => k >= j
  OBVIOUS
<1> HIDE DEF s, t, P, Q
<1>8. At(t, Q) = IF Len(t) \in Q THEN Append(At(s, P), t[Len(t)]) ELSE At(s, P)
  <2>1. /\ IsSeq(s) /\ IsSeq(t) /\ Len(t) = Len(s) + 1
        /\ \A k \in 1..Len(s) : (k \in P <=> k \in Q) /\ (k \in P => s[k] = t[k])
    BY <1>1, <1>2, <1>4
  <2> QED BY ONLY <2>1, AtStep
<1>9. SeqsIn(At(s, P))
  <2> DEFINE S == {s[k] : k \in 1..i}
  <2>1. \A k \in 1..Len(s) : s[k] \in S
    BY <1>1
  <2>2. \A x \in S : IsSeq(x)
    BY <1>6
  <2> HIDE DEF S
  <2>3. At(s, P) \in Seq(S)
    BY <1>1, <2>1, AtHolds
  <2>4. PICK a : a = At(s, P)
    OBVIOUS
  <2>5. a \in Seq(S) /\ IsSeq(a)
    BY <2>3, <2>4, SeqIs
  <2>6. \A k \in 1..Len(a) : a[k] \in S
    BY <2>5, ElementOfSeq
  <2> QED BY <2>2, <2>4, <2>5, <2>6 DEF SeqsIn
<1>10. ASSUME j = i + 1 PROVE At(s, P) = <<>>
  <2>1. \A k \in 1..Len(s) : k \in P => s[k] \in {}
    <3>1. \A k \in 1..i : ~(k >= i + 1)
      BY SMT
    <3> QED BY <1>1, <1>7, <1>10, <3>1
  <2>2. At(s, P) \in Seq({})
    BY <1>1, <2>1, AtHolds
  <2>3. PICK a : a = At(s, P)
    OBVIOUS
  <2>4. a \in Seq({})
    BY <2>2, <2>3
  <2>5. Len(a) \in Nat /\ (\A k \in 1..Len(a) : a[k] \in {}) /\ IsSeq(a)
    BY <2>4, ElementOfSeq, LenProperties, SeqIs
  <2>6. Len(a) = 0
    <3> SUFFICES ASSUME Len(a) # 0 PROVE FALSE
      OBVIOUS
    <3>1. 1 \in 1..Len(a)
      BY <2>5, SMT
    <3> QED BY <2>5, <3>1
  <2> QED BY <2>3, <2>5, <2>6, Few
<1> QED BY <1>2, <1>4, <1>5, <1>8, <1>9, <1>10

\* A message depends on the frames up to its last one only.
LEMMA MessageIs ==
    ASSUME NEW frames, NEW n \in Nat, NEW g, \A k \in 1..n : g[k] = frames[k], NEW i \in 1..n,
           HoldsData(frames[i]) => \E j : IsFirst(frames, j, i)
    PROVE  Message(g, i) = Message(frames, i)
<1>1. i \in Nat /\ i \in 1..i /\ \A k \in 1..i : k \in 1..n
  BY SMT
<1>2. \A k \in 1..i : g[k] = frames[k]
  BY <1>1
<1>3. First(g, i) = First(frames, i)
  <2>1. {k \in 1..i : g[k].type \in {TextFrame, BinaryFrame}}
        = {k \in 1..i : frames[k].type \in {TextFrame, BinaryFrame}}
    BY <1>2
  <2> QED BY <2>1 DEF First
<1>4. Fragments(g, i) = Fragments(frames, i)
  <2> DEFINE j == First(frames, i)
  <2>1. Fragments(g, i) = At([k \in 1..i |-> g[k].payload], {k \in 1..i : k >= j /\ HoldsData(g[k])})
    BY <1>3 DEF Fragments
  <2>2. Fragments(frames, i) =
            At([k \in 1..i |-> frames[k].payload], {k \in 1..i : k >= j /\ HoldsData(frames[k])})
    BY DEF Fragments
  <2> HIDE DEF j
  <2>3. [k \in 1..i |-> g[k].payload] = [k \in 1..i |-> frames[k].payload]
    BY <1>2
  <2>4. {k \in 1..i : k >= j /\ HoldsData(g[k])} = {k \in 1..i : k >= j /\ HoldsData(frames[k])}
    BY <1>2
  <2> QED BY <2>1, <2>2, <2>3, <2>4
<1>5. g[i] = frames[i]
  BY <1>1, <1>2
<1>6. ASSUME HoldsData(frames[i]) PROVE g[First(frames, i)] = frames[First(frames, i)]
  <2>1. PICK j : IsFirst(frames, j, i)
    BY <1>6
  <2>2. First(frames, i) = j
    BY <1>1, <2>1, FirstIs
  <2>3. j \in 1..i
    BY <2>1 DEF IsFirst
  <2> QED BY <1>2, <2>2, <2>3
<1> QED BY <1>3, <1>4, <1>5, <1>6 DEF Message

\* One frame more ends a message, or goes on with one.
LEMMA MessagesMore ==
    ASSUME NEW frames, ProperFrames(frames), NEW i \in Nat, i < Len(frames)
    PROVE  Messages(SubSeq(frames, 1, i + 1)) =
             IF frames[i + 1].fin
             THEN Append(Messages(SubSeq(frames, 1, i)), Message(frames, i + 1))
             ELSE Messages(SubSeq(frames, 1, i))
<1> DEFINE g == Upto(frames, i)
           h == Upto(frames, i + 1)
           s == [k \in DOMAIN g |-> Message(g, k)]
           t == [k \in DOMAIN h |-> Message(h, k)]
           P == {k \in DOMAIN g : g[k].fin}
           Q == {k \in DOMAIN h : h[k].fin}
<1>1. IsSeq(frames) /\ Len(frames) \in Nat
  BY DEF IsSeq, ProperFrames
<1>2. i \in 0..Len(frames) /\ i + 1 \in 0..Len(frames) /\ i + 1 \in 1..i + 1 /\ i + 1 \in Nat
      /\ (\A j \in 1..i : j \in 1..i + 1)
      /\ \A k \in 1..i + 1 : k \in 1..Len(frames)
  BY <1>1, SMT
<1>21. \A k \in 1..i + 1 : HoldsData(frames[k]) => \E j : IsFirst(frames, j, k)
  BY <1>2, FirstExists
<1>3. IsSeq(g) /\ Len(g) = i /\ \A k \in 1..i : g[k] = frames[k]
  BY <1>1, <1>2, UptoIs
<1>4. IsSeq(h) /\ Len(h) = i + 1 /\ \A k \in 1..i + 1 : h[k] = frames[k]
  BY <1>1, <1>2, UptoIs
<1> HIDE DEF g, h
<1>5. DOMAIN g = 1..i /\ DOMAIN h = 1..i + 1
  BY <1>3, <1>4, SeqIs
<1>6. \A k \in 1..i : Message(g, k) = Message(frames, k)
  BY <1>2, <1>21, <1>3, MessageIs
<1>7. \A k \in 1..i + 1 : Message(h, k) = Message(frames, k)
  BY <1>2, <1>21, <1>4, MessageIs
<1>8. /\ \A k \in 1..i : (k \in P <=> k \in Q) /\ s[k] = t[k]
      /\ i + 1 \in Q <=> frames[i + 1].fin
      /\ t[i + 1] = Message(frames, i + 1)
  BY <1>2, <1>3, <1>4, <1>5, <1>6, <1>7
<1>9. Messages(g) = At(s, P) /\ Messages(h) = At(t, Q)
  BY DEF Messages
<1>10. DOMAIN s = 1..i /\ s = [k \in 1..i |-> s[k]] /\ DOMAIN t = 1..i + 1 /\ t = [k \in 1..i + 1 |-> t[k]]
  BY <1>5
<1> HIDE DEF s, t, P, Q
<1>11. IsSeq(s) /\ Len(s) = i /\ IsSeq(t) /\ Len(t) = i + 1
  BY <1>2, <1>10, WrittenIs
<1>12. At(t, Q) = IF Len(t) \in Q THEN Append(At(s, P), t[Len(t)]) ELSE At(s, P)
  <2>1. /\ IsSeq(s) /\ IsSeq(t) /\ Len(t) = Len(s) + 1
        /\ \A k \in 1..Len(s) : (k \in P <=> k \in Q) /\ (k \in P => s[k] = t[k])
    BY <1>8, <1>11
  <2> QED BY ONLY <2>1, AtStep
<1> QED BY <1>8, <1>9, <1>11, <1>12 DEF g, h, Upto

\* No frames, no messages.
LEMMA NoMessages == ASSUME NEW frames, IsSeq(frames) PROVE Messages(SubSeq(frames, 1, 0)) = <<>>
<1>1. Len(frames) \in Nat /\ 0 \in 0..Len(frames)
  BY SMT DEF IsSeq
<1>2. PICK g : g = SubSeq(frames, 1, 0)
  OBVIOUS
<1>3. IsSeq(g) /\ Len(g) = 0
  BY <1>1, <1>2, UptoIs DEF Upto
<1>4. DOMAIN g = {}
  <2>1. DOMAIN g = 1..0
    BY <1>3, SeqIs
  <2> QED BY <2>1, SMT
<1> DEFINE s == [k \in DOMAIN g |-> Message(g, k)]
<1>5. s = <<>>
  <2>1. DOMAIN s = 1..0 /\ s = [k \in 1..0 |-> s[k]]
    BY <1>3, SeqIs
  <2> HIDE DEF s
  <2>2. IsSeq(s) /\ Len(s) = 0
    BY <2>1, WrittenIs
  <2> QED BY <2>2, Few
<1>6. Messages(g) = At(s, {k \in DOMAIN g : g[k].fin})
  BY DEF Messages
<1> QED BY <1>2, <1>5, <1>6, AtStep

\* What of i frames is kept for a message that goes on.
CachedAs(frames, i, held, type) ==
    IF Underway(frames, i)
    THEN \E j : IsFirst(frames, j, i) /\ type = frames[j].type /\ held = FlattenSeq(Kept(frames, j, i))
    ELSE held = <<>>

\* What ProcessWebSocket makes of that with a frame f.
Gathered(f, held) == IF ~f.fin \/ f.type = ContinuationFrame THEN held \o f.payload ELSE held
LastOf(f) == f.fin /\ f.type = ContinuationFrame
TypeWith(f, type) == IF ~f.fin /\ f.type # ContinuationFrame THEN f.type ELSE type

\* It keeps what goes on, and has a message whole when that ends.
LEMMA CacheMore ==
    ASSUME NEW frames, ProperFrames(frames), NEW i \in Nat, i < Len(frames),
           Payloads(frames, i + 1), NEW held, NEW type, CachedAs(frames, i, held, type),
           NEW f, f = frames[i + 1]
    PROVE  /\ CachedAs(frames, i + 1, IF LastOf(f) THEN <<>> ELSE Gathered(f, held), TypeWith(f, type))
           /\ f.fin => Message(frames, i + 1) =
                IF LastOf(f) THEN WsCall(TypeWith(f, type), Gathered(f, held))
                             ELSE WsCall(f.type, f.payload)
<1>1. IsSeq(frames) /\ Len(frames) \in Nat /\ DOMAIN frames = 1..Len(frames)
  BY SeqIs DEF ProperFrames, IsSeq
<1>2. i + 1 \in 1..Len(frames) /\ (i + 1) - 1 = i /\ i + 1 \in Nat /\ i + 1 \in 1..i + 1
  BY <1>1, SMT
<1>3. /\ (f.fin \/ HoldsData(f)) /\ f.fin \in BOOLEAN
      /\ HoldsData(f) => (f.type = ContinuationFrame <=> Underway(frames, i))
      /\ IsSeq(f.payload)
  BY <1>1, <1>2 DEF ProperFrames, ProperFrame, Payloads
<1>4. /\ Underway(frames, i + 1) <=> ~f.fin \/ (Underway(frames, i) /\ ~HoldsData(f))
      /\ f.type \in {TextFrame, BinaryFrame} => IsFirst(frames, i + 1, i + 1)
      /\ f.type \notin {TextFrame, BinaryFrame} =>
            \A j : IsFirst(frames, j, i) => IsFirst(frames, j, i + 1)
  BY UnderwayMore, FirstMore
<1>5. ContinuationFrame \notin {TextFrame, BinaryFrame}
  BY DEF ContinuationFrame, TextFrame, BinaryFrame
<1>6. ASSUME NEW j \in Nat, j <= i + 1
      PROVE  /\ HoldsData(f) =>
                  FlattenSeq(Kept(frames, j, i + 1)) = FlattenSeq(Kept(frames, j, i)) \o f.payload
             /\ ~HoldsData(f) => Kept(frames, j, i + 1) = Kept(frames, j, i)
             /\ j = i + 1 => FlattenSeq(Kept(frames, j, i)) = <<>>
  <2>1. /\ SeqsIn(Kept(frames, j, i))
        /\ j = i + 1 => Kept(frames, j, i) = <<>>
        /\ Kept(frames, j, i + 1) =
                IF i + 1 >= j /\ HoldsData(frames[i + 1])
                THEN Append(Kept(frames, j, i), frames[i + 1].payload) ELSE Kept(frames, j, i)
    BY KeptIs
  <2>2. i + 1 >= j
    BY <1>6, SMT
  <2>3. FlattenSeq(Append(Kept(frames, j, i), f.payload)) = FlattenSeq(Kept(frames, j, i)) \o f.payload
    BY <1>3, <2>1, FlattenAppend
  <2>4. FlattenSeq(<<>>) = <<>>
    BY EmptyFlat
  <2> QED BY <2>1, <2>2, <2>3, <2>4
<1>7. \A j : IsFirst(frames, j, i) => j \in Nat /\ j <= i + 1
  BY SMT DEF IsFirst
<1>8. ASSUME NEW j, IsFirst(frames, j, i + 1), HoldsData(f)
      PROVE  Message(frames, i + 1) = WsCall(frames[j].type, FlattenSeq(Kept(frames, j, i + 1)))
  <2>1. First(frames, i + 1) = j
    BY <1>2, <1>8, FirstIs
  <2>2. Fragments(frames, i + 1) = Kept(frames, j, i + 1)
    BY <2>1 DEF Fragments, Kept
  <2> QED BY <1>8, <2>1, <2>2 DEF Message
<1>9. CASE f.type = ContinuationFrame
  <2>1. HoldsData(f) /\ Underway(frames, i) /\ f.type \notin {TextFrame, BinaryFrame}
    BY <1>3, <1>5, <1>9 DEF HoldsData
  <2>2. PICK j : IsFirst(frames, j, i) /\ type = frames[j].type /\ held = FlattenSeq(Kept(frames, j, i))
    BY <2>1 DEF CachedAs
  <2>3. IsFirst(frames, j, i + 1) /\ FlattenSeq(Kept(frames, j, i + 1)) = held \o f.payload
    BY <1>4, <1>6, <1>7, <2>1, <2>2
  <2>4. Gathered(f, held) = held \o f.payload /\ TypeWith(f, type) = type /\ LastOf(f) = f.fin
    BY <1>3, <1>9 DEF Gathered, TypeWith, LastOf
  <2>5. Message(frames, i + 1) = WsCall(type, held \o f.payload)
    BY <1>8, <2>1, <2>2, <2>3
  <2>6. Underway(frames, i + 1) <=> ~f.fin
    BY <1>4, <2>1
  <2> QED BY <2>2, <2>3, <2>4, <2>5, <2>6 DEF CachedAs
<1>10. CASE f.type \in {TextFrame, BinaryFrame}
  <2>1. HoldsData(f) /\ ~Underway(frames, i) /\ f.type # ContinuationFrame
    BY <1>3, <1>5, <1>10 DEF HoldsData
  <2>2. held = <<>>
    BY <2>1 DEF CachedAs
  <2>3. IsFirst(frames, i + 1, i + 1) /\ FlattenSeq(Kept(frames, i + 1, i + 1)) = f.payload
    <3>1. i + 1 <= i + 1
      BY SMT
    <3>2. FlattenSeq(Kept(frames, i + 1, i + 1)) = <<>> \o f.payload
      BY <1>2, <1>6, <2>1, <3>1
    <3> QED BY <1>3, <1>4, <1>10, <3>2, Few
  <2>4. /\ ~LastOf(f)
        /\ f.fin => Gathered(f, held) = held
        /\ ~f.fin => Gathered(f, held) = f.payload /\ TypeWith(f, type) = f.type
    BY <1>3, <2>1, <2>2, Few DEF Gathered, TypeWith, LastOf
  <2>5. Message(frames, i + 1) = WsCall(f.type, f.payload)
    BY <1>8, <2>1, <2>3
  <2>6. Underway(frames, i + 1) <=> ~f.fin
    BY <1>4, <2>1
  <2> QED BY <2>2, <2>3, <2>4, <2>5, <2>6 DEF CachedAs
<1>11. CASE ~HoldsData(f)
  <2>1. f.fin /\ f.type # ContinuationFrame /\ f.type \notin {TextFrame, BinaryFrame}
    BY <1>3, <1>11 DEF HoldsData
  <2>2. ~LastOf(f) /\ Gathered(f, held) = held /\ TypeWith(f, type) = type
    BY <2>1 DEF LastOf, Gathered, TypeWith
  <2>3. Message(frames, i + 1) = WsCall(f.type, f.payload)
    BY <1>11 DEF Message
  <2>4. Underway(frames, i + 1) <=> Underway(frames, i)
    BY <1>4, <1>11, <2>1
  <2>5. CachedAs(frames, i + 1, held, type)
    <3>1. CASE Underway(frames, i)
      <4>1. PICK j : IsFirst(frames, j, i) /\ type = frames[j].type /\ held = FlattenSeq(Kept(frames, j, i))
        BY <3>1 DEF CachedAs
      <4>2. IsFirst(frames, j, i + 1) /\ Kept(frames, j, i + 1) = Kept(frames, j, i)
        BY <1>4, <1>6, <1>7, <1>11, <2>1, <4>1
      <4> QED BY <2>4, <3>1, <4>1, <4>2 DEF CachedAs
    <3> QED BY <2>4, <3>1 DEF CachedAs
  <2> QED BY <2>1, <2>2, <2>3, <2>5
<1> QED BY <1>9, <1>10, <1>11 DEF HoldsData

-----------------------------------------------------------------------------
(* Where frames are. *)

\* Where the first i frames end, and how long the next one and its head are.
Ends(c, i) == Until(PartsOfFrames(c), i)
FrameHeadOf(g) == FrameHead(g.length, g.type, g.fin, g.mask)
Size(g) == Len(FrameHeadOf(g)) + Len(g.payload)

\* What a frame is made of.
IsFrame(g) ==
    /\ ProperFrame(g, TRUE)
    /\ Len(FrameHeadOf(g)) \in Nat /\ Len(FrameHeadOf(g)) >= 2 /\ Len(g.payload) \in Nat /\ g.length \in Nat
    /\ IsSeq(g.payload) /\ IsSeq(FrameHeadOf(g)) /\ IsSeq(Masked(g.payload, g.mask))
    /\ Size(g) \in Nat /\ Len(g.payload) <= g.length

\* Frame g begins behind the first b units of u.
IsAt(u, b, g) ==
    \A x \in 1..Size(g) : u[b + x] = Unit("byte", (FrameHeadOf(g) \o Masked(g.payload, g.mask))[x])

\* The frames are behind each other, and go up to the end.
FramesIn(c, u, n) ==
    /\ IsSeq(u) /\ Len(u) \in Nat /\ n \in Nat /\ n = Len(c.frames) /\ DOMAIN c.frames = 1..n
    /\ Ends(c, 0) = 0 /\ Ends(c, n) = Len(u)
    /\ \A i \in 0..n : Ends(c, i) \in Nat /\ Ends(c, i) <= Len(u)
    /\ \A i \in 1..n : /\ IsFrame(c.frames[i]) /\ IsAt(u, Ends(c, i - 1), c.frames[i])
                       /\ Ends(c, i) = Ends(c, i - 1) + Size(c.frames[i])
    /\ \A i, j \in 0..n : i <= j => Ends(c, i) <= Ends(c, j)

\* That is so for every conversation.
LEMMA FramesAre == ASSUME NEW c, Proper(c) PROVE FramesIn(c, WsUnits(c), Len(c.frames))
<1> DEFINE ss == PartsOfFrames(c)
           u == WsUnits(c)
           n == Len(c.frames)
<1>1. /\ SeqsIn(ss) /\ IsSeq(u) /\ Len(ss) = n /\ n \in Nat /\ DOMAIN c.frames = 1..n
      /\ \A i \in 1..n : ss[i] = FrameUnits(c.frames[i]) /\ ProperFrame(c.frames[i], TRUE)
  BY UnitsAre
<1>2. u = FlattenSeq(ss) \o <<>> /\ u = FlattenSeq(ss)
  <2>1. IsSeq(FlattenSeq(ss))
    BY <1>1, FlattenIs
  <2> QED BY <2>1, Few DEF WsUnits
<1> HIDE DEF ss, u, n
<1>3. PlacedIn(u, ss, <<>>)
  BY <1>1, <1>2, Placed, Few
<1>4. /\ Len(u) \in Nat /\ Until(ss, 0) = 0 /\ Until(ss, n) = Len(u)
      /\ \A i \in 0..n : Until(ss, i) \in 0..Len(u)
  BY <1>1, <1>2, <1>3 DEF PlacedIn
<1>5. ASSUME NEW i \in 1..n
      PROVE  /\ IsFrame(c.frames[i]) /\ IsAt(u, Until(ss, i - 1), c.frames[i])
             /\ Until(ss, i) = Until(ss, i - 1) + Size(c.frames[i])
  <2> DEFINE g == c.frames[i]
  <2>1. /\ Until(ss, i) = Until(ss, i - 1) + Len(ss[i])
        /\ \A x \in 1..Len(ss[i]) : u[Until(ss, i - 1) + x] = ss[i][x]
    BY <1>1, <1>3 DEF PlacedIn
  <2>2. ss[i] = FrameUnits(g) /\ ProperFrame(g, TRUE)
    BY <1>1
  <2> HIDE DEF g
  <2>3. /\ IsSeq(FrameHeadOf(g)) /\ Len(FrameHeadOf(g)) \in Nat /\ Len(FrameHeadOf(g)) >= 2
        /\ IsSeq(Masked(g.payload, g.mask)) /\ Len(FrameUnits(g)) = Size(g)
        /\ \A x \in 1..Len(FrameUnits(g)) :
              FrameUnits(g)[x] = Unit("byte", (FrameHeadOf(g) \o Masked(g.payload, g.mask))[x])
    BY <2>2, FrameUnitsIs DEF FrameHeadOf, Size
  <2>4. g.payload \in Seq(Byte) /\ g.length \in Nat /\ Len(g.payload) <= g.length
    BY <2>2 DEF ProperFrame
  <2>5. IsSeq(g.payload) /\ Len(g.payload) \in Nat
    BY <2>4, SeqIs, LenProperties
  <2>6. Size(g) \in Nat
    <3> DEFINE a == Len(FrameHeadOf(g))
               b == Len(g.payload)
    <3>1. a \in Nat /\ b \in Nat /\ Size(g) = a + b
      BY <2>3, <2>5 DEF Size
    <3> HIDE DEF a, b
    <3> QED BY <3>1
  <2>7. IsFrame(g)
    BY <2>2, <2>3, <2>4, <2>5, <2>6 DEF IsFrame
  <2>8. IsAt(u, Until(ss, i - 1), g)
    BY <2>1, <2>2, <2>3 DEF IsAt
  <2> QED BY <2>1, <2>2, <2>3, <2>7, <2>8 DEF g
<1>6. ASSUME NEW i \in 0..n, NEW j \in 0..n, i <= j PROVE Until(ss, i) <= Until(ss, j)
  <2> DEFINE t == Upto(ss, j)
  <2>1. IsSeq(ss) /\ \A k \in 1..n : IsSeq(ss[k])
    BY <1>1 DEF SeqsIn
  <2>2. IsSeq(t) /\ Len(t) = j /\ \A k \in 1..j : t[k] = ss[k]
    BY <1>1, <2>1, UptoIs
  <2> HIDE DEF t
  <2>3. i \in 0..Len(t) /\ (\A k \in 1..j : k \in 1..n) /\ \A k \in 1..i : k \in 1..j
    BY <1>1, <1>6, <2>2, SMT
  <2>4. SeqsIn(t)
    BY <2>1, <2>2, <2>3 DEF SeqsIn
  <2>5. Upto(t, i) = Upto(ss, i)
    <3>1. IsSeq(Upto(t, i)) /\ Len(Upto(t, i)) = i /\ \A k \in 1..i : Upto(t, i)[k] = t[k]
      BY <2>2, <2>3, UptoIs
    <3>2. IsSeq(Upto(ss, i)) /\ Len(Upto(ss, i)) = i /\ \A k \in 1..i : Upto(ss, i)[k] = ss[k]
      BY <1>1, <2>1, UptoIs
    <3>3. \A k \in 1..i : Upto(t, i)[k] = Upto(ss, i)[k]
      BY <2>2, <2>3, <3>1, <3>2
    <3> QED BY <3>1, <3>2, <3>3, Same
  <2> DEFINE a == FlattenSeq(Upto(t, i))
             b == FlattenSeq(Drop(t, i))
  <2>6. IsSeq(b) /\ a \o b = FlattenSeq(t)
    BY <2>3, <2>4, FlattenDrop
  <2>7. IsSeq(a)
    BY <2>3, <2>4, FlattenStep
  <2> HIDE DEF a, b
  <2>8. Len(FlattenSeq(t)) = Len(a) + Len(b) /\ Len(a) \in Nat /\ Len(b) \in Nat
    BY <2>6, <2>7, CatIs
  <2>9. Until(ss, i) = Len(a) /\ Until(ss, j) = Len(FlattenSeq(t))
    BY <2>5 DEF Until, a, t
  <2> QED BY <2>8, <2>9, SMT
<1>7. \A i \in 0..n : Until(ss, i) \in Nat /\ Until(ss, i) <= Len(u)
  BY <1>4, SMT
<1> QED BY <1>1, <1>4, <1>5, <1>6, <1>7 DEF FramesIn, Ends, ss, u, n

\* What is behind a frame is what was not sent with it and those before.
LEMMA BehindIs ==
    ASSUME Proper(sent), NEW i \in 0..Len(sent.frames)
    PROVE  /\ Behind(i) = Len(WsUnits(sent)) - Ends(sent, i)
           /\ Behind(i) \in Nat
<1> DEFINE ss == PartsOfFrames(sent)
           n == Len(sent.frames)
           d == Drop(sent.frames, i)
           c == [messages |-> <<>>, frames |-> d]
           e == [k \in DOMAIN d |-> FrameUnits(d[k])]
           w == FlattenSeq(e)
<1>1. /\ SeqsIn(ss) /\ Len(ss) = n /\ n \in Nat
      /\ \A k \in 1..n : ss[k] = FrameUnits(sent.frames[k])
  BY UnitsAre
<1>2. IsSeq(sent.frames) /\ IsSeq(ss)
  BY <1>1 DEF Proper, ProperFrames, SeqsIn
<1>3. IsSeq(d) /\ Len(d) = n - i /\ \A k \in 1..n - i : d[k] = sent.frames[i + k]
  BY <1>2, DropIs
<1>4. IsSeq(Drop(ss, i)) /\ Len(Drop(ss, i)) = n - i /\ \A k \in 1..n - i : Drop(ss, i)[k] = ss[i + k]
  <2>1. i \in 0..Len(ss) /\ IsSeq(ss)
    BY <1>1, <1>2
  <2> HIDE DEF ss
  <2>2. /\ IsSeq(Drop(ss, i)) /\ Len(Drop(ss, i)) = Len(ss) - i
        /\ \A k \in 1..Len(ss) - i : Drop(ss, i)[k] = ss[i + k]
    BY <2>1, DropIs
  <2> QED BY <1>1, <2>2
<1>5. DOMAIN d = 1..n - i
  BY <1>3, SeqIs
<1>6. n - i \in Nat /\ \A k \in 1..n - i : i + k \in 1..n
  BY <1>1, SMT
<1>7. e = Drop(ss, i)
  <2>1. DOMAIN e = 1..n - i /\ e = [k \in 1..n - i |-> e[k]] /\ \A k \in 1..n - i : e[k] = FrameUnits(d[k])
    BY <1>5
  <2> HIDE DEF e
  <2>2. IsSeq(e) /\ Len(e) = n - i
    BY <1>6, <2>1, WrittenIs
  <2>3. \A k \in 1..n - i : e[k] = Drop(ss, i)[k]
    BY <1>1, <1>3, <1>4, <1>6, <2>1
  <2> QED BY <1>4, <2>2, <2>3, Same
<1>8. Units(c) = FlattenSeq(<<>>) \o w
  <2>1. c.messages = <<>> /\ c.frames = d
    OBVIOUS
  <2>2. [k \in DOMAIN <<>> |-> MessageUnits(<<>>[k])] = <<>>
    <3> DEFINE z == [k \in DOMAIN <<>> |-> MessageUnits(<<>>[k])]
    <3>1. DOMAIN <<>> = 1..0
      BY Few, SeqIs
    <3>2. DOMAIN z = 1..0 /\ z = [k \in 1..0 |-> z[k]]
      BY <3>1
    <3> HIDE DEF z
    <3>3. IsSeq(z) /\ Len(z) = 0
      BY <3>2, WrittenIs
    <3> QED BY <3>3, Few DEF z
  <2> HIDE DEF c, d
  <2> QED BY <2>1, <2>2 DEF Units
<1>9. Behind(i) = Len(w)
  <2>1. IsSeq(w)
    BY <1>1, <1>7, FlattenDrop
  <2>2. Behind(i) = Len(Units(c))
    BY DEF Behind
  <2> HIDE DEF w, c
  <2> QED BY <1>8, <2>1, <2>2, EmptyFlat, Few
<1> DEFINE a == FlattenSeq(Upto(ss, i))
<1>10. IsSeq(a) /\ IsSeq(w) /\ a \o w = WsUnits(sent)
  BY <1>1, <1>7, FlattenDrop, FlattenStep DEF WsUnits
<1> HIDE DEF w, a
<1>11. Len(WsUnits(sent)) = Len(a) + Len(w) /\ Len(a) \in Nat /\ Len(w) \in Nat
  BY <1>10, CatIs
<1>12. Ends(sent, i) = Len(a)
  BY DEF Ends, Until, a
<1> QED BY <1>9, <1>11, <1>12, SMT

\* A frame that is sent to its end.
Whole(g) == g.length = Len(g.payload)

\* The bytes b are those of frame g, up to the end of the one or the other; and
\* only behind a whole frame there are others.
Shows(b, g) ==
    /\ IsSeq(b) /\ Len(b) \in Nat
    /\ \A x \in 1..Len(b) : x <= Size(g) => b[x] = (FrameHeadOf(g) \o Masked(g.payload, g.mask))[x]
    /\ Whole(g) \/ Len(b) <= Size(g)

\* What a head of which not all is there is taken for.
LEMMA HeadCut ==
    ASSUME ByteBase = 256, NEW g, IsFrame(g), NEW b, NEW size \in Nat,
           size < Len(FrameHeadOf(g)), \A x \in 1..size : b[x] = FrameHeadOf(g)[x]
    PROVE  ExtractHead(b, size) = NoFrame
<1> DEFINE h == FrameHeadOf(g)
<1>1. /\ g.length \in Nat /\ g.length < Quad /\ g.type \in FrameTypes /\ g.fin \in BOOLEAN
      /\ g.mask \in Masks
  BY DEF IsFrame, ProperFrame, Masks
<1>2. StartsWith(h, h)
  BY DEF StartsWith
<1>3. LengthEnd(h) \in Nat /\ HeadEnd(h) = Len(h) /\ HeadEnd(h) = LengthEnd(h) + Len(g.mask)
  <2>1. HeadEnd(h) = Len(h) /\ HeadEnd(h) = LengthEnd(h) + Len(g.mask)
    BY <1>1, <1>2, HeadFields DEF FrameHeadOf
  <2>2. LengthEnd(h) \in {2, 4, 10}
    BY DEF LengthEnd
  <2> QED BY <2>1, <2>2
<1>4. size >= 2 => LengthEnd(b) = LengthEnd(h) /\ HeadEnd(b) = HeadEnd(h)
  <2> SUFFICES ASSUME size >= 2 PROVE LengthEnd(b) = LengthEnd(h) /\ HeadEnd(b) = HeadEnd(h)
    OBVIOUS
  <2>1. 2 \in 1..size
    BY SMT
  <2>2. b[2] = h[2]
    BY <2>1
  <2> HIDE DEF h
  <2>3. LengthEnd(b) = LengthEnd(h)
    BY <2>2 DEF LengthEnd
  <2> QED BY <2>2, <2>3 DEF HeadEnd, IsMasking
<1>5. CASE size < 2
  BY <1>5 DEF ExtractHead, TooShort
<1>6. CASE size >= 2
  <2>1. size < HeadEnd(b)
    BY <1>3, <1>4, <1>6
  <2> QED BY <2>1 DEF ExtractHead, TooShort
<1> QED BY <1>5, <1>6, SMT

\* What ProcessWebSocket finds where a frame begins: that frame, as soon as all of
\* it is there and not before.
LEMMA ExtractIs ==
    ASSUME ByteBase = 256, NEW g, IsFrame(g), NEW b, Shows(b, g), NEW f,
           f = ExtractHead(b, Len(b))
    PROVE  /\ f.whole <=> Whole(g) /\ Size(g) <= Len(b)
           /\ f.whole => /\ f.opcode = g.type /\ f.fin = g.fin /\ f.frameSize = Size(g)
                         /\ Payload(b, f) = g.payload
<1> DEFINE h == FrameHeadOf(g)
           m == Masked(g.payload, g.mask)
           k == Len(h)
           n == g.length
           l == Len(g.payload)
<1>1. /\ n \in Nat /\ n < Quad /\ g.type \in FrameTypes /\ g.fin \in BOOLEAN
      /\ g.mask \in Masks /\ g.payload \in Seq(Byte)
      /\ Whole(g) => n < Unextractable
  <2>1. n >= Unextractable => l < n
    BY DEF IsFrame, ProperFrame
  <2>2. n \in Nat /\ Unextractable \in Int
    BY SMT, Numbers DEF IsFrame, Unextractable, Word
  <2>3. Whole(g) => n < Unextractable
    BY <2>1, <2>2 DEF Whole
  <2> QED BY <2>3 DEF IsFrame, ProperFrame, Masks
<1>2. IsSeq(h) /\ IsSeq(m) /\ k \in Nat /\ l \in Nat /\ Size(g) = k + l /\ l <= n
  BY DEF IsFrame, Size
<1>3. Len(m) = l
  <2>1. ProperFrame(g, TRUE)
    BY DEF IsFrame
  <2> QED BY <2>1, FrameUnitsIs
<1> DEFINE w == h \o m
<1> HIDE DEF m
<1>4. /\ \A x \in 1..k : w[x] = h[x]
      /\ \A x \in 1..l : w[k + x] = m[x]
  <2> DEFINE y == g.payload
  <2>1. IsSeq(h) /\ IsSeq(m) /\ Len(m) = Len(y)
    BY <1>2, <1>3
  <2> HIDE DEF h, y
  <2>2. PICK c : c = h \o m
    OBVIOUS
  <2>3. IsCat(c, h, m)
    BY <2>1, <2>2 DEF IsCat
  <2>4. /\ \A x \in 1..Len(h) : c[x] = h[x]
        /\ \A x \in 1..Len(m) : c[Len(h) + x] = m[x]
    BY <2>3, CatOf
  <2>5. k = Len(h) /\ l = Len(m) /\ w = c
    BY <2>1, <2>2 DEF y
  <2> HIDE DEF w, k, l
  <2> QED BY <2>4, <2>5
<1> HIDE DEF h, k, w, n, l
<1>5. /\ IsSeq(b) /\ Len(b) \in Nat /\ (Whole(g) \/ Len(b) <= k + l)
      /\ \A x \in 1..Len(b) : x <= k + l => b[x] = w[x]
      /\ Whole(g) <=> n = l
  BY <1>2 DEF Shows, Whole, w, h, m, n, l
<1>6. ~NoFrame.whole
  BY DEF NoFrame
<1>7. CASE Len(b) < k
  <2>1. \A x \in 1..Len(b) : b[x] = h[x]
    <3>1. \A x \in 1..Len(b) : x \in 1..k /\ x <= k + l
      BY <1>2, <1>5, <1>7, SMT
    <3> QED BY <1>4, <1>5, <3>1
  <2>2. f = NoFrame
    BY <1>5, <1>7, <2>1, HeadCut DEF h, k
  <2>3. ~(k + l <= Len(b))
    BY <1>2, <1>5, <1>7, SMT
  <2> QED BY <1>2, <1>6, <2>2, <2>3
<1>8. CASE k <= Len(b)
  <2>1. StartsWith(b, h)
    <3>1. \A x \in 1..k : x \in 1..Len(b) /\ x <= k + l
      BY <1>2, <1>5, <1>8, SMT
    <3> QED BY <1>4, <1>5, <3>1 DEF StartsWith, k
  <2>2. f = IF n < Unextractable /\ Len(b) >= k + n
            THEN [whole |-> TRUE, opcode |-> g.type, fin |-> g.fin, mask |-> g.mask,
                  pos |-> k, payloadlen |-> n, frameSize |-> n + k]
            ELSE NoFrame
    BY <1>1, <1>5, <2>1, HeadFound DEF h, k, n, FrameHeadOf
  <2>3. CASE n < Unextractable /\ Len(b) >= k + n
    <3>1. n = l /\ k + l <= Len(b) /\ n + k = k + l
      BY <1>1, <1>2, <1>5, <2>3, SMT DEF n
    <3>2. /\ f.whole /\ f.opcode = g.type /\ f.fin = g.fin /\ f.frameSize = k + l
          /\ f.pos = k /\ f.mask = g.mask
      BY <2>2, <2>3, <3>1
    <3>3. Payload(b, f) = g.payload
      <4>1. PICK s : s = SubSeq(b, k + 1, k + l)
        OBVIOUS
      <4>2. IsSeq(s) /\ Len(s) = l /\ \A x \in 1..Len(s) : s[x] = b[k + x]
        <5>1. k + l \in Nat /\ k <= k + l /\ (k + l) - k = l
          BY <1>2, SMT
        <5>2. k \in Nat /\ k + l \in Nat /\ s = SubSeq(b, k + 1, k + l)
          BY <1>2, <4>1, <5>1
        <5>3. IsSeq(s) /\ (Len(s) = IF k <= k + l THEN (k + l) - k ELSE 0)
              /\ \A x \in 1..Len(s) : s[x] = b[k + x]
          BY ONLY <5>2, SubSeqIs
        <5> QED BY <5>1, <5>3
      <4>3. \A x \in 1..l : k + x \in 1..Len(b) /\ k + x <= k + l
        BY <1>2, <1>5, <3>1, SMT
      <4>4. \A x \in 1..l : s[x] = m[x]
        BY <1>4, <1>5, <4>2, <4>3
      <4>5. s = m
        BY <1>2, <1>3, <4>2, <4>4, Same
      <4>6. Payload(b, f) = Masked(m, g.mask)
        BY <3>2, <4>1, <4>5 DEF Payload
      <4> QED BY <1>1, <4>6, MaskedTwice DEF m
    <3> QED BY <1>2, <1>5, <3>1, <3>2, <3>3
  <2>4. CASE ~(n < Unextractable /\ Len(b) >= k + n)
    <3>1. f = NoFrame
      BY <2>2, <2>4
    <3>2. ~(Whole(g) /\ k + l <= Len(b))
      <4> SUFFICES ASSUME Whole(g), k + l <= Len(b) PROVE FALSE
        OBVIOUS
      <4>1. n < Unextractable /\ n = l
        BY <1>1, <1>5
      <4>2. Len(b) >= k + l
        BY <1>2, <1>5, SMT
      <4> QED BY <2>4, <4>1, <4>2
    <3> QED BY <1>2, <1>6, <3>1, <3>2
  <2> QED BY <2>3, <2>4
<1> QED BY <1>2, <1>5, <1>7, <1>8, SMT

-----------------------------------------------------------------------------
(* What is invariant once a connection turned to WebSocket. *)

\* The bytes that are left, and those that were not received yet, are those behind
\* the first i frames, of which the messages were given to the user; what is kept
\* is theirs; and a frame that is there is not waited for.
AtFrame(i) ==
    /\ i \in 0..Len(sent.frames)
    /\ Drop(buffer, used) \o network = Drop(WsUnits(sent), Ends(sent, i))
    /\ \A j \in 1..i : Whole(sent.frames[j])
    /\ Of(calls, {"ws"}) = Messages(SubSeq(sent.frames, 1, i))
    /\ CachedAs(sent.frames, i, cache.frame, cache.type)
    /\ pc = "idle" /\ i < Len(sent.frames) /\ Whole(sent.frames[i + 1]) =>
         Len(buffer) < Size(sent.frames[i + 1])

\* Frames are looked for where they begin, and until then none is held.
WInv ==
    /\ pc \in {"idle", "inEof"} => used = 0
    /\ ~parser.mIsWebSocket => cache.frame = <<>>
    /\ parser.mIsWebSocket /\ pc # "done" =>
         /\ IsSeq(buffer) /\ used \in 0..Len(buffer)
         /\ \E i : AtFrame(i)
         /\ pc = "inEof" => buffer = <<>>

\* What is to be received is a sequence.
LEMMA NetworkIs == ASSUME HInv PROVE IsSeq(network)
<1>1. PICK k : AtUnit(k)
  BY DEF HInv
<1>2. IsSeq(Units(sent)) /\ k \in 0..Len(Units(sent)) /\ network = Drop(Units(sent), k)
  BY <1>1, UnitsIsSeq DEF HInv, AtUnit
<1> QED BY <1>2, DropIs

\* Where ProcessWebSocket looks for a frame, there is one, or the end.
LEMMA LeftIs ==
    ASSUME Proper(sent), IsSeq(buffer), IsSeq(network), used \in 0..Len(buffer),
           NEW i \in 0..Len(sent.frames),
           Drop(buffer, used) \o network = Drop(WsUnits(sent), Ends(sent, i))
    PROVE  /\ IsSeq(Left) /\ Len(Left) \in Nat /\ Len(Left) = Len(buffer) - used
           /\ Len(Left) + Len(network) = Len(WsUnits(sent)) - Ends(sent, i)
           /\ i < Len(sent.frames) => Shows(Left, sent.frames[i + 1])
           /\ i = Len(sent.frames) => Len(Left) = 0
<1> DEFINE u == WsUnits(sent)
           n == Len(sent.frames)
           l == Drop(buffer, used)
           r == l \o network
           a == Ends(sent, i)
           s == Left
<1>1. FramesIn(sent, u, n)
  BY FramesAre
<1>2. IsSeq(u) /\ Len(u) \in Nat /\ n \in Nat /\ a \in Nat /\ a <= Len(u) /\ Ends(sent, n) = Len(u)
      /\ a \in 0..Len(u)
  <2>1. IsSeq(u) /\ Len(u) \in Nat /\ n \in Nat /\ a \in Nat /\ a <= Len(u) /\ Ends(sent, n) = Len(u)
    BY <1>1 DEF FramesIn
  <2> HIDE DEF a, u, n
  <2> QED BY <2>1, SMT
<1>3. Len(buffer) \in Nat /\ used \in Nat /\ Len(buffer) - used \in Nat
  BY SMT DEF IsSeq
<1>4. IsSeq(l) /\ Len(l) = Len(buffer) - used /\ \A x \in 1..Len(buffer) - used : l[x] = buffer[used + x]
  BY DropIs
<1>5. IsSeq(r) /\ Len(r) = Len(l) + Len(network) /\ Len(network) \in Nat /\ \A x \in 1..Len(l) : r[x] = l[x]
  <2> HIDE DEF l
  <2>1. IsCat(r, l, network)
    BY <1>4 DEF IsCat
  <2> HIDE DEF r
  <2> QED BY <2>1, CatOf
<1>6. r = Drop(u, a)
  OBVIOUS
<1>7. Len(Drop(u, a)) = Len(u) - a /\ \A x \in 1..Len(u) - a : Drop(u, a)[x] = u[a + x]
  <2> HIDE DEF u, a
  <2> QED BY <1>2, DropIs
<1>8. IsSeq(s) /\ Len(s) = Len(buffer) - used /\ \A x \in 1..Len(buffer) - used : s[x] = buffer[used + x].v
  <2>1. /\ DOMAIN s = 1..Len(buffer) - used /\ s = [x \in 1..Len(buffer) - used |-> s[x]]
        /\ \A x \in 1..Len(buffer) - used : s[x] = buffer[used + x].v
    BY DEF Left
  <2> HIDE DEF s
  <2> QED BY <1>3, <2>1, WrittenIs
<1> HIDE DEF l, r, s, a, u
<1>9. Len(s) + Len(network) = Len(u) - a /\ Len(s) \in Nat /\ Len(s) <= Len(u) - a
  <2> DEFINE x == Len(s)
             y == Len(network)
             z == Len(u)
             k == Len(r)
  <2>1. x \in Nat /\ y \in Nat /\ z \in Nat /\ a \in Nat /\ k = x + y /\ k = z - a
    <3>1. Len(r) = Len(u) - a
      BY <1>6, <1>7
    <3>2. Len(s) = Len(l) /\ Len(s) \in Nat
      BY <1>3, <1>4, <1>8
    <3> QED BY <1>2, <1>5, <3>1, <3>2
  <2> HIDE DEF x, y, z, k
  <2>2. x + y = z - a /\ x \in Nat /\ x <= z - a
    BY ONLY <2>1, SMT
  <2> QED BY <2>2 DEF x, y, z
<1>10. \A x \in 1..Len(s) : s[x] = u[a + x].v
  <2> SUFFICES ASSUME NEW x \in 1..Len(s) PROVE s[x] = u[a + x].v
    OBVIOUS
  <2>1. x \in 1..Len(l) /\ x \in 1..Len(buffer) - used
    BY <1>4, <1>8
  <2>2. x \in 1..Len(u) - a
    BY <1>2, <1>9, SMT
  <2>3. r[x] = buffer[used + x]
    BY <1>4, <1>5, <2>1
  <2>4. r[x] = u[a + x]
    BY <1>6, <1>7, <2>2
  <2> QED BY <1>8, <2>1, <2>3, <2>4
<1>11. ASSUME i < n PROVE Shows(s, sent.frames[i + 1])
  <2> DEFINE g == sent.frames[i + 1]
  <2>1. i + 1 \in 1..n /\ (i + 1) - 1 = i
    BY <1>2, <1>11, SMT
  <2>2. IsFrame(g) /\ IsAt(u, a, g) /\ Ends(sent, i + 1) = a + Size(g)
    BY <1>1, <2>1 DEF FramesIn, a
  <2>3. Whole(g) \/ i + 1 = n
    <3>1. DOMAIN sent.frames = 1..n
      BY <1>1 DEF FramesIn
    <3>2. Len(g.payload) < g.length => i + 1 = n
      BY <2>1, <3>1 DEF Proper, ProperFrames, ProperFrame
    <3>3. Len(g.payload) \in Nat /\ g.length \in Nat /\ Len(g.payload) <= g.length
      BY <2>2 DEF IsFrame
    <3> QED BY <3>2, <3>3 DEF Whole
  <2>4. Size(g) \in Nat
    BY <2>2 DEF IsFrame
  <2> HIDE DEF g
  <2>5. Whole(g) \/ Len(s) <= Size(g)
    <3>1. ASSUME i + 1 = n PROVE Len(s) <= Size(g)
      <4>1. a + Size(g) = Len(u)
        BY <1>2, <2>2, <3>1
      <4> QED BY <1>2, <1>9, <2>4, <4>1, SMT
    <3> QED BY <2>3, <3>1
  <2>6. ASSUME NEW x \in 1..Len(s), x <= Size(g)
        PROVE  s[x] = (FrameHeadOf(g) \o Masked(g.payload, g.mask))[x]
    <3>1. x \in 1..Size(g)
      BY <1>9, <2>4, <2>6, SMT
    <3>2. u[a + x] = Unit("byte", (FrameHeadOf(g) \o Masked(g.payload, g.mask))[x])
      BY <2>2, <3>1 DEF IsAt
    <3>3. \A kind, v : Unit(kind, v).v = v
      BY DEF Unit
    <3>4. s[x] = u[a + x].v
      BY <1>10
    <3> QED BY <3>2, <3>3, <3>4
  <2> QED BY <1>8, <1>9, <2>5, <2>6 DEF Shows, g
<1>12. i = n => Len(s) = 0
  <2> SUFFICES ASSUME i = n PROVE Len(s) = 0
    OBVIOUS
  <2>1. a = Len(u)
    BY <1>2 DEF a
  <2> QED BY <1>2, <1>9, <2>1, SMT
<1> QED BY <1>8, <1>9, <1>11, <1>12 DEF s, a, u

\* What it finds: the next frame if all of it is there.
LEMMA FoundIs ==
    ASSUME ByteBase = 256, Proper(sent), IsSeq(buffer), IsSeq(network), used \in 0..Len(buffer),
           NEW i \in 0..Len(sent.frames),
           Drop(buffer, used) \o network = Drop(WsUnits(sent), Ends(sent, i)),
           NEW g, g = sent.frames[i + 1]
    PROVE  /\ Found.whole <=> i < Len(sent.frames) /\ Whole(g) /\ Size(g) <= Len(buffer) - used
           /\ Found.whole => /\ Found.opcode = g.type /\ Found.fin = g.fin
                             /\ Found.frameSize = Size(g) /\ Payload(Left, Found) = g.payload
<1> DEFINE n == Len(sent.frames)
           f == Found
<1>1. /\ IsSeq(Left) /\ Len(Left) \in Nat /\ Len(Left) = Len(buffer) - used
      /\ i < n => Shows(Left, g)
      /\ i = n => Len(Left) = 0
  BY LeftIs
<1>2. FramesIn(sent, WsUnits(sent), n)
  BY FramesAre
<1>3. n \in Nat
  BY <1>2 DEF FramesIn
<1>4. f = ExtractHead(Left, Len(Left))
  BY DEF Found
<1> HIDE DEF n, f
<1>5. CASE i < n
  <2>1. i + 1 \in 1..n
    BY <1>3, <1>5, SMT DEF n
  <2>2. IsFrame(g)
    BY <1>2, <2>1 DEF FramesIn
  <2>3. /\ f.whole <=> Whole(g) /\ Size(g) <= Len(Left)
        /\ f.whole => /\ f.opcode = g.type /\ f.fin = g.fin /\ f.frameSize = Size(g)
                      /\ Payload(Left, f) = g.payload
    <3>1. PICK b : b = Left
      OBVIOUS
    <3>2. Shows(b, g) /\ f = ExtractHead(b, Len(b))
      BY <1>1, <1>4, <1>5, <3>1
    <3>3. /\ f.whole <=> Whole(g) /\ Size(g) <= Len(b)
          /\ f.whole => /\ f.opcode = g.type /\ f.fin = g.fin /\ f.frameSize = Size(g)
                        /\ Payload(b, f) = g.payload
      BY <2>2, <3>2, ExtractIs
    <3> QED BY <3>1, <3>3
  <2> QED BY <1>1, <1>5, <2>3 DEF n, f
<1>6. CASE ~(i < n)
  <2>1. i = n
    BY <1>3, <1>6, SMT DEF n
  <2>2. Len(Left) < 2
    BY <1>1, <2>1
  <2>3. f = NoFrame
    BY <1>4, <2>2 DEF ExtractHead, TooShort
  <2> QED BY <1>6, <2>3 DEF NoFrame, n, f
<1> QED BY <1>5, <1>6

\* What is behind the first members of two sequences, behind some more of one,
\* and behind none.
LEMMA DropMore ==
    ASSUME NEW s, IsSeq(s)
    PROVE  /\ Drop(s, 0) = s /\ Drop(s, Len(s)) = <<>>
           /\ \A t, m : IsSeq(t) /\ m \in 0..Len(s) => Drop(s \o t, m) = Drop(s, m) \o t
           /\ \A k, m : k \in 0..Len(s) /\ m \in 0..Len(s) - k => Drop(Drop(s, k), m) = Drop(s, k + m)
<1> DEFINE n == Len(s)
<1>1. n \in Nat /\ 0 \in 0..n /\ n \in 0..n
  BY SMT DEF IsSeq
<1> HIDE DEF n
<1>2. \A k \in 0..n : /\ IsSeq(Drop(s, k)) /\ Len(Drop(s, k)) = n - k
                      /\ \A i \in 1..n - k : Drop(s, k)[i] = s[k + i]
  <2> SUFFICES ASSUME NEW k \in 0..n
               PROVE  /\ IsSeq(Drop(s, k)) /\ Len(Drop(s, k)) = n - k
                      /\ \A i \in 1..n - k : Drop(s, k)[i] = s[k + i]
    OBVIOUS
  <2> QED BY DropIs DEF n
<1>3. Drop(s, 0) = s
  <2>1. IsSeq(Drop(s, 0)) /\ Len(Drop(s, 0)) = n - 0 /\ \A i \in 1..n - 0 : Drop(s, 0)[i] = s[0 + i]
    BY <1>1, <1>2
  <2>2. n - 0 = n /\ \A i \in 1..n : 0 + i = i
    BY <1>1, SMT
  <2> QED BY <2>1, <2>2, Same DEF n
<1>4. Drop(s, n) = <<>>
  <2>1. IsSeq(Drop(s, n)) /\ Len(Drop(s, n)) = n - n
    BY <1>1, <1>2
  <2>2. n - n = 0
    BY <1>1, SMT
  <2> QED BY <2>1, <2>2, Few
<1>5. ASSUME NEW t, IsSeq(t), NEW m \in 0..n PROVE Drop(s \o t, m) = Drop(s, m) \o t
  <2> DEFINE l == Len(t)
             c == s \o t
             d == Drop(s, m)
             e == d \o t
             f == Drop(c, m)
  <2>1. /\ IsSeq(c) /\ Len(c) = n + l /\ l \in Nat
        /\ \A i \in 1..n : c[i] = s[i]
        /\ \A i \in 1..l : c[n + i] = t[i]
    <3>1. IsCat(c, s, t)
      BY <1>5 DEF IsCat
    <3> HIDE DEF c
    <3> QED BY <3>1, CatOf DEF n
  <2>2. IsSeq(d) /\ Len(d) = n - m /\ \A i \in 1..n - m : d[i] = s[m + i]
    BY <1>2
  <2> HIDE DEF d, c
  <2>3. /\ IsSeq(e) /\ Len(e) = (n - m) + l
        /\ \A i \in 1..n - m : e[i] = d[i]
        /\ \A i \in 1..l : e[(n - m) + i] = t[i]
    <3>1. IsCat(e, d, t)
      BY <1>5, <2>2 DEF IsCat
    <3> HIDE DEF e
    <3> QED BY <2>2, <3>1, CatOf
  <2>4. IsSeq(f) /\ Len(f) = (n + l) - m /\ \A i \in 1..(n + l) - m : f[i] = c[m + i]
    <3>1. m \in 0..n + l
      BY <1>1, <2>1, SMT
    <3> QED BY <2>1, <3>1, DropIs
  <2> HIDE DEF e, f, l
  <2>5. Len(e) = Len(f) /\ Len(e) = (n - m) + l
    BY <1>1, <2>1, <2>3, <2>4, SMT
  <2>6. ASSUME NEW i \in 1..Len(e) PROVE e[i] = f[i]
    <3>1. i \in 1..(n + l) - m
      BY <2>3, <2>4, <2>5
    <3>2. f[i] = c[m + i]
      BY <2>4, <3>1
    <3>3. CASE i \in 1..n - m
      <4>1. m + i \in 1..n
        BY <1>1, <3>3, SMT
      <4> QED BY <2>1, <2>2, <2>3, <3>2, <3>3, <4>1
    <3>4. CASE i \notin 1..n - m
      <4>1. i - (n - m) \in 1..l /\ (n - m) + (i - (n - m)) = i /\ n + (i - (n - m)) = m + i
        BY <1>1, <2>1, <3>1, <3>4, SMT
      <4>2. PICK x : x = i - (n - m)
        OBVIOUS
      <4>3. e[(n - m) + x] = t[x] /\ c[n + x] = t[x]
        BY <2>1, <2>3, <4>1, <4>2
      <4> QED BY <3>2, <4>1, <4>2, <4>3
    <3> QED BY <3>3, <3>4
  <2>7. e = f
    BY <2>3, <2>4, <2>5, <2>6, Same
  <2> QED BY <2>7 DEF c, d, e, f
<1>6. ASSUME NEW k \in 0..n, NEW m \in 0..n - k PROVE Drop(Drop(s, k), m) = Drop(s, k + m)
  <2> DEFINE d == Drop(s, k)
             e == Drop(d, m)
             f == Drop(s, k + m)
  <2>1. IsSeq(d) /\ Len(d) = n - k /\ \A i \in 1..n - k : d[i] = s[k + i]
    BY <1>2
  <2>2. k + m \in 0..n
    BY <1>1, SMT
  <2>3. IsSeq(f) /\ Len(f) = n - (k + m) /\ \A i \in 1..n - (k + m) : f[i] = s[(k + m) + i]
    BY <1>2, <2>2
  <2> HIDE DEF d, f
  <2>4. IsSeq(e) /\ Len(e) = (n - k) - m /\ \A i \in 1..(n - k) - m : e[i] = d[m + i]
    BY <2>1, DropIs
  <2> HIDE DEF e
  <2>5. (n - k) - m = n - (k + m)
    BY <1>1, SMT
  <2>6. ASSUME NEW i \in 1..n - (k + m) PROVE e[i] = f[i]
    <3>1. m + i \in 1..n - k /\ k + (m + i) = (k + m) + i
      BY <1>1, SMT
    <3> QED BY <2>1, <2>3, <2>4, <2>5, <3>1
  <2>7. e = f
    BY <2>3, <2>4, <2>5, <2>6, Same
  <2> QED BY <2>7 DEF d, e, f
<1> QED BY <1>3, <1>4, <1>5, <1>6 DEF n

\* As long as HTTP is spoken no message of WebSocket was given to the user.
LEMMA NoneYet == ASSUME IInv, ~parser.mIsWebSocket PROVE Of(calls, {"ws"}) = <<>>
<1>1. IsSeq(calls) /\ ~Turned(calls)
  BY CallsAre DEF IInv, CallsInv
<1> DEFINE P == {i \in DOMAIN calls : calls[i].cb \in {"ws"}}
<1>2. P = {}
  BY <1>1 DEF Turned
<1>3. At(calls, P) \in Seq({})
  BY <1>1, <1>2, AtHolds
<1>4. PICK a : a = At(calls, P)
  OBVIOUS
<1> HIDE DEF P
<1>5. a \in Seq({})
  BY <1>3, <1>4
<1>6. Len(a) \in Nat /\ (\A k \in 1..Len(a) : a[k] \in {}) /\ IsSeq(a)
  BY <1>5, ElementOfSeq, LenProperties, SeqIs
<1>7. Len(a) = 0
  <2> SUFFICES ASSUME Len(a) # 0 PROVE FALSE
    OBVIOUS
  <2>1. 1 \in 1..Len(a)
    BY <1>6, SMT
  <2> QED BY <1>6, <2>1
<1> QED BY <1>4, <1>6, <1>7, Few DEF Of, P

\* It holds when a connection starts.
LEMMA WInvInit == Init => WInv
<1> SUFFICES ASSUME Init PROVE WInv
  OBVIOUS
<1>1. used = 0 /\ parser = NewParser /\ cache = [frame |-> <<>>, type |-> ErrorFrame]
  BY DEF Init
<1>2. ~parser.mIsWebSocket /\ cache.frame = <<>>
  BY <1>1 DEF NewParser
<1> QED BY <1>1, <1>2 DEF WInv

\* A segment is received: of frames, or with the request for an upgrade.
LEMMA WInvReceive ==
    ASSUME HInv, IInv, IInv', WInv, NEW n \in 1..Len(network), Receive(n)
    PROVE  WInv'
<1> DEFINE seg == SubSeq(network, 1, n)
           rest == Drop(network, n)
           b == buffer \o seg
<1>1. /\ pc = "idle" /\ open /\ ~ended /\ network' = rest /\ DataHandler(b)
      /\ sent' = sent /\ cache' = cache
  BY DEF Receive
<1>2. used = 0
  BY <1>1 DEF WInv
<1>3. IsSeq(network) /\ Proper(sent)
  BY NetworkIs DEF HInv
<1>4. n \in Nat /\ n \in 0..Len(network) /\ Len(network) \in Nat
  BY <1>3, SMT DEF IsSeq
<1>5. IsSeq(seg) /\ Len(seg) = n /\ seg \o rest = network /\ IsSeq(rest)
  BY <1>3, <1>4, UptoIs, DropIs DEF Upto
<1> HIDE DEF seg, rest
<1>6. CASE parser.mIsWebSocket
  <2>1. /\ pc' = "frames" /\ buffer' = b /\ parser' = parser /\ used' = used /\ calls' = calls
    BY <1>1, <1>6 DEF DataHandler
  <2>2. IsSeq(buffer) /\ \E i : AtFrame(i)
    BY <1>1, <1>6 DEF WInv
  <2>3. PICK i : AtFrame(i)
    BY <2>2
  <2>4. IsSeq(b) /\ Len(b) \in Nat
    <3>1. IsSeq(b)
      BY <1>5, <2>2, CatIs
    <3> QED BY <3>1 DEF IsSeq
  <2>5. b \o rest = buffer \o network
    <3>1. (buffer \o seg) \o rest = buffer \o (seg \o rest)
      <4>1. IsSeq(buffer) /\ IsSeq(seg) /\ IsSeq(rest)
        BY <1>5, <2>2
      <4>2. Associated(buffer, seg, rest)
        BY <4>1, CatAssociates
      <4> QED BY <4>2 DEF Associated
    <3> QED BY <1>5, <3>1
  <2> HIDE DEF b
  <2>6. Drop(b, 0) = b /\ Drop(buffer, 0) = buffer
    BY <2>2, <2>4, DropMore
  <2>7. AtFrame(i)'
    <3>1. Drop(buffer', used') \o network' = Drop(buffer, used) \o network
      BY <1>1, <1>2, <2>1, <2>5, <2>6
    <3> QED BY <1>1, <2>1, <2>3, <3>1 DEF AtFrame
  <2>8. used' \in 0..Len(b)
    BY <1>2, <2>1, <2>4, SMT
  <2> QED BY <1>1, <1>2, <1>6, <2>1, <2>4, <2>7, <2>8 DEF WInv
<1>7. CASE ~parser.mIsWebSocket /\ parser.mISCompleted
  <2>1. parser' = parser
    BY <1>1, <1>7 DEF DataHandler, ProcessHttp
  <2>2. (pc' = pc /\ used' = used) \/ pc' = "inHttp"
    BY <1>1, <1>7 DEF DataHandler, ProcessHttp, Reportable
  <2> QED BY <1>1, <1>2, <1>7, <2>1, <2>2 DEF WInv
<1>8. CASE ~parser.mIsWebSocket /\ ~parser.mISCompleted
  <2> DEFINE u == Units(sent)
             h == HttpUnits(sent)
             w == WsUnits(sent)
  <2>1. PICK k : AtUnit(k)
    BY DEF HInv
  <2>2. /\ k \in 0..Len(u) /\ network = Drop(u, k) /\ buffer = <<>>
        /\ Reached(parser, sent, k) /\ ~parser.error /\ ~parser.stopped
    BY <1>1, <1>8, <2>1 DEF AtUnit
  <2>3. IsSeq(u) /\ Len(u) \in Nat /\ IsSeq(h) /\ IsSeq(w) /\ u = h \o w
    BY <1>3, UnitsIsSeq, UnitsAre
  <2>4. b = seg
    BY <1>5, <2>2, Few
  <2>5. ProcessHttp(seg)
    <3>1. ~parser.mIsUpgrade
      BY <1>3, <2>2, ReachedHttpOnly DEF HttpOnly
    <3> QED BY <1>1, <1>8, <2>4, <3>1 DEF DataHandler
  <2> HIDE DEF u, b
  <2>6. /\ k + Len(seg) <= Len(u)
        /\ \A i \in 1..Len(seg) : seg[i] = u[k + i]
    <3>1. /\ k + n <= Len(u) /\ Len(SubSeq(network, 1, n)) = n
          /\ \A i \in 1..n : SubSeq(network, 1, n)[i] = u[k + i]
      <4>1. IsSeq(u) /\ k \in 0..Len(u) /\ network = Drop(u, k)
        BY <2>2, <2>3
      <4> QED BY ONLY <4>1, n \in 1..Len(network), ReceivedIs
    <3> QED BY <3>1 DEF seg
  <2>7. /\ parser'.mISCompleted =>
             /\ calls' = calls \o Answers(parser') /\ pc' = "inHttp" /\ buffer' = seg
             /\ parser'.mIsWebSocket => used' \in 0..Len(seg) /\ k + used' = Len(h)
        /\ ~parser'.mISCompleted => pc' = Rest(open') /\ used' = used
    BY <1>3, <1>5, <1>8, <2>2, <2>5, <2>6, Parsed DEF u
  <2>8. cache.frame = <<>>
    BY <1>8 DEF WInv
  <2>9. CASE ~parser'.mIsWebSocket
    <3>1. (pc' = Rest(open') /\ used' = 0) \/ pc' = "inHttp"
      BY <1>2, <2>7
    <3>2. pc' \in {"idle", "inEof"} => used' = 0
      BY <3>1
    <3> QED BY <1>1, <2>8, <2>9, <3>2 DEF WInv
  <2>10. CASE parser'.mIsWebSocket
    <3>1. parser'.mISCompleted
      BY <2>10 DEF IInv, CallsInv
    <3>2. /\ calls' = calls \o Answers(parser') /\ pc' = "inHttp" /\ buffer' = seg
          /\ used' \in 0..n /\ k + used' = Len(h)
      BY <1>5, <2>7, <2>10, <3>1
    <3>3. Drop(buffer', used') \o network' = w
      <4>1. PICK m : m = used'
        OBVIOUS
      <4>2. m \in 0..Len(seg) /\ k + m = Len(h)
        BY <1>5, <3>2, <4>1
      <4>3. Drop(seg, m) \o rest = Drop(network, m)
        <5>1. Drop(seg \o rest, m) = Drop(seg, m) \o rest
          <6>1. \A t, x : IsSeq(t) /\ x \in 0..Len(seg) => Drop(seg \o t, x) = Drop(seg, x) \o t
            BY <1>5, DropMore
          <6> QED BY <1>5, <4>2, <6>1
        <5> QED BY <1>5, <5>1
      <4>4. Drop(network, m) = Drop(u, k + m)
        <5>1. m \in 0..Len(u) - k
          <6>1. k + n <= Len(u) /\ k \in Nat /\ m \in 0..n
            BY <1>5, <2>2, <2>3, <2>6, <4>2
          <6> QED BY ONLY <1>4, <2>3, <6>1, SMT
        <5>2. Drop(Drop(u, k), m) = Drop(u, k + m)
          <6>1. IsSeq(u)
            BY <2>3
          <6>2. \A x, y : x \in 0..Len(u) /\ y \in 0..Len(u) - x => Drop(Drop(u, x), y) = Drop(u, x + y)
            BY ONLY <6>1, DropMore
          <6> QED BY <2>2, <5>1, <6>2
        <5> QED BY <2>2, <5>2
      <4>5. Drop(u, Len(h)) = Drop(h, Len(h)) \o w
        <5>1. Len(h) \in 0..Len(h)
          BY <2>3, SMT DEF IsSeq
        <5> QED BY <2>3, <5>1, DropMore
      <4>6. Drop(h, Len(h)) \o w = w
        BY <2>3, DropMore, Few
      <4> QED BY <1>1, <3>2, <4>1, <4>2, <4>3, <4>4, <4>5, <4>6
    <3>4. AtFrame(0)'
      <4>1. FramesIn(sent, w, Len(sent.frames))
        BY <1>3, FramesAre
      <4>2. 0 \in 0..Len(sent.frames) /\ Ends(sent, 0) = 0
        BY <4>1, SMT DEF FramesIn
      <4>3. Drop(w, 0) = w
        BY <2>3, DropMore
      <4>4. Of(calls', {"ws"}) = <<>>
        <5>1. Of(calls \o Answers(parser'), {"ws"}) = Of(calls, {"ws"})
          BY CallsAre, Answered
        <5> QED BY <1>8, <3>2, <5>1, NoneYet
      <4>5. IsSeq(sent.frames)
        BY <1>3 DEF Proper, ProperFrames
      <4>6. Messages(SubSeq(sent.frames, 1, 0)) = <<>>
        BY <4>5, NoMessages
      <4>7. CachedAs(sent.frames, 0, cache.frame, cache.type)
        BY <2>8, UnderwayMore DEF CachedAs
      <4>8. \A j : j \notin 1..0
        BY SMT
      <4>9. Drop(buffer', used') \o network' = Drop(w, Ends(sent, 0))
        BY <3>3, <4>2, <4>3
      <4> HIDE DEF w
      <4> QED BY <1>1, <3>2, <4>2, <4>4, <4>6, <4>7, <4>8, <4>9 DEF AtFrame, w
    <3>5. used' \in 0..Len(seg)
      BY <1>5, <3>2
    <3> QED BY <1>1, <1>5, <2>10, <3>2, <3>4, <3>5 DEF WInv
  <2> QED BY <2>9, <2>10
<1> QED BY <1>6, <1>7, <1>8

\* Whoever takes nothing and gives nothing to the user leaves the frames alone.
LEMMA AtFrameSame ==
    ASSUME NEW i, AtFrame(i), sent' = sent, cache' = cache, Of(calls', {"ws"}) = Of(calls, {"ws"}),
           Drop(buffer', used') \o network' = Drop(buffer, used) \o network,
           pc' = "idle" /\ i < Len(sent.frames) /\ Whole(sent.frames[i + 1]) =>
               Len(buffer') < Size(sent.frames[i + 1])
    PROVE  AtFrame(i)'
BY DEF AtFrame

\* A frame has at least two bytes.
LEMMA SomeBytes ==
    ASSUME Proper(sent), NEW i \in 0..Len(sent.frames), i < Len(sent.frames)
    PROVE  0 < Size(sent.frames[i + 1])
<1> DEFINE g == sent.frames[i + 1]
<1>1. FramesIn(sent, WsUnits(sent), Len(sent.frames))
  BY FramesAre
<1>2. i + 1 \in 1..Len(sent.frames)
  BY <1>1, SMT DEF FramesIn
<1>3. IsFrame(g)
  BY <1>1, <1>2 DEF FramesIn
<1> DEFINE a == Len(FrameHeadOf(g))
           b == Len(g.payload)
<1>4. a \in Nat /\ a >= 2 /\ b \in Nat /\ Size(g) = a + b
  BY <1>3 DEF IsFrame, Size
<1> HIDE DEF a, b
<1> QED BY <1>4

\* dataHandler behind the request for an upgrade.
LEMMA WInvHttpReturn == ASSUME HInv, IInv, WInv, HttpReturn PROVE WInv'
<1>1. /\ pc = "inHttp" /\ buffer' = Drop(buffer, used) /\ used' = 0
      /\ IF used # Len(buffer) THEN Closed(calls) ELSE calls' = calls
      /\ pc' = Rest(open') /\ sent' = sent /\ network' = network /\ parser' = parser /\ cache' = cache
  BY DEF HttpReturn
<1>2. pc' \in {"idle", "done"} /\ (pc' = "idle" => open')
  BY <1>1 DEF Rest
<1>3. CASE ~parser.mIsWebSocket \/ pc' = "done"
  BY <1>1, <1>2, <1>3 DEF WInv
<1>4. CASE parser.mIsWebSocket /\ pc' # "done"
  <2>1. pc' = "idle" /\ used = Len(buffer) /\ calls' = calls
    BY <1>1, <1>2, <1>4 DEF Closed
  <2>2. IsSeq(buffer) /\ used \in 0..Len(buffer) /\ \E i : AtFrame(i)
    BY <1>1, <1>4 DEF WInv
  <2>3. PICK i : AtFrame(i)
    BY <2>2
  <2>4. Drop(buffer, Len(buffer)) = <<>>
    BY <2>2, DropMore
  <2>5. buffer' = <<>>
    BY <1>1, <2>1, <2>4
  <2>6. IsSeq(<<>>) /\ Len(<<>>) = 0
    BY Few
  <2>7. Drop(<<>>, 0) = <<>>
    BY <2>6, DropMore
  <2>8. Drop(buffer', used') \o network' = Drop(buffer, used) \o network
    BY <1>1, <2>1, <2>4, <2>5, <2>7
  <2>9. i < Len(sent.frames) => Len(buffer') < Size(sent.frames[i + 1])
    BY <2>3, <2>5, <2>6, SomeBytes DEF AtFrame, HInv
  <2>10. AtFrame(i)'
    BY <1>1, <2>1, <2>3, <2>8, <2>9, AtFrameSame
  <2>11. used' \in 0..Len(buffer')
    BY <1>1, <2>5, <2>6
  <2> QED BY <1>1, <1>4, <2>1, <2>5, <2>6, <2>10, <2>11 DEF WInv
<1> QED BY <1>3, <1>4

\* The end of the stream, with the end of a message.
LEMMA WInvEof == ASSUME HInv, IInv, IInv', WInv, Eof PROVE WInv'
<1>1. /\ pc = "idle" /\ network = <<>> /\ network' = network /\ sent' = sent /\ buffer' = buffer
      /\ used' = used /\ cache' = cache /\ ~ended
  BY DEF Eof
<1>2. used = 0
  BY <1>1 DEF WInv
<1>3. CASE parser.mISCompleted
  <2>1. parser' = parser /\ calls' = calls /\ pc' = pc
    BY <1>3 DEF Eof
  <2>2. \A i : AtFrame(i) => AtFrame(i)'
    BY <1>1, <2>1 DEF AtFrame
  <2> QED BY <1>1, <1>2, <2>1, <2>2 DEF WInv
<1>4. CASE ~parser.mISCompleted
  <2> DEFINE e == ExecuteEof(parser)
             q == AfterExecute(e)
             u == Units(sent)
  <2>1. PICK k : AtUnit(k)
    BY DEF HInv
  <2>2. /\ k \in 0..Len(u) /\ network = Drop(u, k) /\ buffer = <<>>
        /\ Reached(parser, sent, k) /\ ~parser.error
    BY <1>1, <1>4, <2>1 DEF AtUnit
  <2>3. /\ parser' = q
        /\ calls' = IF q.mISCompleted THEN calls \o Answers(q) ELSE calls
        /\ pc' = IF q.mISCompleted THEN "inEof" ELSE "idle"
    BY <1>4 DEF Eof, Reportable
  <2>4. ~parser.mIsWebSocket /\ IsParser(parser) /\ Proper(sent)
    BY <2>2, ReachedHttpOnly DEF HttpOnly, HInv
  <2>5. cache.frame = <<>>
    BY <2>4 DEF WInv
  <2>6. CASE ~parser'.mIsWebSocket
    BY <1>1, <1>2, <2>5, <2>6 DEF WInv
  <2>7. CASE parser'.mIsWebSocket
    <3>1. parser'.mISCompleted
      BY <2>7 DEF IInv, CallsInv
    <3>2. calls' = calls \o Answers(q) /\ pc' = "inEof"
      BY <2>3, <3>1
    <3>3. parser.at = "eof"
      <4> SUFFICES ASSUME parser.at # "eof" PROVE FALSE
        OBVIOUS
      <4>1. e \in {parser, Failed(parser)}
        BY DEF ExecuteEof
      <4>2. IsParser(Failed(parser)) /\ Failed(parser).mISCompleted = parser.mISCompleted
        BY <2>4 DEF Failed, IsParser, Members
      <4>3. IsParser(e) /\ ~e.mISCompleted
        BY <1>4, <2>4, <4>1, <4>2
      <4>4. q = e
        <5> HIDE DEF e
        <5> QED BY <4>3, AfterExecuteIs
      <4> QED BY <2>3, <3>1, <4>3, <4>4
    <3>4. k = Len(u)
      <4>1. IsSeq(u) /\ Len(u) \in Nat
        BY <2>4, UnitsIsSeq
      <4> HIDE DEF u
      <4>2. Len(Drop(u, k)) = Len(u) - k /\ Len(Drop(u, k)) = 0
        BY <1>1, <2>2, <4>1, DropIs, Few
      <4> QED BY <2>2, <4>1, <4>2, SMT
    <3>5. sent.frames = <<>>
      BY <2>2, <2>4, <3>3, <3>4, ReachedIs
    <3>6. WsUnits(sent) = <<>>
      BY <2>4, <3>5, WsStarts
    <3>7. AtFrame(0)'
      <4>1. FramesIn(sent, WsUnits(sent), Len(sent.frames))
        BY <2>4, FramesAre
      <4>2. 0 \in 0..Len(sent.frames) /\ Ends(sent, 0) = 0
        BY <4>1, SMT DEF FramesIn
      <4>3. IsSeq(<<>>) /\ Drop(<<>>, 0) = <<>> /\ <<>> \o <<>> = <<>>
        BY Few, DropMore
      <4>4. Of(calls', {"ws"}) = <<>>
        <5>1. Of(calls \o Answers(q), {"ws"}) = Of(calls, {"ws"})
          BY CallsAre, Answered
        <5> QED BY <2>4, <3>2, <5>1, NoneYet
      <4>5. IsSeq(sent.frames)
        BY <2>4 DEF Proper, ProperFrames
      <4>6. Messages(SubSeq(sent.frames, 1, 0)) = <<>>
        BY <4>5, NoMessages
      <4>7. CachedAs(sent.frames, 0, cache.frame, cache.type)
        BY <2>5, UnderwayMore DEF CachedAs
      <4>8. \A j : j \notin 1..0
        BY SMT
      <4>9. Drop(buffer', used') \o network' = Drop(WsUnits(sent), Ends(sent, 0))
        BY <1>1, <1>2, <2>2, <3>6, <4>2, <4>3
      <4> QED BY <1>1, <3>2, <4>2, <4>4, <4>6, <4>7, <4>8, <4>9 DEF AtFrame
    <3>8. used' \in 0..Len(buffer') /\ IsSeq(buffer')
      BY <1>1, <1>2, <2>2, Few
    <3> QED BY <1>1, <1>2, <2>2, <2>7, <3>2, <3>7, <3>8 DEF WInv
  <2> QED BY <2>6, <2>7
<1> QED BY <1>3, <1>4

\* ProcessWebSocket takes a frame.
LEMMA WInvFrame == ASSUME ByteBase = 256, HInv, IInv, WInv, Frame PROVE WInv'
<1> DEFINE f == Found
           payload == Payload(Left, f)
           frames == sent.frames
           n == Len(frames)
           w == WsUnits(sent)
<1>1. /\ pc = "frames" /\ f.whole /\ used' = used + f.frameSize
      /\ sent' = sent /\ network' = network /\ buffer' = buffer /\ parser' = parser
  BY DEF Frame, Advance
<1>2. parser.mIsWebSocket
  BY <1>1 DEF IInv, FramesOfWebSocket
<1>3. IsSeq(buffer) /\ used \in 0..Len(buffer) /\ \E i : AtFrame(i)
  BY <1>1, <1>2 DEF WInv
<1>4. PICK i : AtFrame(i)
  BY <1>3
<1>5. /\ i \in 0..n /\ Drop(buffer, used) \o network = Drop(w, Ends(sent, i))
      /\ \A j \in 1..i : Whole(frames[j])
      /\ Of(calls, {"ws"}) = Messages(SubSeq(frames, 1, i))
      /\ CachedAs(frames, i, cache.frame, cache.type)
  BY <1>4 DEF AtFrame
<1>6. Proper(sent) /\ IsSeq(network) /\ IsSeq(calls)
  BY NetworkIs, CallsAre DEF HInv
<1>7. FramesIn(sent, w, n)
  BY <1>6, FramesAre
<1> DEFINE g == frames[i + 1]
<1>8. /\ i < n /\ Whole(g) /\ Size(g) <= Len(buffer) - used
      /\ f.opcode = g.type /\ f.fin = g.fin /\ f.frameSize = Size(g) /\ payload = g.payload
  BY <1>1, <1>3, <1>5, <1>6, FoundIs
<1>9. n \in Nat /\ i \in Nat /\ i + 1 \in 1..n /\ (i + 1) - 1 = i /\ i + 1 \in 0..n
      /\ \A j \in 1..i + 1 : j \in 1..i \/ j = i + 1
  <2>1. n \in Nat
    BY <1>7 DEF FramesIn
  <2> HIDE DEF n
  <2> QED BY <1>5, <1>8, <2>1, SMT
<1>10. /\ IsFrame(g) /\ Ends(sent, i + 1) = Ends(sent, i) + Size(g) /\ Size(g) \in Nat
       /\ Ends(sent, i) \in Nat /\ Ends(sent, i + 1) \in Nat /\ Ends(sent, i + 1) <= Len(w)
       /\ Payloads(frames, i + 1) /\ IsSeq(w) /\ Len(w) \in Nat
  <2>1. IsFrame(g) /\ Ends(sent, i + 1) = Ends(sent, i) + Size(g) /\ Size(g) \in Nat
    BY <1>7, <1>9 DEF FramesIn, IsFrame
  <2>2. /\ Ends(sent, i) \in Nat /\ Ends(sent, i + 1) \in Nat /\ Ends(sent, i + 1) <= Len(w)
        /\ IsSeq(w) /\ Len(w) \in Nat
    BY <1>5, <1>7, <1>9 DEF FramesIn
  <2>3. \A j \in 1..i + 1 : j \in 1..n
    BY <1>9, SMT
  <2>4. Payloads(frames, i + 1)
    BY <1>7, <2>3 DEF FramesIn, IsFrame, Payloads
  <2> QED BY <2>1, <2>2, <2>4
<1> HIDE DEF f, w, n
<1>11. Len(buffer) \in Nat /\ used \in Nat /\ used' \in 0..Len(buffer) /\ Size(g) \in 0..Len(buffer) - used
       /\ Size(g) \in 0..Len(w) - Ends(sent, i) /\ Ends(sent, i) \in 0..Len(w)
  <2> DEFINE z == Size(g)
             l == Len(buffer)
             m == Len(w)
             a == Ends(sent, i)
             e == Ends(sent, i + 1)
  <2>1. l \in Nat /\ used \in 0..l /\ z \in Nat /\ z <= l - used /\ used' = used + z
        /\ e = a + z /\ a \in Nat /\ e \in Nat /\ e <= m /\ m \in Nat
    BY <1>1, <1>3, <1>8, <1>10 DEF IsSeq
  <2> HIDE DEF z, l, m, a, e
  <2>2. used \in Nat /\ used' \in 0..l /\ z \in 0..l - used /\ z \in 0..m - a /\ a \in 0..m
    BY ONLY <2>1, SMT
  <2> QED BY <2>1, <2>2 DEF z, l, m, a
<1>12. Drop(buffer', used') \o network' = Drop(w, Ends(sent, i + 1))
  <2> DEFINE l == Drop(buffer, used)
             z == Size(g)
  <2>1. IsSeq(l) /\ Len(l) = Len(buffer) - used
    BY <1>3, DropIs
  <2>2. Drop(buffer, used + z) = Drop(l, z)
    BY <1>3, <1>11, DropMore
  <2> HIDE DEF l, z
  <2>3. Drop(l \o network, z) = Drop(l, z) \o network
    <3>1. \A t, m : IsSeq(t) /\ m \in 0..Len(l) => Drop(l \o t, m) = Drop(l, m) \o t
      BY <2>1, DropMore
    <3> QED BY <1>6, <1>11, <2>1, <3>1 DEF z
  <2>4. Drop(Drop(w, Ends(sent, i)), z) = Drop(w, Ends(sent, i) + z)
    <3>1. \A k, m : k \in 0..Len(w) /\ m \in 0..Len(w) - k => Drop(Drop(w, k), m) = Drop(w, k + m)
      <4>1. PICK v : v = w
        OBVIOUS
      <4>2. IsSeq(v)
        BY <1>10, <4>1
      <4>3. \A k, m : k \in 0..Len(v) /\ m \in 0..Len(v) - k => Drop(Drop(v, k), m) = Drop(v, k + m)
        BY ONLY <4>2, DropMore
      <4> QED BY <4>1, <4>3
    <3> QED BY <1>11, <3>1 DEF z
  <2> QED BY <1>1, <1>5, <1>8, <1>10, <2>2, <2>3, <2>4 DEF l, z
<1> DEFINE held == cache.frame
           type == cache.type
<1>13. /\ cache' = [frame |-> IF LastOf(g) THEN <<>> ELSE Gathered(g, held), type |-> TypeWith(g, type)]
       /\ g.fin => /\ calls' = Append(calls, IF LastOf(g) THEN WsCall(TypeWith(g, type), Gathered(g, held))
                                                          ELSE WsCall(g.type, g.payload))
                   /\ pc' = "inWs"
       /\ ~g.fin => calls' = calls /\ pc' = pc
  <2>1. /\ CacheType(f) = TypeWith(g, type)
        /\ (IF ~f.fin \/ f.opcode = ContinuationFrame THEN cache.frame \o payload ELSE cache.frame)
             = Gathered(g, held)
        /\ (f.fin /\ f.opcode = ContinuationFrame) = LastOf(g)
    BY <1>8 DEF CacheType, TypeWith, Gathered, LastOf
  <2> HIDE DEF g, held, type, payload
  <2> QED BY <1>8, <2>1 DEF Frame, f, payload
<1>14. /\ CachedAs(frames, i + 1, IF LastOf(g) THEN <<>> ELSE Gathered(g, held), TypeWith(g, type))
       /\ g.fin => Message(frames, i + 1) =
                IF LastOf(g) THEN WsCall(TypeWith(g, type), Gathered(g, held))
                             ELSE WsCall(g.type, g.payload)
  <2>1. PICK fs, h, t, x : fs = frames /\ h = held /\ t = type /\ x = g
    OBVIOUS
  <2>2. ProperFrames(fs) /\ i < Len(fs) /\ Payloads(fs, i + 1) /\ CachedAs(fs, i, h, t)
        /\ x = fs[i + 1] /\ i \in Nat
    BY <1>5, <1>6, <1>8, <1>9, <1>10, <2>1 DEF n, Proper
  <2>3. CachedAs(fs, i + 1, IF LastOf(x) THEN <<>> ELSE Gathered(x, h), TypeWith(x, t))
    BY ONLY <2>2, CacheMore
  <2>4. x.fin => Message(fs, i + 1) =
                IF LastOf(x) THEN WsCall(TypeWith(x, t), Gathered(x, h))
                             ELSE WsCall(x.type, x.payload)
    BY ONLY <2>2, CacheMore
  <2> QED BY <2>1, <2>3, <2>4
<1>15. CachedAs(frames, i + 1, cache'.frame, cache'.type)
  BY <1>13, <1>14
<1>16. Of(calls', {"ws"}) = Messages(SubSeq(frames, 1, i + 1))
  <2>1. Messages(SubSeq(frames, 1, i + 1)) =
          IF g.fin THEN Append(Messages(SubSeq(frames, 1, i)), Message(frames, i + 1))
          ELSE Messages(SubSeq(frames, 1, i))
    BY <1>6, <1>8, <1>9, MessagesMore DEF n, Proper
  <2>2. CASE g.fin
    <3>1. calls' = Append(calls, Message(frames, i + 1))
      BY <1>13, <1>14, <2>2
    <3>2. Message(frames, i + 1).cb = "ws"
      BY <1>14, <2>2 DEF WsCall
    <3> DEFINE x == Message(frames, i + 1)
    <3> HIDE DEF x
    <3>3. x.cb \in {"ws"}
      BY <3>2 DEF x
    <3>4. Of(Append(calls, x), {"ws"}) = Append(Of(calls, {"ws"}), x)
      BY <1>6, <3>3, OfMore
    <3> QED BY <1>5, <2>1, <2>2, <3>1, <3>4 DEF x
  <2>3. CASE ~g.fin
    BY <1>5, <1>13, <2>1, <2>3
  <2> QED BY <2>2, <2>3
<1>17. pc' # "idle" /\ pc' \notin {"idle", "inEof"}
  BY <1>1, <1>13
<1>18. AtFrame(i + 1)'
  <2>1. \A j \in 1..i + 1 : Whole(frames[j])
    BY <1>5, <1>8, <1>9
  <2> HIDE DEF g
  <2> QED BY <1>1, <1>9, <1>12, <1>15, <1>16, <1>17, <2>1 DEF AtFrame, n, w
<1> QED BY <1>1, <1>2, <1>3, <1>11, <1>17, <1>18 DEF WInv

\* Every step keeps the invariant.
LEMMA WInvNext == ASSUME ByteBase = 256 PROVE HInv /\ IInv /\ IInv' /\ WInv /\ [Next]_vars => WInv'
<1> SUFFICES ASSUME HInv, IInv, IInv', WInv, [Next]_vars PROVE WInv'
  OBVIOUS
<1>0. IsSeq(calls)
  BY CallsAre
<1>1. ASSUME NEW n \in 1..Len(network), Receive(n) PROVE WInv'
  BY <1>1, WInvReceive
<1>2. CASE HttpReturn
  BY <1>2, WInvHttpReturn
<1>3. CASE Frame
  BY <1>3, WInvFrame
<1>4. CASE WsReturn
  <2>1. /\ pc = "inWs" /\ pc' = "frames" /\ sent' = sent /\ network' = network /\ buffer' = buffer
        /\ parser' = parser /\ used' = used /\ cache' = cache /\ calls' = calls
    BY <1>4 DEF WsReturn, user
  <2>2. \A i : AtFrame(i) => AtFrame(i)'
    BY <2>1 DEF AtFrame
  <2> QED BY <2>1, <2>2 DEF WInv
<1>5. CASE FrameAwaited
  <2>1. /\ pc = "frames" /\ ~Found.whole /\ pc' = Rest(open) /\ buffer' = Drop(buffer, used) /\ used' = 0
        /\ sent' = sent /\ network' = network /\ parser' = parser /\ cache' = cache /\ calls' = calls
    BY <1>5 DEF FrameAwaited, user
  <2>2. parser.mIsWebSocket
    BY <2>1 DEF IInv, FramesOfWebSocket
  <2>3. IsSeq(buffer) /\ used \in 0..Len(buffer) /\ \E i : AtFrame(i)
    BY <2>1, <2>2 DEF WInv
  <2>4. PICK i : AtFrame(i)
    BY <2>3
  <2>5. Proper(sent) /\ IsSeq(network)
    BY NetworkIs DEF HInv
  <2>6. IsSeq(buffer') /\ Len(buffer') = Len(buffer) - used /\ Len(buffer') \in Nat
    BY <2>1, <2>3, DropIs DEF IsSeq
  <2>7. Drop(buffer', used') = Drop(buffer, used)
    BY <2>1, <2>6, DropMore
  <2>8. ASSUME i < Len(sent.frames), Whole(sent.frames[i + 1])
        PROVE  Len(buffer') < Size(sent.frames[i + 1])
    <3> DEFINE g == sent.frames[i + 1]
    <3>1. Found.whole <=> i < Len(sent.frames) /\ Whole(g) /\ Size(g) <= Len(buffer) - used
      BY <2>3, <2>4, <2>5, FoundIs DEF AtFrame
    <3>2. ~(Size(g) <= Len(buffer) - used)
      BY <2>1, <2>8, <3>1
    <3>3. Size(g) \in Nat
      <4>1. FramesIn(sent, WsUnits(sent), Len(sent.frames)) /\ i \in 0..Len(sent.frames)
        BY <2>4, <2>5, FramesAre DEF AtFrame
      <4>2. i + 1 \in 1..Len(sent.frames)
        BY <2>8, <4>1, SMT DEF FramesIn
      <4> QED BY <4>1, <4>2 DEF FramesIn, IsFrame
    <3> HIDE DEF g
    <3>4. Len(buffer') < Size(g)
      BY <2>6, <3>2, <3>3, SMT
    <3> QED BY <3>4 DEF g
  <2>9. AtFrame(i)'
    BY <2>1, <2>4, <2>7, <2>8, AtFrameSame
  <2>10. pc' \in {"idle", "done"}
    BY <2>1 DEF Rest
  <2>11. used' \in 0..Len(buffer')
    BY <2>1, <2>6, SMT
  <2> QED BY <2>1, <2>2, <2>6, <2>9, <2>10, <2>11 DEF WInv
<1>6. CASE Eof
  BY <1>6, WInvEof
<1>7. CASE EofReturn
  <2>1. /\ pc = "inEof" /\ pc' = "idle" /\ sent' = sent /\ network' = network /\ buffer' = buffer
        /\ parser' = parser /\ used' = used /\ cache' = cache /\ calls' = calls
    BY <1>7 DEF EofReturn, user
  <2>2. used = 0
    BY <2>1 DEF WInv
  <2>3. ASSUME NEW i, AtFrame(i), buffer = <<>> PROVE AtFrame(i)'
    <3>1. Proper(sent) /\ i \in 0..Len(sent.frames) /\ Len(buffer) = 0
      BY <2>3, Few DEF AtFrame, HInv
    <3>2. i < Len(sent.frames) => Len(buffer) < Size(sent.frames[i + 1])
      BY <3>1, SomeBytes
    <3> QED BY <2>1, <2>3, <3>2, AtFrameSame
  <2> QED BY <2>1, <2>2, <2>3 DEF WInv
<1>8. CASE Close
  <2>1. /\ Closed(calls) /\ pc' = pc /\ sent' = sent /\ network' = network /\ buffer' = buffer
        /\ parser' = parser /\ used' = used /\ cache' = cache
    BY <1>8 DEF Close
  <2>2. Of(calls', {"ws"}) = Of(calls, {"ws"})
    BY <1>0, <2>1, ClosedOf
  <2>3. \A i : AtFrame(i) => AtFrame(i)'
    BY <2>1, <2>2 DEF AtFrame
  <2> QED BY <2>1, <2>3 DEF WInv
<1>9. CASE UNCHANGED vars
  <2>1. /\ pc' = pc /\ sent' = sent /\ network' = network /\ buffer' = buffer
        /\ parser' = parser /\ used' = used /\ cache' = cache /\ calls' = calls
    BY <1>9 DEF vars, handler, user
  <2>2. \A i : AtFrame(i) => AtFrame(i)'
    BY <2>1 DEF AtFrame
  <2> QED BY <2>1, <2>2 DEF WInv
<1> QED BY <1>1, <1>2, <1>3, <1>4, <1>5, <1>6, <1>7, <1>8, <1>9 DEF Next

\* It holds of every behaviour.
LEMMA WInvariance ==
    ASSUME ByteBase = 256, \A c \in Conversations : Proper(c)
    PROVE  Spec => [](HInv /\ IInv /\ WInv)
<1>1. Init => WInv
  BY WInvInit
<1>2. HInv /\ IInv /\ IInv' /\ WInv /\ [Next]_vars => WInv'
  BY WInvNext
<1>3. Spec => []HInv
  BY HInvariance
<1> QED BY <1>1, <1>2, <1>3, Invariance, PTL DEF Spec

\* What is found of a frame once its head is there.
LEMMA FrameFound ==
    ASSUME ByteBase = 256, NEW g, IsFrame(g), NEW b, StartsWith(b, FrameHeadOf(g)), NEW size \in Nat
    PROVE  ExtractHead(b, size) =
               IF g.length < Unextractable /\ size >= Len(FrameHeadOf(g)) + g.length
               THEN [whole |-> TRUE, opcode |-> g.type, fin |-> g.fin, mask |-> g.mask,
                     pos |-> Len(FrameHeadOf(g)), payloadlen |-> g.length,
                     frameSize |-> g.length + Len(FrameHeadOf(g))]
               ELSE NoFrame
<1>1. PICK n, type, fin, mask : n = g.length /\ type = g.type /\ fin = g.fin /\ mask = g.mask
  OBVIOUS
<1>2. /\ n \in Nat /\ n < Quad /\ type \in FrameTypes /\ fin \in BOOLEAN /\ mask \in Masks
  BY <1>1 DEF IsFrame, ProperFrame, Masks
<1>3. FrameHeadOf(g) = FrameHead(n, type, fin, mask)
  BY <1>1 DEF FrameHeadOf
<1>4. StartsWith(b, FrameHead(n, type, fin, mask))
  BY <1>3
<1>5. ExtractHead(b, size) =
          IF n < Unextractable /\ size >= Len(FrameHead(n, type, fin, mask)) + n
          THEN [whole |-> TRUE, opcode |-> type, fin |-> fin, mask |-> mask,
                pos |-> Len(FrameHead(n, type, fin, mask)), payloadlen |-> n,
                frameSize |-> n + Len(FrameHead(n, type, fin, mask))]
          ELSE NoFrame
  BY <1>2, <1>4, HeadFound
<1> QED BY <1>1, <1>3, <1>5

\* A place where a frame begins, as FramesAligned has it.
AlignedAt(i) ==
    /\ Behind(i) = Len(network) + Len(Left)
    /\ i < Len(sent.frames) =>
         LET f == sent.frames[i + 1]
             head == Len(FrameHead(f.length, f.type, f.fin, f.mask))
             seen == ExtractHead(Left, head + f.length)
         IN Len(Left) >= head =>
              /\ ~ExtractHead(Left, head + f.length - 1).whole
              /\ seen.whole <=> f.length < Unextractable
              /\ seen.whole => /\ seen.opcode = f.type /\ seen.fin = f.fin
                               /\ seen.mask = f.mask /\ seen.payloadlen = f.length
                               /\ seen.pos = head

\* Where ProcessWebSocket looks for a frame the peer began one, or ended.  As
\* soon as its head is there the frame will be found with its last byte and not
\* before, with its length, type and mask; one of 2^31 bytes or more never.
THEOREM FramesAlignedAlways ==
    ASSUME ByteBase = 256, \A c \in Conversations : Proper(c) PROVE Spec => []FramesAligned
<1>1. ASSUME HInv, IInv, WInv PROVE FramesAligned
  <2> SUFFICES ASSUME pc = "frames"
               PROVE  \E i \in 0..Len(sent.frames) : AlignedAt(i)
    BY DEF FramesAligned, AlignedAt
  <2>1. parser.mIsWebSocket
    BY <1>1 DEF IInv, FramesOfWebSocket
  <2>2. IsSeq(buffer) /\ used \in 0..Len(buffer) /\ \E i : AtFrame(i)
    BY <1>1, <2>1 DEF WInv
  <2>3. PICK i : AtFrame(i)
    BY <2>2
  <2>4. Proper(sent) /\ IsSeq(network)
    BY <1>1, NetworkIs DEF HInv
  <2>5. i \in 0..Len(sent.frames) /\ Drop(buffer, used) \o network = Drop(WsUnits(sent), Ends(sent, i))
    BY <2>3 DEF AtFrame
  <2>6. /\ IsSeq(Left) /\ Len(Left) \in Nat
        /\ Len(Left) + Len(network) = Len(WsUnits(sent)) - Ends(sent, i)
        /\ i < Len(sent.frames) => Shows(Left, sent.frames[i + 1])
    BY <2>2, <2>4, <2>5, LeftIs
  <2>7. Behind(i) = Len(network) + Len(Left)
    <3>1. Behind(i) = Len(Left) + Len(network)
      BY <2>4, <2>5, <2>6, BehindIs
    <3>2. Len(network) \in Nat
      BY <2>4 DEF IsSeq
    <3> QED BY <2>6, <3>1, <3>2, SMT
  <2>8. ASSUME i < Len(sent.frames), NEW f, f = sent.frames[i + 1],
               NEW head, head = Len(FrameHead(f.length, f.type, f.fin, f.mask)), Len(Left) >= head,
               NEW seen, seen = ExtractHead(Left, head + f.length)
        PROVE  /\ ~ExtractHead(Left, head + f.length - 1).whole
               /\ seen.whole <=> f.length < Unextractable
               /\ seen.whole => /\ seen.opcode = f.type /\ seen.fin = f.fin
                                /\ seen.mask = f.mask /\ seen.payloadlen = f.length
                                /\ seen.pos = head
    <3> DEFINE h == FrameHeadOf(f)
               m == Masked(f.payload, f.mask)
    <3>1. FramesIn(sent, WsUnits(sent), Len(sent.frames))
      BY <2>4, FramesAre
    <3>2. i + 1 \in 1..Len(sent.frames)
      BY <2>5, <2>8, <3>1, SMT DEF FramesIn
    <3>3. IsFrame(f) /\ Shows(Left, f)
      BY <2>6, <2>8, <3>1, <3>2 DEF FramesIn
    <3>4. /\ f.length \in Nat /\ f.length < Quad /\ f.type \in FrameTypes /\ f.fin \in BOOLEAN
          /\ f.mask \in Masks /\ head = Len(h) /\ head \in Nat /\ head >= 2
          /\ IsSeq(h) /\ IsSeq(m) /\ Size(f) = head + Len(f.payload) /\ Len(f.payload) \in Nat
      BY <2>8, <3>3 DEF IsFrame, ProperFrame, Masks, FrameHeadOf, Size
    <3>5. StartsWith(Left, h)
      <4>1. PICK c : c = h \o m
        OBVIOUS
      <4>2. IsCat(c, h, m)
        BY <3>4, <4>1 DEF IsCat
      <4>3. \A x \in 1..Len(h) : c[x] = h[x]
        BY <4>2, CatOf
      <4>4. \A x \in 1..Len(Left) : x <= Size(f) => Left[x] = c[x]
        BY <3>3, <4>1 DEF Shows
      <4>5. \A x \in 1..head : x \in 1..Len(Left) /\ x <= Size(f)
        <5>1. PICK l, p, z : l = Len(Left) /\ p = Len(f.payload) /\ z = Size(f)
          OBVIOUS
        <5>2. l \in Nat /\ p \in Nat /\ head \in Nat /\ l >= head /\ z = head + p
          BY <2>6, <2>8, <3>4, <5>1
        <5>3. \A x \in 1..head : x \in 1..l /\ x <= z
          BY ONLY <5>2, SMT
        <5> QED BY <5>1, <5>3
      <4> QED BY <3>4, <4>3, <4>4, <4>5 DEF StartsWith
    <3>5h. StartsWith(Left, FrameHeadOf(f))
      BY <3>5
    <3>6. head + f.length \in Nat /\ head + f.length - 1 \in Nat
          /\ head + f.length >= head + f.length /\ ~(head + f.length - 1 >= head + f.length)
      BY <3>4, SMT
    <3>7. \A size \in Nat :
            ExtractHead(Left, size) =
                IF f.length < Unextractable /\ size >= head + f.length
                THEN [whole |-> TRUE, opcode |-> f.type, fin |-> f.fin, mask |-> f.mask,
                      pos |-> head, payloadlen |-> f.length, frameSize |-> f.length + head]
                ELSE NoFrame
      <4>1. head = Len(FrameHeadOf(f))
        BY <3>4
      <4> HIDE DEF h, m
      <4> QED BY <3>3, <3>5h, <4>1, FrameFound
    <3>8. ~NoFrame.whole
      BY DEF NoFrame
    <3>9. ExtractHead(Left, head + f.length - 1) = NoFrame
      BY <3>6, <3>7
    <3>10. CASE f.length < Unextractable
      <4>1. seen = [whole |-> TRUE, opcode |-> f.type, fin |-> f.fin, mask |-> f.mask,
                    pos |-> head, payloadlen |-> f.length, frameSize |-> f.length + head]
        BY <2>8, <3>6, <3>7, <3>10
      <4> QED BY <3>8, <3>9, <3>10, <4>1
    <3>11. CASE ~(f.length < Unextractable)
      <4>1. seen = NoFrame
        BY <2>8, <3>6, <3>7, <3>11
      <4> QED BY <3>8, <3>9, <3>11, <4>1
    <3> QED BY <3>10, <3>11
  <2>9. AlignedAt(i)
    BY <2>7, <2>8 DEF AlignedAt
  <2> QED BY <2>5, <2>9
<1>2. Spec => [](HInv /\ IInv /\ WInv)
  BY WInvariance
<1> QED BY <1>1, <1>2, PTL

\* The frames of which the last byte was received.
LEMMA ReceivedAre ==
    ASSUME Proper(sent), IsSeq(buffer), IsSeq(network), used = 0, pc = "idle", NEW i, AtFrame(i)
    PROVE  ReceivedBut(Len(network)) = 1..i /\ Cardinality(1..i) = i
<1> DEFINE n == Len(sent.frames)
           w == WsUnits(sent)
           d == Len(network)
           l == Len(buffer)
<1>1. FramesIn(sent, w, n)
  BY FramesAre
<1>2. /\ i \in 0..n /\ Drop(buffer, used) \o network = Drop(w, Ends(sent, i))
      /\ \A j \in 1..i : Whole(sent.frames[j])
      /\ i < n /\ Whole(sent.frames[i + 1]) => l < Size(sent.frames[i + 1])
  BY DEF AtFrame
<1>3. l \in Nat /\ d \in Nat /\ used \in 0..l
  BY SMT DEF IsSeq
<1>4. Len(Left) = l - used /\ Len(Left) + d = Len(w) - Ends(sent, i)
  BY <1>2, <1>3, LeftIs
<1>5. n \in Nat /\ Len(w) \in Nat /\ \A j \in 0..n : Ends(sent, j) \in Nat /\ Ends(sent, j) <= Len(w)
  BY <1>1 DEF FramesIn
<1>6. \A j \in 0..n : Behind(j) = Len(w) - Ends(sent, j)
  BY BehindIs
<1>7. i \in Nat /\ (\A j \in 1..i : j \in 1..n /\ j \in 0..n /\ j <= i) /\ \A j \in 1..n : j \in 0..n
  <2> HIDE DEF n
  <2> QED BY <1>2, <1>5, SMT
<1> DEFINE a == Ends(sent, i)
<1>8. l + d = Len(w) - a /\ a \in Nat /\ Behind(i) = l + d
  <2>1. Len(Left) = l
    <3> HIDE DEF l
    <3> QED BY <1>3, <1>4, SMT
  <2> QED BY <1>2, <1>4, <1>5, <1>6, <2>1
<1> HIDE DEF n, w, d, l, a
<1>9. ASSUME NEW j \in 1..i PROVE d <= Behind(j) /\ Whole(sent.frames[j])
  <2>1. Ends(sent, j) <= Ends(sent, i) /\ Ends(sent, j) \in Nat /\ Behind(j) = Len(w) - Ends(sent, j)
    BY <1>1, <1>2, <1>5, <1>6, <1>7 DEF FramesIn
  <2>2. d <= Len(w) - Ends(sent, j)
    BY <1>3, <1>5, <1>8, <2>1, SMT DEF a
  <2> QED BY <1>2, <2>1, <2>2
<1>10. ASSUME NEW j \in 1..n, j \notin 1..i PROVE ~(d <= Behind(j) /\ Whole(sent.frames[j]))
  <2> SUFFICES ASSUME d <= Behind(j), Whole(sent.frames[j]) PROVE FALSE
    OBVIOUS
  <2> DEFINE g == sent.frames[i + 1]
  <2>1. i < n /\ i + 1 <= j /\ i + 1 \in 1..n /\ i + 1 \in 0..n /\ (i + 1) - 1 = i /\ j \in 0..n /\ j <= n
    BY <1>2, <1>5, <1>7, <1>10, SMT
  <2>2. IsFrame(g) /\ Ends(sent, i + 1) = a + Size(g) /\ Size(g) \in Nat
    BY <1>1, <2>1 DEF FramesIn, IsFrame, a
  <2>3. Ends(sent, i + 1) <= Ends(sent, j) /\ Ends(sent, j) \in Nat /\ Behind(j) = Len(w) - Ends(sent, j)
    BY <1>1, <1>5, <1>6, <2>1 DEF FramesIn
  <2>4. CASE Whole(g)
    <3>1. l < Size(g)
      BY <1>2, <2>1, <2>4
    <3> HIDE DEF g
    <3>2. d <= Len(w) - Ends(sent, j)
      BY <2>3
    <3> QED BY <1>3, <1>5, <1>8, <2>2, <2>3, <3>1, <3>2, SMT
  <2>5. CASE ~Whole(g)
    <3>1. DOMAIN sent.frames = 1..n
      BY <1>1 DEF FramesIn
    <3>2. Len(g.payload) < g.length => i + 1 = n
      BY <2>1, <3>1 DEF Proper, ProperFrames, ProperFrame, n
    <3>3. Len(g.payload) \in Nat /\ g.length \in Nat /\ Len(g.payload) <= g.length
      BY <2>2 DEF IsFrame
    <3>4. i + 1 = n
      BY <2>5, <3>2, <3>3 DEF Whole
    <3>5. j = i + 1
      BY <1>5, <2>1, <3>4, SMT
    <3> QED BY <2>5, <3>5
  <2> QED BY <2>4, <2>5
<1>11. ReceivedBut(d) = {j \in 1..n : d <= Behind(j) /\ Whole(sent.frames[j])}
  <2>1. DOMAIN sent.frames = 1..n
    BY <1>1 DEF FramesIn
  <2> QED BY <2>1 DEF ReceivedBut, Whole
<1>12. ReceivedBut(d) = 1..i
  BY <1>7, <1>9, <1>10, <1>11
<1>13. Cardinality(1..i) = i
  <2>1. Cardinality(1..i) = IF 1 > i THEN 0 ELSE i - 1 + 1
    BY <1>7, FS_Interval
  <2> QED BY <1>7, <2>1
<1> QED BY <1>12, <1>13 DEF d

\* Between the handlers of an open session the messages whose last frame was
\* received have been given to the user, in order, whole and with their type,
\* and no others: however the bytes are cut into segments, whatever control
\* frames come between the fragments of a message, and however long a frame is.
THEOREM WsInOrderAlways ==
    ASSUME ByteBase = 256, \A c \in Conversations : Proper(c) PROVE Spec => []WsInOrder
<1>1. ASSUME HInv, IInv, WInv PROVE WsInOrder
  <2> SUFFICES ASSUME pc = "idle", parser.mIsWebSocket
               PROVE  CallsOf({"ws"})
                        = Messages(SubSeq(sent.frames, 1, Cardinality(ReceivedBut(Len(network)))))
    BY DEF WsInOrder
  <2>1. used = 0 /\ IsSeq(buffer) /\ \E i : AtFrame(i)
    BY <1>1 DEF WInv
  <2>2. PICK i : AtFrame(i)
    BY <2>1
  <2>3. Proper(sent) /\ IsSeq(network)
    BY <1>1, NetworkIs DEF HInv
  <2>4. Cardinality(ReceivedBut(Len(network))) = i
    BY <2>1, <2>2, <2>3, ReceivedAre
  <2>5. Of(calls, {"ws"}) = Messages(SubSeq(sent.frames, 1, i))
    BY <2>2 DEF AtFrame
  <2>6. CallsOf({"ws"}) = Of(calls, {"ws"})
    BY DEF CallsOf, Of
  <2> QED BY <2>4, <2>5, <2>6
<1>2. Spec => [](HInv /\ IInv /\ WInv)
  BY WInvariance
<1> QED BY <1>1, <1>2, PTL

================================================================================
