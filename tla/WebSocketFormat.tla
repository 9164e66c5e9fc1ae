--------------------------- MODULE WebSocketFormat ---------------------------
(***************************************************************************)
(* net/http/WebSocketFormat.hpp: frames as bytes.                          *)
(*                                                                         *)
(* A byte has ByteBase values: 256 in the code and in the proofs, fewer in *)
(* TLC's instances, where the lengths at which the format changes shrink   *)
(* with it: Half is the code's 0x80, Small its 125, Word its 2^16, Quad    *)
(* its 2^32.  The head of a frame has a definition of its own, so that     *)
(* long frames can be talked about without their payload.                  *)
(***************************************************************************)
EXTENDS Integers, Sequences

CONSTANTS
    ByteBase,
    Xor(_, _)      \* the exclusive or of two bytes

Byte == 0..ByteBase - 1

ASSUME ByteAssumption == ByteBase \in Nat /\ ByteBase >= 32 /\ ByteBase % 2 = 0
ASSUME XorAssumption ==
    \A a, b \in Byte : Xor(a, b) \in Byte /\ Xor(Xor(a, b), b) = a

Half  == ByteBase \div 2
Small == Half - 3
Word  == ByteBase * ByteBase
Quad  == Word * Word
Unextractable == Half * (Word * ByteBase)   \* the shortest length refused: 2^31

\* WebSocketFrameType
ContinuationFrame == 0
TextFrame == 1
BinaryFrame == 2
CloseFrame == 8
PingFrame == 9
PongFrame == 10
ErrorFrame == 255
FrameTypes == {ContinuationFrame, TextFrame, BinaryFrame, CloseFrame, PingFrame, PongFrame}

-----------------------------------------------------------------------------
(* wsFrameBuild. *)

\* The second byte without its mask bit: a length, or how a length follows.
LengthCode(n) == IF n <= Small THEN n ELSE IF n < Word THEN Small + 1 ELSE Small + 2

\* Mutant: the 16-bit length is written with its low byte first.
ExtendedLengthSwapped(n) ==
    IF n <= Small THEN <<>>
    ELSE IF n < Word THEN <<n % ByteBase, n \div ByteBase>>
    ELSE <<0, 0, 0, 0, (n \div (Word * ByteBase)) % ByteBase, (n \div Word) % ByteBase,
           (n \div ByteBase) % ByteBase, n % ByteBase>>

\* The bytes of a length that follows.  Of a longer one the low 32 bits.
ExtendedLength(n) ==
    IF n <= Small THEN <<>>
    ELSE IF n < Word THEN <<n \div ByteBase, n % ByteBase>>
    ELSE <<0, 0, 0, 0, (n \div (Word * ByteBase)) % ByteBase, (n \div Word) % ByteBase,
           (n \div ByteBase) % ByteBase, n % ByteBase>>

\* A frame up to its payload; the mask is empty or four random bytes.
FrameHead(n, type, fin, mask) ==
    <<type + (IF fin THEN Half ELSE 0), LengthCode(n) + (IF mask # <<>> THEN Half ELSE 0)>>
    \o ExtendedLength(n) \o mask

\* Masking and unmasking.
Masked(payload, mask) ==
    IF mask = <<>> THEN payload
    ELSE [i \in 1..Len(payload) |-> Xor(payload[i], mask[((i - 1) % 4) + 1])]

wsFrameBuild(payload, type, fin, mask) ==
    FrameHead(Len(payload), type, fin, mask) \o Masked(payload, mask)

-----------------------------------------------------------------------------
(* wsFrameExtractBuffer, on a buffer of which the first size bytes are      *)
(* received.  It looks at no other byte than those of the head.             *)

NoFrame == [whole |-> FALSE]

\* How long the head is without a mask.
LengthEnd(b) ==
    CASE b[2] % Half = Small + 1 -> 4
      [] b[2] % Half = Small + 2 -> 10
      [] OTHER -> 2

IsMasking(b) == b[2] >= Half
HeadEnd(b) == LengthEnd(b) + (IF IsMasking(b) THEN 4 ELSE 0)

\* Lengths of 64 bits are refused if they need more than 31.
Refused(b) ==
    /\ LengthEnd(b) = 10
    /\ b[3] # 0 \/ b[4] # 0 \/ b[5] # 0 \/ b[6] # 0 \/ b[7] >= Half

PayloadLen(b) ==
    CASE LengthEnd(b) = 4 -> b[3] * ByteBase + b[4]
      [] LengthEnd(b) = 10 ->
           b[7] * (Word * ByteBase) + b[8] * Word + b[9] * ByteBase + b[10]
      [] OTHER -> b[2] % Half

\* The tests, in their order: pos + payloadlen is computed in 32 bits.
TooShort(b, size) ==
    \/ size < 2
    \/ size < LengthEnd(b)
    \/ Refused(b)
    \/ size < HeadEnd(b)
    \/ size < (HeadEnd(b) + PayloadLen(b)) % Quad

\* The frame that a buffer begins with, and where its payload and it end.
ExtractHead(b, size) ==
    IF TooShort(b, size) THEN NoFrame
    ELSE [whole |-> TRUE, opcode |-> b[1] % 16, fin |-> b[1] >= Half,
          mask |-> IF IsMasking(b) THEN SubSeq(b, LengthEnd(b) + 1, HeadEnd(b)) ELSE <<>>,
          pos |-> HeadEnd(b), payloadlen |-> PayloadLen(b),
          frameSize |-> PayloadLen(b) + HeadEnd(b)]

\* The payload of a frame that was found.
Payload(b, f) == Masked(SubSeq(b, f.pos + 1, f.frameSize), f.mask)

=============================================================================
