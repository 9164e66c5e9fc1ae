------------------------------- MODULE Packet -------------------------------
(***************************************************************************)
(* The packet writer and reader of base/Packet.hpp.  A writer fills a      *)
(* buffer of max units and may move to a larger one; a reader walks a      *)
(* buffer it does not own.  Positions are size_t: their sums wrap at       *)
(* SizeMod, and when a position cannot wrap is what the theorems of        *)
(* BroadCastProofs settle.                                                 *)
(***************************************************************************)
EXTENDS Naturals, Sequences

CONSTANT
  SizeMod       \* 2 ^ (bits of size_t)

ASSUME SizeAssumption == SizeMod \in Nat \ {0}

----------------------------------------------------------------------------
(* The writer: what was written so far, and the room of the buffer. *)

NewWriter(len, auto) == [max |-> len, auto |-> auto, data |-> <<>>]

\* The sum size_t computes for a position and a length.
Plus(pos, n) == (pos + n) % SizeMod

\* The difference of two lengths; below zero it wraps as well.
Minus(n, k) == (n + SizeMod - k) % SizeMod

\* growBuffer: a new buffer of mMaxLen + len, with what was written copied,
\* when the data does not fit and the writer may allocate.  memory is FALSE
\* when malloc fails.
Grown(w, n, memory) ==
  IF w.auto /\ Plus(Len(w.data), n) > w.max /\ memory
    THEN [w EXCEPT !.max = Plus(w.max, n)]
    ELSE w

\* writeBuffer refuses data that does not fit in the (grown) buffer.
Writes(w, bytes, memory) ==
  Plus(Len(w.data), Len(bytes)) <= Grown(w, Len(bytes), memory).max

\* writeBuffer, the writer after it.
Write(w, bytes, memory) ==
  LET g == Grown(w, Len(bytes), memory) IN
  IF Writes(w, bytes, memory) THEN [g EXCEPT !.data = @ \o bytes] ELSE g

----------------------------------------------------------------------------
(* The reader, of a buffer of size units: its operations by what they do to *)
(* the current position.  Saving a position is remembering it.             *)

\* mutant: the last unit is never enough.
EnoughStrict(size, pos, n) == pos <= size /\ size - pos > n

\* enough(): at least n units are left.
Enough(size, pos, n) == pos <= size /\ size - pos >= n

\* read() and addPos() throw out_of_range when the new position is past the
\* end; they compute that position first, so it is the wrapped one they test.
CanMove(size, pos, n) == Plus(pos, n) <= size

=============================================================================
