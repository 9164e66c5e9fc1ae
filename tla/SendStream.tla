----------------------------- MODULE SendStream -----------------------------
(***************************************************************************)
(* What TcpSession promises to those who send: an outgoing stream.         *)
(* Messages are queued in some order, reach the connection in that order,  *)
(* each once, and are confirmed to their senders in that order, after they *)
(* were written.  Closing ends the stream wherever it is.                  *)
(***************************************************************************)
EXTENDS Integers, Sequences

CONSTANT Msgs

VARIABLES open, accepted, wire, completed

vars == <<open, accepted, wire, completed>>

Init == open = TRUE /\ accepted = <<>> /\ wire = <<>> /\ completed = <<>>

\* A sender may race with a close: its message is queued, and goes nowhere.
Accept ==
    /\ \E m \in Msgs : accepted' = Append(accepted, m)
    /\ UNCHANGED <<open, wire, completed>>

Transmit ==
    /\ open
    /\ Len(wire) < Len(accepted)
    /\ wire' = Append(wire, accepted[Len(wire) + 1])
    /\ UNCHANGED <<open, accepted, completed>>

\* Confirmations of what was written may still arrive after the close.
Confirm ==
    /\ Len(completed) < Len(wire)
    /\ completed' = Append(completed, wire[Len(completed) + 1])
    /\ UNCHANGED <<open, accepted, wire>>

Close == open /\ open' = FALSE /\ UNCHANGED <<accepted, wire, completed>>

Next == Accept \/ Transmit \/ Confirm \/ Close

Spec == Init /\ [][Next]_vars

\* While the stream is open, it moves.
FairSpec == Spec /\ WF_vars(Transmit) /\ WF_vars(open /\ Confirm)

=============================================================================
