---------------------------- MODULE MCTcpSession ----------------------------
(***************************************************************************)
(* Instances of TcpSession for TLC.                                        *)
(***************************************************************************)
EXTENDS TcpSession, TLC

CONSTANTS m1, m2, m3

\* Sizes that a sum tells apart.
SizeAll  == [m \in Msgs |-> IF m = m1 THEN 1 ELSE 2]
SizeSame == [m \in Msgs |-> 1]

\* Where nothing is received, an eof handler makes no difference.
SendingInit == Init /\ ~mEofHandler
SendingSpec == SendingInit /\ [][Next]_vars

\* Nothing tells the threads of the io_context apart, nor messages of one size.
Symmetry ==
    {p @@ q : p \in Permutations(IoThreads), q \in Permutations(Msgs \ {m1})}

=============================================================================
