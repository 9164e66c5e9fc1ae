--------------------------- MODULE MCTcpAcceptor ---------------------------
(***************************************************************************)
(* Instances of TcpAcceptor for TLC.                                       *)
(***************************************************************************)
EXTENDS TcpAcceptor

CONSTANTS c1, l1, l2, k1, k2, k3

=============================================================================
