-------------------------- MODULE MCReceiveBuffer --------------------------
(***************************************************************************)
(* Instances of ReceiveBuffer for TLC, with the smallest sizes the code    *)
(* allows.                                                                 *)
(***************************************************************************)
EXTENDS ReceiveBuffer

\* The integer part of 1024 * (tanh(0.2 * i) - tanh(0.2 * (i - 1))).
Tanh1024 == <<202, 186, 160, 130, 99, 73, 52, 37, 25, 17, 11, 8, 5, 3, 2, 1, 1>>

=============================================================================
