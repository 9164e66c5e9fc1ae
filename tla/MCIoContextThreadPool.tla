------------------------ MODULE MCIoContextThreadPool ------------------------
(***************************************************************************)
(* Instances of IoContextThreadPool for TLC.                               *)
(***************************************************************************)
EXTENDS IoContextThreadPool

CONSTANTS c1, c2

=============================================================================
