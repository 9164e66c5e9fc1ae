----------------------------- MODULE MCBroadCast -----------------------------
(* Two clients whose packets differ in length. *)
EXTENDS BroadCast, TLC

CONSTANTS c1, c2

TwoClients == {c1, c2}

Sizes == (c1 :> 0) @@ (c2 :> 1)

=============================================================================
