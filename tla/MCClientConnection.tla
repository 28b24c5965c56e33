------------------------- MODULE MCClientConnection -------------------------
(***************************************************************************)
(* Instances of ClientConnection for TLC.                                  *)
(***************************************************************************)
EXTENDS ClientConnection

CONSTANTS c1, c2, u1, u2

=============================================================================
