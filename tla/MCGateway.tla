----------------------------- MODULE MCGateway -----------------------------
(***************************************************************************)
(* Gateway on a small instance.  Liveness is checked, so that no request   *)
(* is permuted with another.                                               *)
(***************************************************************************)
EXTENDS Gateway, TLC
=============================================================================
