-------------------------- MODULE MCResilientProxy --------------------------
(***************************************************************************)
(* ResilientProxy on small instances.  Liveness is checked, so that no     *)
(* request is permuted with another.                                       *)
(***************************************************************************)
EXTENDS ResilientProxy, TLC
=============================================================================
