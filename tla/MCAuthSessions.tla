--------------------------- MODULE MCAuthSessions ---------------------------
(***************************************************************************)
(* AuthSessions on small instances: model values that may be permuted.     *)
(***************************************************************************)
EXTENDS AuthSessions, TLC

Symmetry == Permutations(SessionIds) \cup Permutations(Requests) \cup Permutations(Users)
=============================================================================
