------------------------------- MODULE MCRbac -------------------------------
(***************************************************************************)
(* Rbac on small instances: model values that may be permuted.             *)
(***************************************************************************)
EXTENDS Rbac, TLC

Symmetry == Permutations(Names) \cup Permutations(RoleIds) \cup Permutations(Perms)
              \cup Permutations(Requests)
=============================================================================
