----------------------------- MODULE MCAccounts -----------------------------
(***************************************************************************)
(* Accounts on small instances: model values that may be permuted.         *)
(***************************************************************************)
EXTENDS Accounts, TLC

Symmetry == Permutations(Emails) \cup Permutations(Passwords) \cup Permutations(Tokens)
              \cup Permutations(Requests)
=============================================================================
