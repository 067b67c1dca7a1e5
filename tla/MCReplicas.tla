----------------------------- MODULE MCReplicas -----------------------------
(***************************************************************************)
(* Replicas on small instances, and the reference that the matching of     *)
(* permissions is compared with on all names of up to MaxLen characters.   *)
(***************************************************************************)
EXTENDS Replicas, SequencesExt

CONSTANT MaxLen

MCPayloads ==
  {[roles |-> {"teller"}, permissions |-> {<<"a", ".", "*">>, <<"b">>}],
   [roles |-> {}, permissions |-> {<<"b">>}]}

MCGuards ==
  {[kind |-> "role", of |-> {"teller"}], [kind |-> "permission", of |-> {<<"a", ".", "b">>}],
   [kind |-> "any", of |-> {<<"a">>, <<"a", ".", "b">>}], [kind |-> "all", of |-> {<<"b">>, <<"a", ".", "b">>}]}

MCSymmetry == Permutations(Processes) \cup Permutations(Conns)

-----------------------------------------------------------------------------
Names == UNION {[1..n -> {"a", "b", ".", "*"}] : n \in 1..MaxLen}

(* The segments of a name, which dots separate. *)
Segments(s) ==
  LET cut == SetToSortSeq({0, Len(s) + 1} \cup {i \in 1..Len(s) : s[i] = "."}, LAMBDA i, j : i < j)
  IN  [n \in 1..(Len(cut) - 1) |-> SubSeq(s, cut[n] + 1, cut[n + 1] - 1)]

(* What 'resource.*' means: every name below the resource, however deep. *)
Below(g, r) ==
  LET resource == Front(Segments(g))
  IN  /\ Len(resource) >= 1 /\ Last(Segments(g)) = <<"*">>
      /\ Len(Segments(r)) > Len(resource)
      /\ SubSeq(Segments(r), 1, Len(resource)) = resource

(***************************************************************************)
(* The comparison of characters in RBACEvaluator decides what the segments *)
(* of the names say: a wildcard reaches what is below its resource, never  *)
(* the resource itself nor another one whose name begins like it.  A fact  *)
(* of the names alone, which TLC evaluates once, before the run.           *)
(***************************************************************************)
ASSUME WildcardsAgree ==
  \A g, r \in Names : MatchPermission(g, r) <=> (g = r \/ g = <<"*">> \/ Below(g, r))
=============================================================================
