------------------------ MODULE Permissions_proofs ------------------------
(***************************************************************************)
(* Proofs about Permissions, for names of any length over any characters:  *)
(* what is granted by name or by wildcard is closed under what it covers.  *)
(***************************************************************************)
EXTENDS Permissions, SequenceTheorems, TLAPS

(***************************************************************************)
(* A wildcard is compared without its star, character by character.        *)
(***************************************************************************)
LEMMA WildcardByCharacters ==
  ASSUME NEW Chars, NEW g \in Seq(Chars), NEW r \in Seq(Chars), EndsWithWildcard(g)
  PROVE  StartsWith(r, SubSeq(g, 1, Len(g) - 1))
           <=> Len(g) - 1 <= Len(r) /\ \A i \in 1..(Len(g) - 1) : r[i] = g[i]
<1>1. Len(g) \in Nat /\ Len(g) >= 2 /\ Len(r) \in Nat
  BY DEF EndsWithWildcard
<1>2. /\ Len(SubSeq(g, 1, Len(g) - 1)) = Len(g) - 1
      /\ \A i \in 1..(Len(g) - 1) : SubSeq(g, 1, Len(g) - 1)[i] = g[i]
  BY <1>1
<1> QED
  BY <1>1, <1>2 DEF StartsWith

(***************************************************************************)
(* Matching is transitive (RBACEvaluator.matchPermission): a permission    *)
(* that covers a wildcard covers whatever that wildcard covers, so that    *)
(* narrowing a grant can never reach further than the grant itself.        *)
(***************************************************************************)
THEOREM MatchTransitive ==
  ASSUME NEW Chars, NEW g \in Seq(Chars), NEW m \in Seq(Chars), NEW r \in Seq(Chars),
         MatchPermission(g, m), MatchPermission(m, r)
  PROVE  MatchPermission(g, r)
<1>1. CASE g = m \/ g = <<"*">> \/ m = r
  BY <1>1 DEF MatchPermission
<1>2. CASE EndsWithWildcard(g) /\ StartsWith(m, SubSeq(g, 1, Len(g) - 1)) /\ m # r
  <2>1. Len(g) \in Nat /\ Len(m) \in Nat /\ Len(r) \in Nat /\ Len(g) >= 2
    BY <1>2 DEF EndsWithWildcard
  <2>2. Len(g) - 1 <= Len(m) /\ \A i \in 1..(Len(g) - 1) : m[i] = g[i]
    BY <1>2, WildcardByCharacters
  <2>3. m[Len(g) - 1] = "."
    BY <1>2, <2>1, <2>2 DEF EndsWithWildcard
  <2>4. m # <<"*">>
    <3>1. ASSUME Len(m) = 1 PROVE m[1] = "."
      <4>1. \A k, n \in Nat : n = 1 /\ k >= 2 /\ k - 1 <= n => k - 1 = 1
        OBVIOUS
      <4>2. Len(g) - 1 = 1
        BY <2>1, <2>2, <3>1, <4>1
      <4> QED
        BY <2>3, <4>2
    <3>2. Len(<<"*">>) = 1 /\ <<"*">>[1] = "*"
      OBVIOUS
    <3>3. "*" # "."
      OBVIOUS
    <3> QED
      BY <3>1, <3>2, <3>3
  <2>5. EndsWithWildcard(m) /\ StartsWith(r, SubSeq(m, 1, Len(m) - 1))
    BY <1>2, <2>4 DEF MatchPermission
  <2>6. m[Len(m)] = "*" /\ Len(m) - 1 <= Len(r) /\ \A i \in 1..(Len(m) - 1) : r[i] = m[i]
    BY <2>5, WildcardByCharacters DEF EndsWithWildcard
  <2>7. Len(g) - 1 # Len(m)
    BY <2>3, <2>6
  <2>8. Len(g) - 1 <= Len(r) /\ \A i \in 1..(Len(g) - 1) : r[i] = g[i]
    BY <2>1, <2>2, <2>6, <2>7
  <2> QED
    BY <1>2, <2>8, WildcardByCharacters DEF MatchPermission
<1> QED
  BY <1>1, <1>2 DEF MatchPermission

(***************************************************************************)
(* To grant what was granted already decides nothing new, also when it is  *)
(* a wildcard below another one: the roles of a token may list and inherit *)
(* a permission in any number of ways without widening it.                 *)
(***************************************************************************)
THEOREM GrantedAlready ==
  ASSUME NEW Chars, NEW granted \in SUBSET Seq(Chars),
         NEW m \in Seq(Chars), NEW r \in Seq(Chars), HasPermission(granted, m)
  PROVE  HasPermission(granted \cup {m}, r) <=> HasPermission(granted, r)
<1>1. PICK g \in granted : MatchPermission(g, m)
  BY DEF HasPermission
<1>2. MatchPermission(m, r) => MatchPermission(g, r)
  BY <1>1, MatchTransitive
<1> QED
  BY <1>2 DEF HasPermission

-----------------------------------------------------------------------------
(* The star of a resource, and what it is compared without. *)
Star(resource) == resource \o <<".", "*">>
Dotted(resource) == resource \o <<".">>

LEMMA StarShape ==
  ASSUME NEW Chars, {".", "*"} \subseteq Chars, NEW resource \in Seq(Chars)
  PROVE  /\ Star(resource) \in Seq(Chars) /\ Dotted(resource) \in Seq(Chars)
         /\ Len(resource) \in Nat
         /\ Len(Star(resource)) = Len(resource) + 2 /\ Len(Dotted(resource)) = Len(resource) + 1
         /\ EndsWithWildcard(Star(resource))
         /\ \A i \in 1..(Len(resource) + 1) : Star(resource)[i] = Dotted(resource)[i]
         /\ Dotted(resource)[Len(resource) + 1] = "."
<1>1. <<".", "*">> \in Seq(Chars) /\ Len(<<".", "*">>) = 2
      /\ <<".", "*">>[1] = "." /\ <<".", "*">>[2] = "*"
  OBVIOUS
<1>2. <<".">> \in Seq(Chars) /\ Len(<<".">>) = 1 /\ <<".">>[1] = "."
  OBVIOUS
<1>3. Len(resource) \in Nat
  OBVIOUS
<1>4. /\ Star(resource) \in Seq(Chars) /\ Len(Star(resource)) = Len(resource) + 2
      /\ \A i \in 1..(Len(resource) + 2) :
           Star(resource)[i] = IF i <= Len(resource) THEN resource[i]
                               ELSE <<".", "*">>[i - Len(resource)]
  BY <1>1, <1>3, ConcatProperties DEF Star
<1>5. /\ Dotted(resource) \in Seq(Chars) /\ Len(Dotted(resource)) = Len(resource) + 1
      /\ \A i \in 1..(Len(resource) + 1) :
           Dotted(resource)[i] = IF i <= Len(resource) THEN resource[i]
                                 ELSE <<".">>[i - Len(resource)]
  BY <1>2, <1>3, ConcatProperties DEF Dotted
<1>6. /\ Star(resource)[Len(resource) + 1] = "." /\ Star(resource)[Len(resource) + 2] = "*"
      /\ Dotted(resource)[Len(resource) + 1] = "."
  <2>1. Len(resource) + 1 - Len(resource) = 1 /\ Len(resource) + 2 - Len(resource) = 2
    BY <1>3
  <2>2. /\ Len(resource) + 1 \in 1..(Len(resource) + 2) /\ ~(Len(resource) + 1 <= Len(resource))
        /\ Len(resource) + 2 \in 1..(Len(resource) + 2) /\ ~(Len(resource) + 2 <= Len(resource))
        /\ Len(resource) + 1 \in 1..(Len(resource) + 1)
    BY <1>3
  <2> QED
    BY <1>1, <1>2, <1>4, <1>5, <2>1, <2>2
<1>7. EndsWithWildcard(Star(resource))
  <2>1. Len(Star(resource)) >= 2 /\ Len(Star(resource)) - 1 = Len(resource) + 1
    BY <1>3, <1>4
  <2> QED
    BY <1>4, <1>6, <2>1 DEF EndsWithWildcard
<1>8. ASSUME NEW i \in 1..(Len(resource) + 1) PROVE Star(resource)[i] = Dotted(resource)[i]
  <2>1. CASE i <= Len(resource)
    BY <1>3, <1>4, <1>5, <2>1
  <2>2. CASE i = Len(resource) + 1
    BY <1>6, <2>2
  <2> QED
    BY <1>3, <2>1, <2>2
<1> QED
  BY <1>3, <1>4, <1>5, <1>6, <1>7, <1>8

(***************************************************************************)
(* To begin with d, character by character, is to be d and a rest.         *)
(***************************************************************************)
LEMMA PrefixByConcatenation ==
  ASSUME NEW Chars, NEW d \in Seq(Chars), NEW r \in Seq(Chars)
  PROVE  (\E rest \in Seq(Chars) : r = d \o rest)
           <=> Len(d) <= Len(r) /\ \A i \in 1..Len(d) : r[i] = d[i]
<1>1. Len(d) \in Nat /\ Len(r) \in Nat
  OBVIOUS
<1>2. ASSUME Len(d) <= Len(r), \A i \in 1..Len(d) : r[i] = d[i]
      PROVE  \E rest \in Seq(Chars) : r = d \o rest
  <2>1. PICK rest \in Seq(Chars) : /\ Len(rest) = Len(r) - Len(d)
                                   /\ \A i \in 1..(Len(r) - Len(d)) : rest[i] = r[Len(d) + i]
    <3>1. /\ SubSeq(r, Len(d) + 1, Len(r)) \in Seq(Chars)
          /\ Len(SubSeq(r, Len(d) + 1, Len(r))) = Len(r) - Len(d)
          /\ \A i \in 1..(Len(r) - Len(d)) : SubSeq(r, Len(d) + 1, Len(r))[i] = r[Len(d) + i]
      BY <1>1, <1>2
    <3> QED
      BY <3>1
  <2>2. /\ d \o rest \in Seq(Chars) /\ Len(d \o rest) = Len(d) + Len(rest)
        /\ \A i \in 1..(Len(d) + Len(rest)) :
             (d \o rest)[i] = IF i <= Len(d) THEN d[i] ELSE rest[i - Len(d)]
    BY ConcatProperties
  <2>3. Len(d) + Len(rest) = Len(r)
    BY <1>1, <1>2, <2>1
  <2>4. ASSUME NEW i \in 1..Len(r) PROVE r[i] = (d \o rest)[i]
    <3>1. CASE i <= Len(d)
      <4>1. i \in 1..Len(d)
        BY <1>1, <3>1
      <4>2. (d \o rest)[i] = d[i]
        BY <2>2, <2>3, <3>1
      <4> QED
        BY <1>2, <4>1, <4>2
    <3>2. CASE ~(i <= Len(d))
      <4>1. i - Len(d) \in 1..(Len(r) - Len(d)) /\ Len(d) + (i - Len(d)) = i
        BY <1>1, <1>2, <3>2
      <4>2. (d \o rest)[i] = rest[i - Len(d)]
        BY <2>2, <2>3, <3>2
      <4>3. rest[i - Len(d)] = r[Len(d) + (i - Len(d))]
        BY <2>1, <4>1
      <4> QED
        BY <4>1, <4>2, <4>3
    <3> QED
      BY <3>1, <3>2
  <2>5. Len(d \o rest) = Len(r)
    BY <2>2, <2>3
  <2>6. r = d \o rest
    BY <2>2, <2>4, <2>5, SeqEqual
  <2> QED
    BY <2>6
<1>3. ASSUME NEW rest \in Seq(Chars), r = d \o rest
      PROVE  Len(d) <= Len(r) /\ \A i \in 1..Len(d) : r[i] = d[i]
  <2>1. /\ Len(d \o rest) = Len(d) + Len(rest)
        /\ \A i \in 1..(Len(d) + Len(rest)) :
             (d \o rest)[i] = IF i <= Len(d) THEN d[i] ELSE rest[i - Len(d)]
    BY ConcatProperties
  <2>2. Len(rest) \in Nat
    OBVIOUS
  <2>3. ASSUME NEW i \in 1..Len(d) PROVE i \in 1..(Len(d) + Len(rest)) /\ i <= Len(d)
    BY <1>1, <2>2
  <2>4. Len(d) <= Len(d) + Len(rest)
    BY <1>1, <2>2
  <2> QED
    BY <1>3, <2>1, <2>3, <2>4
<1> QED
  BY <1>2, <1>3

(***************************************************************************)
(* A granted 'resource.*' reaches exactly the names that are the resource, *)
(* a dot and anything (RBACEvaluator.matchPermission): what is below it,   *)
(* however deep, and neither the resource itself nor a name that only      *)
(* begins with the same letters.                                           *)
(***************************************************************************)
THEOREM WildcardReach ==
  ASSUME NEW Chars, {".", "*"} \subseteq Chars, NEW resource \in Seq(Chars), NEW r \in Seq(Chars)
  PROVE  MatchPermission(Star(resource), r)
           <=> \E rest \in Seq(Chars) : r = Dotted(resource) \o rest
<1>1. PICK d \in Seq(Chars), g \in Seq(Chars), n \in Nat :
         /\ d = Dotted(resource) /\ g = Star(resource) /\ n = Len(resource) + 1
  BY StarShape
<1>2. /\ Len(d) = n /\ EndsWithWildcard(g) /\ \A i \in 1..n : g[i] = d[i]
      /\ Len(g) = Len(resource) + 2 /\ Len(resource) \in Nat
  BY <1>1, StarShape
<1>3. Len(g) - 1 = n /\ n <= Len(g) /\ Len(g) # 1
  BY <1>1, <1>2
<1>4. StartsWith(r, SubSeq(g, 1, Len(g) - 1)) <=> n <= Len(r) /\ \A i \in 1..n : r[i] = d[i]
  <2>1. StartsWith(r, SubSeq(g, 1, Len(g) - 1))
          <=> Len(g) - 1 <= Len(r) /\ \A i \in 1..(Len(g) - 1) : r[i] = g[i]
    BY <1>2, WildcardByCharacters
  <2> QED
    BY <1>2, <1>3, <2>1
<1>5. g # <<"*">>
  BY <1>3
<1>6. MatchPermission(g, r) <=> n <= Len(r) /\ \A i \in 1..n : r[i] = d[i]
  BY <1>2, <1>3, <1>4, <1>5 DEF MatchPermission
<1>7. (\E rest \in Seq(Chars) : r = d \o rest) <=> n <= Len(r) /\ \A i \in 1..n : r[i] = d[i]
  BY <1>2, PrefixByConcatenation
<1> QED
  BY <1>1, <1>6, <1>7

(***************************************************************************)
(* A grant on what is below a resource is no grant on the resource.        *)
(***************************************************************************)
THEOREM WildcardLeavesResource ==
  ASSUME NEW Chars, {".", "*"} \subseteq Chars, NEW resource \in Seq(Chars)
  PROVE  ~MatchPermission(Star(resource), resource)
<1>1. SUFFICES ASSUME NEW rest \in Seq(Chars), resource = Dotted(resource) \o rest PROVE FALSE
  BY WildcardReach
<1>2. Dotted(resource) \in Seq(Chars) /\ Len(Dotted(resource)) = Len(resource) + 1
  BY StarShape
<1>3. Len(Dotted(resource)) <= Len(resource)
  BY <1>1, <1>2, PrefixByConcatenation
<1> QED
  BY <1>2, <1>3

(***************************************************************************)
(* A token that carries more passes every guard a smaller one passes       *)
(* (requireRole, requirePermission, requireAny, requireAll): no guard is   *)
(* lost with a role or a permission gained.                                *)
(***************************************************************************)
LEMMA PermitsMonotone ==
  ASSUME NEW guard, NEW lesser, NEW greater,
         lesser.roles \subseteq greater.roles, lesser.permissions \subseteq greater.permissions,
         Permits(guard, lesser)
  PROVE  Permits(guard, greater)
<1>1. ASSUME NEW r, HasPermission(lesser.permissions, r) PROVE HasPermission(greater.permissions, r)
  BY <1>1 DEF HasPermission
<1> QED
  BY <1>1 DEF Permits, RequireRole, RequireAny, RequireAll
=============================================================================
