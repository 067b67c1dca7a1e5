---------------------------- MODULE Permissions ----------------------------
(***************************************************************************)
(* How the identity service matches what a token was granted against what  *)
(* a route requires (RBACEvaluator.ts, PolicyEngine.ts).  The property is  *)
(* about names, so that a name is a sequence of characters; a permission   *)
(* is granted by name, by '*', or by a name that ends in '.*'.             *)
(***************************************************************************)
EXTENDS Naturals, Sequences

EndsWithWildcard(g) == Len(g) >= 2 /\ g[Len(g) - 1] = "." /\ g[Len(g)] = "*"

(* required.startsWith(s): JavaScript compares character by character. *)
StartsWith(r, s) == Len(s) <= Len(r) /\ \A i \in 1..Len(s) : r[i] = s[i]

(* granted.slice(0, -2) + '.' is what is left of granted without its star. *)
MatchPermission(g, r) ==
  \/ g = r
  \/ g = <<"*">>
  \/ EndsWithWildcard(g) /\ StartsWith(r, SubSeq(g, 1, Len(g) - 1))

HasPermission(granted, r) == \E g \in granted : MatchPermission(g, r)

RequireRole(roles, role) == role \in roles
RequireAny(granted, required) == \E r \in required : HasPermission(granted, r)
RequireAll(granted, required) == \A r \in required : HasPermission(granted, r)

(* What a guard of requireAuth.ts asks of a token. *)
Permits(guard, payload) ==
  \/ guard.kind = "role" /\ \E r \in guard.of : RequireRole(payload.roles, r)
  \/ guard.kind = "permission" /\ \E r \in guard.of : HasPermission(payload.permissions, r)
  \/ guard.kind = "any" /\ RequireAny(payload.permissions, guard.of)
  \/ guard.kind = "all" /\ RequireAll(payload.permissions, guard.of)
=============================================================================
