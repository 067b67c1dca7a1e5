-------------------------- MODULE RbacMint_proofs --------------------------
(***************************************************************************)
(* Proofs about the resolution of roles and permissions for a token        *)
(* (PermissionResolver): what collectRoles computes, whatever the order of *)
(* the roles and the shape of the inheritance, and what a token may hold   *)
(* when the tables change between the queries of its resolution.           *)
(***************************************************************************)
EXTENDS Rbac_proofs, FiniteSetTheorems

(***************************************************************************)
(* Where collectRoles goes from a role: the least set that has the role,   *)
(* unless it was visited, and with each of its roles the parent, unless    *)
(* that was visited.                                                       *)
(***************************************************************************)
Trail(eff, i, X) ==
  /\ i \in There \ eff => i \in X
  /\ \A j \in X : role[j].parent \in There \ eff => role[j].parent \in X

Path(eff, i) == {k \in There : \A X \in SUBSET There : Trail(eff, i, X) => k \in X}

LEMMA PathEnds ==
  ASSUME NEW eff, NEW i, i \in eff \/ i \notin There
  PROVE  Path(eff, i) = {}
<1>1. Trail(eff, i, {})
  BY DEF Trail
<1> QED
  BY <1>1 DEF Path

LEMMA PathStep ==
  ASSUME NEW eff, NEW i \in There \ eff
  PROVE  Path(eff, i) = {i} \cup Path(eff \cup {i}, role[i].parent)
<1> DEFINE p == role[i].parent
           e == eff \cup {i}
<1>1. ASSUME NEW X \in SUBSET There, Trail(eff, i, X) PROVE i \in X /\ Trail(e, p, X)
  BY <1>1 DEF Trail
<1>2. ASSUME NEW Y \in SUBSET There, Trail(e, p, Y)
      PROVE  Y \cup {i} \in SUBSET There /\ Trail(eff, i, Y \cup {i})
  BY <1>2 DEF Trail
<1>3. {i} \cup Path(e, p) \subseteq Path(eff, i)
  BY <1>1 DEF Path
<1>4. ASSUME NEW k \in Path(eff, i), k # i PROVE k \in Path(e, p)
  BY <1>2, <1>4 DEF Path
<1> QED
  BY <1>3, <1>4

(* The equation of collectRoles, which says what it computes because there is such a function. *)
LEMMA CollectEquation ==
  ASSUME TablesType, NEW eff \in SUBSET RoleIds, NEW i \in RoleIds \cup {NoRole}
  PROVE  collectRoles[eff][i] = IF i \in eff \/ i \notin There THEN eff
                                ELSE collectRoles[eff \cup {i}][role[i].parent]
<1> DEFINE Ids == RoleIds \cup {NoRole}
           Step(f, e, k) == IF k \in e \/ k \notin There THEN e ELSE f[e \cup {k}][role[k].parent]
           Eq(f) == f = [e \in SUBSET RoleIds |-> [k \in Ids |-> Step(f, e, k)]]
           g == [e \in SUBSET RoleIds |-> [k \in Ids |-> e \cup Path(e, k)]]
<1>1. ASSUME NEW e \in SUBSET RoleIds, NEW k \in Ids
      PROVE  e \cup Path(e, k) = IF k \in e \/ k \notin There THEN e
                                 ELSE g[e \cup {k}][role[k].parent]
  <2>1. CASE k \in e \/ k \notin There
    BY <2>1, PathEnds
  <2>2. CASE k \in There \ e
    <3>1. e \cup {k} \in SUBSET RoleIds /\ role[k].parent \in Ids
      BY <2>2 DEF TablesType, RoleRow, There
    <3>2. g[e \cup {k}][role[k].parent] = (e \cup {k}) \cup Path(e \cup {k}, role[k].parent)
      BY <3>1
    <3> HIDE DEF g
    <3> QED
      BY <2>2, <3>2, PathStep
  <2> QED
    BY <2>1, <2>2
<1>2. Eq(g)
  <2>1. ASSUME NEW e \in SUBSET RoleIds PROVE g[e] = [k \in Ids |-> Step(g, e, k)]
    <3>1. \A k \in Ids : e \cup Path(e, k) = Step(g, e, k)
      BY <1>1
    <3>2. g[e] = [k \in Ids |-> e \cup Path(e, k)]
      OBVIOUS
    <3> HIDE DEF Step, g
    <3> QED
      BY <3>1, <3>2
  <2>2. g = [e \in SUBSET RoleIds |-> g[e]]
    OBVIOUS
  <2> HIDE DEF Step, g
  <2> QED
    BY <2>1, <2>2
<1>3. collectRoles = CHOOSE f : Eq(f)
  BY DEF collectRoles
<1>4. Eq(collectRoles)
  <2> HIDE DEF Eq
  <2> QED
    BY <1>2, <1>3
<1>5. PICK f : f = collectRoles
  OBVIOUS
<1>6. f = [e \in SUBSET RoleIds |-> [k \in Ids |-> Step(f, e, k)]]
  BY <1>4, <1>5
<1>7. f[eff][i] = Step(f, eff, i)
  <2> HIDE DEF Step
  <2> QED
    BY <1>6
<1> QED
  BY <1>5, <1>7

-----------------------------------------------------------------------------
(* Inheritance as the least closed set *)

LEMMA InheritedLeast ==
  ASSUME TablesOK, NEW ids, ids \subseteq There
  PROVE  /\ Inherited(ids) \subseteq There
         /\ Closed(Inherited(ids), ids)
         /\ \A X \in SUBSET There : Closed(X, ids) => Inherited(ids) \subseteq X
<1>1. Inherited(ids) \subseteq There
  BY DEF Inherited
<1>2. \A X \in SUBSET There : Closed(X, ids) => Inherited(ids) \subseteq X
  BY DEF Inherited, Closed
<1>3. ids \subseteq Inherited(ids)
  BY DEF Inherited
<1>4. ASSUME NEW j \in Inherited(ids), role[j].parent # NoRole
      PROVE  role[j].parent \in Inherited(ids)
  <2>1. role[j].parent \in There
    BY <1>1, <1>4 DEF TablesOK, NoOrphans
  <2>2. ASSUME NEW X \in SUBSET There, Closed(X, ids) PROVE role[j].parent \in X
    BY <1>2, <1>4, <2>2 DEF Closed
  <2> QED
    BY <2>1, <2>2 DEF Inherited, Closed
<1> QED
  BY <1>1, <1>2, <1>3, <1>4 DEF Closed

(* More roles inherit more. *)
LEMMA InheritedMonotone ==
  ASSUME TablesOK, NEW more, NEW ids, ids \subseteq more, more \subseteq There
  PROVE  Inherited(ids) \subseteq Inherited(more)
<1>1. Closed(Inherited(more), ids) /\ Inherited(more) \in SUBSET There
  BY InheritedLeast DEF Closed
<1> QED
  BY <1>1, InheritedLeast

(* What is closed already is all that it inherits. *)
LEMMA InheritedClosed ==
  ASSUME TablesOK, NEW ids \in SUBSET There, Closed(ids, ids)
  PROVE  Inherited(ids) = ids
BY InheritedLeast DEF Closed

(* A role that is inherited anyway may be named or not. *)
LEMMA InheritedAlready ==
  ASSUME TablesOK, NEW ids, NEW more, ids \subseteq more, more \subseteq Inherited(ids),
         ids \subseteq There
  PROVE  Inherited(more) = Inherited(ids)
<1>1. more \subseteq There
  BY InheritedLeast
<1>2. Inherited(ids) \subseteq Inherited(more)
  BY <1>1, InheritedMonotone
<1>3. Closed(Inherited(ids), more) /\ Inherited(ids) \in SUBSET There
  BY InheritedLeast DEF Closed
<1> QED
  BY <1>1, <1>2, <1>3, InheritedLeast

-----------------------------------------------------------------------------
(* What collectRoles computes *)

(* Some set of a family of subsets of a finite set contains none of the others. *)
LEMMA SmallestOf ==
  ASSUME NEW S, IsFiniteSet(S), NEW T, T \subseteq SUBSET S, T # {}
  PROVE  \E X \in T : \A Y \in T : Y \subseteq X => Y = X
<1>1. IsWellFoundedOn(StrictSubsetOrdering(S), SUBSET S)
  BY FS_StrictSubsetOrderingWellFounded, FS_FiniteSubsetsOfFinite
<1>2. PICK X \in T : \A Y \in T : <<Y, X>> \notin StrictSubsetOrdering(S)
  BY <1>1, WFMin
<1> QED
  BY <1>2 DEF StrictSubsetOrdering

(* Between two calls of collectRoles only the parent it goes to may be missing. *)
Underway(eff, i) ==
  /\ eff \subseteq There /\ i \in There \cup {NoRole}
  /\ \A j \in eff : role[j].parent \in eff \cup {NoRole, i}

Visited(eff, i) == IF i \in There THEN eff \cup {i} ELSE eff

(***************************************************************************)
(* collectRoles adds to what was visited the role it is given and whatever *)
(* that role inherits, also where the parents of roles form a cycle.       *)
(***************************************************************************)
LEMMA CollectOne ==
  ASSUME TablesOK, IsFiniteSet(There), NEW eff, NEW i, Underway(eff, i)
  PROVE  collectRoles[eff][i] = Inherited(Visited(eff, i))
<1> DEFINE Right(e, k) == collectRoles[e][k] = Inherited(Visited(e, k))
           Bad == {X \in SUBSET There :
                     \E k \in There \cup {NoRole} : Underway(There \ X, k) /\ ~Right(There \ X, k)}
<1>a. There \subseteq RoleIds /\ NoRole \notin There
  BY NamesAssumption DEF There
<1>1. ASSUME NEW e, NEW k, Underway(e, k), k \in e \/ k \notin There PROVE Right(e, k)
  <2>1. collectRoles[e][k] = e
    BY <1>1, <1>a, CollectEquation DEF Underway, TablesOK
  <2>2. Visited(e, k) = e /\ Closed(e, e)
    BY <1>1, <1>a DEF Underway, Visited, Closed, TablesOK, NoOrphans
  <2> QED
    BY <1>1, <2>1, <2>2, InheritedClosed DEF Underway
<1>2. ASSUME NEW e, NEW k \in There \ e, Underway(e, k),
             Right(e \cup {k}, role[k].parent)
      PROVE  Right(e, k)
  <2>1. collectRoles[e][k] = collectRoles[e \cup {k}][role[k].parent]
    BY <1>2, <1>a, CollectEquation DEF Underway, TablesOK
  <2>2. Visited(e, k) = e \cup {k} /\ e \cup {k} \subseteq There
    BY <1>2 DEF Underway, Visited
  <2>3. /\ e \cup {k} \subseteq Visited(e \cup {k}, role[k].parent)
        /\ Visited(e \cup {k}, role[k].parent) \subseteq Inherited(e \cup {k})
    BY <1>a, <2>2, InheritedLeast DEF Visited, Closed
  <2>4. Inherited(Visited(e \cup {k}, role[k].parent)) = Inherited(e \cup {k})
    BY <2>2, <2>3, InheritedAlready
  <2> QED
    BY <1>2, <2>1, <2>2, <2>4
<1>3. Bad = {}
  <2> SUFFICES ASSUME Bad # {} PROVE FALSE
    OBVIOUS
  <2>1. PICK X \in Bad : \A Y \in Bad : Y \subseteq X => Y = X
    <3>1. Bad \subseteq SUBSET There
      OBVIOUS
    <3> HIDE DEF Bad
    <3> QED
      BY <3>1, SmallestOf
  <2>2. PICK k \in There \cup {NoRole} : Underway(There \ X, k) /\ ~Right(There \ X, k)
    OBVIOUS
  <2>3. k \in X /\ k \in There
    BY <1>1, <2>2
  <2>4. There \ (X \ {k}) = (There \ X) \cup {k}
    BY <2>3
  <2>5. Underway((There \ X) \cup {k}, role[k].parent)
    BY <2>2, <2>3, <1>a DEF Underway, TablesOK, NoOrphans
  <2>6. X \ {k} \notin Bad
    BY <2>1, <2>3
  <2>7. Right((There \ X) \cup {k}, role[k].parent)
    <3>1. role[k].parent \in There \cup {NoRole}
      BY <2>5 DEF Underway
    <3> HIDE DEF Right
    <3> QED
      BY <2>4, <2>5, <2>6, <3>1
  <2> QED
    BY <1>2, <2>2, <2>3, <2>7
<1>4. There \ (There \ eff) = eff /\ There \ eff \in SUBSET There
  BY DEF Underway
<1> QED
  <2> HIDE DEF Right
  <2>a. i \in There \cup {NoRole}
    BY DEF Underway
  <2>1. Right(eff, i)
    BY <2>a, <1>3, <1>4
  <2> QED
    BY <2>1 DEF Right

-----------------------------------------------------------------------------
(* What the loop over the names computes *)

Roots(names) == UNION {Named(n) : n \in names}

(***************************************************************************)
(* The roles that a resolution collects for some names are those that the  *)
(* roles of these names inherit, in whatever order it comes to them.       *)
(***************************************************************************)
THEOREM CollectIsInheritance ==
  ASSUME TablesOK, IsFiniteSet(There), NEW names
  PROVE  Collect(names) = Inherited(Roots(names))
<1> DEFINE S == Roots(names)
           pick(s) == CHOOSE x \in s : TRUE
           Step(f, s) == IF s = {} THEN {} ELSE collectRoles[f[s \ {pick(s)}]][pick(s)]
           Eq(f) == f = [s \in SUBSET S |-> Step(f, s)]
           g == [s \in SUBSET S |-> Inherited(s)]
<1>0. S \subseteq There /\ NoRole \notin There
  BY NamesAssumption DEF Roots, Named, There
<1>1. Collect(names) = (CHOOSE f : Eq(f))[S]
  BY DEF Collect, FoldSet, MapThenFoldSet, Roots
<1>2. ASSUME NEW s \in SUBSET S, s # {}
      PROVE  collectRoles[Inherited(s \ {pick(s)})][pick(s)] = Inherited(s)
  <2> DEFINE x == pick(s)
             rest == s \ {x}
  <2>1. x \in s /\ x \in There /\ rest \subseteq There /\ s \subseteq There
    BY <1>0, <1>2
  <2> HIDE DEF x
  <2>2. Inherited(rest) \subseteq There /\ Closed(Inherited(rest), rest)
    BY <2>1, InheritedLeast
  <2>3. Underway(Inherited(rest), x)
    BY <2>1, <2>2 DEF Underway, Closed
  <2>4. collectRoles[Inherited(rest)][x] = Inherited(Inherited(rest) \cup {x})
    BY <2>1, <2>3, CollectOne DEF Visited
  <2>5. s \subseteq Inherited(rest) \cup {x} /\ Inherited(rest) \cup {x} \subseteq Inherited(s)
    BY <2>1, <2>2, InheritedMonotone, InheritedLeast DEF Closed
  <2>6. Inherited(Inherited(rest) \cup {x}) = Inherited(s)
    BY <2>1, <2>5, InheritedAlready
  <2> QED
    BY <2>4, <2>6 DEF x
<1>3. Inherited({}) = {}
  BY InheritedClosed DEF Closed
<1>4. Eq(g)
  <2>1. ASSUME NEW s \in SUBSET S PROVE g[s] = Step(g, s)
    <3>1. s # {} => s \ {pick(s)} \in SUBSET S /\ g[s \ {pick(s)}] = Inherited(s \ {pick(s)})
      OBVIOUS
    <3> QED
      BY <1>2, <1>3, <3>1
  <2>2. g = [s \in SUBSET S |-> g[s]]
    OBVIOUS
  <2> HIDE DEF Step, g
  <2> QED
    BY <2>1, <2>2
<1>5. PICK f : Eq(f) /\ Collect(names) = f[S]
  <2> HIDE DEF Eq
  <2>1. Eq(CHOOSE f : Eq(f))
    BY <1>4
  <2> QED
    BY <1>1, <2>1
<1>6. \A s \in SUBSET S : f[s] = Step(f, s)
  <2> HIDE DEF Step
  <2> QED
    BY <1>5
<1> DEFINE Wrong == {s \in SUBSET S : f[s] # Inherited(s)}
<1>7. Wrong = {}
  <2> SUFFICES ASSUME Wrong # {} PROVE FALSE
    OBVIOUS
  <2>1. IsFiniteSet(S)
    BY <1>0, FS_Subset
  <2>2. PICK s \in Wrong : \A t \in Wrong : t \subseteq s => t = s
    <3>1. Wrong \subseteq SUBSET S
      OBVIOUS
    <3> HIDE DEF Wrong, S
    <3> QED
      BY <2>1, <3>1, SmallestOf
  <2>3. s # {}
    BY <1>3, <1>6
  <2>4. pick(s) \in s
    BY <2>3
  <2>5. f[s \ {pick(s)}] = Inherited(s \ {pick(s)})
    <3> HIDE DEF pick
    <3> QED
      BY <2>2, <2>4
  <2>6. f[s] = collectRoles[Inherited(s \ {pick(s)})][pick(s)]
    BY <1>6, <2>3, <2>5
  <2> QED
    BY <1>2, <2>3, <2>6
<1> QED
  BY <1>5, <1>7

-----------------------------------------------------------------------------
(* What a token may hold *)

(***************************************************************************)
(* Only removals have been committed since the resolution began: the user's *)
(* own roles are still among those it was given the names of, and whatever *)
(* these inherit the user had at the start.  Of the roles that the user    *)
(* still has, each is yet to be read or was read.                          *)
(***************************************************************************)
ShrunkOK(q) ==
  /\ DirectRoles(q.user) \subseteq Roots(q.names)
  /\ NamesOf(Inherited(Roots(q.names))) \subseteq q.hadRoles
  /\ PermsOf(Inherited(Roots(q.names))) \subseteq q.hadPerms
  /\ q.pc # "mint.roles" => EffectiveRoles(q.user) \subseteq q.roles /\ q.roles \subseteq q.hadRoles
  /\ q.pc \in {"mint.perms", "mint.done"} =>
       \A i \in Inherited(DirectRoles(q.user)) : i \in q.todo \/ PermsOf({i}) \subseteq q.perms
  /\ PermsOf(q.todo) \cup q.perms \subseteq q.hadPerms

(***************************************************************************)
(* Only additions have: the roles it was given the names of are there and  *)
(* are still the user's, and what the user had at the start they inherit.  *)
(* What is yet to be read and what was read the user has.                  *)
(***************************************************************************)
GrownOK(q) ==
  /\ Roots(q.names) \subseteq DirectRoles(q.user)
  /\ \A n \in q.names : Named(n) # {}
  /\ q.hadRoles \subseteq NamesOf(Inherited(Roots(q.names)))
  /\ q.hadPerms \subseteq PermsOf(Inherited(Roots(q.names)))
  /\ q.pc # "mint.roles" => q.hadRoles \subseteq q.roles /\ q.roles \subseteq EffectiveRoles(q.user)
  /\ q.pc \in {"mint.perms", "mint.done"} => q.hadPerms \subseteq q.perms \cup PermsOf(q.todo)
  /\ q.todo \subseteq Inherited(DirectRoles(q.user)) /\ q.perms \subseteq EffectivePerms(q.user)

(* What a request holds beside that. *)
HeldOK(q) ==
  /\ q.pc \notin {"mint.perms", "mint.done"} => q.perms = {} /\ q.todo = {}
  /\ q.pc = "mint.done" => q.todo = {}
  /\ q.pc \in MintSteps => q.user \in Users
  /\ q.pc \in {"create.parent", "create.insert"} => q.name \in Names

MintOK(r) ==
  /\ HeldOK(req[r])
  /\ ~Minting(r) => writes[r] = {}
  /\ Minting(r) /\ "add" \notin writes[r] => ShrunkOK(req[r])
  /\ Minting(r) /\ "remove" \notin writes[r] => GrownOK(req[r])

(* The table of roles is finite and its roles have names. *)
RolesOK == IsFiniteSet(There) /\ \A i \in There : role[i].name \in Names

(* The inductive invariant of resolutions. *)
MInv == IInv /\ RolesOK /\ \A r \in Requests : MintOK(r)

-----------------------------------------------------------------------------
(* Steps that take away and steps that add *)

Shrinks ==
  /\ There' \subseteq There
  /\ \A i \in There' : role'[i].name = role[i].name
  /\ assigned' \subseteq assigned /\ granted' \subseteq granted
  /\ \A ids \in SUBSET There, more \in SUBSET There' :
       more \subseteq ids => InheritedAfter(more) \subseteq Inherited(ids)

Grows ==
  /\ There \subseteq There'
  /\ \A i \in There : role'[i].name = role[i].name
  /\ assigned \subseteq assigned' /\ granted \subseteq granted'
  /\ \A ids \in SUBSET There, more \in SUBSET There' :
       ids \subseteq more => Inherited(ids) \subseteq InheritedAfter(more)

LEMMA RootsThere == ASSUME NEW names PROVE Roots(names) \subseteq There
BY DEF Roots, Named

LEMMA RootsOf ==
  ASSUME NEW names, NEW i
  PROVE  i \in Roots(names) <=> i \in There /\ role[i].name \in names
BY DEF Roots, Named

LEMMA InheritedPrimed == ASSUME NEW ids PROVE Inherited(ids)' = InheritedAfter(ids)
BY DEF Inherited, InheritedAfter

(* What holds of a resolution while only removals are committed goes on to hold. *)
LEMMA ShrunkKeeps ==
  ASSUME IInv, IInv', Shrinks, NEW q, q.user \in Users, ShrunkOK(q)
  PROVE  ShrunkOK(q)'
<1> DEFINE u == q.user
<1>1. PICK d, e : /\ d = DirectRoles(u) /\ e = DirectRoles(u)'
                  /\ d \subseteq There /\ e \subseteq There' /\ e \subseteq d
  <2>1. DirectRoles(u) \subseteq There
    BY DirectThere
  <2>2. DirectRoles(u)' \subseteq There'
    BY DEF DirectRoles, IInv, TablesOK, NoOrphans
  <2> QED
    BY <2>1, <2>2 DEF Shrinks, DirectRoles
<1>2. PICK s, t : /\ s = Roots(q.names) /\ t = Roots(q.names)'
                  /\ s \subseteq There /\ t \subseteq There' /\ t \subseteq s
  <2>1. Roots(q.names) \subseteq There /\ Roots(q.names)' \subseteq There'
    BY DEF Roots, Named
  <2>2. Roots(q.names)' \subseteq Roots(q.names)
    BY DEF Roots, Named, Shrinks
  <2> QED
    BY <2>1, <2>2
<1>3. e \subseteq t
  <2>1. ASSUME NEW i \in e PROVE i \in There' /\ role'[i].name \in q.names
    BY <1>1, <1>2, RootsOf DEF Shrinks, ShrunkOK
  <2> QED
    BY <1>2, <2>1 DEF Roots, Named
<1>4. Inherited(DirectRoles(u))' = InheritedAfter(e) /\ Inherited(Roots(q.names))' = InheritedAfter(t)
  BY <1>1, <1>2 DEF Inherited, InheritedAfter
<1>5. InheritedAfter(e) \subseteq Inherited(d) /\ InheritedAfter(t) \subseteq Inherited(s)
  BY <1>1, <1>2 DEF Shrinks
<1>6. InheritedAfter(e) \subseteq There' /\ InheritedAfter(t) \subseteq There'
  BY DEF InheritedAfter
<1>7. EffectiveRoles(u)' \subseteq EffectiveRoles(u)
  BY <1>1, <1>4, <1>5, <1>6 DEF EffectiveRoles, NamesOf, Shrinks
<1>8. NamesOf(Inherited(Roots(q.names)))' \subseteq NamesOf(Inherited(Roots(q.names)))
  BY <1>2, <1>4, <1>5, <1>6 DEF NamesOf, Shrinks
<1>9. PermsOf(Inherited(Roots(q.names)))' \subseteq PermsOf(Inherited(Roots(q.names)))
  BY <1>2, <1>4, <1>5 DEF PermsOf, Shrinks
<1>10. PermsOf(q.todo)' \subseteq PermsOf(q.todo) /\ \A i : PermsOf({i})' \subseteq PermsOf({i})
  BY DEF PermsOf, Shrinks
<1>11. q.pc \in {"mint.perms", "mint.done"} =>
         \A i \in Inherited(DirectRoles(u))' : i \in q.todo \/ PermsOf({i})' \subseteq q.perms
  BY <1>1, <1>4, <1>5, <1>10 DEF ShrunkOK
<1> QED
  BY <1>1, <1>2, <1>3, <1>7, <1>8, <1>9, <1>10, <1>11 DEF ShrunkOK

(* And so while only additions are. *)
LEMMA GrownKeeps ==
  ASSUME IInv, IInv', Grows, NEW q, q.user \in Users, GrownOK(q)
  PROVE  GrownOK(q)'
<1> DEFINE u == q.user
<1>1. PICK d, e : /\ d = DirectRoles(u) /\ e = DirectRoles(u)'
                  /\ d \subseteq There /\ e \subseteq There' /\ d \subseteq e
  <2>1. DirectRoles(u) \subseteq There
    BY DirectThere
  <2>2. DirectRoles(u)' \subseteq There'
    BY DEF DirectRoles, IInv, TablesOK, NoOrphans
  <2> QED
    BY <2>1, <2>2 DEF Grows, DirectRoles
<1>2. PICK s, t : /\ s = Roots(q.names) /\ t = Roots(q.names)'
                  /\ s \subseteq There /\ t \subseteq There' /\ s \subseteq t
  <2>1. Roots(q.names) \subseteq There /\ Roots(q.names)' \subseteq There'
    BY DEF Roots, Named
  <2>2. Roots(q.names) \subseteq Roots(q.names)'
    BY DEF Roots, Named, Grows
  <2> QED
    BY <2>1, <2>2
(* No other role can have taken one of the names. *)
<1>3. t = s /\ \A n \in q.names : Named(n)' # {}
  <2>1. \A n \in q.names : \E i \in There : role[i].name = n
    BY DEF GrownOK, Named
  <2>2. ASSUME NEW j \in t PROVE j \in s
    <3>1. j \in There' /\ role'[j].name \in q.names
      BY <1>2, <2>2 DEF Roots, Named
    <3>2. PICK i \in There : role[i].name = role'[j].name
      BY <2>1, <3>1
    <3>3. i = j
      BY <3>1, <3>2 DEF Grows, IInv, TablesOK, NamesUnique
    <3> QED
      BY <1>2, <3>1, <3>2, <3>3, RootsOf
  <2>3. ASSUME NEW n \in q.names PROVE Named(n)' # {}
    BY <2>1 DEF Named, Grows
  <2> QED
    BY <1>2, <2>2, <2>3
<1>4. Inherited(DirectRoles(u))' = InheritedAfter(e) /\ Inherited(Roots(q.names))' = InheritedAfter(t)
  BY <1>1, <1>2 DEF Inherited, InheritedAfter
<1>5. Inherited(d) \subseteq InheritedAfter(e) /\ Inherited(s) \subseteq InheritedAfter(t)
  BY <1>1, <1>2 DEF Grows
<1>6. Inherited(d) \subseteq There /\ Inherited(s) \subseteq There
  BY DEF Inherited
<1>7. EffectiveRoles(u) \subseteq EffectiveRoles(u)'
  BY <1>1, <1>4, <1>5, <1>6 DEF EffectiveRoles, NamesOf, Grows
<1>8. EffectivePerms(u) \subseteq EffectivePerms(u)'
  BY <1>1, <1>4, <1>5 DEF EffectivePerms, PermsOf, Grows
<1>9. NamesOf(Inherited(Roots(q.names))) \subseteq NamesOf(Inherited(Roots(q.names)))'
  BY <1>2, <1>4, <1>5, <1>6 DEF NamesOf, Grows
<1>10. PermsOf(Inherited(Roots(q.names))) \subseteq PermsOf(Inherited(Roots(q.names)))'
  BY <1>2, <1>4, <1>5 DEF PermsOf, Grows
<1>11. PermsOf(q.todo) \subseteq PermsOf(q.todo)'
  BY DEF PermsOf, Grows
<1>12. q.todo \subseteq Inherited(DirectRoles(u))'
  BY <1>1, <1>4, <1>5 DEF GrownOK
<1>13. Roots(q.names)' \subseteq DirectRoles(u)'
  BY <1>1, <1>2, <1>3 DEF GrownOK
<1> QED
  BY <1>3, <1>7, <1>8, <1>9, <1>10, <1>11, <1>12, <1>13 DEF GrownOK

LEMMA ShrinksWhen ==
  ASSUME IInv, IInv', There' \subseteq There,
         \A i \in There' : /\ role'[i].name = role[i].name
                           /\ role'[i].parent \in {role[i].parent, NoRole},
         assigned' \subseteq assigned, granted' \subseteq granted
  PROVE  Shrinks
<1>1. ASSUME NEW ids \in SUBSET There, NEW more \in SUBSET There', more \subseteq ids
      PROVE  InheritedAfter(more) \subseteq Inherited(ids)
  <2>1. ASSUME NEW X \in SUBSET There, Closed(X, ids)
        PROVE  \E Y \in SUBSET There' : /\ Y \subseteq X /\ more \subseteq Y
                                        /\ \A j \in Y : role'[j].parent \in Y \cup {NoRole}
    <3> DEFINE Y == X \cap There'
    <3>1. Y \in SUBSET There' /\ Y \subseteq X /\ more \subseteq Y
      BY <1>1, <2>1 DEF Closed
    <3>2. ASSUME NEW j \in Y PROVE role'[j].parent \in Y \cup {NoRole}
      BY <2>1, <3>2 DEF Closed, IInv, TablesOK, NoOrphans
    <3> QED
      BY <3>1, <3>2
  <2> QED
    BY <1>1, <2>1, InheritedShrinks
<1> QED
  BY <1>1 DEF Shrinks

LEMMA GrowsWhen ==
  ASSUME IInv, IInv', There \subseteq There',
         \A i \in There : role'[i].name = role[i].name /\ role'[i].parent = role[i].parent,
         assigned \subseteq assigned', granted \subseteq granted'
  PROVE  Grows
<1>1. ASSUME NEW ids \in SUBSET There, NEW more \in SUBSET There', ids \subseteq more,
             NEW i \in Inherited(ids)
      PROVE  i \in InheritedAfter(more)
  <2>1. ASSUME NEW X \in SUBSET There', more \subseteq X,
               \A j \in X : role'[j].parent \in X \cup {NoRole}
        PROVE  i \in X
    <3>1. X \cap There \in SUBSET There /\ ids \subseteq X \cap There
      BY <1>1, <2>1
    <3>2. \A j \in X \cap There : role[j].parent \in (X \cap There) \cup {NoRole}
      BY <2>1 DEF IInv, TablesOK, NoOrphans
    <3> QED
      BY <1>1, <3>1, <3>2 DEF Inherited
  <2>2. i \in There'
    BY <1>1 DEF Inherited
  <2> QED
    BY <2>1, <2>2 DEF InheritedAfter
<1> QED
  BY <1>1 DEF Grows

LEMMA Quiet ==
  ASSUME IInv, IInv', UNCHANGED <<role, assigned, granted>> PROVE Shrinks /\ Grows
<1>1. There' = There
  BY DEF There
<1> QED
  BY <1>1, ShrinksWhen, GrowsWhen

(* What a step is to the request d, when it is not d's own. *)
Harmless(d) ==
  \/ Wrote("add") /\ Grows
  \/ Wrote("remove") /\ Shrinks
  \/ Shrinks /\ Grows /\ writes'[d] = writes[d]

LEMMA OthersKeep ==
  ASSUME MInv, IInv', NEW d \in Requests, Harmless(d), req'[d] = req[d]
  PROVE  MintOK(d)'
<1>1. PICK q : q = req[d] /\ q = req'[d]
  OBVIOUS
<1>2. HeldOK(q)' /\ (Minting(d)' <=> Minting(d)) /\ (Minting(d) => q.user \in Users)
  BY <1>1 DEF MInv, MintOK, HeldOK, Minting
<1>3. writes[d] \subseteq writes'[d] /\ (~Minting(d) => writes'[d] = {})
  BY DEF Harmless, Wrote, MInv, MintOK
<1>4. ASSUME Minting(d), "add" \notin writes'[d] PROVE ShrunkOK(q)'
  <2>1. ShrunkOK(q)
    BY <1>1, <1>3, <1>4 DEF MInv, MintOK
  <2>2. Shrinks
    BY <1>4 DEF Harmless, Wrote
  <2> QED
    BY <1>2, <1>4, <2>1, <2>2, ShrunkKeeps DEF MInv
<1>5. ASSUME Minting(d), "remove" \notin writes'[d] PROVE GrownOK(q)'
  <2>1. GrownOK(q)
    BY <1>1, <1>3, <1>5 DEF MInv, MintOK
  <2>2. Grows
    BY <1>5 DEF Harmless, Wrote
  <2> QED
    BY <1>2, <1>5, <2>1, <2>2, GrownKeeps DEF MInv
<1>6. HeldOK(req[d])' /\ (ShrunkOK(q)' <=> ShrunkOK(req[d])') /\ (GrownOK(q)' <=> GrownOK(req[d])')
  BY <1>1, <1>2
<1> QED
  BY <1>2, <1>3, <1>4, <1>5, <1>6 DEF MintOK

-----------------------------------------------------------------------------
(* What the steps of one request do to the resolutions of the others *)

LEMMA InsertHarmless ==
  ASSUME IInv, IInv', NEW r \in Requests, RoleInsert(r) PROVE \A d : Harmless(d)
<1>1. CASE UNCHANGED <<role, writes>>
  BY <1>1, Quiet DEF RoleInsert, Harmless
<1>2. CASE ~UNCHANGED <<role, writes>>
  <2>1. Wrote("add") /\ UNCHANGED <<assigned, granted>>
    BY <1>2 DEF RoleInsert
  <2>2. PICK i \in RoleIds :
          /\ role[i].status = "unused"
          /\ role' = [role EXCEPT ![i] =
                        [status |-> "there", name |-> req[r].name, parent |-> req[r].id]]
    BY <1>2 DEF RoleInsert
  <2>3. There \subseteq There' /\ \A j \in There : role'[j] = role[j]
    BY <2>2 DEF There, IInv, TablesOK, TablesType
  <2> QED
    BY <2>1, <2>3, GrowsWhen DEF Harmless
<1> QED
  BY <1>1, <1>2

LEMMA GrantsHarmless ==
  ASSUME IInv, IInv', NEW r \in Requests, GrantUpsert(r) \/ AssignUpsert(r)
  PROVE  \A d : Harmless(d)
<1>1. CASE UNCHANGED <<assigned, granted, writes>>
  BY <1>1, Quiet DEF GrantUpsert, AssignUpsert, Harmless
<1>2. CASE ~UNCHANGED <<assigned, granted, writes>>
  <2>1. /\ Wrote("add") /\ role' = role
        /\ assigned \subseteq assigned' /\ granted \subseteq granted'
    BY <1>2 DEF GrantUpsert, AssignUpsert
  <2>2. There' = There
    BY <2>1 DEF There
  <2> QED
    BY <2>1, <2>2, GrowsWhen DEF Harmless
<1> QED
  BY <1>1, <1>2

LEMMA RemovalsHarmless ==
  ASSUME IInv, IInv', NEW r,
         \/ \E i \in RoleIds : DeleteRole(i)
         \/ \E i \in RoleIds, p \in Perms : RemovePermission(i, p)
         \/ RemoveDelete(r)
  PROVE  Shrinks /\ \A d : Harmless(d)
<1>1. ASSUME NEW i \in RoleIds, DeleteRole(i) PROVE Wrote("remove") /\ Shrinks
  <2>1. Wrote("remove") /\ assigned' \subseteq assigned /\ granted' \subseteq granted
    BY <1>1 DEF DeleteRole
  <2>2. /\ There' \subseteq There
        /\ \A j \in There' : /\ role'[j].name = role[j].name
                             /\ role'[j].parent \in {role[j].parent, NoRole}
    BY <1>1, DeleteEffect
  <2> QED
    BY <2>1, <2>2, ShrinksWhen
<1>2. CASE RemoveDelete(r) \/ \E i \in RoleIds, p \in Perms : RemovePermission(i, p)
  <2>1. /\ Wrote("remove") /\ role' = role
        /\ assigned' \subseteq assigned /\ granted' \subseteq granted
    BY <1>2 DEF RemoveDelete, RemovePermission
  <2>2. There' = There
    BY <2>1 DEF There
  <2> QED
    BY <2>1, <2>2, ShrinksWhen DEF Harmless
<1> QED
  BY <1>1, <1>2 DEF Harmless

(* A step of a request that writes none of the tables a resolution reads. *)
LEMMA ReadsHarmless ==
  ASSUME IInv, IInv', NEW r \in Requests, UNCHANGED <<role, assigned, granted>>,
         UNCHANGED writes \/ writes' = [writes EXCEPT ![r] = {}]
  PROVE  \A d \in Requests \ {r} : Harmless(d)
BY Quiet DEF Harmless, IInv, HistoryOK

-----------------------------------------------------------------------------
(* What the steps of a request do to itself *)

(* A request that is served something else than a token, or nothing any more. *)
LEMMA AdminKeeps ==
  ASSUME MInv, IInv', NEW r \in Requests, NEW q, Become(r, q), HeldOK(q), q.pc \notin MintSteps,
         writes'[r] = {}
  PROVE  MintOK(r)'
<1>1. req'[r] = q
  BY DEF Become, MInv, IInv, RequestsOK
<1> QED
  BY <1>1 DEF MintOK, Minting, HeldOK

LEMMA IdleHeld == HeldOK(Idle) /\ Idle.pc \notin MintSteps
BY DEF HeldOK, Idle, MintSteps

(* Administration holds no names and no permissions of a resolution. *)
LEMMA AdminHeld ==
  ASSUME NEW old, HeldOK(old), old.pc \notin MintSteps, NEW q,
         q.pc \in AdminSteps, q.perms = old.perms, q.todo = old.todo,
         q.pc \in {"create.parent", "create.insert"} => q.name \in Names
  PROVE  HeldOK(q) /\ q.pc \notin MintSteps
BY DEF HeldOK, AdminSteps, MintSteps

(* A resolution that goes on, with locals that are right for the tables as they are. *)
LEMMA MintGoesOn ==
  ASSUME MInv, IInv', NEW r \in Requests, NEW q, Become(r, q),
         UNCHANGED <<role, assigned, granted, writes>>,
         HeldOK(q), q.pc \in MintSteps,
         "add" \notin writes[r] => ShrunkOK(q),
         "remove" \notin writes[r] => GrownOK(q)
  PROVE  MintOK(r)'
<1>1. req'[r] = q
  BY DEF Become, MInv, IInv, RequestsOK
<1>2. q.user \in Users
  BY DEF HeldOK
<1>3. Shrinks /\ Grows
  BY Quiet DEF MInv
<1>4. "add" \notin writes'[r] => ShrunkOK(q)'
  BY <1>2, <1>3, ShrunkKeeps DEF MInv
<1>5. "remove" \notin writes'[r] => GrownOK(q)'
  BY <1>2, <1>3, GrownKeeps DEF MInv
<1>6. HeldOK(req[r])' /\ (ShrunkOK(q)' <=> ShrunkOK(req[r])') /\ (GrownOK(q)' <=> GrownOK(req[r])')
  BY <1>1 DEF HeldOK
<1> QED
  BY <1>1, <1>4, <1>5, <1>6 DEF MintOK, Minting

LEMMA CreatesKeep ==
  ASSUME MInv, IInv', NEW r \in Requests,
         \/ \E n \in Names, p \in RoleIds \cup {NoRole} : CreateRole(r, n, p)
         \/ CreateRoleParent(r)
  PROVE  MintOK(r)'
<1>0. HeldOK(req[r]) /\ ~Minting(r) /\ writes[r] = {} /\ writes' = writes /\ req[r] \in Request
  BY DEF MInv, MintOK, CreateRole, CreateRoleParent, At, Unwritten, Minting, MintSteps,
         IInv, RequestsOK
<1>1. CASE \E n \in Names, p \in RoleIds \cup {NoRole} : CreateRole(r, n, p)
  <2>1. PICK n \in Names, p \in RoleIds \cup {NoRole} : CreateRole(r, n, p)
    BY <1>1
  <2>2. CASE req' = req
    BY <1>0, <2>2 DEF MintOK, HeldOK, Minting
  <2>3. CASE req' # req
    <3>0. PICK step \in {"create.insert", "create.parent"} :
            step = IF p = NoRole THEN "create.insert" ELSE "create.parent"
      OBVIOUS
    <3>1. PICK q : q = [req[r] EXCEPT !.pc = step, !.name = n, !.id = p] /\ Become(r, q)
      BY <2>1, <2>3, <3>0 DEF CreateRole
    <3>2. /\ q.pc = step /\ q.name = n
          /\ q.perms = req[r].perms /\ q.todo = req[r].todo
      BY <1>0, <3>1 DEF Request
    <3>3. HeldOK(q) /\ q.pc \notin MintSteps
      BY <1>0, <3>2, AdminHeld, StepNames DEF Minting
    <3> QED
      BY <1>0, <3>1, <3>3, AdminKeeps
  <2> QED
    BY <2>2, <2>3
<1>2. CASE CreateRoleParent(r)
  <2>1. CASE Finish(r)
    BY <1>0, <2>1, AdminKeeps, IdleHeld DEF Finish
  <2>2. CASE Goto(r, "create.insert")
    <3>1. PICK q : q = [req[r] EXCEPT !.pc = "create.insert"] /\ Become(r, q)
      BY <2>2 DEF Goto
    <3>2. /\ q.pc = "create.insert" /\ q.name = req[r].name
          /\ q.perms = req[r].perms /\ q.todo = req[r].todo
      BY <1>0, <3>1 DEF Request
    <3>3. req[r].name \in Names
      BY <1>0, <1>2 DEF CreateRoleParent, At, HeldOK
    <3>4. HeldOK(q) /\ q.pc \notin MintSteps
      BY <1>0, <3>2, <3>3, AdminHeld, StepNames DEF Minting
    <3> QED
      BY <1>0, <3>1, <3>4, AdminKeeps
  <2> QED
    BY <1>2, <2>1, <2>2 DEF CreateRoleParent
<1> QED
  BY <1>1, <1>2

(* The other reads of administration, none of which leads to an INSERT of a role. *)
LEMMA AdminReadsKeep ==
  ASSUME MInv, IInv', NEW r \in Requests,
         \/ \E p \in Perms : CreatePermission(r, p)
         \/ \E i \in RoleIds, p \in Perms : AssignPermission(r, i, p)
         \/ \E u \in Users, n \in Names : AssignRole(r, u, n) \/ RemoveRole(r, u, n)
         \/ AssignFind(r) \/ AssignLookup(r) \/ RemoveLookup(r)
  PROVE  MintOK(r)'
<1> DEFINE steps == {"permission.insert", "grant.upsert", "assign.find", "assign.lookup",
                     "assign.upsert", "remove.lookup", "remove.delete"}
<1>0. HeldOK(req[r]) /\ ~Minting(r) /\ writes[r] = {} /\ writes' = writes /\ req[r] \in Request
  BY DEF MInv, MintOK, CreatePermission, AssignPermission, AssignRole, RemoveRole, AssignFind,
         AssignLookup, RemoveLookup, At, Unwritten, Minting, MintSteps, IInv, RequestsOK
<1>1. CASE req' = req
  BY <1>0, <1>1 DEF MintOK, HeldOK, Minting
<1>2. CASE Finish(r)
  BY <1>0, <1>2, AdminKeeps, IdleHeld DEF Finish
<1>3. ASSUME NEW step \in steps, NEW u, NEW n, NEW i, NEW p,
             Become(r, [req[r] EXCEPT !.pc = step, !.user = u, !.name = n, !.id = i, !.perm = p])
      PROVE  MintOK(r)'
  <2>1. PICK q : /\ q = [req[r] EXCEPT !.pc = step, !.user = u, !.name = n, !.id = i, !.perm = p]
                 /\ Become(r, q)
    BY <1>3
  <2>2. q.pc = step /\ q.perms = req[r].perms /\ q.todo = req[r].todo
    BY <1>0, <2>1 DEF Request
  <2>3. HeldOK(q) /\ q.pc \notin MintSteps
    BY <1>0, <2>2, AdminHeld, StepNames DEF Minting
  <2> QED
    BY <1>0, <2>1, <2>3, AdminKeeps
<1>4. CASE ~UNCHANGED req /\ ~Finish(r)
  <2> DEFINE With(step, u, n, i, p) ==
        Become(r, [req[r] EXCEPT !.pc = step, !.user = u, !.name = n, !.id = i, !.perm = p])
  <2>1. \E step \in steps : \E u, n, i, p : With(step, u, n, i, p)
    <3>1. ASSUME NEW p \in Perms, CreatePermission(r, p)
          PROVE  With("permission.insert", req[r].user, req[r].name, req[r].id, p)
      BY <1>0, <1>4, <3>1 DEF CreatePermission, Request
    <3>2. ASSUME NEW i \in RoleIds, NEW p \in Perms, AssignPermission(r, i, p)
          PROVE  With("grant.upsert", req[r].user, req[r].name, i, p)
      BY <1>0, <1>4, <3>2 DEF AssignPermission, Request
    <3>3. ASSUME NEW u \in Users, NEW n \in Names, AssignRole(r, u, n)
          PROVE  With("assign.find", u, n, req[r].id, req[r].perm)
      BY <1>0, <1>4, <3>3 DEF AssignRole, Request
    <3>4. ASSUME NEW u \in Users, NEW n \in Names, RemoveRole(r, u, n)
          PROVE  With("remove.lookup", u, n, req[r].id, req[r].perm)
      BY <1>0, <1>4, <3>4 DEF RemoveRole, Request
    <3>5. ASSUME AssignFind(r)
          PROVE  With("assign.lookup", req[r].user, req[r].name, req[r].id, req[r].perm)
      BY <1>0, <1>4, <3>5 DEF AssignFind, Goto, Request
    <3>6. ASSUME AssignLookup(r)
          PROVE  \E i : With("assign.upsert", req[r].user, req[r].name, i, req[r].perm)
      BY <1>0, <1>4, <3>6 DEF AssignLookup, Request
    <3>7. ASSUME RemoveLookup(r)
          PROVE  \E i : With("remove.delete", req[r].user, req[r].name, i, req[r].perm)
      BY <1>0, <1>4, <3>7 DEF RemoveLookup, Request
    <3> HIDE DEF With
    <3> QED
      BY <3>1, <3>2, <3>3, <3>4, <3>5, <3>6, <3>7
  <2> QED
    BY <1>3, <2>1
<1> QED
  BY <1>1, <1>2, <1>4

(* The end of whatever a request is served. *)
LEMMA EndsKeep ==
  ASSUME MInv, IInv', NEW r \in Requests,
         \/ RoleInsert(r) \/ PermissionInsert(r) \/ GrantUpsert(r) \/ AssignUpsert(r)
         \/ RemoveDelete(r) \/ MintDone(r) \/ Fail(r)
  PROVE  MintOK(r)'
<1>1. Finish(r)
  BY DEF RoleInsert, PermissionInsert, GrantUpsert, AssignUpsert, RemoveDelete, MintDone, Fail
<1>2. writes'[r] = {}
  <2>1. CASE MintDone(r) \/ Fail(r)
    BY <2>1 DEF MintDone, Fail, MInv, IInv, HistoryOK
  <2>2. CASE RoleInsert(r) \/ PermissionInsert(r) \/ GrantUpsert(r) \/ AssignUpsert(r)
             \/ RemoveDelete(r)
    <3>1. ~Minting(r) /\ writes[r] = {}
      BY <2>2 DEF RoleInsert, PermissionInsert, GrantUpsert, AssignUpsert, RemoveDelete, At, Minting,
                  MintSteps, MInv, MintOK
    <3>2. writes' = writes \/ Wrote("add") \/ Wrote("remove")
      BY <2>2 DEF RoleInsert, PermissionInsert, GrantUpsert, AssignUpsert, RemoveDelete
    <3> QED
      BY <3>1, <3>2 DEF Wrote
  <2> QED
    BY <2>1, <2>2
<1> QED
  BY <1>1, <1>2, AdminKeeps, IdleHeld DEF Finish

-----------------------------------------------------------------------------
(* The steps of a resolution *)

(* The names of roles that are there name these roles, and no other. *)
LEMMA RootsOfNames ==
  ASSUME MInv, NEW ids \in SUBSET There PROVE Roots(NamesOf(ids)) = ids
<1>1. ASSUME NEW i \in ids PROVE i \in Roots(NamesOf(ids))
  BY RootsOf DEF NamesOf, MInv, RolesOK
<1>2. ASSUME NEW i \in Roots(NamesOf(ids)) PROVE i \in ids
  BY RootsOf DEF NamesOf, MInv, IInv, TablesOK, NamesUnique
<1> QED
  BY <1>1, <1>2

LEMMA MintStarts ==
  ASSUME MInv, IInv', NEW r \in Requests, NEW u \in Users, Mint(r, u) PROVE MintOK(r)'
<1>0. /\ HeldOK(req[r]) /\ req[r].pc = "idle" /\ req[r] \in Request
      /\ UNCHANGED <<role, assigned, granted, writes>>
  BY DEF MInv, MintOK, Mint, At, IInv, RequestsOK
<1>1. PICK ids : ids = DirectRoles(u) /\ ids \subseteq There
  BY DirectThere DEF MInv
<1>2. PICK q : /\ q = [req[r] EXCEPT !.pc = "mint.roles", !.user = u, !.names = NamesOf(ids),
                                     !.hadRoles = EffectiveRoles(u),
                                     !.hadPerms = EffectivePerms(u)]
               /\ Become(r, q)
  BY <1>1 DEF Mint
<1>3. /\ q.pc = "mint.roles" /\ q.user = u /\ q.names = NamesOf(ids)
      /\ q.hadRoles = EffectiveRoles(u) /\ q.hadPerms = EffectivePerms(u)
      /\ q.perms = req[r].perms /\ q.todo = req[r].todo
  BY <1>0, <1>2 DEF Request
<1>4. q.perms = {} /\ q.todo = {}
  BY <1>0, <1>3 DEF HeldOK
<1>5. Roots(q.names) = ids
  BY <1>1, <1>3, RootsOfNames
<1>6. HeldOK(q) /\ q.pc \in MintSteps
  BY <1>3, <1>4 DEF HeldOK, MintSteps
<1>7. PermsOf({}) = {}
  BY DEF PermsOf
<1>8. ShrunkOK(q)
  BY <1>1, <1>3, <1>4, <1>5, <1>7 DEF ShrunkOK, EffectiveRoles, EffectivePerms
<1>9. \A n \in q.names : Named(n) # {}
  BY <1>1, <1>3 DEF NamesOf, Named
<1>10. GrownOK(q)
  BY <1>1, <1>3, <1>4, <1>5, <1>9 DEF GrownOK, EffectiveRoles, EffectivePerms
<1> QED
  BY <1>0, <1>2, <1>6, <1>8, <1>10, MintGoesOn

(* What a resolution collects, compared with what the user has. *)
LEMMA Collected ==
  ASSUME MInv, NEW q, q.user \in Users
  PROVE  /\ Collect(q.names) = Inherited(Roots(q.names)) /\ Collect(q.names) \subseteq There
         /\ DirectRoles(q.user) \subseteq Roots(q.names) =>
              Inherited(DirectRoles(q.user)) \subseteq Collect(q.names)
         /\ Roots(q.names) \subseteq DirectRoles(q.user) =>
              Collect(q.names) \subseteq Inherited(DirectRoles(q.user))
<1>1. Collect(q.names) = Inherited(Roots(q.names))
  BY CollectIsInheritance DEF MInv, IInv, RolesOK
<1>2. Roots(q.names) \subseteq There /\ DirectRoles(q.user) \subseteq There
  BY RootsThere, DirectThere DEF MInv
<1> QED
  BY <1>1, <1>2, InheritedLeast, InheritedMonotone DEF MInv, IInv

LEMMA MintRolesKeeps ==
  ASSUME MInv, IInv', NEW r \in Requests, MintRoles(r) PROVE MintOK(r)'
<1>1. PICK old \in Request : old = req[r] /\ old.pc = "mint.roles"
  BY DEF MInv, IInv, RequestsOK, MintRoles, At
<1>2. HeldOK(old) /\ Minting(r) /\ old.user \in Users
  BY <1>1 DEF MInv, MintOK, HeldOK, Minting, MintSteps
<1>3. PICK ids : ids = Collect(old.names)
  OBVIOUS
<1>4. PICK q : q = [old EXCEPT !.pc = "mint.all", !.roles = NamesOf(ids)] /\ Become(r, q)
  BY <1>1, <1>3 DEF MintRoles
<1>5. /\ q.pc = "mint.all" /\ q.roles = NamesOf(ids) /\ q.user = old.user /\ q.names = old.names
      /\ q.hadRoles = old.hadRoles /\ q.hadPerms = old.hadPerms
      /\ q.perms = old.perms /\ q.todo = old.todo
  BY <1>4 DEF Request
<1>6. HeldOK(q) /\ q.pc \in MintSteps
  BY <1>1, <1>2, <1>5 DEF HeldOK, MintSteps
<1>7. ASSUME "add" \notin writes[r] PROVE ShrunkOK(q)
  <2>1. ShrunkOK(old)
    BY <1>1, <1>2, <1>7 DEF MInv, MintOK
  <2>2. EffectiveRoles(q.user) \subseteq NamesOf(ids) /\ NamesOf(ids) \subseteq q.hadRoles
    BY <1>2, <1>3, <1>5, <2>1, Collected DEF ShrunkOK, EffectiveRoles, NamesOf
  <2> QED
    BY <1>1, <1>5, <2>1, <2>2 DEF ShrunkOK
<1>8. ASSUME "remove" \notin writes[r] PROVE GrownOK(q)
  <2>1. GrownOK(old)
    BY <1>1, <1>2, <1>8 DEF MInv, MintOK
  <2>2. q.hadRoles \subseteq NamesOf(ids) /\ NamesOf(ids) \subseteq EffectiveRoles(q.user)
    BY <1>2, <1>3, <1>5, <2>1, Collected DEF GrownOK, EffectiveRoles, NamesOf
  <2> QED
    BY <1>1, <1>5, <2>1, <2>2 DEF GrownOK
<1>9. UNCHANGED <<role, assigned, granted, writes>>
  BY DEF MintRoles, Unwritten
<1> QED
  BY <1>4, <1>6, <1>7, <1>8, <1>9, MintGoesOn

LEMMA MintAllKeeps ==
  ASSUME MInv, IInv', NEW r \in Requests, MintAll(r) PROVE MintOK(r)'
<1>1. PICK old \in Request : old = req[r] /\ old.pc = "mint.all"
  BY DEF MInv, IInv, RequestsOK, MintAll, At
<1>2. HeldOK(old) /\ Minting(r) /\ old.user \in Users /\ old.perms = {}
  BY <1>1 DEF MInv, MintOK, HeldOK, Minting, MintSteps
<1>3. PICK ids : ids = Collect(old.names) /\ ids = Collect(old.names) \cap There
  BY <1>2, Collected
<1>4. PICK q : q = [old EXCEPT !.pc = ReadsLeft(ids), !.todo = ids] /\ Become(r, q)
  BY <1>1, <1>3 DEF MintAll
<1>5. /\ q.pc = ReadsLeft(ids) /\ q.todo = ids /\ q.user = old.user /\ q.names = old.names
      /\ q.hadRoles = old.hadRoles /\ q.hadPerms = old.hadPerms
      /\ q.roles = old.roles /\ q.perms = {}
  BY <1>2, <1>4 DEF Request
<1>6. HeldOK(q) /\ q.pc \in MintSteps
  BY <1>2, <1>5 DEF HeldOK, MintSteps, ReadsLeft
<1>7. ASSUME "add" \notin writes[r] PROVE ShrunkOK(q)
  <2>1. ShrunkOK(old)
    BY <1>1, <1>2, <1>7 DEF MInv, MintOK
  <2>2. /\ Inherited(DirectRoles(q.user)) \subseteq q.todo
        /\ PermsOf(q.todo) \subseteq q.hadPerms
    BY <1>2, <1>3, <1>5, <2>1, Collected DEF ShrunkOK, PermsOf
  <2> QED
    BY <1>1, <1>5, <2>1, <2>2 DEF ShrunkOK
<1>8. ASSUME "remove" \notin writes[r] PROVE GrownOK(q)
  <2>1. GrownOK(old)
    BY <1>1, <1>2, <1>8 DEF MInv, MintOK
  <2>2. /\ q.todo \subseteq Inherited(DirectRoles(q.user))
        /\ q.hadPerms \subseteq PermsOf(q.todo)
    BY <1>2, <1>3, <1>5, <2>1, Collected DEF GrownOK, PermsOf
  <2> QED
    BY <1>1, <1>5, <2>1, <2>2 DEF GrownOK
<1>9. UNCHANGED <<role, assigned, granted, writes>>
  BY DEF MintAll, Unwritten
<1> QED
  BY <1>4, <1>6, <1>7, <1>8, <1>9, MintGoesOn

LEMMA MintPermsKeeps ==
  ASSUME MInv, IInv', NEW r \in Requests, MintPerms(r) PROVE MintOK(r)'
<1>1. PICK old \in Request : old = req[r] /\ old.pc = "mint.perms"
  BY DEF MInv, IInv, RequestsOK, MintPerms, At
<1>2. HeldOK(old) /\ Minting(r) /\ old.user \in Users
  BY <1>1 DEF MInv, MintOK, HeldOK, Minting, MintSteps
<1>3. PICK i \in old.todo :
        Become(r, [old EXCEPT !.pc = ReadsLeft(old.todo \ {i}), !.todo = old.todo \ {i},
                              !.perms = old.perms \cup PermsOf({i})])
  BY <1>1 DEF MintPerms
<1>4. PICK q : /\ q = [old EXCEPT !.pc = ReadsLeft(old.todo \ {i}), !.todo = old.todo \ {i},
                                  !.perms = old.perms \cup PermsOf({i})]
               /\ Become(r, q)
  BY <1>3
<1>5. /\ q.pc = ReadsLeft(q.todo) /\ q.todo = old.todo \ {i}
      /\ q.perms = old.perms \cup PermsOf({i})
      /\ q.user = old.user /\ q.names = old.names /\ q.roles = old.roles
      /\ q.hadRoles = old.hadRoles /\ q.hadPerms = old.hadPerms
  BY <1>4 DEF Request
<1>6. HeldOK(q) /\ q.pc \in MintSteps
  BY <1>2, <1>5 DEF HeldOK, MintSteps, ReadsLeft
<1>7. PermsOf(old.todo) = PermsOf(q.todo) \cup PermsOf({i})
  BY <1>5 DEF PermsOf
<1>8. ASSUME "add" \notin writes[r] PROVE ShrunkOK(q)
  <2>1. ShrunkOK(old)
    BY <1>1, <1>2, <1>8 DEF MInv, MintOK
  <2>2. PermsOf(q.todo) \cup q.perms \subseteq q.hadPerms
    BY <1>5, <1>7, <2>1 DEF ShrunkOK
  <2>3. \A j \in Inherited(DirectRoles(q.user)) : j \in q.todo \/ PermsOf({j}) \subseteq q.perms
    BY <1>1, <1>5, <2>1 DEF ShrunkOK
  <2> QED
    BY <1>1, <1>5, <2>1, <2>2, <2>3 DEF ShrunkOK
<1>9. ASSUME "remove" \notin writes[r] PROVE GrownOK(q)
  <2>1. GrownOK(old)
    BY <1>1, <1>2, <1>9 DEF MInv, MintOK
  <2>2. q.hadPerms \subseteq q.perms \cup PermsOf(q.todo)
    BY <1>1, <1>5, <1>7, <2>1 DEF GrownOK
  <2>3. PermsOf({i}) \subseteq EffectivePerms(q.user)
    BY <1>5, <2>1 DEF GrownOK, EffectivePerms, PermsOf
  <2> QED
    BY <1>1, <1>5, <2>1, <2>2, <2>3 DEF GrownOK
<1>10. UNCHANGED <<role, assigned, granted, writes>>
  BY DEF MintPerms, Unwritten
<1> QED
  BY <1>4, <1>6, <1>8, <1>9, <1>10, MintGoesOn

-----------------------------------------------------------------------------
(* The table of roles stays finite: a step creates one role at most. *)

LEMMA RolesStay == ASSUME RolesOK, Shrinks PROVE RolesOK'
<1>1. IsFiniteSet(There')
  BY FS_Subset DEF RolesOK, Shrinks
<1> QED
  BY <1>1 DEF RolesOK, Shrinks

LEMMA RoleAdded == ASSUME MInv, NEW r \in Requests, RoleInsert(r) PROVE RolesOK'
<1>1. CASE role' = role
  BY <1>1 DEF MInv, RolesOK, There
<1>2. CASE role' # role
  <2>1. PICK i \in RoleIds :
          role' = [role EXCEPT ![i] =
                     [status |-> "there", name |-> req[r].name, parent |-> req[r].id]]
    BY <1>2 DEF RoleInsert
  <2>2. role'[i].status = "there" /\ role'[i].name = req[r].name
        /\ \A j \in RoleIds \ {i} : role'[j] = role[j]
    BY <2>1 DEF MInv, IInv, TablesOK, TablesType
  <2>3. There' = There \cup {i}
    BY <2>2 DEF There
  <2>4. IsFiniteSet(There')
    BY <2>3, FS_AddElement DEF MInv, RolesOK
  <2>5. req[r].name \in Names
    BY DEF RoleInsert, At, MInv, MintOK, HeldOK
  <2>6. \A j \in There' : role'[j].name \in Names
    BY <2>2, <2>3, <2>5 DEF MInv, RolesOK, There
  <2> QED
    BY <2>4, <2>6 DEF RolesOK
<1> QED
  BY <1>1, <1>2

-----------------------------------------------------------------------------
LEMMA InitMInv == Init => MInv
<1> SUFFICES ASSUME Init PROVE MInv
  OBVIOUS
<1>1. There = {}
  BY DEF Init, There, NoRow
<1>2. RolesOK
  BY <1>1, FS_EmptySet DEF RolesOK
<1>3. ASSUME NEW r \in Requests PROVE MintOK(r)
  BY <1>3, IdleHeld DEF Init, MintOK, Minting
<1> QED
  BY <1>2, <1>3, InitInv DEF MInv

(* A request that is served changes its own locals only. *)
LEMMA OwnLocals ==
  ASSUME NEW r \in Requests, Arrive(r) \/ Proceed(r) \/ Fail(r), IInv, NEW d \in Requests \ {r}
  PROVE  req'[d] = req[d]
<1>1. \/ req' = req
      \/ \E q : Become(r, q)
  BY DEF Arrive, Proceed, Fail, CreateRole, CreatePermission, AssignPermission, AssignRole,
         RemoveRole, Mint, CreateRoleParent, RoleInsert, PermissionInsert, GrantUpsert, AssignFind,
         AssignLookup, AssignUpsert, RemoveLookup, RemoveDelete, MintRoles, MintAll, MintPerms,
         MintDone, Finish, Goto
<1> QED
  BY <1>1 DEF Become, IInv, RequestsOK

(* The steps of requests that read. *)
LEMMA ReadSteps ==
  ASSUME MInv, IInv', NEW r \in Requests, Arrive(r) \/ Proceed(r) \/ Fail(r),
         ~RoleInsert(r), ~GrantUpsert(r), ~AssignUpsert(r), ~RemoveDelete(r)
  PROVE  RolesOK' /\ MintOK(r)' /\ \A d \in Requests \ {r} : Harmless(d)
<1>1. /\ UNCHANGED <<role, assigned, granted>>
      /\ UNCHANGED writes \/ writes' = [writes EXCEPT ![r] = {}]
  <2>1. CASE Arrive(r)
    BY <2>1 DEF Arrive, CreateRole, CreatePermission, AssignPermission, AssignRole, RemoveRole, Mint,
                Unwritten
  <2>2. CASE Proceed(r)
    BY <2>2 DEF Proceed, CreateRoleParent, PermissionInsert, AssignFind, AssignLookup, RemoveLookup,
                MintRoles, MintAll, MintPerms, MintDone, Unwritten, tables
  <2>3. CASE Fail(r)
    BY <2>3 DEF Fail, tables
  <2> QED
    BY <2>1, <2>2, <2>3
<1>2. \A d \in Requests \ {r} : Harmless(d)
  BY <1>1, ReadsHarmless DEF MInv
<1>3. RolesOK'
  BY <1>1, Quiet, RolesStay DEF MInv
<1>4. MintOK(r)'
  <2>1. CASE Arrive(r)
    BY <2>1, CreatesKeep, AdminReadsKeep, MintStarts DEF Arrive
  <2>2. CASE Proceed(r)
    BY <2>2, CreatesKeep, AdminReadsKeep, EndsKeep, MintRolesKeeps, MintAllKeeps, MintPermsKeeps
       DEF Proceed
  <2>3. CASE Fail(r)
    BY <2>3, EndsKeep
  <2> QED
    BY <2>1, <2>2, <2>3
<1> QED
  BY <1>2, <1>3, <1>4

LEMMA NextMInv == ASSUME MInv, [Next]_vars PROVE MInv'
<1>0. IInv'
  BY NextInv DEF MInv
<1>1. ASSUME NEW r \in Requests, Arrive(r) \/ Proceed(r) \/ Fail(r) PROVE MInv'
  <2>1. RolesOK' /\ MintOK(r)' /\ \A d \in Requests \ {r} : Harmless(d)
    <3>1. CASE RoleInsert(r)
      BY <1>0, <3>1, InsertHarmless, RoleAdded, EndsKeep DEF MInv
    <3>2. CASE GrantUpsert(r) \/ AssignUpsert(r)
      <4>1. UNCHANGED role
        BY <3>2 DEF GrantUpsert, AssignUpsert
      <4>2. RolesOK'
        BY <4>1 DEF MInv, RolesOK, There
      <4> QED
        BY <1>0, <3>2, <4>2, GrantsHarmless, EndsKeep DEF MInv
    <3>3. CASE RemoveDelete(r)
      BY <1>0, <3>3, RemovalsHarmless, RolesStay, EndsKeep DEF MInv
    <3> QED
      BY <1>0, <1>1, <3>1, <3>2, <3>3, ReadSteps
  <2>2. ASSUME NEW d \in Requests \ {r} PROVE MintOK(d)'
    <3>1. req'[d] = req[d]
      BY <1>1, <2>2, OwnLocals DEF MInv
    <3> QED
      BY <1>0, <2>1, <3>1, OthersKeep
  <2> QED
    BY <1>0, <2>1, <2>2 DEF MInv
<1>2. CASE \/ \E i \in RoleIds : DeleteRole(i)
           \/ \E i \in RoleIds, p \in Perms : RemovePermission(i, p)
  <2>1. Shrinks /\ \A d : Harmless(d)
    BY <1>0, <1>2, RemovalsHarmless DEF MInv
  <2>2. req' = req
    BY <1>2 DEF DeleteRole, RemovePermission
  <2>3. ASSUME NEW d \in Requests PROVE MintOK(d)'
    BY <1>0, <2>1, <2>2, OthersKeep
  <2> QED
    BY <1>0, <2>1, <2>3, RolesStay DEF MInv
<1>3. CASE UNCHANGED vars
  <2>1. UNCHANGED <<role, assigned, granted, req, writes>>
    BY <1>3 DEF vars
  <2>2. Shrinks /\ \A d : Harmless(d)
    BY <1>0, <2>1, Quiet DEF Harmless, MInv
  <2>3. ASSUME NEW d \in Requests PROVE MintOK(d)'
    BY <1>0, <2>1, <2>2, OthersKeep
  <2> QED
    BY <1>0, <2>2, <2>3, RolesStay DEF MInv
<1> QED
  BY <1>1, <1>2, <1>3 DEF Next

(***************************************************************************)
(* The inductive invariant of resolutions holds in every reachable state.  *)
(***************************************************************************)
THEOREM MintInvariance == Spec => []MInv
BY InitMInv, NextMInv, PTL DEF Spec

(***************************************************************************)
(* A token whose resolution overlapped only removals has no more than the  *)
(* user had at the start and no less than the user has at the end; the     *)
(* other way round for additions; and if nothing was committed meanwhile   *)
(* it is what inheritance gives the user.                                  *)
(***************************************************************************)
THEOREM MintSandwichedHolds == Spec => []MintSandwiched
<1>1. ASSUME MInv, NEW r \in Requests, At(r, "mint.done") PROVE MintOK(r) /\ Minting(r)
  BY <1>1 DEF MInv, At, Minting, MintSteps
<1>2. ASSUME NEW q, q.pc = "mint.done", HeldOK(q), ShrunkOK(q)
      PROVE  /\ EffectiveRoles(q.user) \subseteq q.roles /\ q.roles \subseteq q.hadRoles
             /\ EffectivePerms(q.user) \subseteq q.perms /\ q.perms \subseteq q.hadPerms
  <2>1. \A i \in Inherited(DirectRoles(q.user)) : PermsOf({i}) \subseteq q.perms
    BY <1>2 DEF HeldOK, ShrunkOK
  <2>2. EffectivePerms(q.user) \subseteq q.perms
    BY <2>1 DEF EffectivePerms, PermsOf
  <2> QED
    BY <1>2, <2>2 DEF ShrunkOK
<1>3. ASSUME NEW q, q.pc = "mint.done", HeldOK(q), GrownOK(q)
      PROVE  /\ q.hadRoles \subseteq q.roles /\ q.roles \subseteq EffectiveRoles(q.user)
             /\ q.hadPerms \subseteq q.perms /\ q.perms \subseteq EffectivePerms(q.user)
  BY <1>3 DEF HeldOK, GrownOK, PermsOf
<1>4. MInv => MintSandwiched
  BY <1>1, <1>2, <1>3 DEF MintSandwiched, MintOK, At
<1> QED
  BY <1>4, MintInvariance, PTL

-----------------------------------------------------------------------------
(***************************************************************************)
(* What a route decides by a token (PolicyEngine.ts), against what it      *)
(* would decide by the tables when the resolution began and when it ended. *)
(***************************************************************************)
Policy == INSTANCE Permissions_proofs

Token(r)  == [roles |-> req[r].roles, permissions |-> req[r].perms]
Before(r) == [roles |-> req[r].hadRoles, permissions |-> req[r].hadPerms]
After(r)  == [roles |-> EffectiveRoles(req[r].user), permissions |-> EffectivePerms(req[r].user)]

(* Whatever a guard permits by the one, it permits by the other. *)
Covers(greater, lesser) == \A guard : Policy!Permits(guard, lesser) => Policy!Permits(guard, greater)

(***************************************************************************)
(* A route open to a token was open to the user when its resolution began, *)
(* and one open to the user at the end is open to the token, if only       *)
(* removals overlapped it; the other way round if only additions did.      *)
(***************************************************************************)
GuardsSandwiched ==
  \A r \in Requests :
    At(r, "mint.done") =>
      /\ "add" \notin writes[r] => Covers(Token(r), After(r)) /\ Covers(Before(r), Token(r))
      /\ "remove" \notin writes[r] => Covers(Token(r), Before(r)) /\ Covers(After(r), Token(r))

LEMMA MoreCovers ==
  ASSUME NEW roles, NEW permissions, NEW moreRoles, NEW morePermissions,
         roles \subseteq moreRoles, permissions \subseteq morePermissions
  PROVE  Covers([roles |-> moreRoles, permissions |-> morePermissions],
                [roles |-> roles, permissions |-> permissions])
<1> SUFFICES ASSUME NEW guard, NEW lesser, NEW greater,
                    lesser = [roles |-> roles, permissions |-> permissions],
                    greater = [roles |-> moreRoles, permissions |-> morePermissions],
                    Policy!Permits(guard, lesser)
             PROVE  Policy!Permits(guard, greater)
  BY DEF Covers
<1>1. /\ lesser.roles \subseteq greater.roles
      /\ lesser.permissions \subseteq greater.permissions
  OBVIOUS
<1> QED
  BY <1>1, Policy!PermitsMonotone

(***************************************************************************)
(* Every guard of a route decides by a token between what the tables said  *)
(* when its resolution began and what they say when it is done.            *)
(***************************************************************************)
THEOREM GuardsSandwichedHolds == Spec => []GuardsSandwiched
<1>1. MintSandwiched => GuardsSandwiched
  <2> SUFFICES ASSUME MintSandwiched, NEW r \in Requests, At(r, "mint.done")
               PROVE  /\ "add" \notin writes[r] =>
                           Covers(Token(r), After(r)) /\ Covers(Before(r), Token(r))
                      /\ "remove" \notin writes[r] =>
                           Covers(Token(r), Before(r)) /\ Covers(After(r), Token(r))
    BY DEF GuardsSandwiched
  <2> QED
    BY MoreCovers DEF MintSandwiched, Token, Before, After
<1> QED
  BY <1>1, MintSandwichedHolds, PTL
=============================================================================
