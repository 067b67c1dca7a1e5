---------------------------- MODULE Rbac_proofs ----------------------------
(***************************************************************************)
(* Proofs about Rbac, for any number of users, names, roles, permissions   *)
(* and overlapping requests.                                               *)
(***************************************************************************)
EXTENDS Rbac, TLAPS

TablesType ==
  /\ role \in [RoleIds -> RoleRow]
  /\ perm \subseteq Perms
  /\ assigned \subseteq Users \X RoleIds
  /\ granted \subseteq RoleIds \X Perms

TablesOK == TablesType /\ NamesUnique /\ NoOrphans

(* What a request that is about to write holds in its locals. *)
LocalOK(q) ==
  /\ q.pc = "permission.insert" => q.perm \in Perms
  /\ q.pc \in {"assign.find", "assign.lookup", "assign.upsert"} => q.user \in Users

RequestsOK == req \in [Requests -> Request] /\ \A r \in Requests : LocalOK(req[r])

HistoryOK == writes \in [Requests -> SUBSET {"add", "remove"}]

(* The inductive invariant. *)
IInv == TablesOK /\ RequestsOK /\ HistoryOK

-----------------------------------------------------------------------------
LEMMA IdleOK == Idle \in Request /\ LocalOK(Idle)
BY DEF Idle, Request, AdminSteps, MintSteps, LocalOK

(* The steps by name, so that no proof about a record need list them. *)
LEMMA StepNames ==
  /\ {"create.parent", "create.insert", "permission.insert", "grant.upsert"} \subseteq AdminSteps
  /\ {"assign.find", "assign.lookup", "assign.upsert"} \subseteq AdminSteps
  /\ {"remove.lookup", "remove.delete"} \subseteq AdminSteps
  /\ {"mint.roles", "mint.all", "mint.perms", "mint.done"} \subseteq MintSteps
BY DEF AdminSteps, MintSteps

LEMMA BecomeKeeps ==
  ASSUME RequestsOK, NEW r \in Requests, NEW q \in Request, LocalOK(q), Become(r, q)
  PROVE  RequestsOK'
BY DEF RequestsOK, Become, LocalOK

LEMMA FinishKeeps == ASSUME RequestsOK, NEW r \in Requests, Finish(r) PROVE RequestsOK'
BY IdleOK, BecomeKeeps DEF Finish

(* A step to a place where nothing is owed, or what is owed is held already. *)
LEMMA GotoKeeps ==
  ASSUME RequestsOK, NEW r \in Requests, NEW step \in AdminSteps \cup MintSteps, Goto(r, step),
         step # "permission.insert", step \in {"assign.lookup"} => req[r].pc = "assign.find",
         step \notin {"assign.find", "assign.upsert"}
  PROVE  RequestsOK'
<1>1. PICK q : q = [req[r] EXCEPT !.pc = step]
  OBVIOUS
<1>2. q \in Request /\ q.pc = step /\ q.user = req[r].user
  BY <1>1 DEF RequestsOK, Request
<1>3. LocalOK(q)
  BY <1>2 DEF RequestsOK, LocalOK
<1> QED
  BY <1>1, <1>2, <1>3, BecomeKeeps DEF Goto

LEMMA WroteKeeps == ASSUME HistoryOK, NEW k \in {"add", "remove"}, Wrote(k) PROVE HistoryOK'
BY DEF HistoryOK, Wrote

LEMMA TablesStable == ASSUME TablesOK, UNCHANGED tables PROVE TablesOK'
BY DEF TablesOK, TablesType, NamesUnique, NoOrphans, There, tables

(* A step that writes no table. *)
LEMMA ReadKeeps == ASSUME IInv, Unwritten, RequestsOK' PROVE IInv'
BY TablesStable DEF IInv, Unwritten, tables, HistoryOK

-----------------------------------------------------------------------------
(* Creation of roles *)

LEMMA CreateReads ==
  ASSUME IInv, NEW r \in Requests,
         \/ \E n \in Names, p \in RoleIds \cup {NoRole} : CreateRole(r, n, p)
         \/ CreateRoleParent(r)
  PROVE  IInv'
<1> USE DEF IInv
<1>0. Unwritten
  BY DEF CreateRole, CreateRoleParent
<1>1. CASE \E n \in Names, p \in RoleIds \cup {NoRole} : CreateRole(r, n, p)
  <2>1. PICK n \in Names, p \in RoleIds \cup {NoRole} : CreateRole(r, n, p)
    BY <1>1
  <2>2. CASE req' = req
    BY <1>0, <2>2, ReadKeeps DEF RequestsOK
  <2>3. CASE req' # req
    <3>0. PICK step \in {"create.insert", "create.parent"} :
            step = IF p = NoRole THEN "create.insert" ELSE "create.parent"
      OBVIOUS
    <3>a. step \in AdminSteps
      BY StepNames
    <3>1. PICK q : q = [req[r] EXCEPT !.pc = step, !.name = n, !.id = p] /\ Become(r, q)
      BY <2>1, <2>3, <3>0 DEF CreateRole
    <3>2. q \in Request /\ q.pc = step
      BY <3>1, <3>a DEF RequestsOK, Request
    <3> QED
      BY <1>0, <3>1, <3>2, BecomeKeeps, ReadKeeps DEF LocalOK
  <2> QED
    BY <2>2, <2>3
<1>2. CASE CreateRoleParent(r)
  <2>1. Finish(r) \/ Goto(r, "create.insert")
    BY <1>2 DEF CreateRoleParent
  <2> QED
    BY <1>0, <2>1, FinishKeeps, GotoKeeps, ReadKeeps DEF AdminSteps
<1> QED
  BY <1>1, <1>2

(***************************************************************************)
(* The INSERT of a role: its name is free and its parent there, at the     *)
(* moment of the INSERT.                                                   *)
(***************************************************************************)
LEMMA RoleInsertKeeps == ASSUME IInv, NEW r \in Requests, RoleInsert(r) PROVE IInv'
<1> USE DEF IInv
<1>0. RequestsOK' /\ UNCHANGED <<perm, assigned, granted>>
  BY FinishKeeps DEF RoleInsert
<1>1. CASE UNCHANGED <<role, writes>>
  BY <1>0, <1>1, TablesStable DEF tables, HistoryOK
<1>2. CASE ~UNCHANGED <<role, writes>>
  <2> DEFINE n == req[r].name
             p == req[r].id
  <2>1. /\ Named(n) = {} /\ (p # NoRole => p \in There) /\ Wrote("add")
        /\ \E i \in RoleIds :
             /\ role[i].status = "unused"
             /\ role' = [role EXCEPT ![i] = [status |-> "there", name |-> n, parent |-> p]]
    BY <1>2 DEF RoleInsert
  <2>2. PICK i \in RoleIds :
             /\ role[i].status = "unused"
             /\ role' = [role EXCEPT ![i] = [status |-> "there", name |-> n, parent |-> p]]
    BY <2>1
  <2>3. n \in Names \cup {NoName} /\ p \in RoleIds \cup {NoRole}
    BY DEF RequestsOK, Request
  <2>4. /\ role' \in [RoleIds -> RoleRow]
        /\ role'[i].status = "there" /\ role'[i].name = n /\ role'[i].parent = p
        /\ \A j \in RoleIds \ {i} : role'[j] = role[j]
    BY <2>2, <2>3 DEF TablesOK, TablesType, RoleRow
  <2>5. There' = There \cup {i} /\ i \notin There
    BY <2>2, <2>4 DEF There
  <2>6. TablesType'
    BY <1>0, <2>4 DEF TablesOK, TablesType
  <2>7. NamesUnique'
    <3>1. \A j \in There : role[j].name # n
      BY <2>1 DEF Named
    <3> QED
      BY <2>4, <2>5, <3>1 DEF TablesOK, NamesUnique, There
  <2>8. NoOrphans'
    <3>1. \A j \in There : role'[j].parent = role[j].parent
      BY <2>4, <2>5 DEF There
    <3>2. \A j \in There' : role'[j].parent \in There' \cup {NoRole}
      BY <2>1, <2>4, <2>5, <3>1 DEF TablesOK, NoOrphans
    <3> QED
      BY <1>0, <2>5, <3>2 DEF TablesOK, NoOrphans
  <2> QED
    BY <1>0, <2>1, <2>6, <2>7, <2>8, WroteKeeps DEF TablesOK
<1> QED
  BY <1>1, <1>2

(***************************************************************************)
(* The DELETE of a role takes its rows and its children's parent with it.  *)
(***************************************************************************)
LEMMA DeleteEffect ==
  ASSUME IInv, NEW i \in RoleIds, DeleteRole(i)
  PROVE  /\ role' \in [RoleIds -> RoleRow] /\ There' = There \ {i}
         /\ \A j \in There' : /\ role'[j].name = role[j].name
                              /\ role'[j].parent = IF role[j].parent = i THEN NoRole
                                                   ELSE role[j].parent
         /\ assigned' = {a \in assigned : a[2] # i} /\ granted' = {g \in granted : g[1] # i}
         /\ perm' = perm
<1> USE DEF IInv, DeleteRole
<1>1. \A j \in RoleIds : role[j] \in RoleRow
  BY DEF TablesOK, TablesType
<1>2. ASSUME NEW j \in RoleIds
      PROVE  /\ role'[j] \in RoleRow
             /\ j = i => role'[j].status = "deleted"
             /\ j # i => /\ role'[j].status = role[j].status
                         /\ role'[j].name = role[j].name
                         /\ role'[j].parent = IF role[j].parent = i THEN NoRole
                                              ELSE role[j].parent
  <2>1. CASE j = i
    BY <2>1 DEF NoRow, RoleRow
  <2>2. CASE j # i /\ role[j].parent = i
    <3>1. role'[j] = [role[j] EXCEPT !.parent = NoRole]
      BY <2>2
    <3> QED
      BY <1>1, <2>2, <3>1 DEF RoleRow
  <2>3. CASE j # i /\ role[j].parent # i
    BY <1>1, <2>3
  <2> QED
    BY <2>1, <2>2, <2>3
<1>3. role' \in [RoleIds -> RoleRow]
  <2>1. role' = [j \in RoleIds |-> role'[j]]
    OBVIOUS
  <2> QED
    BY <1>2, <2>1
<1>4. There' = There \ {i}
  BY <1>2 DEF There
<1> QED
  BY <1>2, <1>3, <1>4 DEF There

LEMMA DeleteKeeps == ASSUME IInv, NEW i \in RoleIds, DeleteRole(i) PROVE IInv'
<1> USE DEF IInv
<1>1. TablesType'
  BY DeleteEffect DEF TablesOK, TablesType
<1>2. NamesUnique'
  BY DeleteEffect DEF TablesOK, NamesUnique
<1>3. NoOrphans'
  <2>1. \A j \in There' : role'[j].parent \in There' \cup {NoRole}
    BY DeleteEffect DEF TablesOK, NoOrphans
  <2>2. \A a \in assigned' : a[2] \in There'
    BY DeleteEffect DEF TablesOK, NoOrphans
  <2>3. \A g \in granted' : g[1] \in There' /\ g[2] \in perm'
    BY DeleteEffect DEF TablesOK, NoOrphans
  <2> QED
    BY <2>1, <2>2, <2>3 DEF NoOrphans
<1>4. RequestsOK' /\ HistoryOK'
  BY WroteKeeps DEF DeleteRole, RequestsOK
<1> QED
  BY <1>1, <1>2, <1>3, <1>4 DEF TablesOK

-----------------------------------------------------------------------------
(* Permissions and grants *)

LEMMA CreatePermissionKeeps ==
  ASSUME IInv, NEW r \in Requests, NEW p \in Perms, CreatePermission(r, p) PROVE IInv'
<1> USE DEF IInv
<1>1. CASE req' = req
  BY <1>1, ReadKeeps DEF CreatePermission, RequestsOK
<1>2. CASE req' # req
  <2>1. PICK q : q = [req[r] EXCEPT !.pc = "permission.insert", !.perm = p] /\ Become(r, q)
    BY <1>2 DEF CreatePermission
  <2>s. "permission.insert" \in AdminSteps
    BY StepNames
  <2>2. q \in Request /\ q.pc = "permission.insert" /\ q.perm = p
    BY <2>1, <2>s DEF RequestsOK, Request
  <2> QED
    BY <2>1, <2>2, BecomeKeeps, ReadKeeps DEF CreatePermission, LocalOK
<1> QED
  BY <1>1, <1>2

LEMMA PermissionInsertKeeps ==
  ASSUME IInv, NEW r \in Requests, PermissionInsert(r) PROVE IInv'
<1> USE DEF IInv
<1>1. req[r].perm \in Perms
  BY DEF PermissionInsert, RequestsOK, LocalOK, At
<1>2. perm' = perm \cup {req[r].perm} /\ UNCHANGED <<role, assigned, granted, writes>>
  BY DEF PermissionInsert
<1>3. TablesOK'
  BY <1>1, <1>2 DEF TablesOK, TablesType, NamesUnique, NoOrphans, There
<1> QED
  BY <1>2, <1>3, FinishKeeps DEF PermissionInsert, HistoryOK

LEMMA AssignPermissionKeeps ==
  ASSUME IInv, NEW r \in Requests, NEW i \in RoleIds, NEW p \in Perms, AssignPermission(r, i, p)
  PROVE  IInv'
<1> USE DEF IInv
<1>1. CASE req' = req
  BY <1>1, ReadKeeps DEF AssignPermission, RequestsOK
<1>2. CASE req' # req
  <2>1. PICK q : q = [req[r] EXCEPT !.pc = "grant.upsert", !.id = i, !.perm = p] /\ Become(r, q)
    BY <1>2 DEF AssignPermission
  <2>s. "grant.upsert" \in AdminSteps
    BY StepNames
  <2>2. q \in Request /\ q.pc = "grant.upsert"
    BY <2>1, <2>s DEF RequestsOK, Request
  <2> QED
    BY <2>1, <2>2, BecomeKeeps, ReadKeeps DEF AssignPermission, LocalOK
<1> QED
  BY <1>1, <1>2

LEMMA GrantUpsertKeeps == ASSUME IInv, NEW r \in Requests, GrantUpsert(r) PROVE IInv'
<1> USE DEF IInv
<1>0. RequestsOK' /\ UNCHANGED <<role, perm, assigned>>
  BY FinishKeeps DEF GrantUpsert
<1>1. CASE UNCHANGED <<granted, writes>>
  BY <1>0, <1>1, TablesStable DEF tables, HistoryOK
<1>2. CASE ~UNCHANGED <<granted, writes>>
  <2>1. /\ req[r].id \in There /\ req[r].perm \in perm /\ Wrote("add")
        /\ granted' = granted \cup {<<req[r].id, req[r].perm>>}
    BY <1>2 DEF GrantUpsert
  <2>2. TablesOK'
    BY <1>0, <2>1 DEF TablesOK, TablesType, NamesUnique, NoOrphans, There
  <2> QED
    BY <1>0, <2>1, <2>2, WroteKeeps
<1> QED
  BY <1>1, <1>2

LEMMA RemovePermissionKeeps ==
  ASSUME IInv, NEW i \in RoleIds, NEW p \in Perms, RemovePermission(i, p) PROVE IInv'
<1> USE DEF IInv, RemovePermission
<1>1. TablesOK'
  BY DEF TablesOK, TablesType, NamesUnique, NoOrphans, There
<1>2. RequestsOK' /\ HistoryOK'
  BY WroteKeeps DEF RequestsOK
<1> QED
  BY <1>1, <1>2

-----------------------------------------------------------------------------
(* Assignments *)

LEMMA AssignReads ==
  ASSUME IInv, NEW r \in Requests,
         \/ \E u \in Users, n \in Names : AssignRole(r, u, n)
         \/ AssignFind(r) \/ AssignLookup(r)
  PROVE  IInv'
<1> USE DEF IInv, At
<1>0. Unwritten
  BY DEF AssignRole, AssignFind, AssignLookup
<1>1. CASE Finish(r)
  BY <1>0, <1>1, FinishKeeps, ReadKeeps
<1>2. CASE ~Finish(r)
  <2>1. CASE \E u \in Users, n \in Names : AssignRole(r, u, n)
    <3>1. PICK u \in Users, n \in Names : AssignRole(r, u, n)
      BY <2>1
    <3>2. PICK q : q = [req[r] EXCEPT !.pc = "assign.find", !.user = u, !.name = n]
                   /\ Become(r, q)
      BY <3>1 DEF AssignRole
    <3>s. "assign.find" \in AdminSteps
      BY StepNames
    <3>3. q \in Request /\ q.pc = "assign.find" /\ q.user = u
      BY <3>2, <3>s DEF RequestsOK, Request
    <3> QED
      BY <1>0, <3>2, <3>3, BecomeKeeps, ReadKeeps DEF LocalOK
  <2>2. CASE AssignFind(r)
    <3>1. Goto(r, "assign.lookup") /\ req[r].pc = "assign.find"
      BY <1>2, <2>2 DEF AssignFind
    <3> QED
      BY <1>0, <3>1, GotoKeeps, ReadKeeps DEF AdminSteps
  <2>3. CASE AssignLookup(r)
    <3>0. PICK i \in RoleIds : Become(r, [req[r] EXCEPT !.pc = "assign.upsert", !.id = i])
      BY <1>2, <2>3 DEF AssignLookup, Named, There
    <3>1. PICK q : q = [req[r] EXCEPT !.pc = "assign.upsert", !.id = i] /\ Become(r, q)
      BY <3>0
    <3>a. "assign.upsert" \in AdminSteps
      BY StepNames
    <3>2. q \in Request /\ q.pc = "assign.upsert" /\ q.user = req[r].user
      BY <3>1, <3>a DEF RequestsOK, Request
    <3>3. req[r].user \in Users
      BY <2>3 DEF AssignLookup, RequestsOK, LocalOK
    <3> QED
      BY <1>0, <3>1, <3>2, <3>3, BecomeKeeps, ReadKeeps DEF LocalOK
  <2> QED
    BY <1>2, <2>1, <2>2, <2>3
<1> QED
  BY <1>1, <1>2

LEMMA AssignUpsertKeeps == ASSUME IInv, NEW r \in Requests, AssignUpsert(r) PROVE IInv'
<1> USE DEF IInv
<1>0. /\ RequestsOK' /\ UNCHANGED <<role, perm, granted>>
      /\ req[r].user \in Users
  BY FinishKeeps DEF AssignUpsert, RequestsOK, LocalOK, At
<1>1. CASE UNCHANGED <<assigned, writes>>
  BY <1>0, <1>1, TablesStable DEF tables, HistoryOK
<1>2. CASE ~UNCHANGED <<assigned, writes>>
  <2>1. /\ req[r].id \in There /\ Wrote("add")
        /\ assigned' = assigned \cup {<<req[r].user, req[r].id>>}
    BY <1>2 DEF AssignUpsert
  <2>2. TablesOK'
    BY <1>0, <2>1 DEF TablesOK, TablesType, NamesUnique, NoOrphans, There
  <2> QED
    BY <1>0, <2>1, <2>2, WroteKeeps
<1> QED
  BY <1>1, <1>2

LEMMA RemoveKeeps ==
  ASSUME IInv, NEW r \in Requests,
         \/ \E u \in Users, n \in Names : RemoveRole(r, u, n)
         \/ RemoveLookup(r) \/ RemoveDelete(r)
  PROVE  IInv'
<1> USE DEF IInv
<1>1. CASE \E u \in Users, n \in Names : RemoveRole(r, u, n)
  <2>1. PICK u \in Users, n \in Names : RemoveRole(r, u, n)
    BY <1>1
  <2>2. CASE req' = req
    BY <2>1, <2>2, ReadKeeps DEF RemoveRole, RequestsOK
  <2>3. CASE req' # req
    <3>1. PICK q : q = [req[r] EXCEPT !.pc = "remove.lookup", !.user = u, !.name = n]
                   /\ Become(r, q)
      BY <2>1, <2>3 DEF RemoveRole
    <3>s. "remove.lookup" \in AdminSteps
      BY StepNames
    <3>2. q \in Request /\ q.pc = "remove.lookup"
      BY <3>1, <3>s DEF RequestsOK, Request
    <3> QED
      BY <2>1, <3>1, <3>2, BecomeKeeps, ReadKeeps DEF LocalOK, RemoveRole
  <2> QED
    BY <2>2, <2>3
<1>2. CASE RemoveLookup(r)
  <2>1. CASE Finish(r)
    BY <1>2, <2>1, FinishKeeps, ReadKeeps DEF RemoveLookup
  <2>2. CASE ~Finish(r)
    <3>0. PICK i \in RoleIds : Become(r, [req[r] EXCEPT !.pc = "remove.delete", !.id = i])
      BY <1>2, <2>2 DEF RemoveLookup, Named, There
    <3>1. PICK q : q = [req[r] EXCEPT !.pc = "remove.delete", !.id = i] /\ Become(r, q)
      BY <3>0
    <3>a. "remove.delete" \in AdminSteps
      BY StepNames
    <3>2. q \in Request /\ q.pc = "remove.delete"
      BY <3>1, <3>a DEF RequestsOK, Request
    <3> QED
      BY <1>2, <3>1, <3>2, BecomeKeeps, ReadKeeps DEF LocalOK, RemoveLookup
  <2> QED
    BY <2>1, <2>2
<1>3. CASE RemoveDelete(r)
  <2>1. TablesOK'
    BY <1>3 DEF RemoveDelete, TablesOK, TablesType, NamesUnique, NoOrphans, There
  <2> QED
    BY <1>3, <2>1, FinishKeeps, WroteKeeps DEF RemoveDelete
<1> QED
  BY <1>1, <1>2, <1>3

-----------------------------------------------------------------------------
(* Resolution for a token *)

LEMMA NamesTyped ==
  /\ \A ids : NamesOf(ids) \subseteq Names /\ PermsOf(ids) \subseteq Perms
  /\ \A u \in Users : EffectiveRoles(u) \subseteq Names /\ EffectivePerms(u) \subseteq Perms
BY DEF NamesOf, PermsOf, EffectiveRoles, EffectivePerms

LEMMA MintBegins ==
  ASSUME IInv, NEW r \in Requests, NEW u \in Users, Mint(r, u) PROVE IInv'
<1> USE DEF IInv
<1>1. PICK ns \in SUBSET Names, hr \in SUBSET Names, hp \in SUBSET Perms :
        ns = NamesOf(DirectRoles(u)) /\ hr = EffectiveRoles(u) /\ hp = EffectivePerms(u)
  BY NamesTyped
<1>2. PICK q : /\ q = [req[r] EXCEPT !.pc = "mint.roles", !.user = u, !.names = ns,
                                     !.hadRoles = hr, !.hadPerms = hp]
               /\ Become(r, q)
  BY <1>1 DEF Mint
<1>s. "mint.roles" \in MintSteps
  BY StepNames
<1>3. q \in Request /\ q.pc = "mint.roles"
  BY <1>2, <1>s DEF RequestsOK, Request
<1> QED
  BY <1>2, <1>3, BecomeKeeps, ReadKeeps DEF Mint, LocalOK, Unwritten

LEMMA MintReads ==
  ASSUME IInv, NEW r \in Requests, MintRoles(r) \/ MintAll(r) \/ MintPerms(r) PROVE IInv'
<1> USE DEF IInv
<1>0. Unwritten
  BY DEF MintRoles, MintAll, MintPerms
<1>1. CASE MintRoles(r)
  <2>1. PICK ns \in SUBSET Names : ns = NamesOf(Collect(req[r].names))
    BY NamesTyped
  <2>2. PICK q : q = [req[r] EXCEPT !.pc = "mint.all", !.roles = ns] /\ Become(r, q)
    BY <1>1, <2>1 DEF MintRoles
  <2>s. "mint.all" \in MintSteps
    BY StepNames
  <2>3. q \in Request /\ q.pc = "mint.all"
    BY <2>2, <2>s DEF RequestsOK, Request
  <2> QED
    BY <1>0, <2>2, <2>3, BecomeKeeps, ReadKeeps DEF LocalOK
<1>2. CASE MintAll(r)
  <2>1. PICK ids \in SUBSET RoleIds : ids = Collect(req[r].names) \cap There
    BY DEF There
  <2>2. PICK q : q = [req[r] EXCEPT !.pc = ReadsLeft(ids), !.todo = ids] /\ Become(r, q)
    BY <1>2, <2>1 DEF MintAll
  <2>3. ReadsLeft(ids) \in {"mint.perms", "mint.done"}
    BY DEF ReadsLeft
  <2>4. q \in Request /\ q.pc = ReadsLeft(ids)
    BY <2>2, <2>3, StepNames DEF RequestsOK, Request
  <2> QED
    BY <1>0, <2>2, <2>3, <2>4, BecomeKeeps, ReadKeeps DEF LocalOK
<1>3. CASE MintPerms(r)
  <2>a. PICK i \in req[r].todo :
          Become(r, [req[r] EXCEPT !.pc = ReadsLeft(req[r].todo \ {i}),
                                   !.todo = req[r].todo \ {i},
                                   !.perms = req[r].perms \cup PermsOf({i})])
    BY <1>3 DEF MintPerms
  <2>b. PICK todo \in SUBSET RoleIds, ps \in SUBSET Perms :
          todo = req[r].todo \ {i} /\ ps = req[r].perms \cup PermsOf({i})
    BY NamesTyped DEF RequestsOK, Request
  <2>1. PICK q : /\ q = [req[r] EXCEPT !.pc = ReadsLeft(todo), !.todo = todo, !.perms = ps]
                 /\ Become(r, q)
    BY <2>a, <2>b
  <2>2. ReadsLeft(todo) \in {"mint.perms", "mint.done"}
    BY DEF ReadsLeft
  <2>c. PICK step \in MintSteps : step = ReadsLeft(todo)
    BY <2>2, StepNames
  <2>3. q \in Request /\ q.pc = step
    BY <2>1, <2>c DEF RequestsOK, Request
  <2> QED
    BY <1>0, <2>1, <2>2, <2>c, <2>3, BecomeKeeps, ReadKeeps DEF LocalOK
<1> QED
  BY <1>1, <1>2, <1>3

(* The end of a resolution, and the failure of any request. *)
LEMMA EndKeeps == ASSUME IInv, NEW r \in Requests, MintDone(r) \/ Fail(r) PROVE IInv'
<1> USE DEF IInv
<1>1. Finish(r) /\ UNCHANGED tables /\ writes' = [writes EXCEPT ![r] = {}]
  BY DEF MintDone, Fail
<1> QED
  BY <1>1, FinishKeeps, TablesStable DEF HistoryOK

-----------------------------------------------------------------------------
LEMMA InitInv == Init => IInv
<1> SUFFICES ASSUME Init PROVE IInv
  OBVIOUS
<1>1. There = {}
  BY DEF Init, There, NoRow
<1>2. TablesOK
  BY <1>1 DEF Init, TablesOK, TablesType, NamesUnique, NoOrphans, RoleRow, NoRow
<1>3. RequestsOK /\ HistoryOK
  BY IdleOK DEF Init, RequestsOK, HistoryOK
<1> QED
  BY <1>2, <1>3 DEF IInv

LEMMA NextInv == ASSUME IInv, [Next]_vars PROVE IInv'
<1>1. ASSUME NEW r \in Requests, Arrive(r) PROVE IInv'
  BY <1>1, CreateReads, CreatePermissionKeeps, AssignPermissionKeeps, AssignReads, RemoveKeeps,
     MintBegins DEF Arrive
<1>2. ASSUME NEW r \in Requests, Proceed(r) PROVE IInv'
  BY <1>2, CreateReads, RoleInsertKeeps, PermissionInsertKeeps, GrantUpsertKeeps, AssignReads,
     AssignUpsertKeeps, RemoveKeeps, MintReads, EndKeeps DEF Proceed
<1>3. ASSUME NEW r \in Requests, Fail(r) PROVE IInv'
  BY <1>3, EndKeeps
<1>4. ASSUME NEW i \in RoleIds, DeleteRole(i) PROVE IInv'
  BY <1>4, DeleteKeeps
<1>5. ASSUME NEW i \in RoleIds, NEW p \in Perms, RemovePermission(i, p) PROVE IInv'
  BY <1>5, RemovePermissionKeeps
<1>6. CASE UNCHANGED vars
  BY <1>6, ReadKeeps DEF vars, Unwritten, IInv, RequestsOK
<1> QED
  BY <1>1, <1>2, <1>3, <1>4, <1>5, <1>6 DEF Next

(***************************************************************************)
(* The inductive invariant holds in every reachable state.                 *)
(***************************************************************************)
THEOREM Invariance == Spec => []IInv
BY InitInv, NextInv, PTL DEF Spec

(***************************************************************************)
(* The tables and the requests have their types.                           *)
(***************************************************************************)
THEOREM TypeCorrect == Spec => []TypeOK
<1>1. IInv => TypeOK
  BY DEF IInv, TablesOK, TablesType, RequestsOK, HistoryOK, TypeOK
<1> QED
  BY <1>1, Invariance, PTL

(***************************************************************************)
(* No two roles have one name.                                             *)
(***************************************************************************)
THEOREM NamesUniqueHolds == Spec => []NamesUnique
<1>1. IInv => NamesUnique
  BY DEF IInv, TablesOK
<1> QED
  BY <1>1, Invariance, PTL

(***************************************************************************)
(* Assignments, grants and parents refer to roles that are there.          *)
(***************************************************************************)
THEOREM NoOrphansHolds == Spec => []NoOrphans
<1>1. IInv => NoOrphans
  BY DEF IInv, TablesOK
<1> QED
  BY <1>1, Invariance, PTL

-----------------------------------------------------------------------------
(* Nobody's rights widen *)

InheritedAfter(more) ==
  {i \in There' : \A X \in SUBSET There' :
     more \subseteq X /\ (\A j \in X : role'[j].parent \in X \cup {NoRole}) => i \in X}

Closed(X, ids) == ids \subseteq X /\ \A j \in X : role[j].parent \in X \cup {NoRole}

(***************************************************************************)
(* A step that only takes roles away, or adds roles that no other role has *)
(* for its parent, leaves everybody with at most the roles inherited       *)
(* before: what was closed under inheritance stays closed, up to roles     *)
(* that are gone.                                                          *)
(***************************************************************************)
LEMMA InheritedShrinks ==
  ASSUME IInv, NEW ids, NEW more, ids \subseteq There, more \subseteq ids,
         \A X \in SUBSET There : Closed(X, ids) =>
           \E Y \in SUBSET There' :
             /\ Y \subseteq X /\ more \subseteq Y
             /\ \A j \in Y : role'[j].parent \in Y \cup {NoRole}
  PROVE  InheritedAfter(more) \subseteq Inherited(ids)
<1> SUFFICES ASSUME NEW i \in InheritedAfter(more) PROVE i \in Inherited(ids)
  OBVIOUS
<1>1. ASSUME NEW X \in SUBSET There, Closed(X, ids) PROVE i \in X
  <2>1. PICK Y \in SUBSET There' : /\ Y \subseteq X /\ more \subseteq Y
                                   /\ \A j \in Y : role'[j].parent \in Y \cup {NoRole}
    BY <1>1
  <2>2. i \in Y
    BY <2>1 DEF InheritedAfter
  <2> QED
    BY <2>1, <2>2
<1>2. Closed(There, ids)
  BY DEF Closed, IInv, TablesOK, NoOrphans
<1>3. i \in There
  BY <1>1, <1>2
<1> QED
  BY <1>1, <1>3 DEF Inherited, Closed

LEMMA DirectThere == ASSUME IInv, NEW u \in Users PROVE DirectRoles(u) \subseteq There
BY DEF DirectRoles, IInv, TablesOK, NoOrphans

(* Roles that are inherited no more give no permission more. *)
LEMMA FewerPerms ==
  ASSUME NEW u \in Users, granted' \subseteq granted,
         Inherited(DirectRoles(u))' \subseteq Inherited(DirectRoles(u))
  PROVE  EffectivePerms(u)' \subseteq EffectivePerms(u)
<1> SUFFICES ASSUME NEW p \in Perms, NEW i \in Inherited(DirectRoles(u))', <<i, p>> \in granted'
             PROVE  p \in EffectivePerms(u)
  BY DEF EffectivePerms, PermsOf
<1> QED
  BY DEF EffectivePerms, PermsOf

(* With the roles as they were, fewer grants and assignments give no more. *)
LEMMA SameRoles ==
  ASSUME IInv, UNCHANGED role, granted' \subseteq granted, NEW u \in Users,
         DirectRoles(u)' \subseteq DirectRoles(u)
  PROVE  EffectivePerms(u)' \subseteq EffectivePerms(u)
<1>1. There' = There
  BY DEF There
<1>2. Inherited(DirectRoles(u))' \subseteq Inherited(DirectRoles(u))
  BY <1>1 DEF Inherited
<1> QED
  BY <1>2, FewerPerms

LEMMA InsertWidensNot ==
  ASSUME IInv, NEW r \in Requests, RoleInsert(r), NEW u \in Users
  PROVE  EffectivePerms(u)' \subseteq EffectivePerms(u)
<1>0. UNCHANGED <<assigned, granted>>
  BY DEF RoleInsert
<1>d. DirectRoles(u)' = DirectRoles(u)
  BY <1>0 DEF DirectRoles
<1>1. CASE role' = role
  BY <1>0, <1>1, <1>d, SameRoles
<1>2. CASE role' # role
  <2>1. PICK i \in RoleIds : /\ role[i].status = "unused"
                             /\ role' = [role EXCEPT ![i] =
                                  [status |-> "there", name |-> req[r].name, parent |-> req[r].id]]
    BY <1>2 DEF RoleInsert
  <2>2. There \subseteq There' /\ \A j \in There : role'[j] = role[j]
    BY <2>1 DEF There, IInv, TablesOK, TablesType
  <2>3. ASSUME NEW X \in SUBSET There, Closed(X, DirectRoles(u))
        PROVE  \E Y \in SUBSET There' : /\ Y \subseteq X /\ DirectRoles(u) \subseteq Y
                                        /\ \A j \in Y : role'[j].parent \in Y \cup {NoRole}
    <3>1. X \in SUBSET There' /\ \A j \in X : role'[j].parent \in X \cup {NoRole}
      BY <2>2, <2>3 DEF Closed
    <3> QED
      BY <2>3, <3>1 DEF Closed
  <2>4. PICK ids : ids = DirectRoles(u) /\ ids = DirectRoles(u)'
    BY <1>d
  <2>5. InheritedAfter(ids) \subseteq Inherited(ids)
    BY <2>3, <2>4, DirectThere, InheritedShrinks
  <2>6. Inherited(DirectRoles(u))' = InheritedAfter(DirectRoles(u)')
    BY DEF Inherited, InheritedAfter
  <2>7. Inherited(DirectRoles(u))' \subseteq Inherited(DirectRoles(u))
    BY <2>4, <2>5, <2>6
  <2> QED
    BY <1>0, <2>7, FewerPerms
<1> QED
  BY <1>1, <1>2

LEMMA DeleteWidensNot ==
  ASSUME IInv, NEW i \in RoleIds, DeleteRole(i), NEW u \in Users
  PROVE  EffectivePerms(u)' \subseteq EffectivePerms(u)
<1>1. PICK ids, more : ids = DirectRoles(u) /\ more = DirectRoles(u)'
  OBVIOUS
<1>2. more = ids \ {i}
  BY <1>1, DeleteEffect DEF DirectRoles
<1>3. ASSUME NEW X \in SUBSET There, Closed(X, ids)
      PROVE  \E Y \in SUBSET There' : /\ Y \subseteq X /\ more \subseteq Y
                                      /\ \A j \in Y : role'[j].parent \in Y \cup {NoRole}
  <2> DEFINE Y == X \ {i}
  <2>1. Y \in SUBSET There' /\ Y \subseteq X /\ more \subseteq Y
    BY <1>2, <1>3, DeleteEffect DEF Closed
  <2>2. ASSUME NEW j \in Y PROVE role'[j].parent \in Y \cup {NoRole}
    <3>1. j \in There' /\ role[j].parent \in X \cup {NoRole}
      BY <1>3, <2>1 DEF Closed
    <3>2. role'[j].parent = IF role[j].parent = i THEN NoRole ELSE role[j].parent
      BY <3>1, DeleteEffect
    <3> QED
      BY <3>1, <3>2
  <2> QED
    BY <2>1, <2>2
<1>4. Inherited(DirectRoles(u))' \subseteq Inherited(DirectRoles(u))
  <2>1. ids \subseteq There /\ more \subseteq ids
    BY <1>1, <1>2, DirectThere
  <2>2. InheritedAfter(more) \subseteq Inherited(ids)
    BY <1>3, <2>1, InheritedShrinks
  <2>3. Inherited(DirectRoles(u))' = InheritedAfter(DirectRoles(u)')
    BY DEF Inherited, InheritedAfter
  <2> QED
    BY <1>1, <2>2, <2>3
<1>5. granted' \subseteq granted
  BY DEF DeleteRole
<1> QED
  BY <1>4, <1>5, FewerPerms

(***************************************************************************)
(* A user gains a permission only by an assignment to that user or by a    *)
(* grant to a role.                                                        *)
(***************************************************************************)
THEOREM OnlyGrantsWidenAlways == Spec => OnlyGrantsWiden
<1> DEFINE NotWider(u) == \/ EffectivePerms(u)' \subseteq EffectivePerms(u)
                          \/ granted' \ granted # {}
                          \/ \E i \in RoleIds : <<u, i>> \in assigned' \ assigned
<1>1. ASSUME IInv, [Next]_vars, NEW u \in Users PROVE NotWider(u)
  <2>1. CASE \E r \in Requests : RoleInsert(r)
    BY <1>1, <2>1, InsertWidensNot
  <2>2. CASE \E i \in RoleIds : DeleteRole(i)
    BY <1>1, <2>2, DeleteWidensNot
  <2>3. CASE UNCHANGED role
    <3>1. CASE granted' \subseteq granted /\ DirectRoles(u)' \subseteq DirectRoles(u)
      BY <1>1, <2>3, <3>1, SameRoles
    <3>2. CASE ~(DirectRoles(u)' \subseteq DirectRoles(u))
      BY <3>2 DEF DirectRoles
    <3> QED
      BY <3>1, <3>2
  <2>4. ASSUME NEW r \in Requests, Proceed(r), ~RoleInsert(r) PROVE UNCHANGED role
    BY <2>4 DEF Proceed, CreateRoleParent, PermissionInsert, GrantUpsert, AssignFind, AssignLookup,
                AssignUpsert, RemoveLookup, RemoveDelete, MintRoles, MintAll, MintPerms, MintDone,
                Unwritten, tables
  <2>5. ASSUME NEW r \in Requests, Arrive(r) \/ Fail(r) PROVE UNCHANGED role
    BY <2>5 DEF Arrive, Fail, CreateRole, CreatePermission, AssignPermission, AssignRole, RemoveRole,
                Mint, Unwritten, tables
  <2>6. ASSUME UNCHANGED vars \/ \E i \in RoleIds, p \in Perms : RemovePermission(i, p)
        PROVE  UNCHANGED role
    BY <2>6 DEF vars, RemovePermission
  <2> QED
    BY <1>1, <2>1, <2>2, <2>3, <2>4, <2>5, <2>6 DEF Next
<1>2. IInv /\ [Next]_vars => [\A u \in Users : NotWider(u)]_vars
  BY <1>1
<1> QED
  BY <1>2, Invariance, PTL DEF Spec, OnlyGrantsWiden
=============================================================================
