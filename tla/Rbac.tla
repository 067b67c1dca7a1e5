-------------------------------- MODULE Rbac --------------------------------
(***************************************************************************)
(* Roles and permissions of the identity service: the administration       *)
(* services (CreateRoleService, AssignRoleService, RemoveRoleService,      *)
(* CreatePermissionService, AssignPermissionService,                       *)
(* RemovePermissionService, RoleController.delete) over the roles,         *)
(* permissions, user_roles and role_permissions tables, and the resolution *)
(* of a user's effective roles and permissions that login and refresh put  *)
(* into a token (AuthorizationEngine, PermissionResolver).                 *)
(*                                                                         *)
(* A request runs from one await to the next.  A role's id is a UUID drawn *)
(* once; a permission is named by its unique name.  The routes of the      *)
(* administration services give their dispatcher no handler, so their      *)
(* events go nowhere and are no state here.                                *)
(***************************************************************************)
EXTENDS FiniteSets, FiniteSetsExt

CONSTANTS
  Users,        \* accounts; no service deletes one
  Names,        \* role names
  RoleIds,      \* bound: the UUIDs a run may draw for roles
  Perms,        \* permission names
  Requests,     \* bound: how many requests are served at the same time
  NoUser, NoName, NoRole, NoPerm

ASSUME NamesAssumption ==
  /\ NoUser \notin Users
  /\ NoName \notin Names
  /\ NoRole \notin RoleIds
  /\ NoPerm \notin Perms

VARIABLES
  role,         \* roles table
  perm,         \* permissions table
  assigned,     \* user_roles table
  granted,      \* role_permissions table
  req,          \* the requests being served
  writes        \* history: what each request saw committed since it began

tables == <<role, perm, assigned, granted>>
vars == <<role, perm, assigned, granted, req, writes>>

-----------------------------------------------------------------------------
RoleRow == [status : {"unused", "there", "deleted"},
            name   : Names \cup {NoName},
            parent : RoleIds \cup {NoRole}]

AdminSteps == {"create.parent", "create.insert", "permission.insert", "grant.upsert",
               "assign.find", "assign.lookup", "assign.upsert",
               "remove.lookup", "remove.delete"}
MintSteps  == {"mint.roles", "mint.all", "mint.perms", "mint.done"}

(***************************************************************************)
(* A request's locals.  A resolution keeps the names findRoles gave it,    *)
(* the effective roles, those whose permissions are still to be read and   *)
(* the permissions so far; hadRoles and hadPerms are history, what the     *)
(* user effectively had when it began.                                     *)
(***************************************************************************)
Request == [pc       : AdminSteps \cup MintSteps \cup {"idle"},
            user     : Users \cup {NoUser},
            name     : Names \cup {NoName},
            id       : RoleIds \cup {NoRole},
            perm     : Perms \cup {NoPerm},
            names    : SUBSET Names,
            todo     : SUBSET RoleIds,
            roles    : SUBSET Names,
            perms    : SUBSET Perms,
            hadRoles : SUBSET Names,
            hadPerms : SUBSET Perms]

NoRow == [status |-> "unused", name |-> NoName, parent |-> NoRole]
Idle == [pc |-> "idle", user |-> NoUser, name |-> NoName, id |-> NoRole, perm |-> NoPerm,
         names |-> {}, todo |-> {}, roles |-> {}, perms |-> {},
         hadRoles |-> {}, hadPerms |-> {}]

TypeOK ==
  /\ role \in [RoleIds -> RoleRow]
  /\ perm \subseteq Perms
  /\ assigned \subseteq Users \X RoleIds
  /\ granted \subseteq RoleIds \X Perms
  /\ req \in [Requests -> Request]
  /\ writes \in [Requests -> SUBSET {"add", "remove"}]

Init ==
  /\ role = [i \in RoleIds |-> NoRow]
  /\ perm = {}
  /\ assigned = {}
  /\ granted = {}
  /\ req = [r \in Requests |-> Idle]
  /\ writes = [r \in Requests |-> {}]

-----------------------------------------------------------------------------
At(r, step)   == req[r].pc = step
Minting(r)    == req[r].pc \in MintSteps
Become(r, q)  == req' = [req EXCEPT ![r] = q]
Goto(r, step) == Become(r, [req[r] EXCEPT !.pc = step])
Finish(r)     == Become(r, Idle)

There == {i \in RoleIds : role[i].status = "there"}
Named(n) == {i \in There : role[i].name = n}

(* A resolution remembers which kinds of write overlapped it. *)
Wrote(kind) ==
  writes' = [r \in Requests |-> IF Minting(r) THEN writes[r] \cup {kind} ELSE writes[r]]

Unwritten == UNCHANGED <<role, perm, assigned, granted, writes>>

(* Bound: a role is created only while an id is left for it. *)
RoomForRole ==
  Cardinality({i \in RoleIds : role[i].status = "unused"}) >
    Cardinality({r \in Requests : req[r].pc \in {"create.parent", "create.insert"}})

-----------------------------------------------------------------------------
(* CreateRoleService.execute                                               *)

(* The first query of a handler is made on arrival: findByName. *)
CreateRole(r, n, p) ==
  /\ At(r, "idle")
  /\ RoomForRole
  /\ p # NoRole => role[p].status # "unused"
  /\ \/ Named(n) # {} /\ UNCHANGED req
     \/ /\ Named(n) = {}
        /\ Become(r, [req[r] EXCEPT !.pc = IF p = NoRole THEN "create.insert" ELSE "create.parent",
                                    !.name = n, !.id = p])
  /\ Unwritten

(* findById of the parent. *)
CreateRoleParent(r) ==
  /\ At(r, "create.parent")
  /\ IF req[r].id \in There THEN Goto(r, "create.insert") ELSE Finish(r)
  /\ Unwritten

(* Mutant: create upserts by name, and so moves a role to another parent. *)
RoleUpsert(r) ==
  /\ At(r, "create.insert")
  /\ req[r].id # NoRole => req[r].id \in There
  /\ \/ \E i \in Named(req[r].name) : role' = [role EXCEPT ![i].parent = req[r].id]
     \/ /\ Named(req[r].name) = {}
        /\ \E i \in RoleIds :
             /\ role[i].status = "unused"
             /\ role' = [role EXCEPT ![i] =
                           [status |-> "there", name |-> req[r].name, parent |-> req[r].id]]
  /\ Wrote("add")
  /\ Finish(r)
  /\ UNCHANGED <<perm, assigned, granted>>

(* Mutant: the name column is not unique. *)
RoleInsertAnyName(r) ==
  /\ At(r, "create.insert")
  /\ req[r].id # NoRole => req[r].id \in There
  /\ \E i \in RoleIds :
       /\ role[i].status = "unused"
       /\ role' = [role EXCEPT ![i] =
                     [status |-> "there", name |-> req[r].name, parent |-> req[r].id]]
  /\ Wrote("add")
  /\ Finish(r)
  /\ UNCHANGED <<perm, assigned, granted>>

(* The INSERT, refused when the name was taken or the parent deleted in the meantime. *)
RoleInsert(r) ==
  /\ At(r, "create.insert")
  /\ LET refused == Named(req[r].name) # {} \/ (req[r].id # NoRole /\ req[r].id \notin There) IN
       \/ refused /\ UNCHANGED <<role, writes>>
       \/ /\ ~refused
          /\ \E i \in RoleIds :
               /\ role[i].status = "unused"
               /\ role' = [role EXCEPT ![i] =
                             [status |-> "there", name |-> req[r].name, parent |-> req[r].id]]
          /\ Wrote("add")
  /\ Finish(r)
  /\ UNCHANGED <<perm, assigned, granted>>

-----------------------------------------------------------------------------
(* RoleController.delete: one DELETE with its referential actions          *)

(* Mutant: the rows that refer to the role stay. *)
DeleteRoleAlone(i) ==
  /\ i \in There
  /\ role' = [role EXCEPT ![i].status = "deleted"]
  /\ Wrote("remove")
  /\ UNCHANGED <<perm, assigned, granted, req>>

(* Children lose their parent; assignments and grants go with the role. *)
DeleteRole(i) ==
  /\ i \in There
  /\ role' = [j \in RoleIds |->
                IF j = i THEN [NoRow EXCEPT !.status = "deleted"]
                ELSE IF role[j].parent = i THEN [role[j] EXCEPT !.parent = NoRole]
                ELSE role[j]]
  /\ assigned' = {a \in assigned : a[2] # i}
  /\ granted' = {g \in granted : g[1] # i}
  /\ Wrote("remove")
  /\ UNCHANGED <<perm, req>>

-----------------------------------------------------------------------------
(* CreatePermissionService, AssignPermissionService, RemovePermissionService *)

CreatePermission(r, p) ==
  /\ At(r, "idle")
  /\ \/ p \in perm /\ UNCHANGED req
     \/ p \notin perm /\ Become(r, [req[r] EXCEPT !.pc = "permission.insert", !.perm = p])
  /\ Unwritten

(* Refused when the name was taken in the meantime. *)
PermissionInsert(r) ==
  /\ At(r, "permission.insert")
  /\ perm' = perm \cup {req[r].perm}
  /\ Finish(r)
  /\ UNCHANGED <<role, assigned, granted, writes>>

(* findById of the role; the permission is not looked up. *)
AssignPermission(r, i, p) ==
  /\ At(r, "idle")
  /\ role[i].status # "unused"
  /\ \/ i \notin There /\ UNCHANGED req
     \/ i \in There /\ Become(r, [req[r] EXCEPT !.pc = "grant.upsert", !.id = i, !.perm = p])
  /\ Unwritten

(* The upsert, refused by its foreign keys. *)
GrantUpsert(r) ==
  /\ At(r, "grant.upsert")
  /\ \/ /\ req[r].id \in There /\ req[r].perm \in perm
        /\ granted' = granted \cup {<<req[r].id, req[r].perm>>}
        /\ Wrote("add")
     \/ /\ req[r].id \notin There \/ req[r].perm \notin perm
        /\ UNCHANGED <<granted, writes>>
  /\ Finish(r)
  /\ UNCHANGED <<role, perm, assigned>>

(* One DELETE, whose failure is ignored. *)
RemovePermission(i, p) ==
  /\ <<i, p>> \in granted
  /\ granted' = granted \ {<<i, p>>}
  /\ Wrote("remove")
  /\ UNCHANGED <<role, perm, assigned, req>>

-----------------------------------------------------------------------------
(* AssignRoleService.execute, RemoveRoleService.execute                    *)

(* findById of the user, who is there. *)
AssignRole(r, u, n) ==
  /\ At(r, "idle")
  /\ Become(r, [req[r] EXCEPT !.pc = "assign.find", !.user = u, !.name = n])
  /\ Unwritten

(* findByName *)
AssignFind(r) ==
  /\ At(r, "assign.find")
  /\ IF Named(req[r].name) = {} THEN Finish(r) ELSE Goto(r, "assign.lookup")
  /\ Unwritten

(* The repository looks the name up again, and takes the id from this answer. *)
AssignLookup(r) ==
  /\ At(r, "assign.lookup")
  /\ \/ Named(req[r].name) = {} /\ Finish(r)
     \/ \E i \in Named(req[r].name) :
          Become(r, [req[r] EXCEPT !.pc = "assign.upsert", !.id = i])
  /\ Unwritten

AssignUpsert(r) ==
  /\ At(r, "assign.upsert")
  /\ \/ /\ req[r].id \in There
        /\ assigned' = assigned \cup {<<req[r].user, req[r].id>>}
        /\ Wrote("add")
     \/ req[r].id \notin There /\ UNCHANGED <<assigned, writes>>
  /\ Finish(r)
  /\ UNCHANGED <<role, perm, granted>>

(* findByName: nothing to do for an unknown role. *)
RemoveRole(r, u, n) ==
  /\ At(r, "idle")
  /\ \/ Named(n) = {} /\ UNCHANGED req
     \/ Named(n) # {} /\ Become(r, [req[r] EXCEPT !.pc = "remove.lookup", !.user = u, !.name = n])
  /\ Unwritten

RemoveLookup(r) ==
  /\ At(r, "remove.lookup")
  /\ \/ Named(req[r].name) = {} /\ Finish(r)
     \/ \E i \in Named(req[r].name) :
          Become(r, [req[r] EXCEPT !.pc = "remove.delete", !.id = i])
  /\ Unwritten

RemoveDelete(r) ==
  /\ At(r, "remove.delete")
  /\ assigned' = assigned \ {<<req[r].user, req[r].id>>}
  /\ Wrote("remove")
  /\ Finish(r)
  /\ UNCHANGED <<role, perm, granted>>

-----------------------------------------------------------------------------
(* PermissionResolver, as login and refresh call it                        *)

(* A mutant: the parents of a role are not visited. *)
CollectDirect(names) == UNION {Named(n) : n \in names}

(* Nothing for a role already visited or not in the table, else the role and its parent's. *)
collectRoles[eff \in SUBSET RoleIds] ==
  [i \in RoleIds \cup {NoRole} |->
     IF i \in eff \/ i \notin There THEN eff ELSE collectRoles[eff \cup {i}][role[i].parent]]

(* The loop over the names: each role that is found adds what is collected from there. *)
Collect(names) ==
  FoldSet(LAMBDA i, eff : collectRoles[eff][i], {}, UNION {Named(n) : n \in names})

NamesOf(ids) == {n \in Names : \E i \in ids : role[i].name = n}
PermsOf(ids) == {p \in Perms : \E i \in ids : <<i, p>> \in granted}

(* Inheritance as a definition: the least set with the given roles and their parents. *)
Inherited(ids) ==
  {i \in There :
     \A X \in SUBSET There :
       ids \subseteq X /\ (\A j \in X : role[j].parent \in X \cup {NoRole}) => i \in X}

DirectRoles(u)    == {i \in RoleIds : <<u, i>> \in assigned}
EffectiveRoles(u) == NamesOf(Inherited(DirectRoles(u)))
EffectivePerms(u) == PermsOf(Inherited(DirectRoles(u)))

(* Mutant: findRoles returns ids in place of names. *)
MintIds(r, u) ==
  /\ At(r, "idle")
  /\ Become(r, [req[r] EXCEPT !.pc = "mint.roles", !.user = u, !.names = DirectRoles(u),
                              !.hadRoles = EffectiveRoles(u), !.hadPerms = EffectivePerms(u)])
  /\ UNCHANGED <<role, perm, assigned, granted, writes>>

(* findRoles: the names of the user's own roles. *)
Mint(r, u) ==
  /\ At(r, "idle")
  /\ Become(r, [req[r] EXCEPT !.pc = "mint.roles", !.user = u, !.names = NamesOf(DirectRoles(u)),
                              !.hadRoles = EffectiveRoles(u), !.hadPerms = EffectivePerms(u)])
  /\ UNCHANGED <<role, perm, assigned, granted, writes>>

(* resolveRoles: findAll. *)
MintRoles(r) ==
  /\ At(r, "mint.roles")
  /\ Become(r, [req[r] EXCEPT !.pc = "mint.all", !.roles = NamesOf(Collect(req[r].names))])
  /\ Unwritten

ReadsLeft(todo) == IF todo = {} THEN "mint.done" ELSE "mint.perms"

(* resolveEffectivePermissions: another findAll. *)
MintAll(r) ==
  /\ At(r, "mint.all")
  /\ LET ids == Collect(req[r].names) \cap There
     IN  Become(r, [req[r] EXCEPT !.pc = ReadsLeft(ids), !.todo = ids])
  /\ Unwritten

(* findPermissions of one effective role after the other. *)
MintPerms(r) ==
  /\ At(r, "mint.perms")
  /\ \E i \in req[r].todo :
       Become(r, [req[r] EXCEPT !.pc = ReadsLeft(req[r].todo \ {i}),
                                !.todo = req[r].todo \ {i},
                                !.perms = req[r].perms \cup PermsOf({i})])
  /\ Unwritten

(* The token is signed with what was read; AuthSessions goes on from here. *)
MintDone(r) ==
  /\ At(r, "mint.done")
  /\ Finish(r)
  /\ writes' = [writes EXCEPT ![r] = {}]
  /\ UNCHANGED tables

-----------------------------------------------------------------------------
(* The awaited call of a request throws, or its process dies. *)
Fail(r) ==
  /\ ~At(r, "idle")
  /\ Finish(r)
  /\ writes' = [writes EXCEPT ![r] = {}]
  /\ UNCHANGED tables

Arrive(r) ==
  \/ \E n \in Names, p \in RoleIds \cup {NoRole} : CreateRole(r, n, p)
  \/ \E p \in Perms : CreatePermission(r, p)
  \/ \E i \in RoleIds, p \in Perms : AssignPermission(r, i, p)
  \/ \E u \in Users, n \in Names : AssignRole(r, u, n) \/ RemoveRole(r, u, n)
  \/ \E u \in Users : Mint(r, u)

Proceed(r) ==
  \/ CreateRoleParent(r) \/ RoleInsert(r) \/ PermissionInsert(r) \/ GrantUpsert(r)
  \/ AssignFind(r) \/ AssignLookup(r) \/ AssignUpsert(r) \/ RemoveLookup(r) \/ RemoveDelete(r)
  \/ MintRoles(r) \/ MintAll(r) \/ MintPerms(r) \/ MintDone(r)

Next ==
  \/ \E r \in Requests : Arrive(r) \/ Proceed(r) \/ Fail(r)
  \/ \E i \in RoleIds : DeleteRole(i)
  \/ \E i \in RoleIds, p \in Perms : RemovePermission(i, p)

Spec == Init /\ [][Next]_vars

-----------------------------------------------------------------------------
(* Safety                                                                  *)

(***************************************************************************)
(* No two roles have one name, also when their creations overlap: tokens   *)
(* and policies know roles by name only.                                   *)
(***************************************************************************)
NamesUnique == \A i, j \in There : role[i].name = role[j].name => i = j

(***************************************************************************)
(* Assignments, grants and parents refer to roles that are there: what a   *)
(* deletion overtook is refused and not stored.                            *)
(***************************************************************************)
NoOrphans ==
  /\ \A a \in assigned : a[2] \in There
  /\ \A g \in granted : g[1] \in There /\ g[2] \in perm
  /\ \A i \in There : role[i].parent \in There \cup {NoRole}

(***************************************************************************)
(* A token's roles and permissions are read in several queries without a   *)
(* transaction.  If only removals were committed meanwhile, the token has  *)
(* no more than the user had at the start and no less than the user has at *)
(* the end; if only additions were, the other way round; if nothing was,   *)
(* it is exact, as inheritance defines it.                                 *)
(***************************************************************************)
MintSandwiched ==
  \A r \in Requests :
    At(r, "mint.done") =>
      LET q == req[r] IN
        /\ "add" \notin writes[r] =>
             /\ EffectiveRoles(q.user) \subseteq q.roles /\ q.roles \subseteq q.hadRoles
             /\ EffectivePerms(q.user) \subseteq q.perms /\ q.perms \subseteq q.hadPerms
        /\ "remove" \notin writes[r] =>
             /\ q.hadRoles \subseteq q.roles /\ q.roles \subseteq EffectiveRoles(q.user)
             /\ q.hadPerms \subseteq q.perms /\ q.perms \subseteq EffectivePerms(q.user)

(***************************************************************************)
(* A user gains a permission only by an assignment to that user or by a    *)
(* grant to a role: creating or deleting roles, which rearranges the       *)
(* inheritance, never widens anybody's rights.                             *)
(***************************************************************************)
OnlyGrantsWiden ==
  [][\A u \in Users :
       \/ EffectivePerms(u)' \subseteq EffectivePerms(u)
       \/ granted' \ granted # {}
       \/ \E i \in RoleIds : <<u, i>> \in assigned' \ assigned]_vars
=============================================================================
