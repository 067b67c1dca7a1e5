\* One user, one permission, a name that can be taken again, two overlapping requests.
SPECIFICATION Spec
CONSTANTS
  Users = {u1}
  Names = {n1, n2}
  RoleIds = {i1, i2, i3}
  Perms = {p1}
  Requests = {r1, r2}
  NoUser = NoUser
  NoName = NoName
  NoRole = NoRole
  NoPerm = NoPerm
SYMMETRY Symmetry
INVARIANTS TypeOK NamesUnique NoOrphans MintSandwiched
PROPERTIES OnlyGrantsWiden
