\* One account, two overlapping requests that may each fail, two sessions, everything may expire.
SPECIFICATION Spec
CONSTANTS
  MaxAttempts = 2
  Users = {u1}
  Strangers = {x}
  SessionIds = {s1, s2}
  Requests = {r1, r2}
  CanFail = {r1, r2}
  MaxAge = 2
  NoUser = NoUser
  NoSession = NoSession
SYMMETRY Symmetry
INVARIANTS TypeOK LockAgreement ChainRevoked HeldBacked AuditTruthful LogoutHolds
PROPERTIES LockFreezes SpentMintsNothing ImplementsRegistry
