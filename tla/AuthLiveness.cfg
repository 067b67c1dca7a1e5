\* One of two overlapping requests may fail; the other one must get through.
SPECIFICATION FairSpec
CONSTANTS
  MaxAttempts = 1
  Users = {u1}
  Strangers = {}
  SessionIds = {s1, s2}
  Requests = {r1, r2}
  CanFail = {r2}
  MaxAge = 0
  NoUser = NoUser
  NoSession = NoSession
PROPERTIES SuccessorReachesClient LogoutRevokes
