\* Two overlapping requests, room for two successors of one session.
SPECIFICATION Spec
CONSTANTS
  MaxAttempts = 2
  Users = {u1}
  Strangers = {}
  SessionIds = {s1, s2, s3}
  Requests = {r1, r2}
  CanFail = {}
  MaxAge = 0
  NoUser = NoUser
  NoSession = NoSession
PROPERTY ReuseRevokesSuccessor
