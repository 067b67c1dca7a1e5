\* Two people may register one address at the same time, each with a password of their own.
SPECIFICATION Spec
CONSTANTS
  Emails = {e1, e2}
  Passwords = {p1, p2}
  Tokens = {t1, t2, t3}
  Requests = {r1, r2}
  CanFail = {r1, r2}
  NoEmail = NoEmail
  NoPassword = NoPassword
  NoToken = NoToken
SYMMETRY Symmetry
INVARIANTS TypeOK AnsweredIsWhole HalfMadeByFailure MailIsBacked AuditTruthful
PROPERTIES PasswordKept
