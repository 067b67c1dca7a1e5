\* One account and no failures: every reset that passes its checks should use its token up.
SPECIFICATION Spec
CONSTANTS
  Emails = {e1}
  Passwords = {p1}
  Tokens = {t1, t2}
  Requests = {r1}
  CanFail = {}
  NoEmail = NoEmail
  NoPassword = NoPassword
  NoToken = NoToken
PROPERTY TokensAreConsumed
