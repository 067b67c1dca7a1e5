\* Two replicas and two keys to roll over and back, in any order; tokens are signed over one connection.
SPECIFICATION Spec
CONSTANTS
  Processes = {p1, p2}
  NoProcess = none
  Conns = {c1}
  Kids = {k1, k2}
  FirstKid = k1
  MaxLen = 1
  Payloads <- MCPayloads
  Guards <- MCGuards
SYMMETRY MCSymmetry
INVARIANT TokensVerify
