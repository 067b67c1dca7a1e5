\* Two replicas, two connections, and one key that comes and goes; names of up to four characters.
SPECIFICATION Spec
CONSTANTS
  Processes = {p1, p2}
  NoProcess = none
  Conns = {c1, c2}
  Kids = {k1}
  FirstKid = k1
  MaxLen = 4
  Payloads <- MCPayloads
  Guards <- MCGuards
SYMMETRY MCSymmetry
INVARIANTS TypeOK ForbiddenIsAudited ServedBody EternalOnlyByFailure
PROPERTY CleanExit
