SPECIFICATION Spec
CONSTANTS
  Requests = {r1, r2}
  Users = {u1}
  Tokens = {k1, k2}
  NoSession = NoSession
  Nobody = Nobody
  Lifetime = 1
  MaxTime = 2
  Failing = FALSE
PROPERTY LoginGivesValidToken
