SPECIFICATION Spec
CONSTANTS
  Requests = {r1, r2, r3, r4}
  Users = {u1}
  Tokens = {k1, k2, k3, k4}
  NoSession = NoSession
  Nobody = Nobody
  Lifetime = 1
  MaxTime = 2
  Failing = TRUE
SYMMETRY Symmetry
INVARIANT TypeOK
INVARIANT RevokedTokensAreDead
INVARIANT HandedOutTokensLast
PROPERTY OnlyLoginOpens
INVARIANT IInv
