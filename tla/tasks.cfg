SPECIFICATION Spec
CONSTANTS
  Requests = {r1, r2, r3}
  Tasks = {t1, t2}
  Users = {u1, u2}
  Contents = {c1, c2}
  Absent = Absent
  Nobody = Nobody
  Ops = {"create", "batch", "update", "cancel"}
  Faults = {"crash", "publish", "commit"}
  UrlBinds = TRUE
SYMMETRY Symmetry
INVARIANT TypeOK
INVARIANT IInv
INVARIANT LocksAreReleased
INVARIANT AcceptedIsPublished
INVARIANT CountersKeepUp
INVARIANT PendingIsQueued
INVARIANT QueuedIsStored
PROPERTY OnlyOwnersWrite
PROPERTY ImplementsLedger
