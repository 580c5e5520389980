SPECIFICATION Spec
CONSTANTS
  Requests = {r1, r2}
  Tasks = {t1}
  Users = {u1}
  Contents = {c1}
  Absent = Absent
  Nobody = Nobody
  Ops = {"create", "cancel"}
  Faults = {}
  UrlBinds = FALSE
PROPERTY OnlyPendingIsCanceled
