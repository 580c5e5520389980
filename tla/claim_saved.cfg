SPECIFICATION FairSpec
CONSTANTS
  Requests = {r1, r2}
  Tasks = {t1, t2}
  Users = {u1}
  Contents = {c1}
  Absent = Absent
  Nobody = Nobody
  Ops = {"create"}
  Faults = {"publish"}
  UrlBinds = FALSE
PROPERTY SavedIsPublished
