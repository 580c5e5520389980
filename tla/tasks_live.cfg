SPECIFICATION FairSpec
CONSTANTS
  Requests = {r1, r2, r3}
  Tasks = {t1}
  Users = {u1}
  Contents = {c1, c2}
  Absent = Absent
  Nobody = Nobody
  Ops = {"create", "get", "update", "cancel"}
  Faults = {"crash", "publish", "statement", "redis", "broker"}
  UrlBinds = FALSE
PROPERTY AnswerIsCommitted
PROPERTY AnnouncedIsCommitted
PROPERTY EveryRequestIsAnswered
PROPERTY CreatedTaskIsFinished
