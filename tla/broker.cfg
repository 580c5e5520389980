SPECIFICATION FairSpec
CONSTANTS
  Processes = {p1, p2}
  Workers = {w1, w2}
  Messages = {m1, m2}
  Levels = 2
  MaxAttempts = 3
  Idle = Idle
  Faults = {"process", "worker", "broker", "reject"}
  MaxFaults = 1
INVARIANT TypeOK
INVARIANT ServingIsRouted
INVARIANT NothingElseIsLost
INVARIANT OnlyDeathsDuplicate
PROPERTY BackoffDoubles
PROPERTY PublishedIsSettled
