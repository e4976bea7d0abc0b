\* One upload named by two rows, two requests next to the cleaner and the worker.
SPECIFICATION FairSpec
CONSTANTS
  Uploads = {u1}
  Media = {m1, m2}
  StoryIds = {s1, s2}
  Workers = {w1}
  Cleaners = {c1}
  Requests = {r1, r2}
  MaxUses = 2
  MaxFailures = 1
INVARIANTS MissingIsShared RemovedIsArchived CopiesBounded
PROPERTY ExpiredGoes
CHECK_DEADLOCK FALSE
