\* Two posts, one of them beyond the reindexing limit, two requests at once.
SPECIFICATION FairSpec
CONSTANTS
  Posts = {p1, p2}
  Handlers = {h1, h2}
  Alerts = {a1}
  ReindexMax = 1
  MaxChanges = 3
  MaxFailures = 1
INVARIANTS StaleIsExplained AlertedOnce
PROPERTY IndexSettles
CHECK_DEADLOCK FALSE
