SPECIFICATION FairSpec
CONSTANTS
  Users = {a, b}
  Worker = w
  Calls = {c1}
  Handlers = {h1}
  MaxFailures = 0
PROPERTIES RingingEnds ActiveEnds
CHECK_DEADLOCK FALSE
