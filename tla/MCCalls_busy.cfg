SPECIFICATION Spec
CONSTANTS
  Users = {a, b}
  Worker = w
  Calls = {c1, c2}
  Handlers = {h1}
  MaxFailures = 0
INVARIANT OneCallPerUser
CHECK_DEADLOCK FALSE
