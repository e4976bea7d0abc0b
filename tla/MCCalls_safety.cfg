\* One call, two requests, the timer and the webhooks; one failure anywhere.
SPECIFICATION Spec
CONSTANTS
  Users = {a, b}
  Worker = w
  Calls = {c1}
  Handlers = {h1, h2}
  MaxFailures = 1
SYMMETRY Symmetry
INVARIANTS RingingIsGuarded EndedNoteMeansAnswered RevivalsBounded OrphanIsExplained
CHECK_DEADLOCK FALSE
