\* Two users, two requests at once, pages of one message, one failure.
SPECIFICATION Spec
CONSTANTS
  Users = {x, y}
  Requests = {r1, r2}
  PageSize = 1
  MaxMessages = 2
  MaxBegun = 5
  MaxFailures = 1
SYMMETRY Symmetry
INVARIANTS CrossingBounded BlockSevers ConversationsBounded ReadIsExplained
CHECK_DEADLOCK FALSE
