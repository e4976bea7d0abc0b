\* Two tabs, two logins, three tokens in all, a ban and its end, one failure.
SPECIFICATION SessionsSpec
CONSTANTS
  Tabs = {i1, i2}
  MaxTokens = 3
  MaxSessions = 2
  MaxBans = 2
  MaxLosses = 1
SYMMETRY Symmetry
INVARIANTS OneLiveToken LogoutSticks RefusalIsExplained
CHECK_DEADLOCK FALSE
