\* Two requests for codes and two attempts at once; one wrong code allowed.
SPECIFICATION FairSpec
CONSTANTS
  Senders = {s1, s2}
  Guessers = {g1, g2}
  RateLimit = 2
  MaxAttempts = 1
  MaxCodes = 2
  MaxFailures = 1
INVARIANTS TimeToLiveIsOwed GuessesBounded CodeUsedOnce LiveCodesBounded
PROPERTIES RateClears ImplementsCodes
CHECK_DEADLOCK FALSE
