\* A chat and two battle requests; two failures trip the breaker.
SPECIFICATION Spec
CONSTANTS
  FailureThreshold = 2
  HalfOpenMax = 2
  Chats = {c1, c2}
  Battles = {b1, b2}
  MaxAborts = 2
INVARIANTS FailuresMatchState ProbeBudget
PROPERTIES ClosesUnlessSlotLeaks
