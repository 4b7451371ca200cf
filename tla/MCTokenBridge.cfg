SPECIFICATION Spec
CONSTANTS
  Chats = {c1, c2}
  Tests = {a1}
  Tokens = {t1, t2}
  None = None
  Failed = Failed
  MaxMishaps = 1
INVARIANTS
  TokenUsedOnce
  TokenForItsRequest
  PendingIsAwaited
  OnlyTestsOrphan
PROPERTIES
  AnsweredUnlessOrphaned
CHECK_DEADLOCK FALSE
