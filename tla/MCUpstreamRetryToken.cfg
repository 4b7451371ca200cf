SPECIFICATION Spec
CONSTANTS
  spare = spare
  Default = default
  Cookies = {spare, default}
  Configured <- StartLists
  FailThreshold = 2
  Requests = {r1}
  Keys = {a}
  TextLength = 1
  RetryAttempts = 3
  None = None
INVARIANT TokenObtainedForAttempt
