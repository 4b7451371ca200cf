SPECIFICATION Spec
CONSTANTS
  spare = spare
  Default = default
  Cookies = {spare, default}
  Configured <- StartLists
  FailThreshold = 2
  Requests = {r1}
  Keys = {a, b}
  TextLength = 2
  RetryAttempts = 3
  None = None
INVARIANTS HealthMatchesFails TextIntact
PROPERTIES NotPassedOver EveryRequestEnds
