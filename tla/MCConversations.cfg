SPECIFICATION Spec
CONSTANTS
  Clients = {c1, c2}
  Messages = {u}
  Replies = {a}
  Dressed = {d}
  Cap = 2
  Keep = 1
  None = None
  MaxConversations = 3
  MaxLength = 5
  MaxFailures = 1
SYMMETRY Symmetry
INVARIANTS
  StoredUnderHistory
  ContextUnlessDisturbed
  SerialUnlessEvicted
PROPERTIES
  NextTurnContinues
CHECK_DEADLOCK FALSE
