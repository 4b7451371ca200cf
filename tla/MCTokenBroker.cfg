SPECIFICATION Spec
CONSTANTS
    TokenRequests = {t1, t2}
    OtherRequests = {k}
    Extensions = {e1, e2}
    Outsiders = {o}
    None = None
    MaxBurst = 1
    Impatient = {t1}
INVARIANTS
    SlotsAccounted
    PendingIsAwaited
    ConnectedIsRegistered
    StopAnswersAll
PROPERTY
    EndsUnlessFull
CHECK_DEADLOCK FALSE
