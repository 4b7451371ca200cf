SPECIFICATION FlightSpec
CONSTANTS
  Callers = {r1, r2, r3, r4}
  None = None
CHECK_DEADLOCK FALSE
INVARIANTS WaiterHasWaker AnswersGenuine QuietSingleFlight
PROPERTIES AnsweredUnlessStranded
