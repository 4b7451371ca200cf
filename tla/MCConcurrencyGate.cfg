SPECIFICATION Spec
CONSTANTS
  Requests = {r1, r2, r3, r4, r5}
  MaxConcurrent = 2
  MaxQueue = 2
INVARIANTS Accounting NoLostWakeup
PROPERTIES NoOvertaking NoStarvation ImplementsAdmission
