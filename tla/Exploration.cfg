SPECIFICATION Spec
CONSTANTS
  MaxFlights = 2
  MaxChanges = 1
  Callers <- MCCallers
INVARIANTS
  OneFlight
  QuietAfterWait
CHECK_DEADLOCK FALSE
PROPERTIES
  BusyEnds
