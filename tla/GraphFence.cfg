SPECIFICATION Spec
CONSTANTS
  MaxFlights = 1
  MaxChanges = 2
  Callers <- MCCallers
INVARIANTS
  AnswersAreOfTheSnapshot
CHECK_DEADLOCK FALSE
