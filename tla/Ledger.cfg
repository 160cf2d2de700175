SPECIFICATION Spec
CONSTANTS
  Procs = {p1, p2}
  None = None
  Names = {1}
  Triggers = {k1}
  MaxCalls = 3
  MaxDamage = 1
SYMMETRY Symmetry
INVARIANT AuditIsTrue
PROPERTY KeepsLog
CHECK_DEADLOCK FALSE
