SPECIFICATION Spec
CONSTANTS
  Procs = {p1, p2}
  Patches = {c1}
  Obliged = {c1}
  Commits = {h1, h2}
  Sources = {t1, t2}
  Torn = Torn
  None = None
  MaxRows = 3
  MaxSanctions = 2
  MaxEvents = 1
SYMMETRY Symmetry
INVARIANTS
  OneWriter
  ControlledIsApproved
  SanctionClaimedOnce
PROPERTIES
  FailedApprovalRevoked
  AppliedAsAssessed
  ReplaySpentOnce
