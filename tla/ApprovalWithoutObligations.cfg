SPECIFICATION Spec
CONSTANTS
  Procs = {p1, p2}
  Patches = {c1}
  Obliged = {}
  Commits = {h1}
  Sources = {t1}
  Torn = Torn
  None = None
  MaxRows = 2
  MaxSanctions = 1
  MaxEvents = 1
SYMMETRY Symmetry
PROPERTIES
  ApprovalReassesses
