SPECIFICATION Spec
CONSTANTS
  Procs = {p1, p2}
  Patches = {c1, c2}
  Obliged = {c1}
  Commits = {h1}
  Sources = {t1}
  Torn = Torn
  None = None
  MaxRows = 2
  MaxSanctions = 1
  MaxEvents = 1
PROPERTIES
  CommandEnds
