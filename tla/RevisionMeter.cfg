SPECIFICATION Spec
CONSTANTS
  Agents = {a1, a2}
  Candidates = {"c1", "c2"}
  FilesOf <- MCFilesOf
  Commits = {h1, h2}
  Baselines = {b1, b2}
  Unbound = Unbound
  Configured = 2
  MaxRows = 5
  MaxMoves = 1
SYMMETRY MCSymmetry
INVARIANTS
  LineageBounded
  LineageIsOneSearch
CHECK_DEADLOCK FALSE
