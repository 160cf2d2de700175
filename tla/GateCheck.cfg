SPECIFICATION Spec
CONSTANTS
  Changes = {"c1", "c2"}
  FilesOf <- MCFilesOf
  After <- MCAfter
  Versions = {0, 1}
  Commits = {h1, h2}
  RowKinds <- MCKinds
  Limit = 2
  MaxRows = 3
  MaxMoves = 1
SYMMETRY MCSymmetry
INVARIANTS
  AllowedAsAssessed
  ExactWordDecides
  RestrictionCloses
CHECK_DEADLOCK FALSE
