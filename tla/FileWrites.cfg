SPECIFICATION FileWritesSpec
CONSTANTS
  N = 3
  Deletions <- MCDeletions
  Creations <- MCCreations
  Contested <- MCContested
  MaxEdits = 1
  MaxCommands = 2
INVARIANTS
  ReportIsTrue
  ConfigIsTheUsers
  ReadyIsReady
PROPERTIES
  KeepsPromise
CHECK_DEADLOCK FALSE
