SPECIFICATION EvidenceSpec
CONSTANTS
  cl = cl
  m1 = m1
  m2 = m2
  fn = fn
  fileA = fileA
  fileB = fileB
  NoFile = NoFile
  Nodes = {cl, m1, m2, fn}
  ReachDepth = 2
  ContainDepth = 2
  MaxWitnesses = 2
  Graphs <- MCGraphs
  Actions <- MCActions
  Procs = {"p1", "p2"}
  Files = {"a", "b"}
  Inodes = {1, 2, 3, 4}
  Absent = Absent
  Garbage = Garbage
  MaxBuilds = 3
  MaxEdits = 2
  NodeCount = 4
  Adjacencies <- MCAdjacencies
  Edits <- MCEdits
  Engines = {1, 2, 3}
  Accepted = {2, 3}
  None = None
  MaxEntries = 1
  MaxCalls = 2
  RowKinds <- MCRowKinds
  Targets <- MCTargets
  MinSamples = 2
  IntervalSamples = 4
  MaxChurn = 0
  MaxRows = 4
  Unknown = Unknown
  Candidates = {1, 2, 3}
  Portfolios <- MCPortfolios
  Tolerance = 1500
  Budgets = {0, 1, 2}
  Answers <- MCAnswers
  Doubts = {0, 300}
  Nothing = Nothing
  KindOf <- MCKindOf
  FileOf <- MCFileOf
  NoPath = None
  EdgesPerNode = 1
  Requests <- MCRequests
  MaxSyncs = 2
  Indexes <- MCIndexes
  Resynced <- MCResynced
INVARIANTS
  WalksAgree
  OwnersCoverTheImpact
  AnswersAreTrue
  FindsTheCycles
  EarnedHere
  UsersRunTheSame
  LearnedSafely
  BornWithoutDrift
  ViewsAreHonest
  RefinedAsProved
CHECK_DEADLOCK FALSE
