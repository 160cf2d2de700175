SPECIFICATION Spec
CONSTANTS
  p1 = p1
  p2 = p2
  a1 = a1
  a2 = a2
  labelled = labelled
  bare = bare
  None = None
  Commands = {p1, p2}
  Assessments = {a1, a2}
  Checks = {control}
  Controls = {control}
  Details = {labelled, bare}
  Refined = {}
  MinSamples = 2
  MaxVerifies = 2
  MaxSanctions = 1
  MaxSnapshots = 4
  Origin <- MCOrigin
  Required <- MCRequired
  Labelled <- MCLabelled
  Offered <- MCOffered
  Asked <- MCAsked
INVARIANTS
  ClosedOnce
  LearnedFromVerified
  FinalizedIsClosed
  DriftWithdraws
SYMMETRY Symmetry
