------------------------- MODULE MCCandidateLifecycle -------------------------
EXTENDS CandidateLifecycle, TLC

Symmetry ==
  Permutations(Procs) \cup Permutations(Patches) \cup Permutations(Commits)
    \cup Permutations(Sources)
===============================================================================
