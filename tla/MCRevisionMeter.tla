---------------------------- MODULE MCRevisionMeter ----------------------------
(* RevisionMeter with two candidates that overlap in one file.              *)
EXTENDS RevisionMeter, TLC

MCFilesOf == ("c1" :> {"f1", "f2"}) @@ ("c2" :> {"f2"})
MCSymmetry == Permutations(Agents) \cup Permutations(Baselines) \cup Permutations(Commits)
===============================================================================
