---------------------------- MODULE AtomicReplace ----------------------------
(***************************************************************************)
(* What the callers of CandidateApplicationAdapter.apply rely on, with no  *)
(* loops and no temporary files: the candidate is installed as a whole, or *)
(* not at all, or the failure is one that may have left part of it.        *)
(* Files another program wrote meanwhile are outside the promise.          *)
(***************************************************************************)
CONSTANTS
  Files,     \* the candidate's files
  Contested, \* those another program may write
  Contents,  \* what a file may hold
  Before,    \* what each held when the call began
  After      \* what the candidate gives it

VARIABLES
  outcome,   \* "none" while the call runs
  tree,      \* the worktree, as seen once the call has ended
  blamed,    \* the files an incomplete rollback names
  foreign    \* the files somebody else wrote during the call

vars == <<outcome, tree, blamed, foreign>>

Init ==
  /\ outcome = "none"
  /\ tree = Before
  /\ blamed = {}
  /\ foreign = {}

(* Another program wrote a file before the call ended.                     *)
Interfere(f) ==
  /\ outcome = "none"
  /\ f \in Contested
  /\ foreign' = foreign \cup {f}
  /\ UNCHANGED <<outcome, tree, blamed>>

(* The call ends with the worktree t, each file holding what it held       *)
(* before or what the candidate gives it.                                  *)
EndsWith(t) ==
  /\ outcome = "none"
  /\ t \in [Files -> Contents]
  /\ \A f \in Files \ foreign : t[f] \in {Before[f], After[f]}
  /\ tree' = t
  /\ UNCHANGED foreign

Commit ==
  /\ outcome' = "applied"
  /\ blamed' = {}
  /\ \E t \in [Files -> Contents] :
       EndsWith(t) /\ \A f \in Files \ foreign : t[f] = After[f]

Abort ==
  /\ outcome' = "rolled_back"
  /\ blamed' = {}
  /\ \E t \in [Files -> Contents] :
       EndsWith(t) /\ \A f \in Files \ foreign : t[f] = Before[f]

(* The rollback failed for the files it names, and for no other.           *)
AbortPartly ==
  /\ outcome' = "incomplete"
  /\ blamed' \in (SUBSET Files) \ {{}}
  /\ \E t \in [Files -> Contents] :
       /\ EndsWith(t)
       /\ \A f \in Files \ (foreign \cup blamed') : t[f] = Before[f]

(* Cut short: any part of the candidate may be in place.                   *)
Tear ==
  /\ outcome' \in {"interrupted", "cleanup_error", "died"}
  /\ blamed' \subseteq Files
  /\ \E t \in [Files -> Contents] : EndsWith(t)

Next == Commit \/ Abort \/ AbortPartly \/ Tear \/ \E f \in Files : Interfere(f)

Spec == Init /\ [][Next]_vars
===============================================================================
