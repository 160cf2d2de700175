-------------------------- MODULE ReplaceTransaction --------------------------
(***************************************************************************)
(* CandidateApplicationAdapter._replace_transaction: write every file of   *)
(* an approved candidate into the worktree, or put back what was there.    *)
(*                                                                         *)
(* The targets are numbered in the order of sorted(after).  A first loop   *)
(* captures each original and stages the new content in a temporary file   *)
(* beside it, a second loop replaces (or unlinks) the targets, an          *)
(* `except Exception` branch walks the changed targets backwards, and a    *)
(* `finally` removes the temporaries still staged.  Any system call may    *)
(* fail, with or without its effect; Ctrl-C (a BaseException, which        *)
(* `except Exception` lets through) and the death of the process may come  *)
(* between any two of them; and another program may write a target         *)
(* meanwhile, because the apply lock binds only pebra's own processes.     *)
(*                                                                         *)
(* A file's bytes and mode are one value: what the file held when the call *)
(* began, the candidate's content, somebody else's, or no file.            *)
(***************************************************************************)
EXTENDS Naturals

CONSTANTS
  N,          \* number of files in the candidate
  Deletions,  \* the files the candidate deletes (after[rel] is None)
  Creations,  \* the files that do not exist before
  Contested   \* the targets another program may write during the call

ASSUME NAssumption == N \in Nat \ {0}
ASSUME FilesAssumption ==
  /\ Deletions \subseteq 1..N
  /\ Creations \subseteq 1..N
  /\ Deletions \cap Creations = {}
ASSUME ContestedAssumption == Contested \subseteq 1..N

Files == 1..N
Contents == {"absent", "original", "candidate", "foreign"}

Before == [f \in Files |-> IF f \in Creations THEN "absent" ELSE "original"]
After == [f \in Files |-> IF f \in Deletions THEN "absent" ELSE "candidate"]

VARIABLES
  disk,       \* the targets in the worktree
  pc,         \* the loop the call is in
  i,          \* the file that loop is at
  originals,  \* what the first loop captured
  staged,     \* targets whose temporary file is in `staged`
  changed,    \* the second loop has entered the targets 1..changed in `changed`
  named,      \* rollback_errors
  strays,     \* temporary files no variable remembers
  result,     \* how the call ended, or will end once `finally` is done
  edited      \* history: targets somebody else wrote during the call

vars ==
  <<disk, pc, i, originals, staged, changed, named, strays, result, edited>>

Results ==
  {"none", "applied", "rolled_back", "incomplete", "interrupted",
   "cleanup_error", "died"}

(* The disk, the loops and what they have recorded.                        *)
TypeOK ==
  /\ disk \in [Files -> Contents]
  /\ pc \in {"stage", "replace", "rollback", "cleanup", "done"}
  /\ i \in 0..(N + 1)
  /\ originals \in [Files -> Contents]
  /\ staged \subseteq Files
  /\ changed \in 0..N
  /\ named \subseteq Files
  /\ strays \in Nat
  /\ result \in Results
  /\ edited \subseteq Files

Init ==
  /\ disk = Before
  /\ pc = "stage"
  /\ i = 1
  /\ originals = Before  \* unread until the loop gets there
  /\ staged = {}
  /\ changed = 0
  /\ named = {}
  /\ strays = 0
  /\ result = "none"
  /\ edited = {}

(* The except branch: undo what `changed` lists, newest first; it may be   *)
(* empty.                                                                  *)
EnterRollback(c) ==
  /\ changed' = c
  /\ i' = c
  /\ pc' = "rollback"

(* First loop, one target: read the original, write the temporary file.    *)
StageFile ==
  /\ pc = "stage"
  /\ i <= N
  /\ originals' = [originals EXCEPT ![i] = disk[i]]
  /\ staged' = IF i \in Deletions THEN staged ELSE staged \cup {i}
  /\ i' = i + 1
  /\ UNCHANGED <<disk, pc, changed, named, strays, result, edited>>

(* Reading, mkstemp, write, fsync or chmod raises.  A temporary file that  *)
(* mkstemp had made is not in `staged` yet, so nothing removes it.         *)
StageFails ==
  /\ pc = "stage"
  /\ i <= N
  /\ \E leaked \in IF i \in Deletions THEN {0} ELSE {0, 1} :
       strays' = strays + leaked
  /\ EnterRollback(0)
  /\ UNCHANGED <<disk, originals, staged, named, result, edited>>

StartReplacing ==
  /\ pc = "stage"
  /\ i = N + 1
  /\ pc' = "replace"
  /\ i' = 1
  /\ UNCHANGED <<disk, originals, staged, changed, named, strays, result, edited>>

(* Second loop, one target.  unlink of a file somebody removed raises.     *)
ReplaceFile ==
  /\ pc = "replace"
  /\ i <= N
  /\ i \in Deletions => disk[i] # "absent"
  /\ changed' = i
  /\ disk' = [disk EXCEPT ![i] = After[i]]
  /\ staged' = staged \ {i}
  /\ i' = i + 1
  /\ UNCHANGED <<pc, originals, named, strays, result, edited>>

(* Mutant of ReplaceFails: a failed replacement leaves neither content.    *)
ReplaceFailsInPlace ==
  /\ pc = "replace"
  /\ i <= N
  /\ disk' \in {disk, [disk EXCEPT ![i] = "foreign"]}
  /\ EnterRollback(i)
  /\ UNCHANGED <<originals, staged, named, strays, result, edited>>

(* The replacement raises, before or after it took effect.                 *)
ReplaceFails ==
  /\ pc = "replace"
  /\ i <= N
  /\ disk' \in {disk, [disk EXCEPT ![i] = After[i]]}
  /\ EnterRollback(i)
  /\ UNCHANGED <<originals, staged, named, strays, result, edited>>

FinishReplacing ==
  /\ pc = "replace"
  /\ i = N + 1
  /\ pc' = "cleanup"
  /\ result' = "applied"
  /\ UNCHANGED <<disk, i, originals, staged, changed, named, strays, edited>>

(* Rollback of one target: unlink what did not exist, rewrite what did.    *)
RestoreFile ==
  /\ pc = "rollback"
  /\ i > 0
  /\ disk' = [disk EXCEPT ![i] = originals[i]]
  /\ i' = i - 1
  /\ UNCHANGED <<pc, originals, staged, changed, named, strays, result, edited>>

(* Mutant of RestoreFails: one failed target ends the rollback.            *)
RestoreFailsStopping ==
  /\ pc = "rollback"
  /\ i > 0
  /\ named' = named \cup {i}
  /\ i' = 0
  /\ UNCHANGED <<disk, pc, originals, staged, changed, strays, result, edited>>

(* The restoration raises: the target is named in the error, and its       *)
(* rollback file may stay behind.                                          *)
RestoreFails ==
  /\ pc = "rollback"
  /\ i > 0
  /\ named' = named \cup {i}
  /\ disk' \in {disk, [disk EXCEPT ![i] = originals[i]]}
  /\ \E leaked \in IF originals[i] = "absent" THEN {0} ELSE {0, 1} :
       strays' = strays + leaked
  /\ i' = i - 1
  /\ UNCHANGED <<pc, originals, staged, changed, result, edited>>

FinishRollback ==
  /\ pc = "rollback"
  /\ i = 0
  /\ pc' = "cleanup"
  /\ result' = IF named = {} THEN "rolled_back" ELSE "incomplete"
  /\ UNCHANGED <<disk, i, originals, staged, changed, named, strays, edited>>

Cleanup ==
  /\ pc = "cleanup"
  /\ staged' = {}
  /\ pc' = "done"
  /\ UNCHANGED <<disk, i, originals, changed, named, strays, result, edited>>

(* unlink of a staged file raises inside `finally`: its OSError replaces   *)
(* the error in flight, and the files after it stay.                       *)
CleanupFails ==
  /\ pc = "cleanup"
  /\ \E f \in staged : staged' = {g \in staged : g >= f}
  /\ pc' = "done"
  /\ result' = "cleanup_error"
  /\ UNCHANGED <<disk, i, originals, changed, named, strays, edited>>

(* KeyboardInterrupt in one of the loops: no rollback, only `finally`.     *)
Interrupt ==
  /\ pc \in {"stage", "replace", "rollback"}
  /\ \E leaked \in {0, 1} : strays' = strays + leaked
  /\ pc' = "cleanup"
  /\ result' = "interrupted"
  /\ UNCHANGED <<disk, i, originals, staged, changed, named, edited>>

(* The process dies: nothing more runs, and nothing recovers later.        *)
Die ==
  /\ pc # "done"
  /\ pc' = "done"
  /\ result' = "died"
  /\ UNCHANGED <<disk, i, originals, staged, changed, named, strays, edited>>

(* Another program writes or removes a target.                             *)
Edit(f) ==
  /\ pc # "done"
  /\ f \in Contested
  /\ \E c \in {"foreign", "absent"} : disk' = [disk EXCEPT ![f] = c]
  /\ edited' = edited \cup {f}
  /\ UNCHANGED <<pc, i, originals, staged, changed, named, strays, result>>

Call ==
  \/ StageFile \/ StageFails \/ StartReplacing
  \/ ReplaceFile \/ ReplaceFails \/ FinishReplacing
  \/ RestoreFile \/ RestoreFails \/ FinishRollback
  \/ Cleanup \/ CleanupFails

Next == Call \/ Interrupt \/ Die \/ \E f \in Files : Edit(f)

Spec == Init /\ [][Next]_vars

-------------------------------------------------------------------------------
(***************************************************************************)
(* Properties                                                              *)
(***************************************************************************)
Quiet == Files \ edited  \* targets nobody else wrote

(* What the call reports is the truth of the worktree, whichever system    *)
(* call failed and whether or not it had taken effect.  The file list: all *)
(* of them written, no temporary file left.  "Failed and was rolled back": *)
(* all as it was.  "Rollback was incomplete: ...": every damaged target is *)
(* named.  And the exception of the cleanup never replaces the success of  *)
(* a candidate that is wholly in place, whose replay is spent.             *)
ReportIsTrue ==
  pc = "done" =>
    /\ result = "applied" =>
         (\A f \in Quiet : disk[f] = After[f]) /\ staged = {} /\ strays = 0
    /\ result = "rolled_back" => \A f \in Quiet : disk[f] = Before[f]
    /\ result = "incomplete" => \A f \in Quiet : disk[f] # Before[f] => f \in named
    /\ result = "cleanup_error" => ~(changed = N /\ i = N + 1)

(***************************************************************************)
(* The promise: one step from before to after, or nothing, or an error     *)
(* that owns up.  Nobody looks at the worktree while the lock is held.     *)
(***************************************************************************)
Promise == INSTANCE AtomicReplace WITH
  Before <- Before,
  After <- After,
  outcome <- IF pc = "done" THEN result ELSE "none",
  tree <- IF pc = "done" THEN disk ELSE Before,
  blamed <- IF pc = "done" THEN named ELSE {},
  foreign <- edited

(* _replace_transaction does what its callers rely on: see AtomicReplace.  *)
KeepsPromise == Promise!Spec
===============================================================================
