------------------------------ MODULE FileProofs ------------------------------
(***************************************************************************)
(* The two components that write files of the user's and may have to put   *)
(* them back.                                                              *)
(*                                                                         *)
(* ReplaceTransaction, for a candidate of any size: _replace_transaction   *)
(* reports what it did to the worktree, and implements AtomicReplace.      *)
(*                                                                         *)
(* GraphSetup, for any number of commands and edits: codegraph.json stays  *)
(* the user's, and a graph said to be ready is ready.  Between init and    *)
(* the restoration the file may be the engine's, so nothing is claimed of  *)
(* it there; after it a command goes on to prepare the index only when it  *)
(* saw the captured file back, and then no sync, its own or another        *)
(* process's, can build the index for the engine's file again.             *)
(***************************************************************************)
EXTENDS ReplaceTransaction, GraphSetup, TLAPS

(* No foreign content enters a quiet file, in the worktree or in the       *)
(* captured originals.                                                     *)
QuietInv ==
  \A f \in Quiet : disk[f] \in {Before[f], After[f]} /\ originals[f] = Before[f]

StageInv ==
  pc = "stage" =>
    /\ i \in 1..(N + 1) /\ changed = 0 /\ named = {} /\ strays = 0
    /\ result = "none"
    /\ \A f \in Quiet : disk[f] = Before[f]

(* The second loop has written exactly the targets below i.                *)
ReplaceInv ==
  pc = "replace" =>
    /\ i \in 1..(N + 1) /\ changed = i - 1 /\ named = {} /\ strays = 0
    /\ result = "none"
    /\ \A f \in staged : f >= i
    /\ \A f \in Quiet : disk[f] = IF f < i THEN After[f] ELSE Before[f]

(* What lies above i is restored or named.                                 *)
RollbackInv ==
  pc = "rollback" =>
    /\ i <= changed /\ result = "none"
    /\ \A f \in Quiet : f > i /\ f \notin named => disk[f] = Before[f]

EndInv ==
  pc \in {"cleanup", "done"} =>
    /\ result # "none"
    /\ changed = N /\ i = N + 1 /\ result # "died" => staged = {}
    /\ result = "cleanup_error" => ~(changed = N /\ i = N + 1)
    /\ result = "applied" =>
         /\ staged = {} /\ strays = 0 /\ named = {}
         /\ \A f \in Quiet : disk[f] = After[f]
    /\ result = "rolled_back" =>
         named = {} /\ \A f \in Quiet : disk[f] = Before[f]
    /\ result = "incomplete" =>
         named # {} /\ \A f \in Quiet : f \notin named => disk[f] = Before[f]
    /\ pc = "cleanup" => result \in {"applied", "rolled_back", "incomplete", "interrupted"}

IInv == TypeOK /\ QuietInv /\ StageInv /\ ReplaceInv /\ RollbackInv /\ EndInv

(* The invariant holds when the call begins.                               *)
LEMMA InitInv == Init => IInv
<1> SUFFICES ASSUME Init PROVE IInv
  OBVIOUS
<1>1. TypeOK
  BY NAssumption DEF Init, TypeOK, Files, Contents, Before, Results
<1>2. QuietInv /\ StageInv /\ ReplaceInv /\ RollbackInv /\ EndInv
  BY NAssumption
  DEF Init, Files, Before, After, Quiet, QuietInv, StageInv, ReplaceInv,
      RollbackInv, EndInv
<1> QED
  BY <1>1, <1>2 DEF IInv

(* Every step of the call, and of the world around it, preserves it.       *)
LEMMA StepInv == IInv /\ [Next]_vars => IInv'
<1> SUFFICES ASSUME IInv, [Next]_vars PROVE IInv'
  OBVIOUS
<1> USE NAssumption, FilesAssumption, ContestedAssumption
    DEF IInv, TypeOK, Files, Contents, Before, After, Results, Quiet, QuietInv,
        StageInv, ReplaceInv, RollbackInv, EndInv
<1>1. CASE StageFile
  BY <1>1 DEF StageFile
<1>2. CASE StageFails
  BY <1>2 DEF StageFails, EnterRollback
<1>3. CASE StartReplacing
  BY <1>3 DEF StartReplacing
<1>4. CASE ReplaceFile
  BY <1>4 DEF ReplaceFile
<1>5. CASE ReplaceFails
  BY <1>5 DEF ReplaceFails, EnterRollback
<1>6. CASE FinishReplacing
  BY <1>6 DEF FinishReplacing
<1>7. CASE RestoreFile
  BY <1>7 DEF RestoreFile
<1>8. CASE RestoreFails
  BY <1>8 DEF RestoreFails
<1>9. CASE FinishRollback
  BY <1>9 DEF FinishRollback
<1>10. CASE Cleanup
  BY <1>10 DEF Cleanup
<1>11. CASE CleanupFails
  BY <1>11 DEF CleanupFails
<1>12. CASE Interrupt
  BY <1>12 DEF Interrupt
<1>13. CASE Die
  BY <1>13 DEF Die
<1>14. ASSUME NEW f \in Files, Edit(f) PROVE IInv'
  BY <1>14 DEF Edit
<1>15. CASE UNCHANGED vars
  BY <1>15 DEF vars
<1> QED
  BY <1>1, <1>2, <1>3, <1>4, <1>5, <1>6, <1>7, <1>8, <1>9, <1>10, <1>11, <1>12, <1>13, <1>14, <1>15 DEF Next, Call

(* The invariant holds throughout the call.                                *)
LEMMA Invariance == Spec => []IInv
<1> QED
  BY InitInv, StepInv, PTL DEF Spec

(* Type correctness: no index leaves 0..N+1, no target gets a content the  *)
(* call could not have given it.                                           *)
THEOREM TypeCorrect == Spec => []TypeOK
<1> QED
  BY Invariance, PTL DEF IInv

(* Whatever fails, the file list and the two messages of the except branch *)
(* are true, and the finally block never raises over a success.            *)
THEOREM ReportsAreTrue == Spec => []ReportIsTrue
<1>1. IInv => ReportIsTrue
  BY DEF IInv, EndInv, ReportIsTrue, Quiet
<1> QED
  BY <1>1, Invariance, PTL

-------------------------------------------------------------------------------
(***************************************************************************)
(* The end of a call: the rollback that a failure leads to is never longer *)
(* than what was left to do, for candidates of any size.                   *)
(***************************************************************************)

(* The most steps the call has left: a file staged or replaced, or a loop  *)
(* left, is one less; a failure leads to a rollback of what was changed,   *)
(* which is never more than what was left to do.                           *)
StepsLeft ==
  CASE pc = "stage" -> (N + 1 - i) + 2 * N + 5
    [] pc = "replace" -> (N + 1 - i) + N + 4
    [] pc = "rollback" -> i + 2
    [] pc = "cleanup" -> 1
    [] pc = "done" -> 0

(* Every step of the call brings its end nearer, whether the system call   *)
(* of that step fails or not, as do Ctrl-C and death; another program's    *)
(* writes do not put it off.  So a call makes at most 3N + 5 steps.        *)
THEOREM StepsRunOut ==
  Spec => /\ [](StepsLeft \in 0..(3 * N + 5))
          /\ [][\/ StepsLeft' < StepsLeft
                \/ UNCHANGED StepsLeft /\ \E f \in Files : Edit(f)]_vars
<1>1. IInv => StepsLeft \in 0..(3 * N + 5)
  <2> SUFFICES ASSUME IInv PROVE StepsLeft \in 0..(3 * N + 5)
    OBVIOUS
  <2> USE NAssumption DEF IInv, TypeOK, StepsLeft
  <2>1. CASE pc = "stage"
    BY <2>1 DEF StageInv
  <2>2. CASE pc = "replace"
    BY <2>2 DEF ReplaceInv
  <2>3. CASE pc = "rollback"
    BY <2>3 DEF RollbackInv
  <2>4. CASE pc \in {"cleanup", "done"}
    BY <2>4
  <2> QED
    BY <2>1, <2>2, <2>3, <2>4
<1>2. IInv /\ [Next]_vars =>
        [\/ StepsLeft' < StepsLeft
         \/ UNCHANGED StepsLeft /\ \E f \in Files : Edit(f)]_vars
  <2> SUFFICES ASSUME IInv, Next
               PROVE  \/ StepsLeft' < StepsLeft
                      \/ UNCHANGED StepsLeft /\ \E f \in Files : Edit(f)
    OBVIOUS
  <2> USE NAssumption DEF IInv, TypeOK, StepsLeft
  <2>1. CASE \E f \in Files : Edit(f)
    BY <2>1 DEF Edit
  <2>2. CASE StageFile \/ StageFails \/ StartReplacing
    BY <2>2 DEF StageFile, StageFails, StartReplacing, EnterRollback
  <2>3. CASE ReplaceFile \/ ReplaceFails \/ FinishReplacing
    <3>1. i \in 1..(N + 1) /\ pc = "replace"
      BY <2>3 DEF ReplaceFile, ReplaceFails, FinishReplacing, ReplaceInv
    <3> QED
      BY <2>3, <3>1 DEF ReplaceFile, ReplaceFails, FinishReplacing, EnterRollback
  <2>4. CASE RestoreFile \/ RestoreFails \/ FinishRollback
    BY <2>4 DEF RestoreFile, RestoreFails, FinishRollback
  <2>5. CASE Cleanup \/ CleanupFails
    BY <2>5 DEF Cleanup, CleanupFails
  <2>6. CASE Interrupt
    BY <2>6 DEF Interrupt, StageInv, ReplaceInv
  <2>7. CASE Die
    BY <2>7 DEF Die, StageInv, ReplaceInv
  <2> QED
    BY <2>1, <2>2, <2>3, <2>4, <2>5, <2>6, <2>7 DEF Next, Call
<1> QED
  BY <1>1, <1>2, Invariance, PTL DEF Spec

-------------------------------------------------------------------------------
(***************************************************************************)
(* Refinement.  While the call runs the abstract variables but foreign are *)
(* still; the step that ends it is one of the abstract endings.            *)
(***************************************************************************)
LEMMA InitRefines == Init => Promise!Init
<1> QED
  BY DEF Init, Promise!Init

(* However the call ends, the promise allows that end.                     *)
LEMMA EndRefines ==
  ASSUME IInv, pc # "done", pc' = "done", UNCHANGED <<disk, named, edited>>,
         IInv'
  PROVE  Promise!Next
<1> DEFINE out == result'
<1>1. /\ out \in Results \ {"none"}
      /\ disk' = disk /\ named' = named /\ edited' = edited
      /\ disk \in [Files -> Contents]
      /\ \A f \in Files \ edited : disk[f] \in {Before[f], After[f]}
      /\ named \subseteq Files
  BY DEF IInv, TypeOK, EndInv, QuietInv, Quiet
<1>2. \E t \in [Files -> Contents] : t = disk /\ Promise!EndsWith(t)
  BY <1>1 DEF Promise!EndsWith
<1>3. CASE out = "applied"
  <2>1. named' = {} /\ \A f \in Files \ edited : disk[f] = After[f]
    BY <1>1, <1>3 DEF IInv, EndInv, Quiet
  <2> QED
    BY <1>2, <1>3, <2>1 DEF Promise!Next, Promise!Commit
<1>4. CASE out = "rolled_back"
  <2>1. named' = {} /\ \A f \in Files \ edited : disk[f] = Before[f]
    BY <1>1, <1>4 DEF IInv, EndInv, Quiet
  <2> QED
    BY <1>2, <1>4, <2>1 DEF Promise!Next, Promise!Abort
<1>5. CASE out = "incomplete"
  <2>1. /\ named' # {}
        /\ \A f \in Files \ (edited \cup named') : disk[f] = Before[f]
    BY <1>1, <1>5 DEF IInv, EndInv, Quiet
  <2> QED
    BY <1>1, <1>2, <1>5, <2>1 DEF Promise!Next, Promise!AbortPartly
<1>6. CASE out \in {"interrupted", "cleanup_error", "died"}
  BY <1>1, <1>2, <1>6 DEF Promise!Next, Promise!Tear
<1> QED
  BY <1>1, <1>3, <1>4, <1>5, <1>6 DEF Results

(* Every step is a step of the promise, or none of its concern.            *)
LEMMA StepRefines ==
  IInv /\ IInv' /\ [Next]_vars => [Promise!Next]_Promise!vars
<1> SUFFICES ASSUME IInv, IInv', [Next]_vars PROVE [Promise!Next]_Promise!vars
  OBVIOUS
<1>1. CASE Cleanup \/ CleanupFails \/ Die
  <2>1. pc # "done" /\ pc' = "done" /\ UNCHANGED <<disk, named, edited>>
    BY <1>1 DEF Cleanup, CleanupFails, Die
  <2> QED
    BY <2>1, EndRefines
<1>2. CASE \/ StageFile \/ StageFails \/ StartReplacing \/ ReplaceFile
           \/ ReplaceFails \/ FinishReplacing \/ RestoreFile \/ RestoreFails
           \/ FinishRollback \/ Interrupt
  <2>1. pc # "done" /\ pc' # "done" /\ edited' = edited
    BY <1>2
    DEF StageFile, StageFails, StartReplacing, ReplaceFile, ReplaceFails,
        FinishReplacing, RestoreFile, RestoreFails, FinishRollback, Interrupt,
        EnterRollback
  <2> QED
    BY <2>1 DEF Promise!vars
<1>3. ASSUME NEW f \in Files, Edit(f) PROVE Promise!Interfere(f)
  BY <1>3 DEF Edit, Promise!Interfere
<1>4. CASE UNCHANGED vars
  BY <1>4 DEF vars, Promise!vars
<1> QED
  BY <1>1, <1>2, <1>3, <1>4 DEF Next, Call, Promise!Next

(* _replace_transaction implements its promise.                            *)
THEOREM Refinement == Spec => KeepsPromise
<1> QED
  BY InitRefines, StepRefines, Invariance, PTL DEF Spec, KeepsPromise, Promise!Spec

-----------------------------------------------------------------------------
(* Graph set-up: the types of what a command carries, and the invariant    *)

Engines == {"none", "broken", "unsupported", "pinned", "other"}
Fences == [head : Nat, config : Configs \cup {"none", "unreadable"}]

Stages ==
  {"idle", "done", "capture", "version", "installed", "npm", "sums", "bundle", "checksum",
   "extract", "run", "link", "before", "status", "after", "decide", "snapshot", "prepare",
   "sync", "fence", "judge", "init", "restore", "reread", "report"}

Commands == {"setup", "doctor"}
Ways == {"auto", "standalone", "npm"}
Wishes == {"default", "other", "unsupported"}
Bundles == {"none", "genuine", "altered"}
Captures == Configs \cup {"unreadable"}
Diagnoses ==
  {"none", "malformed", "unsupported", "uninitialized", "mismatch", "reindex", "fresh",
   "pending"}
Actions == {"none", "unchanged", "synced", "repaired", "initialized", "failed"}

Steps ==
  [pc : Stages, kind : Commands, fix : BOOLEAN, via : Ways, want : Wishes, allow : BOOLEAN,
   captured : Captures, bundle : Bundles, head : Nat, reading : Captures, said : Diagnoses,
   works : BOOLEAN, attempt : Nat, fenced : Fences, snapshot : Fences, ok : BOOLEAN,
   restored : BOOLEAN, action : Actions, since : Nat]

SetupTyped ==
  /\ overriding \in Engines /\ onPath \in Engines /\ managed \in Engines
  /\ head \in Nat /\ tree \in Nat /\ config \in Configs
  /\ index \in [kind : {"none", "foreign", "outdated", "own"}, head : Nat, tree : Nat,
                config : Configs]
  /\ edits \in Nat /\ commands \in Nat
  /\ cmd \in Steps /\ cmd.since <= edits

(* What was captured is put back, or it is known that it was not, wherever *)
(* a command says so.  Only the doctor goes on with a configuration it     *)
(* could not capture, or that it could not put back.                       *)
RestoredInv ==
  /\ cmd.pc \notin {"restore", "reread", "judge", "report", "done"} => cmd.restored
  /\ cmd.kind = "setup" /\ cmd.pc \notin {"idle", "capture", "done"} =>
       cmd.captured \in ValidConfigs
  /\ cmd.pc \in {"init", "restore", "reread", "prepare", "sync", "fence", "judge"} =>
       cmd.captured \in ValidConfigs
  /\ cmd.pc = "judge" /\ (cmd.kind = "setup" \/ cmd.snapshot # NoSnapshot) => cmd.restored

(* From the capture to the end, but for the moment between init and the    *)
(* restoration, the configuration is the one captured or the user's own.   *)
KeptInv ==
  cmd.pc \notin {"idle", "capture", "restore"} /\ cmd.restored /\ cmd.captured \in Configs =>
    /\ config = "engine" => cmd.captured = "engine"
    /\ edits = cmd.since => config = cmd.captured

(* The index is for the user's configuration, and stays so.                *)
ForTheUser ==
  /\ cmd.captured \in ValidConfigs /\ cmd.restored
  /\ cmd.captured # "engine" => index.config # "engine"

Built == Found \in Accepted /\ index.kind = "own" /\ head # 0

ReadyInv ==
  /\ cmd.pc \in {"sync", "fence"} => head # 0
  /\ cmd.pc = "fence" => ForTheUser
  /\ cmd.pc = "judge" /\ cmd.snapshot # NoSnapshot => Built /\ ForTheUser
  /\ cmd.action \in {"synced", "initialized", "repaired"} =>
       cmd.pc \in {"report", "done"} /\ ForTheUser
  /\ cmd.pc = "done" /\ cmd.ok => Built

SetupInv == SetupTyped /\ RestoredInv /\ KeptInv /\ ReadyInv

-----------------------------------------------------------------------------
(* Only an accepted engine over an index of its own says "fresh", and what *)
(* an engine says is known.                                                *)
LEMMA FreshIsOwn ==
  ASSUME SetupTyped
  PROVE  /\ Found \in Engines
         /\ StatusAnswers \subseteq Diagnoses
         /\ "fresh" \in StatusAnswers => Found \in Accepted /\ index.kind = "own"
<1>1. Found \in Engines
  BY DEF SetupTyped, Found, Engines
<1>2. CASE Found \in {"none", "broken"}
  BY <1>1, <1>2 DEF StatusAnswers, Diagnoses
<1>3. CASE Found = "unsupported"
  BY <1>1, <1>3 DEF StatusAnswers, Diagnoses, Accepted
<1>4. CASE Found \in Accepted /\ index.kind = "none"
  BY <1>1, <1>4 DEF StatusAnswers, Diagnoses, Accepted
<1>5. CASE Found \in Accepted /\ index.kind = "foreign"
  BY <1>1, <1>5 DEF StatusAnswers, Diagnoses, Accepted
<1>6. CASE Found \in Accepted /\ index.kind = "outdated"
  BY <1>1, <1>6 DEF StatusAnswers, Diagnoses, Accepted
<1>7. CASE Found \in Accepted /\ index.kind = "own"
  BY <1>1, <1>7 DEF StatusAnswers, Diagnoses, Accepted
<1>8. index.kind \in {"none", "foreign", "outdated", "own"}
  BY DEF SetupTyped
<1> QED
  BY <1>1, <1>2, <1>3, <1>4, <1>5, <1>6, <1>7, <1>8 DEF Engines, Accepted


(* The names a command is described in.                                    *)
LEMMA Names ==
  /\ "capture" \in Stages /\ "version" \in Stages /\ "installed" \in Stages
  /\ "npm" \in Stages /\ "sums" \in Stages /\ "bundle" \in Stages /\ "checksum" \in Stages
  /\ "extract" \in Stages /\ "run" \in Stages /\ "link" \in Stages /\ "before" \in Stages
  /\ "status" \in Stages /\ "after" \in Stages /\ "decide" \in Stages
  /\ "snapshot" \in Stages /\ "prepare" \in Stages /\ "sync" \in Stages
  /\ "fence" \in Stages /\ "judge" \in Stages /\ "init" \in Stages /\ "restore" \in Stages
  /\ "reread" \in Stages /\ "report" \in Stages /\ "done" \in Stages
  /\ "auto" \in Ways /\ "default" \in Wishes
  /\ "none" \in Bundles /\ "genuine" \in Bundles /\ "altered" \in Bundles
  /\ "none" \in Diagnoses /\ "fresh" \in Diagnoses
  /\ "failed" \in Actions /\ "unchanged" \in Actions /\ "synced" \in Actions
  /\ "repaired" \in Actions /\ "initialized" \in Actions
  /\ NoSnapshot \in Fences
  BY DEF Stages, Ways, Wishes, Bundles, Actions, Diagnoses, NoSnapshot, Fences

(* Between commands there is a command at rest.                            *)
LEMMA NoCommandTyped == NoCommand \in Steps
  BY DEF NoCommand, NoSnapshot, Fences, Steps, Stages, Commands, Ways, Wishes, Captures,
         Bundles, Diagnoses, Actions, Configs, ValidConfigs

(* How a command ends is a command, and says of itself what it was asked.  *)
LEMMA EndedTyped ==
  ASSUME NEW c \in Steps, NEW ok \in BOOLEAN, NEW restored \in BOOLEAN, NEW a \in Actions
  PROVE  Ended(c, ok, restored, a) \in Steps
<1> HIDE DEF NoCommand
<1> QED
  BY Names, NoCommandTyped DEF Ended, Steps

(* What an installation, a failed preparation and a restoration leave.     *)
LEMMA PartsTyped ==
  ASSUME NEW c \in Steps
  PROVE  /\ Installed(c) \in Steps /\ Unprepared(c) \in Steps
         /\ NotStandalone(c) \in Steps
         /\ \A ok \in BOOLEAN : Restored(c, ok) \in Steps
<1>1. Installed(c) \in Steps
  BY Names DEF Installed, Steps
<1>2. Unprepared(c) \in Steps
  BY Names DEF Unprepared, Steps
<1>3. NotStandalone(c) \in Steps
  <2>1. [c EXCEPT !.pc = "npm"] \in Steps
    BY Names DEF Steps
  <2> QED
    BY <2>1, EndedTyped, Names DEF NotStandalone, Failed
<1>4. ASSUME NEW ok \in BOOLEAN PROVE Restored(c, ok) \in Steps
  BY Names DEF Restored, Steps
<1> QED
  BY <1>1, <1>2, <1>3, <1>4

(* What is read of the configuration.                                      *)
LEMMA ReadingsTyped ==
  ASSUME SetupTyped
  PROVE  /\ Readings \subseteq Captures
         /\ \A r \in Captures : Digest(r) \in Configs \cup {"none"}
  BY DEF Readings, SetupTyped, Digest, Captures

(* The invariant holds of whatever machine the first command finds.        *)
LEMMA InitSetup == SetupInit => SetupInv
<1> SUFFICES ASSUME SetupInit PROVE SetupInv
  OBVIOUS
<1>1. SetupTyped
  BY NoCommandTyped DEF SetupInit, NoCommand, SetupTyped, Engines, Configs, ValidConfigs, Build
<1>2. RestoredInv /\ KeptInv /\ ReadyInv
  BY DEF SetupInit, NoCommand, NoSnapshot, RestoredInv, KeptInv, ReadyInv
<1> QED
  BY <1>1, <1>2 DEF SetupInv

-----------------------------------------------------------------------------
(* Installing, and judging the index                                       *)

Early ==
  {"version", "installed", "npm", "sums", "bundle", "checksum", "extract", "run", "link",
   "before", "status", "after", "decide", "snapshot"}

(* A step that touches only the engines and what a command carries.        *)
EarlyMove ==
  /\ overriding' \in Engines /\ onPath' \in Engines /\ managed' \in Engines
  /\ UNCHANGED <<repo, index, commands>>
  /\ cmd' \in Steps
  /\ cmd'.kind = cmd.kind /\ cmd'.captured = cmd.captured /\ cmd'.since = cmd.since

(* Such a step, between two places before the index is touched.            *)
LEMMA EarlyStep ==
  ASSUME SetupInv, EarlyMove, cmd.pc \in Early, cmd'.pc \in Early, cmd'.restored = cmd.restored,
         cmd'.action = cmd.action
  PROVE  SetupInv'
  BY DEF SetupInv, SetupTyped, RestoredInv, KeptInv, ReadyInv, EarlyMove, Early, repo

(* A command that fails claims nothing of the graph, and of the            *)
(* configuration no more than it knew.                                     *)
LEMMA FailStep ==
  ASSUME SetupInv, EarlyMove, cmd.pc \notin {"idle", "capture", "restore"},
         cmd'.pc = "done", ~cmd'.ok, cmd'.action = "failed", cmd'.restored => cmd.restored
  PROVE  SetupInv'
  BY DEF SetupInv, SetupTyped, RestoredInv, KeptInv, ReadyInv, EarlyMove, repo

(* A step of the installation moves on, falls back on npm, or fails.       *)
LEMMA FallBackStep ==
  ASSUME SetupInv, NEW c \in Steps, cmd' = NotStandalone(c), cmd.pc \in Early,
         c.kind = cmd.kind, c.captured = cmd.captured, c.since = cmd.since,
         c.restored = cmd.restored /\ c.action = cmd.action,
         overriding' \in Engines, onPath' \in Engines, managed' \in Engines,
         UNCHANGED <<repo, index, commands>>
  PROVE  SetupInv'
<1>1. cmd' \in Steps
  BY PartsTyped
<1>2. CASE c.via = "standalone"
  <2>1. cmd' = Ended(c, FALSE, TRUE, "failed")
    BY <1>2 DEF NotStandalone, Failed
  <2>2. /\ cmd'.pc = "done" /\ cmd'.captured = c.captured /\ cmd'.since = c.since
        /\ ~cmd'.ok /\ cmd'.restored /\ cmd'.action = "failed"
        /\ cmd'.kind = c.kind
    BY <2>1 DEF Ended, NoCommand
  <2>3. cmd.restored
    BY DEF SetupInv, RestoredInv, Early
  <2> QED
    BY <1>1, <2>2, <2>3, FailStep DEF EarlyMove, Early
<1>3. CASE c.via # "standalone"
  <2>1. cmd' = [c EXCEPT !.pc = "npm"]
    BY <1>3 DEF NotStandalone
  <2>2. /\ cmd'.pc = "npm" /\ cmd'.captured = c.captured /\ cmd'.since = c.since
        /\ cmd'.restored = c.restored /\ cmd'.action = c.action /\ cmd'.kind = c.kind
    BY <2>1 DEF Steps
  <2> QED
    BY <1>1, <2>2, EarlyStep DEF EarlyMove, Early
<1> QED
  BY <1>2, <1>3

(* Nothing of an installation touches the configuration or the index.      *)
LEMMA InstallSteps ==
  ASSUME SetupInv,
         \/ ResolveVersion \/ EnsureInstalled \/ FetchSums \/ FetchBundle \/ CheckBundle
         \/ ExtractBundle \/ RunLauncher \/ LinkOntoPath \/ InstallByNpm
  PROVE  SetupInv'
<1> DEFINE Failing == cmd' = Failed(cmd, TRUE) /\ Kept
<1>1. /\ cmd \in Steps /\ overriding \in Engines /\ onPath \in Engines /\ managed \in Engines
  BY DEF SetupInv, SetupTyped
<1>2. cmd.pc \in Early => cmd.restored
  BY DEF SetupInv, RestoredInv, Early
<1>3. Kept => /\ overriding' \in Engines /\ onPath' \in Engines /\ managed' \in Engines
              /\ UNCHANGED <<repo, index, commands>>
  BY <1>1 DEF Kept, engines
<1>4. Wanted(cmd) \in Engines
  BY <1>1 DEF Wanted, Steps, Wishes, Engines
<1>5. ASSUME Failing, cmd.pc \in Early PROVE SetupInv'
  <2>1. cmd' \in Steps
    BY <1>1, <1>5, EndedTyped, Names DEF Failed
  <2>2. /\ cmd'.pc = "done" /\ cmd'.captured = cmd.captured /\ cmd'.since = cmd.since
        /\ ~cmd'.ok /\ cmd'.action = "failed" /\ cmd'.kind = cmd.kind
    BY <1>5 DEF Failed, Ended, NoCommand
  <2> QED
    BY <1>2, <1>3, <1>5, <2>1, <2>2, FailStep DEF EarlyMove, Early
<1>6. ASSUME NEW s \in Early, cmd' = [cmd EXCEPT !.pc = s], Kept, cmd.pc \in Early
      PROVE  SetupInv'
  <2>1. s \in Stages
    BY DEF Early, Stages
  <2>2. /\ cmd' \in Steps /\ cmd'.pc = s /\ cmd'.captured = cmd.captured
        /\ cmd'.since = cmd.since /\ cmd'.restored = cmd.restored
        /\ cmd'.action = cmd.action /\ cmd'.kind = cmd.kind
    BY <1>1, <1>6, <2>1 DEF Steps
  <2> QED
    BY <1>3, <1>6, <2>2, EarlyStep DEF EarlyMove
<1>7. ASSUME cmd' = Installed(cmd), cmd.pc \in Early,
             overriding' \in Engines, onPath' \in Engines, managed' \in Engines,
             UNCHANGED <<repo, index, commands>>
      PROVE  SetupInv'
  <2>1. cmd' \in Steps
    BY <1>1, <1>7, PartsTyped
  <2>2. /\ cmd'.pc = "before" /\ cmd'.captured = cmd.captured /\ cmd'.since = cmd.since
        /\ cmd'.restored = cmd.restored /\ cmd'.action = cmd.action /\ cmd'.kind = cmd.kind
    BY <1>1, <1>7 DEF Installed, Steps
  <2> QED
    BY <1>7, <2>1, <2>2, EarlyStep DEF EarlyMove, Early
<1>8. ASSUME cmd' = NotStandalone(cmd), Kept, cmd.pc \in Early PROVE SetupInv'
  BY <1>1, <1>3, <1>8, FallBackStep
<1>9. CASE ResolveVersion
  BY <1>5, <1>6, <1>9 DEF ResolveVersion, At, Goto, Early
<1>10. CASE EnsureInstalled
  <2>1. cmd.pc \in Early
    BY <1>10 DEF EnsureInstalled, At, Early
  <2>2. \/ cmd' = Installed(cmd) /\ Kept
        \/ \E s \in {"npm", "sums"} : cmd' = [cmd EXCEPT !.pc = s] /\ Kept
        \/ Failing
    BY <1>10 DEF EnsureInstalled, Goto
  <2> QED
    BY <1>3, <1>5, <1>6, <1>7, <2>1, <2>2 DEF Early
<1>11. CASE FetchSums
  BY <1>6, <1>8, <1>11 DEF FetchSums, At, Goto, Early
<1>12. CASE FetchBundle
  <2>1. CASE cmd' = NotStandalone(cmd)
    BY <1>8, <1>12, <2>1 DEF FetchBundle, At, Goto, Early
  <2>2. CASE cmd' # NotStandalone(cmd)
    <3>1. PICK b \in {"genuine", "altered"} :
            cmd' = [cmd EXCEPT !.pc = "checksum", !.bundle = b] /\ Kept
      BY <1>12, <2>2 DEF FetchBundle, Goto
    <3>2. b \in Bundles
      BY Names
    <3>3. /\ cmd' \in Steps /\ cmd'.pc = "checksum" /\ cmd'.captured = cmd.captured
          /\ cmd'.since = cmd.since /\ cmd'.restored = cmd.restored
          /\ cmd'.action = cmd.action /\ cmd'.kind = cmd.kind
      BY <1>1, <3>1, <3>2, Names DEF Steps
    <3>4. cmd.pc = "bundle"
      BY <1>12 DEF FetchBundle, At
    <3> QED
      BY <1>3, <3>1, <3>3, <3>4, EarlyStep DEF EarlyMove, Early
  <2> QED
    BY <2>1, <2>2
<1>13. CASE CheckBundle
  BY <1>6, <1>8, <1>13 DEF CheckBundle, At, Goto, Early
<1>14. CASE ExtractBundle
  <2>1. /\ managed' \in Engines /\ overriding' \in Engines /\ onPath' \in Engines
        /\ UNCHANGED <<repo, index, commands>> /\ cmd.pc \in Early
    BY <1>1, <1>4, <1>14 DEF ExtractBundle, At, Engines, Early
  <2>2. CASE cmd' = NotStandalone(cmd)
    BY <1>1, <2>1, <2>2, FallBackStep
  <2>3. CASE cmd' # NotStandalone(cmd)
    <3>1. PICK w \in BOOLEAN : cmd' = [cmd EXCEPT !.pc = "run", !.works = w]
      BY <1>14, <2>3 DEF ExtractBundle
    <3>2. /\ cmd' \in Steps /\ cmd'.pc = "run" /\ cmd'.captured = cmd.captured
          /\ cmd'.since = cmd.since /\ cmd'.restored = cmd.restored
          /\ cmd'.action = cmd.action /\ cmd'.kind = cmd.kind
      BY <1>1, <3>1, Names DEF Steps
    <3> QED
      BY <2>1, <3>2, EarlyStep DEF EarlyMove, Early
  <2> QED
    BY <2>2, <2>3
<1>15. CASE RunLauncher
  <2>1. /\ overriding' \in Engines /\ onPath' \in Engines /\ managed' \in Engines
        /\ UNCHANGED <<repo, index, commands>> /\ cmd.pc \in Early
    BY <1>3, <1>15 DEF RunLauncher, At, Goto, Early
  <2>2. CASE cmd' = [cmd EXCEPT !.pc = "link", !.works = FALSE]
    <3>1. /\ cmd' \in Steps /\ cmd'.pc = "link" /\ cmd'.captured = cmd.captured
          /\ cmd'.since = cmd.since /\ cmd'.restored = cmd.restored
          /\ cmd'.action = cmd.action /\ cmd'.kind = cmd.kind
      BY <1>1, <2>2, Names DEF Steps
    <3> QED
      BY <2>1, <3>1, EarlyStep DEF EarlyMove, Early
  <2>3. CASE cmd' = NotStandalone([cmd EXCEPT !.works = FALSE])
    <3> DEFINE c == [cmd EXCEPT !.works = FALSE]
    <3>1. /\ c \in Steps /\ c.captured = cmd.captured /\ c.since = cmd.since
          /\ c.restored = cmd.restored /\ c.action = cmd.action /\ c.kind = cmd.kind
      BY <1>1 DEF Steps
    <3>2. cmd' = NotStandalone(c)
      BY <2>3
    <3> HIDE DEF c
    <3> QED
      BY <2>1, <3>1, <3>2, FallBackStep
  <2> QED
    BY <1>15, <2>2, <2>3 DEF RunLauncher, Goto
<1>16. CASE LinkOntoPath
  BY <1>1, <1>4, <1>7, <1>16 DEF LinkOntoPath, At, Early
<1>17. CASE InstallByNpm
  <2>1. cmd.pc \in Early
    BY <1>17 DEF InstallByNpm, At, Early
  <2>2. CASE Failing
    BY <1>5, <2>1, <2>2
  <2>3. CASE /\ cmd' = Installed(cmd) /\ onPath' \in {onPath, Wanted(cmd)}
             /\ UNCHANGED <<overriding, managed, repo, index, commands>>
    BY <1>1, <1>4, <1>7, <2>1, <2>3
  <2> QED
    BY <1>17, <2>2, <2>3 DEF InstallByNpm, Goto
<1> QED
  BY <1>9, <1>10, <1>11, <1>12, <1>13, <1>14, <1>15, <1>16, <1>17

(* The command begins with the configuration as it finds it.               *)
LEMMA BeginStep ==
  ASSUME SetupInv, Begin
  PROVE  SetupInv'
<1>1. PICK kind \in {"setup", "doctor"}, fix \in BOOLEAN, allow \in BOOLEAN,
           via \in {"auto", "standalone", "npm"}, want \in {"default", "other", "unsupported"} :
        cmd' = Asked(kind, fix, via, want, allow)
  BY DEF Begin
<1>2. /\ edits \in Nat /\ commands \in Nat
      /\ UNCHANGED <<overriding, onPath, managed, head, tree, config, edits, index>>
      /\ commands' = commands + 1
  BY DEF SetupInv, SetupTyped, Begin, engines, repo
<1>3. cmd' \in Steps
  <2>1. kind \in Commands /\ via \in Ways /\ want \in Wishes
    BY DEF Commands, Ways, Wishes
  <2> HIDE DEF NoCommand
  <2> QED
    BY <1>1, <1>2, <2>1, Names, NoCommandTyped DEF Asked, Steps
<1>4. cmd'.pc = "capture" /\ cmd'.restored /\ cmd'.since = edits /\ cmd'.action = "none"
  BY <1>1 DEF Asked, NoCommand
<1> QED
  BY <1>2, <1>3, <1>4 DEF SetupInv, SetupTyped, RestoredInv, KeptInv, ReadyInv

(* What is captured is the file as it is, or is known not to be captured.  *)
LEMMA CaptureStep ==
  ASSUME SetupInv, Capture
  PROVE  SetupInv'
<1>1. /\ cmd \in Steps /\ cmd.restored /\ cmd.pc = "capture" /\ Kept
  BY DEF SetupInv, SetupTyped, RestoredInv, Capture, At, Goto
<1>2. PICK r \in Readings :
        LET c == [cmd EXCEPT !.captured = r, !.reading = r]
        IN  cmd' = IF c.kind = "setup"
                   THEN IF r \in ValidConfigs THEN [c EXCEPT !.pc = "version"] ELSE Failed(c, FALSE)
                   ELSE IF Found = "none" THEN Failed(c, TRUE) ELSE [c EXCEPT !.pc = "status"]
  BY DEF Capture, Goto
<1> DEFINE c == [cmd EXCEPT !.captured = r, !.reading = r]
<1>3. r \in Captures
  BY ReadingsTyped DEF SetupInv
<1>4. /\ c \in Steps /\ c.kind = cmd.kind /\ c.since = cmd.since /\ c.captured = r
      /\ c.restored = cmd.restored /\ c.action = cmd.action
  BY <1>1, <1>3 DEF Steps
<1>5. cmd' = IF c.kind = "setup"
             THEN IF r \in ValidConfigs THEN [c EXCEPT !.pc = "version"] ELSE Failed(c, FALSE)
             ELSE IF Found = "none" THEN Failed(c, TRUE) ELSE [c EXCEPT !.pc = "status"]
  BY <1>2
<1> HIDE DEF c
<1>6. r \in Configs => r = config
  BY DEF Readings, Configs, ValidConfigs
<1>7. /\ UNCHANGED <<overriding, onPath, managed, head, tree, config, edits, index, commands>>
  BY <1>1 DEF Kept, engines, repo
<1>8. CASE \E s \in {"version", "status"} :
             cmd' = [c EXCEPT !.pc = s] /\ (cmd.kind = "setup" => r \in ValidConfigs)
  <2>1. PICK s \in {"version", "status"} :
          cmd' = [c EXCEPT !.pc = s] /\ (cmd.kind = "setup" => r \in ValidConfigs)
    BY <1>8
  <2>2. /\ cmd' \in Steps /\ cmd'.pc = s /\ cmd'.since = cmd.since /\ cmd'.captured = r
        /\ cmd'.restored /\ cmd'.kind = cmd.kind /\ cmd'.action = cmd.action
    BY <1>1, <1>4, <2>1, Names DEF Steps
  <2> QED
    BY <1>1, <1>6, <1>7, <2>1, <2>2 DEF SetupInv, SetupTyped, RestoredInv, KeptInv, ReadyInv
<1>9. CASE \E restored \in BOOLEAN : cmd' = Failed(c, restored)
  <2>1. PICK restored \in BOOLEAN : cmd' = Failed(c, restored)
    BY <1>9
  <2>2. cmd' \in Steps
    BY <1>4, <2>1, EndedTyped, Names DEF Failed
  <2>3. /\ cmd'.pc = "done" /\ cmd'.since = cmd.since /\ cmd'.captured = r /\ ~cmd'.ok
        /\ cmd'.action = "failed"
    BY <1>4, <2>1 DEF Failed, Ended, NoCommand
  <2> QED
    BY <1>6, <1>7, <2>2, <2>3 DEF SetupInv, SetupTyped, RestoredInv, KeptInv, ReadyInv
<1> QED
  BY <1>4, <1>5, <1>8, <1>9

(* Nor does the reading of the status and of what surrounds it.            *)
LEMMA StatusSteps ==
  ASSUME SetupInv, ReadBefore \/ AskStatus \/ ReadAfter
  PROVE  SetupInv'
<1>1. /\ cmd \in Steps /\ overriding \in Engines /\ onPath \in Engines /\ managed \in Engines
      /\ head \in Nat
  BY DEF SetupInv, SetupTyped
<1>2. Kept => /\ overriding' \in Engines /\ onPath' \in Engines /\ managed' \in Engines
              /\ UNCHANGED <<repo, index, commands>>
  BY <1>1 DEF Kept, engines
<1>3. CASE ReadBefore
  <2>1. PICK r \in Readings : cmd' = [cmd EXCEPT !.pc = "status", !.head = head, !.reading = r]
    BY <1>3 DEF ReadBefore, Goto
  <2>2. r \in Captures
    BY ReadingsTyped DEF SetupInv
  <2>3. /\ cmd' \in Steps /\ cmd'.pc = "status" /\ cmd'.captured = cmd.captured
        /\ cmd'.since = cmd.since /\ cmd'.restored = cmd.restored
        /\ cmd'.action = cmd.action /\ cmd'.kind = cmd.kind
    BY <1>1, <2>1, <2>2, Names DEF Steps
  <2> QED
    BY <1>2, <1>3, <2>3, EarlyStep DEF ReadBefore, At, Goto, EarlyMove, Early
<1>4. CASE AskStatus
  <2>1. PICK s \in StatusAnswers :
          cmd' = [cmd EXCEPT !.pc = IF cmd.kind = "setup" THEN "after" ELSE "decide", !.said = s]
    BY <1>4 DEF AskStatus, Goto
  <2>2. s \in Diagnoses
    BY FreshIsOwn DEF SetupInv
  <2>3. /\ cmd' \in Steps /\ cmd'.pc \in {"after", "decide"} /\ cmd'.captured = cmd.captured
        /\ cmd'.since = cmd.since /\ cmd'.restored = cmd.restored
        /\ cmd'.action = cmd.action /\ cmd'.kind = cmd.kind
    BY <1>1, <2>1, <2>2, Names DEF Steps
  <2> QED
    BY <1>2, <1>4, <2>3, EarlyStep DEF AskStatus, At, Goto, EarlyMove, Early
<1>5. CASE ReadAfter
  <2>1. CASE cmd' = [cmd EXCEPT !.pc = "decide"]
    <3>1. /\ cmd' \in Steps /\ cmd'.pc = "decide" /\ cmd'.captured = cmd.captured
          /\ cmd'.since = cmd.since /\ cmd'.restored = cmd.restored
          /\ cmd'.action = cmd.action /\ cmd'.kind = cmd.kind
      BY <1>1, <2>1, Names DEF Steps
    <3> QED
      BY <1>2, <1>5, <3>1, EarlyStep DEF ReadAfter, At, Goto, EarlyMove, Early
  <2>2. CASE cmd' = Failed(cmd, FALSE)
    <3>1. cmd' \in Steps
      BY <1>1, <2>2, EndedTyped, Names DEF Failed
    <3>2. /\ cmd'.pc = "done" /\ cmd'.captured = cmd.captured /\ cmd'.since = cmd.since
          /\ ~cmd'.ok /\ cmd'.action = "failed" /\ cmd'.kind = cmd.kind /\ ~cmd'.restored
      BY <2>2 DEF Failed, Ended, NoCommand
    <3> QED
      BY <1>2, <1>5, <3>1, <3>2, FailStep DEF ReadAfter, At, Goto, EarlyMove
  <2> QED
    BY <1>5, <2>1, <2>2 DEF ReadAfter, Goto
<1> QED
  BY <1>3, <1>4, <1>5

(* Only a valid configuration lets the index be prepared or built anew.    *)
LEMMA DecideSetupStep ==
  ASSUME SetupInv, DecideSetup
  PROVE  SetupInv'
<1>1. /\ cmd \in Steps /\ cmd.restored /\ cmd.pc = "decide" /\ cmd.kind = "setup" /\ Kept
      /\ cmd.captured \in ValidConfigs
  BY DEF SetupInv, SetupTyped, RestoredInv, DecideSetup, At, Goto
<1>2. UNCHANGED <<overriding, onPath, managed, head, tree, config, edits, index, commands>>
  BY <1>1 DEF Kept, engines, repo
<1>3. cmd.said \in Diagnoses
  BY <1>1 DEF Steps
<1>4. \/ cmd' = Failed(cmd, TRUE)
      \/ \E s \in {"snapshot", "prepare", "init"} : cmd' = [cmd EXCEPT !.pc = s]
  BY <1>3 DEF DecideSetup, Goto, NeedsRepair, Diagnoses
<1>5. CASE cmd' = Failed(cmd, TRUE)
  <2>1. cmd' \in Steps
    BY <1>1, <1>5, EndedTyped, Names DEF Failed
  <2>2. /\ cmd'.pc = "done" /\ cmd'.captured = cmd.captured /\ cmd'.since = cmd.since
        /\ ~cmd'.ok /\ cmd'.action = "failed" /\ cmd'.kind = cmd.kind
    BY <1>5 DEF Failed, Ended, NoCommand
  <2>3. overriding' \in Engines /\ onPath' \in Engines /\ managed' \in Engines
    BY <1>2 DEF SetupInv, SetupTyped
  <2> QED
    BY <1>1, <1>2, <2>1, <2>2, <2>3, FailStep DEF EarlyMove, repo
<1>6. CASE \E s \in {"snapshot", "prepare", "init"} : cmd' = [cmd EXCEPT !.pc = s]
  <2>1. PICK s \in {"snapshot", "prepare", "init"} : cmd' = [cmd EXCEPT !.pc = s]
    BY <1>6
  <2>2. /\ cmd' \in Steps /\ cmd'.pc = s /\ cmd'.captured = cmd.captured
        /\ cmd'.since = cmd.since /\ cmd'.restored = cmd.restored
        /\ cmd'.action = cmd.action /\ cmd'.kind = cmd.kind
    BY <1>1, <2>1, Names DEF Steps
  <2> QED
    BY <1>1, <1>2, <2>2 DEF SetupInv, SetupTyped, RestoredInv, KeptInv, ReadyInv
<1> QED
  BY <1>4, <1>5, <1>6

(* The doctor refuses what it could not capture, and goes on to prepare or *)
(* to build only for a valid configuration.                                *)
LEMMA DecideDoctorStep ==
  ASSUME SetupInv, DecideDoctor
  PROVE  SetupInv'
<1>1. /\ cmd \in Steps /\ cmd.restored /\ cmd.pc = "decide" /\ cmd.kind = "doctor" /\ Kept
  BY DEF SetupInv, SetupTyped, RestoredInv, DecideDoctor, At, Goto
<1>2. UNCHANGED <<overriding, onPath, managed, head, tree, config, edits, index, commands>>
  BY <1>1 DEF Kept, engines, repo
<1>3. cmd.said \in Diagnoses
  BY <1>1 DEF Steps
<1> DEFINE refused == [cmd EXCEPT !.pc = "report", !.action = "failed"]
<1>4. \/ cmd' = [cmd EXCEPT !.pc = "report"]
      \/ cmd' = [refused EXCEPT !.restored = (cmd.captured = "malformed")]
      \/ cmd' = refused
      \/ cmd.captured \in ValidConfigs /\ cmd' = [cmd EXCEPT !.pc = "prepare"]
      \/ cmd.captured \in ValidConfigs /\ cmd' = [cmd EXCEPT !.pc = "init"]
  BY <1>3 DEF DecideDoctor, Goto, Diagnoses
<1>5. refused \in Steps /\ refused.kind = cmd.kind /\ refused.since = cmd.since
      /\ refused.captured = cmd.captured /\ refused.pc = "report" /\ refused.action = "failed"
      /\ refused.restored = cmd.restored
  BY <1>1, Names DEF Steps
<1> HIDE DEF refused
<1>6. /\ cmd' \in Steps /\ cmd'.captured = cmd.captured /\ cmd'.kind = cmd.kind
      /\ cmd'.since = cmd.since
      /\ \/ cmd'.pc = "report" /\ cmd'.action \in {cmd.action, "failed"}
         \/ /\ cmd'.pc \in {"prepare", "init"} /\ cmd'.action = cmd.action
            /\ cmd'.restored /\ cmd.captured \in ValidConfigs
  <2>1. CASE cmd' = [refused EXCEPT !.restored = (cmd.captured = "malformed")]
    BY <1>5, <2>1 DEF Steps
  <2>2. CASE cmd' = refused
    BY <1>5, <2>2
  <2>3. CASE \E s \in {"report", "prepare", "init"} :
               /\ cmd' = [cmd EXCEPT !.pc = s]
               /\ s # "report" => cmd.captured \in ValidConfigs
    <3>1. PICK s \in {"report", "prepare", "init"} :
            /\ cmd' = [cmd EXCEPT !.pc = s]
            /\ s # "report" => cmd.captured \in ValidConfigs
      BY <2>3
    <3>2. s \in Stages
      BY Names
    <3> QED
      BY <1>1, <3>1, <3>2 DEF Steps
  <2> QED
    BY <1>4, <2>1, <2>2, <2>3
<1> QED
  BY <1>1, <1>2, <1>6 DEF SetupInv, SetupTyped, RestoredInv, KeptInv, ReadyInv

-----------------------------------------------------------------------------
(* Preparing the index                                                     *)

(* A fresh status vouches for the engine and for whose index it is; HEAD   *)
(* is looked at besides.                                                   *)
LEMMA ReadOnlySnapshotStep ==
  ASSUME SetupInv, ReadOnlySnapshot
  PROVE  SetupInv'
<1>1. /\ cmd \in Steps /\ cmd.restored /\ cmd.pc = "snapshot" /\ Kept
  BY DEF SetupInv, SetupTyped, RestoredInv, ReadOnlySnapshot, At, Goto
<1>2. UNCHANGED <<overriding, onPath, managed, head, tree, config, edits, index, commands>>
  BY <1>1 DEF Kept, engines, repo
<1>3. \/ cmd' = Ended(cmd, TRUE, TRUE, "unchanged") /\ Built
      \/ cmd' = Ended(cmd, FALSE, TRUE, "failed")
  BY FreshIsOwn DEF ReadOnlySnapshot, Goto, Failed, Built, SetupInv
<1>4. PICK ok \in BOOLEAN, a \in {"unchanged", "failed"} :
        cmd' = Ended(cmd, ok, TRUE, a) /\ (ok => Built)
  BY <1>3
<1>5. cmd' \in Steps
  BY <1>1, <1>4, EndedTyped, Names
<1>6. /\ cmd'.pc = "done" /\ cmd'.captured = cmd.captured /\ cmd'.since = cmd.since
      /\ cmd'.ok = ok /\ cmd'.action = a
  BY <1>4 DEF Ended, NoCommand
<1> QED
  BY <1>1, <1>2, <1>4, <1>5, <1>6
  DEF SetupInv, SetupTyped, RestoredInv, KeptInv, ReadyInv, Built, Found

(* There is a commit to prepare for, or nothing is prepared.               *)
LEMMA PrepareBeginStep ==
  ASSUME SetupInv, PrepareBegin
  PROVE  SetupInv'
<1>1. /\ cmd \in Steps /\ cmd.restored /\ cmd.pc = "prepare" /\ Kept
      /\ cmd.captured \in ValidConfigs /\ head \in Nat
  BY DEF SetupInv, SetupTyped, RestoredInv, PrepareBegin, At, Goto
<1>2. UNCHANGED <<overriding, onPath, managed, head, tree, config, edits, index, commands>>
  BY <1>1 DEF Kept, engines, repo
<1>3. PICK r \in Readings :
        \/ head # 0 /\ cmd' = [cmd EXCEPT !.pc = "sync", !.fenced = [head |-> head, config |-> r]]
        \/ cmd' = Unprepared(cmd)
  BY DEF PrepareBegin, Goto
<1>4. [head |-> head, config |-> r] \in Fences
  BY <1>1, ReadingsTyped DEF Fences, SetupInv, Captures
<1>5. /\ cmd' \in Steps /\ cmd'.kind = cmd.kind /\ cmd'.captured = cmd.captured
      /\ cmd'.since = cmd.since /\ cmd'.restored = cmd.restored /\ cmd'.action = cmd.action
      /\ \/ cmd'.pc = "sync" /\ head # 0
         \/ cmd'.pc = "judge" /\ cmd'.snapshot = NoSnapshot
  <2>1. CASE cmd' = Unprepared(cmd)
    BY <1>1, <2>1, Names DEF Unprepared, Steps
  <2>2. CASE /\ head # 0
             /\ cmd' = [cmd EXCEPT !.pc = "sync", !.fenced = [head |-> head, config |-> r]]
    BY <1>1, <1>4, <2>2, Names DEF Steps
  <2> QED
    BY <1>3, <2>1, <2>2
<1> QED
  BY <1>1, <1>2, <1>5 DEF SetupInv, SetupTyped, RestoredInv, KeptInv, ReadyInv, NoSnapshot

(* The engine goes by the configuration as it is then, which is the user's *)
(* again.                                                                  *)
LEMMA PrepareSyncStep ==
  ASSUME SetupInv, PrepareSync
  PROVE  SetupInv'
<1>1. /\ cmd \in Steps /\ cmd.restored /\ cmd.pc = "sync" /\ head # 0
      /\ cmd.captured \in ValidConfigs
  BY DEF SetupInv, SetupTyped, RestoredInv, ReadyInv, PrepareSync, At
<1>2. CASE cmd' = Unprepared(cmd) /\ Kept
  <2>1. /\ cmd' \in Steps /\ cmd'.kind = cmd.kind /\ cmd'.captured = cmd.captured
        /\ cmd'.since = cmd.since /\ cmd'.restored = cmd.restored /\ cmd'.action = cmd.action
        /\ cmd'.pc = "judge" /\ cmd'.snapshot = NoSnapshot
    BY <1>1, <1>2, Names DEF Unprepared, Steps
  <2>2. UNCHANGED <<overriding, onPath, managed, head, tree, config, edits, index, commands>>
    BY <1>2 DEF Kept, engines, repo
  <2> QED
    BY <1>1, <2>1, <2>2 DEF SetupInv, SetupTyped, RestoredInv, KeptInv, ReadyInv, NoSnapshot
<1>3. CASE /\ index' = Build(index.kind) /\ cmd' = [cmd EXCEPT !.pc = "fence"]
           /\ UNCHANGED <<engines, repo, commands>>
  <2>1. /\ cmd' \in Steps /\ cmd'.kind = cmd.kind /\ cmd'.captured = cmd.captured
        /\ cmd'.since = cmd.since /\ cmd'.restored = cmd.restored /\ cmd'.action = cmd.action
        /\ cmd'.pc = "fence"
    BY <1>1, <1>3, Names DEF Steps
  <2>2. /\ UNCHANGED <<overriding, onPath, managed, head, tree, config, edits, commands>>
        /\ index' = [kind |-> index.kind, head |-> head, tree |-> tree, config |-> config]
    BY <1>3 DEF engines, repo, Build
  <2>3. cmd.captured # "engine" => config # "engine"
    BY <1>1 DEF SetupInv, KeptInv, Configs
  <2>4. SetupTyped'
    BY <2>1, <2>2 DEF SetupInv, SetupTyped
  <2>5. ForTheUser'
    BY <1>1, <2>1, <2>2, <2>3 DEF ForTheUser
  <2> QED
    BY <1>1, <2>1, <2>2, <2>4, <2>5 DEF SetupInv, RestoredInv, KeptInv, ReadyInv
<1> QED
  BY <1>2, <1>3 DEF PrepareSync, Goto

(* A preparation that is accepted saw a fresh status, hence an accepted    *)
(* engine over an index of this worktree.                                  *)
LEMMA PrepareEndStep ==
  ASSUME SetupInv, PrepareEnd
  PROVE  SetupInv'
<1>1. /\ cmd \in Steps /\ cmd.restored /\ cmd.pc = "fence" /\ Kept /\ head # 0
      /\ cmd.captured \in ValidConfigs /\ head \in Nat /\ ForTheUser
  BY DEF SetupInv, SetupTyped, RestoredInv, ReadyInv, PrepareEnd, At, Goto
<1>2. UNCHANGED <<overriding, onPath, managed, head, tree, config, edits, index, commands>>
  BY <1>1 DEF Kept, engines, repo
<1>3. PICK r \in Readings, s \in StatusAnswers :
        LET now == [head |-> head, config |-> Digest(r)]
        IN  cmd' = IF s # "fresh" \/ now.config = "none" THEN Unprepared(cmd)
                   ELSE IF now = cmd.fenced THEN [cmd EXCEPT !.pc = "judge", !.snapshot = now]
                   ELSE IF cmd.attempt = 0 THEN [cmd EXCEPT !.pc = "prepare", !.attempt = 1]
                   ELSE Unprepared(cmd)
  BY DEF PrepareEnd, Goto
<1> DEFINE now == [head |-> head, config |-> Digest(r)]
<1>4. now \in Fences
  BY <1>1, ReadingsTyped DEF Fences, SetupInv
<1> HIDE DEF now
<1>5. \/ cmd' = Unprepared(cmd)
      \/ cmd' = [cmd EXCEPT !.pc = "judge", !.snapshot = now] /\ Built
      \/ cmd' = [cmd EXCEPT !.pc = "prepare", !.attempt = 1]
  BY <1>1, <1>3, FreshIsOwn DEF now, Built, SetupInv
<1>6. /\ cmd' \in Steps /\ cmd'.kind = cmd.kind /\ cmd'.captured = cmd.captured
      /\ cmd'.since = cmd.since /\ cmd'.restored = cmd.restored /\ cmd'.action = cmd.action
      /\ \/ cmd'.pc = "judge" /\ (cmd'.snapshot = NoSnapshot \/ Built)
         \/ cmd'.pc = "prepare"
  <2>1. CASE cmd' = Unprepared(cmd)
    BY <1>1, <2>1, Names DEF Unprepared, Steps
  <2>2. CASE cmd' = [cmd EXCEPT !.pc = "judge", !.snapshot = now] /\ Built
    BY <1>1, <1>4, <2>2, Names DEF Steps
  <2>3. CASE cmd' = [cmd EXCEPT !.pc = "prepare", !.attempt = 1]
    BY <1>1, <2>3, Names DEF Steps
  <2> QED
    BY <1>5, <2>1, <2>2, <2>3
<1>7. UNCHANGED Built /\ NoSnapshot' = NoSnapshot
  BY <1>2 DEF Built, Found, NoSnapshot
<1>8. ForTheUser'
  BY <1>1, <1>2, <1>6 DEF ForTheUser
<1> QED
  BY <1>1, <1>2, <1>6, <1>7, <1>8 DEF SetupInv, SetupTyped, RestoredInv, KeptInv, ReadyInv

(* What was not prepared is not claimed.                                   *)
LEMMA JudgePreparedStep ==
  ASSUME SetupInv, JudgePrepared
  PROVE  SetupInv'
<1>1. /\ cmd \in Steps /\ cmd.pc = "judge" /\ Kept /\ cmd.captured \in ValidConfigs
      /\ cmd.kind \in Commands
      /\ cmd.kind = "setup" => cmd.restored
      /\ Prepared(cmd) => cmd.restored /\ Built /\ ForTheUser
  BY DEF SetupInv, SetupTyped, RestoredInv, ReadyInv, JudgePrepared, At, Goto, Prepared, Steps
<1>2. UNCHANGED <<overriding, onPath, managed, head, tree, config, edits, index, commands>>
  BY <1>1 DEF Kept, engines, repo
<1>3. PICK a \in {"synced", "repaired", "initialized"} :
        cmd' = IF cmd.kind = "setup"
               THEN IF Prepared(cmd) THEN Ended(cmd, TRUE, TRUE, a) ELSE Failed(cmd, TRUE)
               ELSE [cmd EXCEPT !.pc = "report",
                       !.said = IF Prepared(cmd) THEN "fresh" ELSE "none",
                       !.action = IF Prepared(cmd) THEN a ELSE "failed"]
  <2> DEFINE b == CASE cmd.said = "pending" -> "synced"
                    [] cmd.kind = "doctor" \/ NeedsRepair(cmd) -> "repaired"
                    [] OTHER -> "initialized"
  <2>1. b \in {"synced", "repaired", "initialized"}
    OBVIOUS
  <2>2. cmd' = IF cmd.kind = "setup"
               THEN IF Prepared(cmd) THEN Ended(cmd, TRUE, TRUE, b) ELSE Failed(cmd, TRUE)
               ELSE [cmd EXCEPT !.pc = "report",
                       !.said = IF Prepared(cmd) THEN "fresh" ELSE "none",
                       !.action = IF Prepared(cmd) THEN b ELSE "failed"]
    BY DEF JudgePrepared, Goto
  <2> HIDE DEF b
  <2> QED
    BY <2>1, <2>2
<1>4. /\ cmd' \in Steps /\ cmd'.captured = cmd.captured /\ cmd'.since = cmd.since
      /\ cmd'.restored => cmd.restored
      /\ \/ /\ Prepared(cmd) /\ cmd'.restored
            /\ cmd'.pc = "report" \/ cmd'.pc = "done"
         \/ /\ cmd'.action = "failed"
            /\ cmd'.pc = "report" \/ (cmd'.pc = "done" /\ ~cmd'.ok)
  <2>1. CASE cmd.kind = "setup" /\ Prepared(cmd)
    <3>1. cmd' = Ended(cmd, TRUE, TRUE, a)
      BY <1>3, <2>1
    <3>2. cmd' \in Steps
      BY <1>1, <3>1, EndedTyped, Names
    <3> QED
      BY <1>1, <2>1, <3>1, <3>2 DEF Ended, NoCommand
  <2>2. CASE cmd.kind = "setup" /\ ~Prepared(cmd)
    <3>1. cmd' = Ended(cmd, FALSE, TRUE, "failed")
      BY <1>3, <2>2 DEF Failed
    <3>2. cmd' \in Steps
      BY <1>1, <3>1, EndedTyped, Names
    <3> QED
      BY <1>1, <2>2, <3>1, <3>2 DEF Ended, NoCommand
  <2>3. CASE cmd.kind # "setup"
    <3>1. PICK s \in {"fresh", "none"}, x \in {a, "failed"} :
            /\ cmd' = [cmd EXCEPT !.pc = "report", !.said = s, !.action = x]
            /\ x # "failed" => Prepared(cmd)
      BY <1>3, <2>3
    <3>2. s \in Diagnoses /\ x \in Actions
      BY Names
    <3> QED
      BY <1>1, <3>1, <3>2, Names DEF Steps
  <2> QED
    BY <2>1, <2>2, <2>3
<1>5. UNCHANGED Built
  BY <1>2 DEF Built, Found
<1>6. Prepared(cmd) /\ cmd'.restored => ForTheUser'
  BY <1>1, <1>2, <1>4 DEF ForTheUser
<1> QED
  BY <1>1, <1>2, <1>4, <1>5, <1>6 DEF SetupInv, SetupTyped, RestoredInv, KeptInv, ReadyInv

-----------------------------------------------------------------------------
(* Building the index anew, and reporting                                  *)

(* While the engine builds nothing is known of the configuration.          *)
LEMMA InitializeIndexStep ==
  ASSUME SetupInv, InitializeIndex
  PROVE  SetupInv'
<1>1. /\ cmd \in Steps /\ cmd.restored /\ cmd.pc = "init" /\ cmd.captured \in ValidConfigs
      /\ config \in Configs /\ head \in Nat /\ tree \in Nat
  BY DEF SetupInv, SetupTyped, RestoredInv, InitializeIndex, At
<1>2. PICK written \in {config, "engine"}, done \in BOOLEAN :
        /\ config' = written
        /\ \/ index' = [Build("own") EXCEPT !.config = written]
           \/ UNCHANGED index
        /\ cmd' = [cmd EXCEPT !.pc = "restore", !.works = done]
  BY DEF InitializeIndex
<1>3. /\ cmd' \in Steps /\ cmd'.pc = "restore" /\ cmd'.captured = cmd.captured
      /\ cmd'.since = cmd.since /\ cmd'.kind = cmd.kind /\ cmd'.action = cmd.action
  BY <1>1, <1>2, Names DEF Steps
<1>4. config' \in Configs
  BY <1>1, <1>2 DEF Configs, ValidConfigs
<1>5. UNCHANGED <<overriding, onPath, managed, head, tree, edits, commands>>
  BY DEF InitializeIndex, engines
<1>6. index' \in [kind : {"none", "foreign", "outdated", "own"}, head : Nat, tree : Nat,
                  config : Configs]
  BY <1>1, <1>2, <1>4 DEF Build, SetupInv, SetupTyped
<1> QED
  BY <1>1, <1>3, <1>4, <1>5, <1>6 DEF SetupInv, SetupTyped, RestoredInv, KeptInv, ReadyInv

(* A command believes that the file is back only when it saw it back.      *)
LEMMA RestoreConfigStep ==
  ASSUME SetupInv, RestoreConfig
  PROVE  SetupInv'
<1>1. /\ cmd \in Steps /\ cmd.pc = "restore" /\ cmd.captured \in ValidConfigs
  BY DEF SetupInv, SetupTyped, RestoredInv, RestoreConfig, At
<1>2. PICK ok \in BOOLEAN :
        /\ cmd' = Restored(cmd, ok)
        /\ config' \in {config, cmd.captured}
        /\ ok => config' = cmd.captured
  <2>1. PICK current \in Readings :
          \/ current = cmd.captured /\ cmd' = Restored(cmd, TRUE) /\ UNCHANGED config
          \/ cmd' = Restored(cmd, FALSE) /\ UNCHANGED config
          \/ config' = cmd.captured /\ \E again \in BOOLEAN : cmd' = Restored(cmd, again)
    BY DEF RestoreConfig
  <2>2. current = cmd.captured => config = cmd.captured
    BY <1>1 DEF Readings, ValidConfigs
  <2> QED
    BY <2>1, <2>2
<1>3. cmd' \in Steps
  BY <1>1, <1>2, PartsTyped
<1>4. /\ cmd'.pc = "reread" /\ cmd'.captured = cmd.captured /\ cmd'.since = cmd.since
      /\ cmd'.kind = cmd.kind /\ cmd'.action = cmd.action /\ cmd'.restored = ok
  BY <1>1, <1>2 DEF Restored, Steps
<1>5. UNCHANGED <<overriding, onPath, managed, head, tree, edits, index, commands>>
  BY DEF RestoreConfig, engines
<1>6. config' \in Configs
  BY <1>1, <1>2 DEF Configs, SetupInv, SetupTyped
<1> QED
  BY <1>1, <1>2, <1>3, <1>4, <1>5, <1>6
  DEF SetupInv, SetupTyped, RestoredInv, KeptInv, ReadyInv

(* A command goes on to prepare only when the index was built and the file *)
(* was seen back.                                                          *)
LEMMA RereadConfigStep ==
  ASSUME SetupInv, RereadConfig
  PROVE  SetupInv'
<1>1. /\ cmd \in Steps /\ cmd.pc = "reread" /\ Kept /\ cmd.captured \in ValidConfigs
  BY DEF SetupInv, SetupTyped, RestoredInv, RereadConfig, At, Goto
<1>2. UNCHANGED <<overriding, onPath, managed, head, tree, config, edits, index, commands>>
  BY <1>1 DEF Kept, engines, repo
<1>3. PICK r \in Readings :
        LET c == [cmd EXCEPT !.reading = r]
        IN  cmd' = CASE cmd.works /\ cmd.restored -> [c EXCEPT !.pc = "prepare"]
                     [] ~(cmd.works /\ cmd.restored) /\ cmd.kind = "setup" ->
                          Failed(c, cmd.restored)
                     [] OTHER -> [Unprepared(c) EXCEPT !.restored = cmd.restored]
  BY DEF RereadConfig, Goto
<1> DEFINE c == [cmd EXCEPT !.reading = r]
<1>4. /\ c \in Steps /\ c.kind = cmd.kind /\ c.since = cmd.since /\ c.captured = cmd.captured
      /\ c.restored = cmd.restored /\ c.action = cmd.action
  BY <1>1, ReadingsTyped DEF Steps, SetupInv
<1>5. \/ cmd' = [c EXCEPT !.pc = "prepare"] /\ cmd.restored
      \/ cmd' = Failed(c, cmd.restored)
      \/ cmd' = [Unprepared(c) EXCEPT !.restored = cmd.restored] /\ cmd.kind # "setup"
  BY <1>3
<1> HIDE DEF c
<1>6. cmd.restored \in BOOLEAN
  BY <1>1 DEF Steps
<1>7. /\ cmd' \in Steps /\ cmd'.captured = cmd.captured /\ cmd'.since = cmd.since
      /\ cmd'.kind = cmd.kind /\ cmd'.restored = cmd.restored
      /\ \/ cmd'.pc = "prepare" /\ cmd.restored /\ cmd'.action = cmd.action
         \/ cmd'.pc = "done" /\ ~cmd'.ok /\ cmd'.action = "failed"
         \/ /\ cmd'.pc = "judge" /\ cmd.kind # "setup" /\ cmd'.action = cmd.action
            /\ cmd'.snapshot = NoSnapshot
  <2>1. CASE cmd' = [c EXCEPT !.pc = "prepare"] /\ cmd.restored
    BY <1>4, <2>1, Names DEF Steps
  <2>2. CASE cmd' = Failed(c, cmd.restored)
    <3>1. cmd' \in Steps
      BY <1>4, <1>6, <2>2, EndedTyped, Names DEF Failed
    <3> QED
      BY <1>4, <2>2, <3>1 DEF Failed, Ended, NoCommand
  <2>3. CASE cmd' = [Unprepared(c) EXCEPT !.restored = cmd.restored] /\ cmd.kind # "setup"
    BY <1>4, <1>6, <2>3, Names DEF Unprepared, Steps
  <2> QED
    BY <1>5, <2>1, <2>2, <2>3
<1> QED
  BY <1>1, <1>2, <1>7 DEF SetupInv, SetupTyped, RestoredInv, KeptInv, ReadyInv, NoSnapshot

(* The doctor looks again before it says that the graph is well.           *)
LEMMA DoctorReportsStep ==
  ASSUME SetupInv, DoctorReports
  PROVE  SetupInv'
<1>1. /\ cmd \in Steps /\ cmd.pc = "report" /\ Kept
  BY DEF SetupInv, SetupTyped, DoctorReports, At
<1>2. UNCHANGED <<overriding, onPath, managed, head, tree, config, edits, index, commands>>
  BY <1>1 DEF Kept, engines, repo
<1>3. PICK healthy \in BOOLEAN :
        cmd' = Ended(cmd, healthy, cmd.restored, cmd.action) /\ (healthy => Built)
  <2>1. PICK r \in Readings, s \in StatusAnswers, inRange \in BOOLEAN :
          /\ inRange => Found \in Accepted
          /\ cmd' = Ended(cmd, /\ cmd.said = "fresh" /\ inRange /\ cmd.reading \in ValidConfigs
                               /\ cmd.restored /\ EnginesAvailable(s, r, inRange),
                          cmd.restored, cmd.action)
    BY DEF DoctorReports
  <2> DEFINE healthy == /\ cmd.said = "fresh" /\ inRange /\ cmd.reading \in ValidConfigs
                        /\ cmd.restored /\ EnginesAvailable(s, r, inRange)
  <2>2. healthy => Built
    BY <2>1, FreshIsOwn DEF EnginesAvailable, Built, SetupInv
  <2>3. cmd' = Ended(cmd, healthy, cmd.restored, cmd.action) /\ healthy \in BOOLEAN
    BY <2>1
  <2> HIDE DEF healthy
  <2> QED
    BY <2>2, <2>3
<1>4. cmd.restored \in BOOLEAN /\ cmd.action \in Actions
  BY <1>1 DEF Steps
<1>5. cmd' \in Steps
  BY <1>1, <1>3, <1>4, EndedTyped
<1>6. /\ cmd'.pc = "done" /\ cmd'.captured = cmd.captured /\ cmd'.since = cmd.since
      /\ cmd'.ok = healthy /\ cmd'.action = cmd.action /\ cmd'.restored = cmd.restored
  BY <1>3 DEF Ended, NoCommand
<1>7. UNCHANGED Built
  BY <1>2 DEF Built, Found
<1>8. ForTheUser => ForTheUser'
  BY <1>2, <1>6 DEF ForTheUser
<1> QED
  BY <1>1, <1>2, <1>3, <1>5, <1>6, <1>7, <1>8
  DEF SetupInv, SetupTyped, RestoredInv, KeptInv, ReadyInv

-----------------------------------------------------------------------------
(* Everyone else                                                           *)

(* A killed command says nothing.                                          *)
LEMMA KillStep ==
  ASSUME SetupInv, KillCommand
  PROVE  SetupInv'
<1>1. /\ cmd' \in Steps /\ cmd'.pc = "idle" /\ cmd'.since = 0 /\ cmd'.restored
      /\ cmd'.action = "none"
  BY NoCommandTyped DEF KillCommand, NoCommand
<1>2. UNCHANGED <<overriding, onPath, managed, head, tree, config, edits, index, commands>>
  BY DEF KillCommand, Kept, engines, repo
<1> QED
  BY <1>1, <1>2 DEF SetupInv, SetupTyped, RestoredInv, KeptInv, ReadyInv

(* The user writes no configuration of the engine's, removes no commit,    *)
(* and leaves a trace.                                                     *)
LEMMA UserEditsStep ==
  ASSUME SetupInv, UserEdits
  PROVE  SetupInv'
<1>1. /\ edits \in Nat /\ edits' = edits + 1 /\ cmd.since \in Nat /\ cmd.since <= edits
      /\ UNCHANGED <<overriding, onPath, managed, index, commands, cmd>>
  BY DEF SetupInv, SetupTyped, Steps, UserEdits, engines
<1>2. /\ head' \in {head, edits + 2} /\ tree' \in {tree, edits + 2}
      /\ config' \in {config, "changed", "absent", "malformed"}
  BY DEF UserEdits
<1>3. edits' # cmd'.since /\ cmd'.since <= edits' /\ edits + 2 # 0 /\ edits + 2 \in Nat
  BY <1>1
<1>4. SetupTyped'
  BY <1>1, <1>2, <1>3 DEF SetupInv, SetupTyped, Configs, ValidConfigs
<1>5. RestoredInv' /\ KeptInv'
  BY <1>1, <1>2, <1>3 DEF SetupInv, RestoredInv, KeptInv, NoSnapshot
<1>6. (Built => Built') /\ (ForTheUser => ForTheUser')
  BY <1>1, <1>2, <1>3 DEF Built, Found, ForTheUser
<1>7. ReadyInv'
  BY <1>1, <1>2, <1>3, <1>6 DEF SetupInv, ReadyInv, NoSnapshot
<1> QED
  BY <1>4, <1>5, <1>7 DEF SetupInv

(* Another process syncs for the configuration as it is, which is the      *)
(* engine's only between init and the restoration.                         *)
LEMMA OtherSyncStep ==
  ASSUME SetupInv, AnotherProcessSyncs
  PROVE  SetupInv'
<1>1. /\ UNCHANGED <<overriding, onPath, managed, head, tree, config, edits, commands, cmd>>
      /\ index' = [kind |-> "own", head |-> head, tree |-> tree, config |-> config]
  BY DEF AnotherProcessSyncs, engines, repo, Build
<1>2. SetupTyped'
  BY <1>1 DEF SetupInv, SetupTyped
<1>3. RestoredInv' /\ KeptInv'
  BY <1>1 DEF SetupInv, RestoredInv, KeptInv, NoSnapshot
<1>4. Built => Built'
  BY <1>1 DEF Built, Found
<1>5. cmd.pc \in {"fence", "judge", "report", "done"} /\ ForTheUser => ForTheUser'
  BY <1>1 DEF ForTheUser, SetupInv, KeptInv, Configs
<1>6. ReadyInv'
  BY <1>1, <1>4, <1>5 DEF SetupInv, ReadyInv, NoSnapshot
<1> QED
  BY <1>2, <1>3, <1>6 DEF SetupInv

(* Every step preserves the invariant.                                     *)
LEMMA SetupStep == SetupInv /\ [SetupNext]_svars => SetupInv'
<1> SUFFICES ASSUME SetupInv, [SetupNext]_svars PROVE SetupInv'
  OBVIOUS
<1>1. CASE Command
  BY <1>1, CaptureStep, InstallSteps, StatusSteps, DecideSetupStep, DecideDoctorStep,
     ReadOnlySnapshotStep, PrepareBeginStep, PrepareSyncStep, PrepareEndStep,
     JudgePreparedStep, InitializeIndexStep, RestoreConfigStep, RereadConfigStep,
     DoctorReportsStep DEF Command
<1>2. CASE UNCHANGED svars
  <2>1. UNCHANGED <<overriding, onPath, managed, head, tree, config, edits, index, commands, cmd>>
    BY <1>2 DEF svars, engines, repo
  <2> QED
    BY <2>1 DEF SetupInv, SetupTyped, RestoredInv, KeptInv, ReadyInv, ForTheUser, Built, Found,
                NoSnapshot
<1> QED
  BY <1>1, <1>2, BeginStep, KillStep, UserEditsStep, OtherSyncStep DEF SetupNext

(* In every state of the program's set-up the invariant holds.             *)
LEMMA SetupHolds == SetupSpec => []SetupInv
  BY InitSetup, SetupStep, PTL DEF SetupSpec

(* codegraph.json stays the user's, for any number of commands, killed     *)
(* ones among them, and of edits.                                          *)
THEOREM ConfigStaysTheUsers == SetupSpec => []ConfigIsTheUsers
<1>1. SetupInv => ConfigIsTheUsers
  BY DEF SetupInv, KeptInv, ConfigIsTheUsers
<1> QED
  BY <1>1, SetupHolds, PTL

(* A command that says the graph is ready has seen it ready.               *)
THEOREM ReadyMeansReady == SetupSpec => []ReadyIsReady
<1>1. SetupInv => ReadyIsReady
  BY DEF SetupInv, ReadyInv, ForTheUser, Built, ReadyIsReady
<1> QED
  BY <1>1, SetupHolds, PTL
===============================================================================
