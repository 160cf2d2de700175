------------------------------ MODULE GraphSetup ------------------------------
(***************************************************************************)
(* `pebra setup-graph` and `pebra doctor [--fix-graph]`: find or install   *)
(* the graph engine, judge the index by the engine's status, and leave it, *)
(* bring it up to date, or have the engine build it anew.  Building may    *)
(* rewrite codegraph.json, which belongs to the user, so the file is       *)
(* captured first and put back before the index is prepared.               *)
(*                                                                         *)
(* One command runs at a time; it may be killed anywhere, and then another *)
(* begins with what it left.  The user edits, commits and reconfigures at  *)
(* any moment and other processes sync the index.  The engine is external  *)
(* and modelled from what the commands ask of it.                          *)
(***************************************************************************)
EXTENDS Naturals

CONSTANTS
  MaxEdits,     \* bound: what the user does meanwhile
  MaxCommands   \* bound: commands run, the killed ones included

ASSUME BoundsAssumption == MaxEdits \in Nat /\ MaxCommands \in Nat

VARIABLES
  overriding,  \* the engine PEBRA_CODEGRAPH_BIN names
  onPath,      \* the engine on PATH
  managed,     \* the engine in the managed root of the pinned version
  head,        \* the commit checked out; 0 when there is none
  tree,        \* the content of the working tree
  config,      \* codegraph.json
  index,       \* what the index was built from, and whether it is of this worktree and version
  edits,       \* what the user has done so far
  commands,    \* commands run so far
  cmd          \* the command that runs

engines == <<overriding, onPath, managed>>
repo == <<head, tree, config, edits>>
svars == <<engines, repo, index, commands, cmd>>

(* An engine is "none", "broken" (it does not run), "unsupported", or of a  *)
(* version the program accepts.                                            *)
Accepted == {"pinned", "other"}

(* "engine" is what building the index may write; a directory stands for   *)
(* everything that is no regular file.                                     *)
ValidConfigs == {"absent", "mine", "changed", "engine"}
Configs == ValidConfigs \cup {"malformed", "directory"}

(* _capture_graph_config: any reading may fail.                            *)
Readings == {config, "unreadable"}

Digest(reading) == IF reading \in {"unreadable", "directory"} THEN "none" ELSE reading

NoSnapshot == [head |-> 0, config |-> "none"]

(* Between commands.  A command was asked for a kind of repair and of      *)
(* installation, has captured the user's configuration, and carries what   *)
(* it downloaded and read, the engine's answer, the snapshot the prepare   *)
(* under way and the one before it rest on, and what it will say: whether  *)
(* the graph is ready, the configuration kept and what it did; since is    *)
(* what the user had done when it began.                                   *)
NoCommand ==
  [pc |-> "idle", kind |-> "setup", fix |-> FALSE, via |-> "auto", want |-> "default",
   allow |-> FALSE, captured |-> "absent", bundle |-> "none", head |-> 0,
   reading |-> "absent", said |-> "none", works |-> FALSE, attempt |-> 0, fenced |-> NoSnapshot,
   snapshot |-> NoSnapshot, ok |-> FALSE, restored |-> TRUE, action |-> "none",
   since |-> 0]

Build(kind) == [kind |-> kind, head |-> head, tree |-> tree, config |-> config]

SetupInit ==
  /\ overriding \in {"none", "unsupported"}
  /\ onPath \in {"none", "broken", "other"}
  /\ managed \in {"none", "broken", "pinned"}
  /\ head \in {0, 1} /\ tree = 1
  /\ config \in {"absent", "mine", "malformed", "directory"}
  /\ index \in {[kind |-> k, head |-> 0, tree |-> 0, config |-> "absent"] :
                  k \in {"none", "foreign", "outdated"}} \cup {Build("own")}
  /\ edits = 0 /\ commands = 0
  /\ cmd = NoCommand

-----------------------------------------------------------------------------
(* Everyone else                                                           *)

UserEdits ==
  /\ edits < MaxEdits
  /\ edits' = edits + 1
  /\ \/ head' = edits + 2 /\ UNCHANGED <<tree, config>>
     \/ tree' = edits + 2 /\ UNCHANGED <<head, config>>
     \/ config' \in {"changed", "absent", "malformed"} \ {config} /\ UNCHANGED <<head, tree>>
  /\ UNCHANGED <<engines, index, commands, cmd>>

AnotherProcessSyncs ==
  /\ index.kind = "own" /\ index # Build("own")
  /\ index' = Build("own")
  /\ UNCHANGED <<engines, repo, commands, cmd>>

-----------------------------------------------------------------------------
(* Finding and asking the engine                                           *)

(* find_engine                                                             *)
Found ==
  CASE overriding # "none" -> overriding
    [] overriding = "none" /\ onPath # "none" -> onPath
    [] OTHER -> managed

(* What `codegraph status` may answer, as _diagnosis tells it apart: it    *)
(* sees edits, but an index of another commit or configuration may look    *)
(* clean to it.                                                            *)
StatusAnswers ==
  {"none", "malformed"} \cup
  CASE Found \in {"none", "broken"} -> {}
    [] Found = "unsupported" -> IF index.kind = "none" THEN {} ELSE {"unsupported"}
    [] Found \in Accepted /\ index.kind = "none" -> {"uninitialized"}
    [] Found \in Accepted /\ index.kind = "foreign" -> {"mismatch"}
    [] Found \in Accepted /\ index.kind = "outdated" -> {"reindex"}
    [] Found \in Accepted /\ index.kind = "own" ->
         IF index = Build("own") THEN {"fresh"}
         ELSE IF index.head = head /\ index.config = config THEN {"pending"}
         ELSE {"fresh", "pending"}

NeedsRepair(c) == c.said \in {"mismatch", "reindex"}

At(pc) == cmd.pc = pc
Kept == UNCHANGED <<engines, repo, index, commands>>
Goto(c) == cmd' = c /\ Kept

Ended(c, ok, restored, action) ==
  [NoCommand EXCEPT !.pc = "done", !.kind = c.kind, !.fix = c.fix, !.captured = c.captured,
     !.ok = ok, !.restored = restored, !.action = action, !.since = c.since]

Failed(c, restored) == Ended(c, FALSE, restored, "failed")

Asked(kind, fix, via, want, allow) ==
  [NoCommand EXCEPT !.pc = "capture", !.kind = kind, !.fix = fix, !.via = via, !.want = want,
     !.allow = allow, !.since = edits]

Begin ==
  /\ cmd.pc \in {"idle", "done"} /\ commands < MaxCommands
  /\ commands' = commands + 1
  /\ \E kind \in {"setup", "doctor"}, fix, allow \in BOOLEAN, via \in {"auto", "standalone", "npm"},
        want \in {"default", "other", "unsupported"} :
       /\ kind = "doctor" => via = "auto" /\ want = "default" /\ ~allow
       /\ allow => want = "unsupported"
       /\ cmd' = Asked(kind, fix, via, want, allow)
  /\ UNCHANGED <<engines, repo, index>>

(* A killed command cleans nothing up.                                     *)
KillCommand ==
  /\ cmd.pc \notin {"idle", "done"}
  /\ cmd' = NoCommand
  /\ Kept

(* The file is captured before anything else is done.                      *)
Capture ==
  /\ At("capture")
  /\ \E r \in Readings :
       LET c == [cmd EXCEPT !.captured = r, !.reading = r]
       IN  Goto(IF c.kind = "setup"
                THEN IF r \in ValidConfigs THEN [c EXCEPT !.pc = "version"] ELSE Failed(c, FALSE)
                ELSE IF Found = "none" THEN Failed(c, TRUE) ELSE [c EXCEPT !.pc = "status"])

-----------------------------------------------------------------------------
(* Installing                                                              *)

Wanted(c) == IF c.want = "default" THEN "pinned" ELSE c.want

(* _resolve_version                                                        *)
ResolveVersion ==
  /\ At("version")
  /\ Goto(IF cmd.want = "unsupported" /\ ~cmd.allow THEN Failed(cmd, TRUE)
          ELSE [cmd EXCEPT !.pc = "installed"])

HasWanted(c) ==
  IF c.want = "default" THEN Found \in Accepted ELSE Found = Wanted(c)

(* What was asked for matters no more once there is an engine.             *)
Installed(c) ==
  [c EXCEPT !.pc = "before", !.via = "auto", !.want = "default", !.allow = FALSE,
            !.bundle = "none", !.works = FALSE]

(* _ensure_installed: the version probe may fail, and not every platform   *)
(* has a bundle.                                                           *)
EnsureInstalled ==
  /\ At("installed")
  /\ \E probed, bundled \in BOOLEAN :
       Goto(IF HasWanted(cmd) /\ probed THEN Installed(cmd)
            ELSE IF cmd.via = "npm" THEN [cmd EXCEPT !.pc = "npm"]
            ELSE IF bundled THEN [cmd EXCEPT !.pc = "sums"]
            ELSE IF cmd.via = "standalone" THEN Failed(cmd, TRUE)
            ELSE [cmd EXCEPT !.pc = "npm"])

NotStandalone(c) ==
  IF c.via = "standalone" THEN Failed(c, TRUE) ELSE [c EXCEPT !.pc = "npm"]

(* _install_standalone.  No entry for the asset is as good as no sums.     *)
FetchSums ==
  /\ At("sums")
  /\ \/ Goto([cmd EXCEPT !.pc = "bundle"])
     \/ Goto(NotStandalone(cmd))

FetchBundle ==
  /\ At("bundle")
  /\ \/ \E b \in {"genuine", "altered"} : Goto([cmd EXCEPT !.pc = "checksum", !.bundle = b])
     \/ Goto(NotStandalone(cmd))

CheckBundle ==
  /\ At("checksum")
  /\ Goto(IF cmd.bundle = "genuine" THEN [cmd EXCEPT !.pc = "extract"] ELSE NotStandalone(cmd))

(* Only the pinned version's root is ever looked into again; an extraction *)
(* that fails, or a bundle of another libc, leaves what does not run.      *)
ExtractBundle ==
  /\ At("extract")
  /\ \E m \in {"broken", Wanted(cmd)}, raised \in BOOLEAN :
       /\ raised => m = "broken"
       /\ managed' = IF cmd.want = "default" THEN m ELSE managed
       /\ cmd' = IF raised THEN NotStandalone(cmd)
                 ELSE [cmd EXCEPT !.pc = "run", !.works = (m # "broken")]
  /\ UNCHANGED <<overriding, onPath, repo, index, commands>>

RunLauncher ==
  /\ At("run")
  /\ \/ cmd.works /\ Goto([cmd EXCEPT !.pc = "link", !.works = FALSE])
     \/ Goto(NotStandalone([cmd EXCEPT !.works = FALSE]))

(* _link_onto_path: linked or not, this process finds it on its PATH.      *)
LinkOntoPath ==
  /\ At("link")
  /\ onPath' = Wanted(cmd)
  /\ cmd' = Installed(cmd)
  /\ UNCHANGED <<overriding, managed, repo, index, commands>>

(* _install_npm: what npm installs may stand behind another on PATH, and   *)
(* any engine that is found then will do.                                  *)
InstallByNpm ==
  /\ At("npm")
  /\ \/ Goto(Failed(cmd, TRUE))
     \/ /\ \/ onPath' = Wanted(cmd)
           \/ onPath # "none" /\ UNCHANGED onPath
        /\ cmd' = Installed(cmd)
        /\ UNCHANGED <<overriding, managed, repo, index, commands>>

-----------------------------------------------------------------------------
(* Judging the index                                                       *)

ReadBefore ==
  /\ At("before")
  /\ \E r \in Readings :
       Goto([cmd EXCEPT !.pc = "status", !.head = head, !.reading = r])

AskStatus ==
  /\ At("status")
  /\ \E s \in StatusAnswers :
       Goto([cmd EXCEPT !.pc = IF cmd.kind = "setup" THEN "after" ELSE "decide", !.said = s])

(* The configuration read after the status must be valid and the same.     *)
ReadAfter ==
  /\ At("after")
  /\ \E r \in Readings :
       Goto(IF r \in ValidConfigs /\ Digest(r) = Digest(cmd.reading) THEN [cmd EXCEPT !.pc = "decide"]
            ELSE Failed(cmd, FALSE))

(* A status that says nothing certain authorizes nothing; a repair needs   *)
(* --fix; a healthy index is left alone.                                   *)
DecideSetup ==
  /\ At("decide") /\ cmd.kind = "setup"
  /\ Goto(CASE cmd.said \in {"none", "malformed", "unsupported"} -> Failed(cmd, TRUE)
            [] NeedsRepair(cmd) /\ ~cmd.fix -> Failed(cmd, TRUE)
            [] cmd.said = "fresh" -> [cmd EXCEPT !.pc = "snapshot"]
            [] cmd.said = "pending" -> [cmd EXCEPT !.pc = "prepare"]
            [] cmd.said = "uninitialized" \/ (NeedsRepair(cmd) /\ cmd.fix) ->
                 [cmd EXCEPT !.pc = "init"])

(* doctor repairs only when asked to, and reports in every case.           *)
DecideDoctor ==
  /\ At("decide") /\ cmd.kind = "doctor"
  /\ LET idle == ~cmd.fix \/ cmd.said = "fresh"
         valid == cmd.captured \in ValidConfigs
         uncertain == cmd.said \in {"none", "malformed", "unsupported"}
         refused == [cmd EXCEPT !.pc = "report", !.action = "failed"]
     IN  Goto(CASE idle -> [cmd EXCEPT !.pc = "report"]
                [] ~idle /\ ~valid -> [refused EXCEPT !.restored = (cmd.captured = "malformed")]
                [] ~idle /\ valid /\ uncertain -> refused
                [] ~idle /\ valid /\ cmd.said = "pending" -> [cmd EXCEPT !.pc = "prepare"]
                [] ~idle /\ valid /\ cmd.said \in {"uninitialized", "mismatch", "reindex"} ->
                     [cmd EXCEPT !.pc = "init"])

(* _read_only_snapshot: a second status that says the same, and HEAD and   *)
(* configuration where they were before the first.  Nothing is synced.     *)
ReadOnlySnapshot ==
  /\ At("snapshot")
  /\ \E s \in StatusAnswers, r \in Readings, same \in BOOLEAN :
       LET stable == s = "fresh" /\ same /\ head # 0 /\ head = cmd.head /\ Digest(r) = Digest(cmd.reading)
       IN  Goto(IF stable
                THEN Ended(cmd, TRUE, TRUE, "unchanged")
                ELSE Failed(cmd, TRUE))

-----------------------------------------------------------------------------
(* Preparing the index: CodeGraphAdapter.prepare, whose steps one by one   *)
(* are GraphFence's.                                                       *)

Unprepared(c) == [c EXCEPT !.pc = "judge", !.snapshot = NoSnapshot]

(* What there is to sync, and what it is to be checked against.            *)
PrepareBegin ==
  /\ At("prepare")
  /\ \E r \in Readings, s \in StatusAnswers :
       Goto(IF head # 0 /\ Digest(r) # "none" /\ s \in {"fresh", "pending", "reindex"}
            THEN [cmd EXCEPT !.pc = "sync", !.fenced = [head |-> head, config |-> r]]
            ELSE Unprepared(cmd))

PrepareSync ==
  /\ At("sync")
  /\ \/ Goto(Unprepared(cmd))
     \/ /\ index' = Build(index.kind)
        /\ cmd' = [cmd EXCEPT !.pc = "fence"]
        /\ UNCHANGED <<engines, repo, commands>>

(* Accepted only when HEAD and configuration are what they were; otherwise *)
(* once more, and then not.                                                *)
PrepareEnd ==
  /\ At("fence")
  /\ \E r \in Readings, s \in StatusAnswers :
       LET now == [head |-> head, config |-> Digest(r)]
       IN  Goto(IF s # "fresh" \/ now.config = "none" THEN Unprepared(cmd)
                ELSE IF now = cmd.fenced THEN [cmd EXCEPT !.pc = "judge", !.snapshot = now]
                ELSE IF cmd.attempt = 0 THEN [cmd EXCEPT !.pc = "prepare", !.attempt = 1]
                ELSE Unprepared(cmd))

(* _prepare_worktree_local_index: only for the configuration the command   *)
(* goes by.                                                                *)
Prepared(c) == c.snapshot # NoSnapshot /\ c.snapshot.config = Digest(c.reading)

JudgePrepared ==
  /\ At("judge")
  /\ LET action == CASE cmd.said = "pending" -> "synced"
                     [] cmd.kind = "doctor" \/ NeedsRepair(cmd) -> "repaired"
                     [] OTHER -> "initialized"
     IN  Goto(IF cmd.kind = "setup"
              THEN IF Prepared(cmd)
                   THEN Ended(cmd, TRUE, TRUE, action)
                   ELSE Failed(cmd, TRUE)
              ELSE [cmd EXCEPT !.pc = "report",
                      !.said = IF Prepared(cmd) THEN "fresh" ELSE "none",
                      !.action = IF Prepared(cmd) THEN action ELSE "failed"])

-----------------------------------------------------------------------------
(* Building the index anew                                                 *)

(* `codegraph init` may write a configuration, and may fail after it did.  *)
InitializeIndex ==
  /\ At("init")
  /\ \E written \in {config, "engine"}, done \in BOOLEAN :
       /\ written = "engine" => config # "directory"
       /\ config' = written
       /\ \/ index' = [Build("own") EXCEPT !.config = written]
          \/ ~done /\ UNCHANGED index
       /\ cmd' = [cmd EXCEPT !.pc = "restore", !.works = done]
  /\ UNCHANGED <<engines, head, tree, edits, commands>>

Restored(c, ok) == [c EXCEPT !.pc = "reread", !.restored = ok]

(* Mutant of RestoreConfig: what the engine created is left behind.        *)
RestoreExistingConfig ==
  /\ At("restore")
  /\ \E current \in Readings, again \in BOOLEAN :
       \/ /\ current = cmd.captured \/ cmd.captured = "absent"
          /\ cmd' = Restored(cmd, TRUE) /\ UNCHANGED config
       \/ cmd' = Restored(cmd, FALSE) /\ UNCHANGED config
       \/ /\ current # "directory" /\ cmd.captured # "absent"
          /\ config' = cmd.captured
          /\ cmd' = Restored(cmd, again)
  /\ UNCHANGED <<engines, head, tree, edits, index, commands>>

(* _restore_graph_config: put back what was captured, unless it is there   *)
(* already or something is in the way, and look whether it is there.       *)
RestoreConfig ==
  /\ At("restore")
  /\ \E current \in Readings :
       \/ /\ current = cmd.captured
          /\ cmd' = Restored(cmd, TRUE) /\ UNCHANGED config
       \/ /\ current # cmd.captured
          /\ cmd' = Restored(cmd, FALSE) /\ UNCHANGED config
       \/ /\ current # cmd.captured /\ config # "directory"
          /\ current = "unreadable" => cmd.captured # "absent"
          /\ config' = cmd.captured
          /\ \E again \in BOOLEAN : cmd' = Restored(cmd, again)
  /\ UNCHANGED <<engines, head, tree, edits, index, commands>>

(* Mutant of RereadConfig: what init built is taken as it is.              *)
TakeWhatWasBuilt ==
  /\ At("reread")
  /\ \E r \in Readings :
       LET c == [cmd EXCEPT !.reading = r,
                   !.snapshot = [head |-> head, config |-> Digest(r)]]
       IN  Goto(CASE cmd.works /\ cmd.restored -> [c EXCEPT !.pc = "judge"]
                  [] ~(cmd.works /\ cmd.restored) /\ cmd.kind = "setup" -> Failed(c, cmd.restored)
                  [] OTHER -> [Unprepared(c) EXCEPT !.restored = cmd.restored])

(* The index is prepared for the configuration as it is found then.        *)
RereadConfig ==
  /\ At("reread")
  /\ \E r \in Readings :
       LET c == [cmd EXCEPT !.reading = r]
       IN  Goto(CASE cmd.works /\ cmd.restored -> [c EXCEPT !.pc = "prepare"]
                  [] ~(cmd.works /\ cmd.restored) /\ cmd.kind = "setup" -> Failed(c, cmd.restored)
                  [] OTHER -> [Unprepared(c) EXCEPT !.restored = cmd.restored])

-----------------------------------------------------------------------------
(* doctor's report                                                         *)

(* collect_engine_status, of git and of the graph engine.                  *)
EnginesAvailable(status, reading, inRange) ==
  head # 0 /\ Found # "none" /\ inRange /\ status = "fresh" /\ reading \in ValidConfigs

(* The verdict is of the readings before the repair and after, and of      *)
(* readings of its own.                                                    *)
DoctorReports ==
  /\ At("report")
  /\ \E r \in Readings, s \in StatusAnswers, inRange \in BOOLEAN :
       /\ inRange => Found \in Accepted
       /\ LET healthy == /\ cmd.said = "fresh" /\ inRange /\ cmd.reading \in ValidConfigs
                         /\ cmd.restored /\ EnginesAvailable(s, r, inRange)
          IN  cmd' = Ended(cmd, healthy, cmd.restored, cmd.action)
  /\ Kept

Command ==
  \/ Capture \/ ResolveVersion \/ EnsureInstalled \/ FetchSums \/ FetchBundle \/ CheckBundle
  \/ ExtractBundle \/ RunLauncher \/ LinkOntoPath \/ InstallByNpm \/ ReadBefore \/ AskStatus
  \/ ReadAfter \/ DecideSetup \/ DecideDoctor \/ ReadOnlySnapshot \/ PrepareBegin \/ PrepareSync
  \/ PrepareEnd \/ JudgePrepared \/ InitializeIndex \/ RestoreConfig \/ RereadConfig
  \/ DoctorReports

SetupNext == Begin \/ Command \/ KillCommand \/ UserEdits \/ AnotherProcessSyncs

SetupSpec == SetupInit /\ [][SetupNext]_svars

-----------------------------------------------------------------------------
(* codegraph.json stays the user's: a command that says it kept the file   *)
(* never leaves what the engine wrote in place of what it captured, and    *)
(* when nobody else touched the file it is what it was.  (A command killed *)
(* in between says nothing, and the next one captures what it left.)       *)
ConfigIsTheUsers ==
  cmd.pc = "done" /\ cmd.restored /\ cmd.captured \in Configs =>
    /\ config = "engine" => cmd.captured = "engine"
    /\ edits = cmd.since => config = cmd.captured

(* A command that says the graph is ready found an engine of an accepted   *)
(* version, an index of this worktree, a commit, and, when it had the      *)
(* index built, an index for the user's configuration rather than for what *)
(* the engine wrote meanwhile.                                             *)
ReadyIsReady ==
  cmd.pc = "done" /\ cmd.ok =>
    /\ Found \in Accepted
    /\ index.kind = "own" /\ head # 0
    /\ cmd.action \in {"synced", "initialized", "repaired"} /\ cmd.captured # "engine" =>
         index.config # "engine"
=============================================================================
