------------------------------ MODULE GraphFence ------------------------------
(***************************************************************************)
(* The fence around graph reads.  Before a query, _prepare_default brings  *)
(* the index up to date with `codegraph sync` between two readings of HEAD *)
(* and of codegraph.json and accepts only when neither moved; after it,    *)
(* revalidate_snapshot reads everything again.  The repository and the     *)
(* index belong to everyone: commits, edits, configuration changes and the *)
(* syncs of other processes happen at any moment.                          *)
(*                                                                         *)
(* What a call of the engine answers is chosen when the engine does its    *)
(* work, somewhere between launch and exit; the engine is external and is  *)
(* modelled from what the fence asks of it.                                *)
(***************************************************************************)
EXTENDS BoundedProcess

CONSTANT MaxChanges  \* bound: changes made to the repository meanwhile

ASSUME MaxChangesAssumption == MaxChanges \in Nat

VARIABLES
  head,     \* the commit checked out
  config,   \* the digest of codegraph.json
  tree,     \* the content of the working tree
  index,    \* what the index was built from
  changes,  \* changes made so far
  seen,     \* which commit and which digest each moment put in place
  fence     \* Callers -> progress of prepare or revalidate_snapshot

fvars == <<head, config, tree, index, changes, seen, fence, bvars>>

(* head, config and tree hold the moment of their last change.  Moments are *)
(* numbered and never return, but what a later one puts in place may have  *)
(* been there before: the same commit checked out again, the same bytes of *)
(* codegraph.json.  The code sees only those; 0 is a reading that failed   *)
(* (no HEAD, an unreadable configuration).                                 *)
Versions == 1..(MaxChanges + 1)
Readings == Versions \cup {0}

Commit(m) == IF m = 0 THEN 0 ELSE seen.head[m]
Digest(m) == IF m = 0 THEN 0 ELSE seen.config[m]

Builds == [head : Versions, config : Versions, tree : Versions]

Snapshots ==
  [status : {"none", "available", "unavailable", "stale"}, head : Readings, config : Readings]

Fences ==
  [pc : {"idle", "engine", "head_before", "config_before", "status", "sync", "post",
         "head_after", "config_after", "recheck", "config_now", "head_now", "done"},
   attempt : 0..1, head : Readings, config : Readings, later : Readings,
   said : {"none", "fresh", "pending", "rejected"}, snapshot : Snapshots,
   valid : BOOLEAN]

FenceTypeOK ==
  /\ BoundedTypeOK
  /\ head \in Versions /\ config \in Versions /\ tree \in Versions
  /\ index \in Builds
  /\ changes \in 0..MaxChanges
  /\ seen \in [head : [Versions -> Versions], config : [Versions -> Versions]]
  /\ fence \in [Callers -> Fences]

NoSnapshot == [status |-> "none", head |-> 0, config |-> 0]

NoFence ==
  [pc |-> "idle", attempt |-> 0, head |-> 0, config |-> 0, later |-> 0, said |-> "none",
   snapshot |-> NoSnapshot, valid |-> FALSE]

FenceInit ==
  /\ BoundedInit
  /\ head = 1 /\ config = 1 /\ tree = 1 /\ changes = 0
  /\ index = [head |-> 1, config |-> 1, tree |-> 1]
  /\ seen = [head |-> [m \in Versions |-> m], config |-> [m \in Versions |-> m]]
  /\ fence = [w \in Callers |-> NoFence]

-----------------------------------------------------------------------------
(* Everyone else                                                           *)

Current == [head |-> head, config |-> config, tree |-> tree]

(* HEAD moves to a new commit or to any there was, codegraph.json likewise.*)
(* An edit that is undone needs no such choice: nothing but the engine     *)
(* compares trees, and its status may call every index fresh again once it *)
(* is synced.                                                              *)
Change(h, c, t) ==
  LET now == changes + 2
  IN  /\ changes < MaxChanges
      /\ changes' = changes + 1
      /\ head' = IF h THEN now ELSE head
      /\ config' = IF c THEN now ELSE config
      /\ tree' = IF t THEN now ELSE tree
      /\ \E commit \in IF h THEN (1..now) \ {Commit(head)} ELSE {now},
            digest \in IF c THEN (1..now) \ {Digest(config)} ELSE {now} :
           seen' = [seen EXCEPT !.head[now] = commit, !.config[now] = digest]
      /\ UNCHANGED <<index, fence, bvars>>

(* A commit, the checkout of another one, an edit, a new codegraph.json.   *)
RepositoryMoves ==
  \/ Change(TRUE, FALSE, FALSE) \/ Change(TRUE, FALSE, TRUE)
  \/ Change(FALSE, FALSE, TRUE) \/ Change(FALSE, TRUE, FALSE)

AnotherProcessSyncs ==
  /\ index # Current
  /\ index' = Current
  /\ UNCHANGED <<head, config, tree, changes, seen, fence, bvars>>

-----------------------------------------------------------------------------
(* The engine at work                                                      *)

(* What status may say: it sees edits, but an index of another commit or   *)
(* configuration may look clean to it, which is why prepare always syncs.  *)
(* "rejected" is every answer that is malformed, of a version outside the  *)
(* accepted range, of another worktree or of another index path.           *)
StatusAnswers ==
  {"rejected"} \cup
    (IF index = Current THEN {"fresh"}
     ELSE IF index.head = head /\ index.config = config THEN {"pending"}
     ELSE {"fresh", "pending"})

Working(w, op) == call[w].running /\ ~call[w].worked /\ call[w].op = op

EngineStatus(w) ==
  /\ Working(w, "status")
  /\ \E s \in StatusAnswers : fence' = [fence EXCEPT ![w].said = s]
  /\ call' = [call EXCEPT ![w].worked = TRUE]
  /\ UNCHANGED <<head, config, tree, index, changes, seen, cancelEvent>>

EngineSync(w) ==
  /\ Working(w, "sync")
  /\ index' = Current
  /\ call' = [call EXCEPT ![w].worked = TRUE]
  /\ UNCHANGED <<head, config, tree, changes, seen, fence, cancelEvent>>

-----------------------------------------------------------------------------
(* prepare                                                                 *)

Unchanged == UNCHANGED <<head, config, tree, index, changes, seen, cancelEvent>>

At(w, pc) == fence[w].pc = pc

Goto(w, f) == fence' = [fence EXCEPT ![w] = f]

(* _failed_snapshot: no HEAD, and no status kept for the graph readers.    *)
Refused(w, status, c) ==
  [NoFence EXCEPT !.pc = "done",
     !.snapshot = [status |-> status, head |-> 0, config |-> c]]

(* find_engine and the first reading of the configuration.                 *)
FindEngine(w) ==
  /\ At(w, "engine")
  /\ \E c \in {config, 0}, found \in BOOLEAN :
       Goto(w, IF c = 0 \/ ~found THEN Refused(w, "unavailable", c)
               ELSE [fence[w] EXCEPT !.pc = "head_before"])
  /\ Unchanged /\ UNCHANGED call

ReadHeadBefore(w) ==
  /\ At(w, "head_before")
  /\ \E h \in {head, 0} : Goto(w, [fence[w] EXCEPT !.pc = "config_before", !.head = h])
  /\ Unchanged /\ UNCHANGED call

ReadConfigBefore(w) ==
  /\ At(w, "config_before")
  /\ \E c \in {config, 0} :
       IF c = 0 \/ fence[w].head = 0
       THEN Goto(w, Refused(w, "unavailable", c)) /\ UNCHANGED call
       ELSE /\ Goto(w, [fence[w] EXCEPT !.pc = "status", !.config = c])
            /\ call' = [call EXCEPT ![w] = Calling("status")]
  /\ Unchanged

(* The answer _run_status returns, and whether it was acceptable.          *)
Answered(w) == IF Succeeded(call[w]) THEN fence[w].said ELSE "rejected"

(* The status before the sync decides whether there is an index to sync.   *)
SyncIndex(w) ==
  /\ At(w, "status") /\ call[w].pc = "done"
  /\ IF Answered(w) = "rejected"
     THEN Goto(w, Refused(w, "unavailable", fence[w].config)) /\ call' = [call EXCEPT ![w] = NoCall]
     ELSE /\ Goto(w, [fence[w] EXCEPT !.pc = "sync", !.said = "none"])
          /\ call' = [call EXCEPT ![w] = Calling("sync")]
  /\ Unchanged

StatusAfterSync(w) ==
  /\ At(w, "sync") /\ call[w].pc = "done"
  /\ IF ~Succeeded(call[w])
     THEN Goto(w, Refused(w, "unavailable", fence[w].config)) /\ call' = [call EXCEPT ![w] = NoCall]
     ELSE /\ Goto(w, [fence[w] EXCEPT !.pc = "post"])
          /\ call' = [call EXCEPT ![w] = Calling("status")]
  /\ Unchanged

AcceptStatus(w) ==
  /\ At(w, "post") /\ call[w].pc = "done"
  /\ Goto(w, CASE Answered(w) = "rejected" -> Refused(w, "unavailable", fence[w].config)
               [] Answered(w) = "pending" -> Refused(w, "stale", fence[w].config)
               [] OTHER -> [fence[w] EXCEPT !.pc = "head_after", !.said = "none"])
  /\ call' = [call EXCEPT ![w] = NoCall]
  /\ Unchanged

ReadHeadAfter(w) ==
  /\ At(w, "head_after")
  /\ \E h \in {head, 0} : Goto(w, [fence[w] EXCEPT !.pc = "config_after", !.later = h])
  /\ Unchanged /\ UNCHANGED call

(* Mutant of CompareFences: the configuration alone is compared.           *)
CompareConfigs(w) ==
  /\ At(w, "config_after")
  /\ \E c \in {config, 0} :
       LET f == fence[w]
       IN  Goto(w,
             IF c = 0 THEN Refused(w, "unavailable", c)
             ELSE IF Digest(f.config) = Digest(c)
             THEN [NoFence EXCEPT !.pc = "done",
                     !.snapshot = [status |-> "available", head |-> f.later, config |-> c]]
             ELSE IF f.attempt = 0 THEN [NoFence EXCEPT !.pc = "head_before", !.attempt = 1]
             ELSE Refused(w, "stale", c))
  /\ Unchanged /\ UNCHANGED call

(* Accept when nothing moved; otherwise once more, and then give up.       *)
CompareFences(w) ==
  /\ At(w, "config_after")
  /\ \E c \in {config, 0} :
       LET f == fence[w]
           kept == Commit(f.head) = Commit(f.later) /\ Digest(f.config) = Digest(c)
       IN  Goto(w,
             CASE c = 0 -> Refused(w, "unavailable", c)
               [] c # 0 /\ kept ->
                    [NoFence EXCEPT !.pc = "done",
                       !.snapshot = [status |-> "available", head |-> f.later, config |-> c]]
               [] c # 0 /\ ~kept /\ f.attempt = 0 ->
                    [NoFence EXCEPT !.pc = "head_before", !.attempt = 1]
               [] c # 0 /\ ~kept /\ f.attempt = 1 -> Refused(w, "stale", c))
  /\ Unchanged /\ UNCHANGED call

-----------------------------------------------------------------------------
(* revalidate_snapshot: the explorer's adapter holds the snapshot it       *)
(* prepared, so what is left of its first guard is that it was available.  *)

Judged(w, valid) ==
  [NoFence EXCEPT !.pc = "done", !.snapshot = fence[w].snapshot, !.valid = valid]

Recheck(w) ==
  /\ At(w, "recheck") /\ call[w].pc = "done"
  /\ Goto(w, IF Answered(w) = "fresh" THEN [fence[w] EXCEPT !.pc = "config_now", !.said = "none"]
             ELSE Judged(w, FALSE))
  /\ call' = [call EXCEPT ![w] = NoCall]
  /\ Unchanged

ReadConfigNow(w) ==
  /\ At(w, "config_now")
  /\ \E c \in {config, 0} : Goto(w, [fence[w] EXCEPT !.pc = "head_now", !.later = c])
  /\ Unchanged /\ UNCHANGED call

(* config_digest was read before HEAD is; both must be the snapshot's.     *)
CompareNow(w) ==
  /\ At(w, "head_now")
  /\ \E h \in {head, 0} :
       LET f == fence[w]
       IN  Goto(w, Judged(w, /\ Commit(h) = Commit(f.snapshot.head)
                             /\ Digest(f.later) = Digest(f.snapshot.config)))
  /\ Unchanged /\ UNCHANGED call

FenceSteps(w) ==
  \/ FindEngine(w) \/ ReadHeadBefore(w) \/ ReadConfigBefore(w) \/ SyncIndex(w)
  \/ StatusAfterSync(w) \/ AcceptStatus(w) \/ ReadHeadAfter(w) \/ CompareFences(w)
  \/ Recheck(w) \/ ReadConfigNow(w) \/ CompareNow(w)
=============================================================================
