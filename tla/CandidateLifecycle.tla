-------------------------- MODULE CandidateLifecycle --------------------------
(***************************************************************************)
(* How one assessed candidate reaches the worktree.                        *)
(*                                                                         *)
(* Every command is a process of its own: `pebra assess`, `pebra           *)
(* apply-candidate`, the interactive `pebra accept-risk --apply`, its      *)
(* file form, and `pebra verify`.  They share the SQLite ledger (assessment*)
(* rows and sanction events, each transaction atomic), the replay cache    *)
(* (files renamed and unlinked), an flock, the git HEAD and the worktree.  *)
(* Only the application itself runs under the lock, and editors and git    *)
(* know nothing of it.  A process may die between any two steps.           *)
(*                                                                         *)
(* A worktree is named by the state of the candidates' files: one of the   *)
(* Sources a patch applies to, the content <<c, t>> that patch c yields on *)
(* source t, or Torn.  The candidate binding is the digest of that         *)
(* content; a replay digest covers the request, hence the patch, but       *)
(* neither HEAD nor the worktree.                                          *)
(***************************************************************************)
EXTENDS Naturals, Sequences, FiniteSets

CONSTANTS
  Procs,         \* command invocations that may run at a time
  Patches,       \* candidate requests
  Obliged,       \* those whose host supplied task obligations
  Commits,       \* the commits HEAD may be at
  Sources,       \* worktree states the patches apply to
  Torn,          \* a worktree no patch applies to: part of a candidate, a rewrite
  None,          \* no binding (the patch does not materialize), no lock holder
  MaxRows,       \* bound: assessments in the ledger
  MaxSanctions,  \* bound: sanction events in the ledger
  MaxEvents      \* bound: faults, and edits, HEAD moves, expiries, file sanctions

ASSUME NamesAssumption ==
  /\ Sources \cap (Patches \X Sources) = {}
  /\ Torn \notin Sources \cup (Patches \X Sources)
  /\ None \notin Sources \cup (Patches \X Sources) \cup {Torn}
  /\ None \notin Procs \cup Patches \cup Commits
ASSUME ObligedAssumption == Obliged \subseteq Patches
ASSUME BoundsAssumption == MaxRows \in Nat /\ MaxSanctions \in Nat /\ MaxEvents \in Nat

Contents == Patches \X Sources
Worktrees == Sources \cup Contents \cup {Torn}

(* What a patch makes of a worktree, or nothing.                           *)
Materialize(c, t) == IF t \in Sources THEN <<c, t>> ELSE None

VARIABLES
  head,       \* the commit HEAD is at
  tree,       \* the worktree
  rows,       \* the assessments table
  sanctions,  \* the sanction_events table
  cache,      \* the <digest>.json replay files
  lock,       \* .pebra/candidates/apply.lock
  pc,         \* where each process is
  local,      \* what each process remembers
  events,     \* faults and interferences so far
  disturbed,  \* history: processes whose worktree or HEAD moved in a window
  skewed,     \* history: rows assessed across such a move
  spent       \* history: requests whose replay was spent since it was stored

vars == <<head, tree, rows, sanctions, cache, lock, pc, local, events,
          disturbed, skewed, spent>>
ledger == <<rows, sanctions>>
history == <<disturbed, skewed, spent>>

(* proceed: allowed as it is.  controlled: the controlled-high-risk        *)
(* proceed of gate 10.  review: ask_human, a proceed with                  *)
(* requires_confirmation, or a reject a human may override.  hold:         *)
(* revise_safer, inspect_first, test_first and every other reject.         *)
Decisions == {"proceed", "controlled", "review", "hold"}

Rows == [patch: Patches, commit: Commits, bind: Contents \cup {None},
         decision: Decisions, replay: BOOLEAN, sanction: Nat]
Sanctions == [asm: Nat, bind: Contents,
              status: {"active", "consumed", "invalidated"}]

Blank ==
  [cmd |-> "none", patch |-> None, commit |-> None, bind |-> None, claim |-> 0,
   replay |-> FALSE, asm |-> 0, pend |-> 0, own |-> 0]
Locals ==
  [cmd: {"none", "assess", "apply", "approve", "verify"},
   patch: Patches \cup {None}, commit: Commits \cup {None},
   bind: Contents \cup {None}, claim: Nat, replay: BOOLEAN,
   asm: Nat, pend: Nat, own: Nat]

Assessing == {"bind", "claim", "score", "persist"}
Critical == {"gate", "consume", "write"}
Working == Assessing \cup Critical \cup {"confirm", "load", "lock", "clean", "undo"}

(* Every table, file, lock and process is what the code can make of it.    *)
TypeOK ==
  /\ head \in Commits
  /\ tree \in Worktrees
  /\ rows \in Seq(Rows)
  /\ sanctions \in Seq(Sanctions)
  /\ cache \in [Patches -> {"none", "fresh", "expired"}]
  /\ lock \in Procs \cup {None}
  /\ pc \in [Procs -> {"idle", "review"} \cup Working]
  /\ local \in [Procs -> Locals]
  /\ events \in 0..MaxEvents
  /\ disturbed \subseteq Procs
  /\ skewed \subseteq Nat
  /\ spent \subseteq Patches

Init ==
  /\ head \in Commits
  /\ tree \in Sources
  /\ rows = <<>>
  /\ sanctions = <<>>
  /\ cache = [c \in Patches |-> "none"]
  /\ lock = None
  /\ pc = [p \in Procs |-> "idle"]
  /\ local = [p \in Procs |-> Blank]
  /\ events = 0
  /\ disturbed = {}
  /\ skewed = {}
  /\ spent = {}

-------------------------------------------------------------------------------
(* Control of a process.                                                   *)
Goto(p, where) == pc' = [pc EXCEPT ![p] = where]
Remember(p, l) == local' = [local EXCEPT ![p] = l]

(* A process ends; how is not remembered.                                  *)
End(p) == Goto(p, "idle") /\ Remember(p, Blank)

(* `finally` of _file_lock, and the kernel's part when a process is gone.  *)
GiveBack(p) == lock' = IF lock = p THEN None ELSE lock

(* An exception: inside approve_and_apply it reaches the except branch     *)
(* that invalidates the sanction, elsewhere the command fails.             *)
Raise(p) ==
  IF local[p].cmd = "approve"
  THEN /\ Goto(p, "undo")
       /\ Remember(p, [Blank EXCEPT !.cmd = "approve", !.pend = local[p].pend,
                                    !.own = local[p].own])
  ELSE End(p)

(* Bounds: so many faults and interferences.                               *)
Event == events < MaxEvents /\ events' = events + 1

(* Bounds: a new row, or a new sanction, still fits when all who are about *)
(* to add one have done so.                                                *)
RoomForRow ==
  Len(rows) + Cardinality({p \in Procs :
                pc[p] \in Assessing \cup {"review", "confirm"}}) < MaxRows
RoomForSanction ==
  Len(sanctions) + Cardinality({p \in Procs :
                pc[p] \in {"review", "confirm"}}) < MaxSanctions

-------------------------------------------------------------------------------
(***************************************************************************)
(* The ledger's queries                                                    *)
(***************************************************************************)
Live == {"active", "consumed"}
LiveFor(a) == {s \in DOMAIN sanctions :
                 sanctions[s].asm = a /\ sanctions[s].status \in Live}

(* ORDER BY ... DESC LIMIT 1: one, or none.                                *)
Newest(S) == {s \in S : \A t \in S : t <= s}

(* claim_sanction_for_candidate: the active sanctions for this content.    *)
(* They are not tied to a commit.                                          *)
Claimable(b) == {s \in DOMAIN sanctions :
                   sanctions[s].status = "active" /\ sanctions[s].bind = b}

Invalidated(a) ==
  [s \in DOMAIN sanctions |->
     IF s \in LiveFor(a) THEN [sanctions[s] EXCEPT !.status = "invalidated"]
     ELSE sanctions[s]]

(* The rows the gate can match to content b at the current HEAD.           *)
ExactRows(b) == {a \in DOMAIN rows : rows[a].commit = head /\ rows[a].bind = b}

(* decide(consult_only, require_exact_match) answers continue/consulted    *)
(* with this row's id.                                                     *)
Authorizes(a) ==
  LET b == Materialize(rows[a].patch, tree) IN
    /\ b # None
    /\ a \in Newest(ExactRows(b))
    /\ rows[a].decision \in {"proceed", "controlled"}

-------------------------------------------------------------------------------
(***************************************************************************)
(* assess                                                                  *)
(***************************************************************************)
(* build_assess_ports reads HEAD.                                          *)
Assess(p, c) ==
  /\ pc[p] = "idle"
  /\ RoomForRow
  /\ Goto(p, "bind")
  /\ Remember(p, [Blank EXCEPT !.cmd = "assess", !.patch = c, !.commit = head])
  /\ UNCHANGED <<events, head, tree, ledger, cache, lock, history>>

(* bind_candidate: the content that will be persisted with the row.        *)
Bind(p) ==
  /\ pc[p] = "bind"
  /\ Goto(p, "claim")
  /\ Remember(p, [local[p] EXCEPT !.bind = Materialize(local[p].patch, tree)])
  /\ disturbed' = disturbed \ {p}
  /\ UNCHANGED <<events, head, tree, ledger, cache, lock, skewed, spent>>

(* Mutant of Claim: the sanction is looked up, as in                       *)
(* active_sanction_for_action, and not spent.                              *)
ClaimReusable(p) ==
  /\ pc[p] = "claim"
  /\ Goto(p, "score")
  /\ LET b == Materialize(local[p].patch, tree)
         live == {s \in DOMAIN sanctions :
                    sanctions[s].status \in Live /\ sanctions[s].bind = b} IN
       IF live = {}
       THEN UNCHANGED local
       ELSE \E s \in Newest(live) : Remember(p, [local[p] EXCEPT !.claim = s])
  /\ UNCHANGED <<events, head, tree, ledger, cache, lock, history>>

(* Mutant of Claim: any active sanction will do.                           *)
ClaimUnbound(p) ==
  /\ pc[p] = "claim"
  /\ Goto(p, "score")
  /\ LET live == {s \in DOMAIN sanctions : sanctions[s].status = "active"} IN
       IF live = {}
       THEN UNCHANGED <<sanctions, local>>
       ELSE \E s \in Newest(live) :
              /\ Remember(p, [local[p] EXCEPT !.claim = s])
              /\ sanctions' = [sanctions EXCEPT ![s].status = "consumed"]
  /\ UNCHANGED <<events, head, tree, rows, cache, lock, history>>

(* SanctionStore.active_sanction: bind the candidate once more and, in one *)
(* transaction, spend the newest active sanction for that content, whatever*)
(* the decision turns out to be and whoever the sanction was meant for.    *)
Claim(p) ==
  /\ pc[p] = "claim"
  /\ Goto(p, "score")
  /\ LET mine == Claimable(Materialize(local[p].patch, tree)) IN
       IF mine = {}
       THEN UNCHANGED <<sanctions, local>>
       ELSE \E s \in Newest(mine) :
              /\ Remember(p, [local[p] EXCEPT !.claim = s])
              /\ sanctions' = [sanctions EXCEPT ![s].status = "consumed"]
  /\ UNCHANGED <<events, head, tree, rows, cache, lock, history>>

Reaped == [c \in Patches |-> IF cache[c] = "expired" THEN "none" ELSE cache[c]]

(* Score, then store the replay: stale entries are reaped, and an entry    *)
(* that is there is kept as it is.                                         *)
Score(p) ==
  /\ pc[p] = "score"
  /\ Goto(p, "persist")
  /\ Remember(p, [local[p] EXCEPT !.replay = TRUE])
  /\ cache' = [Reaped EXCEPT ![local[p].patch] = "fresh"]
  /\ spent' = spent \ {local[p].patch}
  /\ UNCHANGED <<events, head, tree, ledger, lock, disturbed, skewed>>

(* The store fails: the replay is recorded as unavailable.                 *)
ScoreUnstored(p) ==
  /\ Event
  /\ pc[p] = "score"
  /\ Goto(p, "persist")
  /\ cache' \in {cache, Reaped}
  /\ UNCHANGED <<head, tree, ledger, lock, local, history>>

(* persist_assessment: one transaction.  The decision is anything the      *)
(* evidence may have led to; gate 10 converts only with a claimed sanction.*)
(* The approval goes on with a controlled-high-risk proceed only.          *)
Persist(p) ==
  /\ pc[p] = "persist"
  /\ \E d \in Decisions :
       /\ d = "controlled" => local[p].claim # 0
       /\ rows' = Append(rows,
            [patch |-> local[p].patch, commit |-> local[p].commit,
             bind |-> local[p].bind, decision |-> d,
             replay |-> local[p].replay, sanction |-> local[p].claim])
       /\ IF local[p].cmd = "assess"
          THEN End(p)
          ELSE IF d = "controlled"
          THEN /\ Goto(p, "load")
               /\ Remember(p, [Blank EXCEPT !.cmd = "approve",
                    !.patch = local[p].patch, !.asm = Len(rows) + 1,
                    !.pend = local[p].pend, !.own = local[p].own])
          ELSE Raise(p)
  /\ skewed' = IF p \in disturbed THEN skewed \cup {Len(rows) + 1} ELSE skewed
  /\ UNCHANGED <<events, head, tree, sanctions, cache, lock, disturbed, spent>>

-------------------------------------------------------------------------------
(***************************************************************************)
(* apply-candidate                                                         *)
(***************************************************************************)
ApplyCandidate(p, a) ==
  /\ pc[p] = "idle"
  /\ Goto(p, "load")
  /\ Remember(p, [Blank EXCEPT !.cmd = "apply", !.patch = rows[a].patch, !.asm = a])
  /\ UNCHANGED <<events, head, tree, ledger, cache, lock, history>>

Replayable(a) == rows[a].replay /\ cache[rows[a].patch] = "fresh"

(* load_candidate_replay                                                   *)
Load(p) ==
  /\ pc[p] = "load"
  /\ IF Replayable(local[p].asm) THEN Goto(p, "lock") /\ UNCHANGED local ELSE Raise(p)
  /\ UNCHANGED <<events, head, tree, ledger, cache, lock, history>>

(* Mutant of Lock: a lock file of another process is taken over.           *)
LockOver(p) ==
  /\ pc[p] = "lock"
  /\ lock' = p
  /\ Goto(p, "gate")
  /\ UNCHANGED <<events, head, tree, ledger, cache, local, history>>

(* _file_lock: wait for the exclusive lock, then ask the gate under it.    *)
Lock(p) ==
  /\ pc[p] = "lock"
  /\ lock = None
  /\ lock' = p
  /\ Goto(p, "gate")
  /\ UNCHANGED <<events, head, tree, ledger, cache, local, history>>

(* Mutant of Gate: any older row that allowed this content is good enough. *)
GateAnyRow(p) ==
  /\ pc[p] = "gate"
  /\ IF rows[local[p].asm].decision \in {"proceed", "controlled"}
        /\ Materialize(local[p].patch, tree) # None
     THEN Goto(p, "consume") /\ UNCHANGED <<local, lock>>
     ELSE Raise(p) /\ lock' = None
  /\ disturbed' = disturbed \ {p}
  /\ UNCHANGED <<events, head, tree, ledger, cache, skewed, spent>>

(* Mutant of Gate: the lock is given back after a success only.            *)
GateKeepsLock(p) ==
  /\ pc[p] = "gate"
  /\ IF Authorizes(local[p].asm)
     THEN Goto(p, "consume") /\ UNCHANGED <<local, lock>>
     ELSE Raise(p) /\ UNCHANGED lock
  /\ disturbed' = disturbed \ {p}
  /\ UNCHANGED <<events, head, tree, ledger, cache, skewed, spent>>

(* The gate reads HEAD, the ledger and the worktree; it does not read the  *)
(* sanctions.                                                              *)
Gate(p) ==
  /\ pc[p] = "gate"
  /\ IF Authorizes(local[p].asm)
     THEN Goto(p, "consume") /\ UNCHANGED <<local, lock>>
     ELSE Raise(p) /\ lock' = None
  /\ disturbed' = disturbed \ {p}
  /\ UNCHANGED <<events, head, tree, ledger, cache, skewed, spent>>

(* Mutant of Consume: a replay that is gone is taken for one just spent.   *)
ConsumeMissingOk(p) ==
  /\ pc[p] = "consume"
  /\ Goto(p, "write")
  /\ cache' = [cache EXCEPT ![local[p].patch] = "none"]
  /\ spent' = spent \cup {local[p].patch}
  /\ UNCHANGED <<events, head, tree, ledger, local, lock, disturbed, skewed>>

(* consume: rename the replay file, whatever its age.                      *)
Consume(p) ==
  /\ pc[p] = "consume"
  /\ IF cache[local[p].patch] # "none"
     THEN /\ Goto(p, "write")
          /\ spent' = spent \cup {local[p].patch}
          /\ UNCHANGED <<local, lock>>
     ELSE /\ Raise(p)
          /\ lock' = None
          /\ UNCHANGED spent
  /\ cache' = [cache EXCEPT ![local[p].patch] = "none"]
  /\ UNCHANGED <<events, head, tree, ledger, disturbed, skewed>>

(* CandidateApplicationAdapter.apply, whose file steps ReplaceTransaction  *)
(* details: the patch is materialized again and installed as a whole ...   *)
Write(p) ==
  /\ pc[p] = "write"
  /\ Materialize(local[p].patch, tree) # None
  /\ tree' = Materialize(local[p].patch, tree)
  /\ Goto(p, "clean")
  /\ lock' = None
  /\ UNCHANGED <<events, head, ledger, cache, local, disturbed, skewed, spent>>

(* ... or the worktree has moved since the gate and the patch no longer    *)
(* applies ...                                                             *)
WriteRefused(p) ==
  /\ pc[p] = "write"
  /\ Materialize(local[p].patch, tree) = None
  /\ Raise(p)
  /\ lock' = None
  /\ UNCHANGED <<events, head, tree, ledger, cache, history>>

(* ... or a system call fails and the files are restored, or not all.      *)
WriteFails(p) ==
  /\ Event
  /\ pc[p] = "write"
  /\ Materialize(local[p].patch, tree) # None
  /\ tree' \in {tree, Torn}
  /\ Raise(p)
  /\ lock' = None
  /\ UNCHANGED <<head, ledger, cache, history>>

(* After the lock is gone, delete whatever replay file has that digest now.*)
Clean(p) ==
  /\ pc[p] = "clean"
  /\ cache' = [cache EXCEPT ![local[p].patch] = "none"]
  /\ End(p)
  /\ UNCHANGED <<events, head, tree, ledger, lock, history>>

(* A failure to delete it is swallowed.                                    *)
CleanFails(p) ==
  /\ Event
  /\ pc[p] = "clean"
  /\ End(p)
  /\ UNCHANGED <<head, tree, ledger, cache, lock, history>>

-------------------------------------------------------------------------------
(* Before the write anything may raise: the ledger is locked or full (the  *)
(* transaction is rolled back), git or the engine fails, the lock file     *)
(* cannot be opened, the replay cannot be read or renamed.  (An approval   *)
(* whose sanction does not exist yet ends with no trace, as in Die.)       *)
Fails(p) ==
  /\ Event
  /\ pc[p] \in Assessing \cup {"load", "lock", "gate", "consume"}
  /\ Raise(p)
  /\ GiveBack(p)
  /\ UNCHANGED <<head, tree, ledger, cache, history>>

-------------------------------------------------------------------------------
(***************************************************************************)
(* accept-risk                                                             *)
(***************************************************************************)
(* select_pending_approval, by --assessment-id or because only one         *)
(* candidate is pending.                                                   *)
Select(p, a) ==
  /\ pc[p] = "idle"
  /\ RoomForRow /\ RoomForSanction
  /\ rows[a].commit = head
  /\ rows[a].decision = "review"
  /\ rows[a].bind # None
  /\ Replayable(a)
  /\ Goto(p, "review")
  /\ Remember(p, [Blank EXCEPT !.cmd = "approve", !.patch = rows[a].patch, !.pend = a])
  /\ UNCHANGED <<events, head, tree, ledger, cache, lock, history>>

(* The human types something else.                                         *)
Cancel(p) ==
  /\ pc[p] = "review"
  /\ End(p)
  /\ UNCHANGED <<events, head, tree, ledger, cache, lock, history>>

(* The human types APPROVE; build_assess_ports reads HEAD again.           *)
Approve(p) ==
  /\ pc[p] = "review"
  /\ Goto(p, "confirm")
  /\ Remember(p, [local[p] EXCEPT !.commit = head])
  /\ UNCHANGED <<events, head, tree, ledger, cache, lock, history>>

(* approve_and_apply up to the reassessment: refuse a HEAD that moved while*)
(* the human was reading, create the sanction, and hand the replayed       *)
(* obligations to assess.  A bundle stored for a request without host      *)
(* obligations holds three empty lists, which assess rejects.              *)
Confirm(p) ==
  /\ pc[p] = "confirm"
  /\ IF local[p].commit # rows[local[p].pend].commit
     THEN End(p) /\ UNCHANGED sanctions
     ELSE /\ sanctions' = Append(sanctions,
               [asm |-> local[p].pend, bind |-> rows[local[p].pend].bind,
                status |-> "active"])
          /\ Remember(p, [local[p] EXCEPT !.own = Len(sanctions) + 1])
          /\ Goto(p, IF local[p].patch \in Obliged THEN "bind" ELSE "undo")
  /\ UNCHANGED <<events, head, tree, rows, cache, lock, history>>

(* `accept-risk sanction.json`: the operator names the row's content.      *)
AcceptRisk(a) ==
  /\ Event
  /\ RoomForSanction
  /\ rows[a].bind # None
  /\ sanctions' = Append(sanctions,
       [asm |-> a, bind |-> rows[a].bind, status |-> "active"])
  /\ UNCHANGED <<head, tree, rows, cache, lock, pc, local, history>>

-------------------------------------------------------------------------------
(***************************************************************************)
(* invalidate_sanctions_for_assessment                                     *)
(***************************************************************************)
(* verify found drift.  A sanction of the row itself comes first; else the *)
(* one gate 10 recorded, if it is alive.                                   *)
VerifyDrift(p, a) ==
  /\ pc[p] = "idle"
  /\ Goto(p, "undo")
  /\ LET origin == sanctions[rows[a].sanction].asm IN
       Remember(p, [Blank EXCEPT !.cmd = "verify", !.pend =
         IF LiveFor(a) = {} /\ rows[a].decision = "controlled"
            /\ LiveFor(origin) # {} THEN origin ELSE a])
  /\ UNCHANGED <<events, head, tree, ledger, cache, lock, history>>

(* Mutant of Undo: only sanctions nobody has claimed yet.                  *)
UndoActive(p) ==
  /\ pc[p] = "undo"
  /\ sanctions' = [s \in DOMAIN sanctions |->
       IF s \in LiveFor(local[p].pend) /\ sanctions[s].status = "active"
       THEN [sanctions[s] EXCEPT !.status = "invalidated"] ELSE sanctions[s]]
  /\ End(p)
  /\ UNCHANGED <<events, head, tree, rows, cache, lock, history>>

Undo(p) ==
  /\ pc[p] = "undo"
  /\ sanctions' = Invalidated(local[p].pend)
  /\ End(p)
  /\ UNCHANGED <<events, head, tree, rows, cache, lock, history>>

(* The ledger refuses this write too: the transaction is rolled back, and  *)
(* the command ends in the ledger's error instead of its own.              *)
UndoFails(p) ==
  /\ Event
  /\ pc[p] = "undo"
  /\ End(p)
  /\ UNCHANGED <<head, tree, ledger, cache, lock, history>>

-------------------------------------------------------------------------------
(***************************************************************************)
(* The environment                                                         *)
(***************************************************************************)
(* The process dies, or Ctrl-C passes every `except Exception`.  Its lock  *)
(* is dropped; nothing else is undone.                                     *)
Die(p) ==
  /\ Event
  /\ pc[p] # "idle"
  /\ End(p)
  /\ GiveBack(p)
  /\ tree' \in {tree} \cup
       (IF pc[p] = "write" /\ Materialize(local[p].patch, tree) # None
        THEN {Torn} ELSE {})
  /\ UNCHANGED <<head, ledger, cache, history>>

(* Processes that have read the worktree or HEAD and still rely on it.     *)
Exposed == {p \in Procs : pc[p] \in {"claim", "consume", "write"}}

(* An editor, or git, changes the candidates' files.                       *)
Edit(t) ==
  /\ Event
  /\ tree' = t
  /\ t # tree
  /\ disturbed' = disturbed \cup Exposed
  /\ UNCHANGED <<head, ledger, cache, lock, pc, local, skewed, spent>>

(* A commit, which leaves the files alone, or a checkout.                  *)
MoveHead(h, t) ==
  /\ Event
  /\ h # head
  /\ head' = h
  /\ tree' = t
  /\ disturbed' = disturbed \cup Exposed
  /\ UNCHANGED <<ledger, cache, lock, pc, local, skewed, spent>>

(* Seven days pass.                                                        *)
Expire(c) ==
  /\ Event
  /\ cache[c] = "fresh"
  /\ cache' = [cache EXCEPT ![c] = "expired"]
  /\ UNCHANGED <<head, tree, ledger, lock, pc, local, history>>

-------------------------------------------------------------------------------
Step(p) ==
  \/ Bind(p) \/ Claim(p) \/ Score(p) \/ Persist(p)
  \/ Load(p) \/ Lock(p) \/ Gate(p) \/ Consume(p) \/ Write(p) \/ WriteRefused(p)
  \/ Clean(p) \/ Confirm(p) \/ Undo(p)

Fault(p) ==
  \/ ScoreUnstored(p) \/ Fails(p) \/ WriteFails(p) \/ CleanFails(p)
  \/ UndoFails(p) \/ Die(p)

Command(p) ==
  \/ \E c \in Patches : Assess(p, c)
  \/ \E a \in DOMAIN rows : ApplyCandidate(p, a) \/ Select(p, a) \/ VerifyDrift(p, a)
  \/ Cancel(p) \/ Approve(p)

World ==
  \/ \E a \in DOMAIN rows : AcceptRisk(a)
  \/ \E t \in Sources \cup {Torn} : Edit(t)
  \/ \E h \in Commits, t \in Sources \cup {tree} : MoveHead(h, t)
  \/ \E c \in Patches : Expire(c)

Next == World \/ \E p \in Procs : Step(p) \/ Command(p) \/ Fault(p)

(* A process that can run does; people, editors and crashes owe nothing.   *)
Spec == Init /\ [][Next]_vars /\ \A p \in Procs : WF_vars(Step(p))

-------------------------------------------------------------------------------
(***************************************************************************)
(* Safety                                                                  *)
(***************************************************************************)
(* Between the gate and the end of the write there is one process, and it  *)
(* holds the lock; and however a command leaves that stretch, refused,     *)
(* failed or killed, it no longer holds it.                                *)
OneWriter == \A p \in Procs : pc[p] \in Critical <=> lock = p

(* As long as no editor and no git command gets in between, the content    *)
(* put into the worktree is the one the row was assessed for, at the       *)
(* commit it was assessed at, and the row allows it.                       *)
AppliedAsAssessed ==
  [][\A p \in Procs :
       Write(p) /\ p \notin disturbed =>
         LET row == rows[local[p].asm] IN
           /\ tree' = row.bind
           /\ head = row.commit
           /\ row.decision \in {"proceed", "controlled"}]_vars

(* A controlled-high-risk row rests on a sanction for its own content,     *)
(* unless the worktree moved between the two bindings of its assessment.   *)
ControlledIsApproved ==
  \A a \in DOMAIN rows : rows[a].decision = "controlled" =>
    /\ rows[a].sanction \in DOMAIN sanctions
    /\ a \in skewed \/ sanctions[rows[a].sanction].bind = rows[a].bind

(* However assessments interleave, a sanction reaches one of them: no two  *)
(* rows rest on it, and while one still holds the claim nobody else does.  *)
SanctionClaimedOnce ==
  /\ \A a, b \in DOMAIN rows :
       rows[a].sanction = rows[b].sanction /\ rows[a].sanction # 0 => a = b
  /\ \A p \in Procs : local[p].claim # 0 =>
       /\ \A q \in Procs \ {p} : local[q].claim # local[p].claim
       /\ \A a \in DOMAIN rows : rows[a].sanction # local[p].claim

(* Whichever of its steps fails, an approval that ends without having      *)
(* written the candidate has revoked the sanction it created, claimed by   *)
(* then or not.  What it takes to leave the permission behind is that the  *)
(* process is killed, or that the ledger refuses the revocation itself.    *)
FailedApprovalRevoked ==
  [][\A p \in Procs : local[p].own # 0 /\ pc'[p] = "idle" =>
       \/ sanctions'[local[p].own].status = "invalidated"
       \/ pc[p] = "clean"
       \/ UndoFails(p)
       \/ Die(p)]_vars

(* A replay is spent once for each time an assessment stores it.           *)
ReplaySpentOnce ==
  [][\A p \in Procs :
       pc[p] = "consume" /\ pc'[p] = "write" => local[p].patch \notin spent]_vars

(***************************************************************************)
(* Liveness                                                                *)
(***************************************************************************)
(* Every command ends, unless others take the lock and give it back again  *)
(* and again and are served before it each time: flock makes no queue.  A  *)
(* lock that somebody keeps holds nobody up for good.                      *)
CommandEnds ==
  \A p \in Procs :
    \/ pc[p] \in Working ~> pc[p] = "idle"
    \/ []<>(lock = None) /\ []<>(lock \notin {p, None})

-------------------------------------------------------------------------------
(***************************************************************************)
(* What the documents say and the code does not do                         *)
(***************************************************************************)
(* README.md, basic workflow: after APPROVE the command "reassesses and    *)
(* applies".                                                               *)
ApprovalReassesses ==
  [][\A p \in Procs : Confirm(p) /\ sanctions' # sanctions => pc'[p] = "bind"]_vars
===============================================================================
