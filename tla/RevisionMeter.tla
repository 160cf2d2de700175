----------------------------- MODULE RevisionMeter -----------------------------
(***************************************************************************)
(* The bounded search for a safer candidate.  An agent that is told        *)
(* revise_safer resubmits; assess counts the earlier attempts of the same  *)
(* lineage in the ledger, and out of attempts decide asks a human instead. *)
(* Nothing but persist_assessment is a transaction: agents bind the        *)
(* worktree, read the meter, read the origin and write their row in steps  *)
(* of their own, while the worktree and HEAD move.                         *)
(*                                                                         *)
(* Only the rows with decision revise_safer are kept, by commit, baseline  *)
(* (git diff HEAD and the untracked files) and lineage.                    *)
(***************************************************************************)
EXTENDS Integers, Sequences, FiniteSets

CONSTANTS
  Agents,      \* assess invocations that may run at a time
  Candidates,  \* candidates, as far as files and public symbols tell them apart
  FilesOf,     \* the files each touches
  Commits,     \* the commits HEAD may be at
  Baselines,   \* the worktree states a candidate may be submitted on
  Unbound,     \* no baseline: git failed or timed out
  Configured,  \* max_revise_safer_attempts
  MaxRows,     \* bound: rows in the ledger
  MaxMoves     \* bound: faults and moves of the worktree or HEAD

ASSUME FilesAssumption ==
  \A c \in Candidates : FilesOf[c] # {} /\ IsFiniteSet(FilesOf[c])
ASSUME UnboundAssumption == Unbound \notin Baselines
ASSUME AgentsAssumption == IsFiniteSet(Agents) /\ Agents # {}
ASSUME NumbersAssumption ==
  Configured \in Nat /\ MaxRows \in Nat /\ MaxMoves \in Nat

VARIABLES
  head,      \* the commit HEAD is at
  baseline,  \* the worktree
  rows,      \* the revise_safer rows of the ledger
  pc,        \* where each agent's assessment is
  local,     \* what it remembers
  moves,     \* faults and moves so far
  excused    \* history: readings of the meter that failed, and revisions by gate 10

vars == <<head, baseline, rows, pc, local, moves, excused>>

NoLineage == <<>>
(* The digest of commit, baseline, files and symbols.                      *)
Lineages == (Commits \X Baselines \X Candidates) \cup {NoLineage}

Records == [commit: Commits, cand: Candidates, base: Baselines \cup {Unbound},
            lineage: Lineages, retry: BOOLEAN]
Locals == [commit: Commits, cand: Candidates, base: Baselines \cup {Unbound},
           attempt: Nat, lineage: Lineages]

(* The ledger, the assessments under way and the bound on faults.          *)
TypeOK ==
  /\ head \in Commits
  /\ baseline \in Baselines
  /\ rows \in Seq(Records)
  /\ pc \in [Agents -> {"idle", "bind", "meter", "origin", "decide"}]
  /\ local \in [Agents -> Locals \cup {<<>>}]
  /\ \A p \in Agents : pc[p] # "idle" => local[p] \in Locals
  /\ moves \in 0..MaxMoves
  /\ excused \in 0..moves

Init ==
  /\ head \in Commits
  /\ baseline \in Baselines
  /\ rows = <<>>
  /\ pc = [p \in Agents |-> "idle"]
  /\ local = [p \in Agents |-> <<>>]
  /\ moves = 0
  /\ excused = 0

Goto(p, where) == pc' = [pc EXCEPT ![p] = where]
Move == moves < MaxMoves /\ moves' = moves + 1

-------------------------------------------------------------------------------
(***************************************************************************)
(* The ledger's queries                                                    *)
(***************************************************************************)
Files(i) == FilesOf[rows[i].cand]

(* The rows a candidate may be a revision of: it covers their files, or at *)
(* least touches them when its own baseline is known.                      *)
Related(l) ==
  {i \in DOMAIN rows :
     /\ rows[i].commit = l.commit
     /\ \/ Files(i) \subseteq FilesOf[l.cand]
        \/ l.base # Unbound /\ Files(i) \cap FilesOf[l.cand] # {}}

(* Those with a lineage to be counted in.                                  *)
Matching(l) ==
  {i \in Related(l) :
     /\ l.base = Unbound \/ rows[i].base = l.base
     /\ rows[i].lineage # NoLineage}

(* Mutant of Charge: an infrastructure retry is always free.               *)
ChargeDecided(l, k) ==
  Cardinality({i \in DOMAIN rows :
                 rows[i].commit = l.commit /\ rows[i].lineage = k /\ ~rows[i].retry})

(* What a lineage has used up: one infrastructure retry is free.           *)
Charge(l, k) ==
  LET lineage == {i \in DOMAIN rows : rows[i].commit = l.commit /\ rows[i].lineage = k}
      retried == Cardinality({i \in lineage : rows[i].retry}) IN
  Cardinality({i \in lineage : ~rows[i].retry}) + (IF retried > 1 THEN retried - 1 ELSE 0)

(* revise_safer_attempt_count: the one number it returns.                  *)
Attempts(l) ==
  LET charges == {Charge(l, rows[i].lineage) : i \in Matching(l)} IN
  IF Related(l) = {} THEN {0}
  ELSE IF charges = {} THEN {1}
  ELSE {n \in charges : \A m \in charges : m <= n}

(* Mutant of Origin: the baseline is not compared.                         *)
OriginAnyBaseline(l) ==
  LET keys == {rows[i].lineage : i \in Related(l)} IN
  IF l.base # Unbound /\ Cardinality(keys) = 1 THEN CHOOSE k \in keys : TRUE ELSE NoLineage

(* revision_origin_envelope: the lineage of the one origin on this very    *)
(* baseline, or none.                                                      *)
Origin(l) ==
  LET keys == {rows[i].lineage : i \in {j \in Related(l) : rows[j].base = l.base}} IN
  IF l.base # Unbound /\ Cardinality(keys) = 1 THEN CHOOSE k \in keys : TRUE ELSE NoLineage

Cap == IF Configured < 3 THEN Configured ELSE 3

Exhausted(attempt) == Cap <= 0 \/ attempt >= Cap

(* _revision_envelope_payload: the row extends the lineage of its origin,  *)
(* or starts its own if its baseline is known.                             *)
Key(l) ==
  IF l.lineage # NoLineage \/ l.base = Unbound THEN l.lineage
  ELSE <<l.commit, l.base, l.cand>>

-------------------------------------------------------------------------------
(***************************************************************************)
(* assess                                                                  *)
(***************************************************************************)
Submit(p, c) ==
  /\ pc[p] = "idle"
  /\ Len(rows) + Cardinality({q \in Agents : pc[q] # "idle"}) < MaxRows
  /\ Goto(p, "bind")
  /\ local' = [local EXCEPT ![p] = [commit |-> head, cand |-> c, base |-> Unbound,
                                    attempt |-> 0, lineage |-> NoLineage]]
  /\ UNCHANGED <<head, baseline, rows, moves, excused>>

Bind(p) ==
  /\ pc[p] = "bind"
  /\ Goto(p, "meter")
  /\ local' = [local EXCEPT ![p].base = baseline]
  /\ UNCHANGED <<head, baseline, rows, moves, excused>>

(* git fails: the candidate is assessed without a baseline.                *)
BindFails(p) ==
  /\ Move
  /\ pc[p] = "bind"
  /\ Goto(p, "meter")
  /\ UNCHANGED <<head, baseline, rows, local, excused>>

(* The caller's own count only ever raises the ledger's.                   *)
Meter(p) ==
  /\ pc[p] = "meter"
  /\ \E claim \in 0..1, counted \in Attempts(local[p]) :
       LET attempt == IF claim > counted THEN claim ELSE counted IN
       /\ local' = [local EXCEPT ![p].attempt = attempt]
       /\ Goto(p, IF attempt > 0 THEN "origin" ELSE "decide")
  /\ UNCHANGED <<head, baseline, rows, moves, excused>>

(* The ledger cannot be read: the caller's own count is all there is.      *)
MeterFails(p) ==
  /\ Move
  /\ pc[p] = "meter"
  /\ \E claim \in 0..1 :
       /\ local' = [local EXCEPT ![p].attempt = claim]
       /\ Goto(p, IF claim > 0 THEN "origin" ELSE "decide")
  /\ excused' = excused + 1
  /\ UNCHANGED <<head, baseline, rows>>

ReadOrigin(p) ==
  /\ pc[p] = "origin"
  /\ Goto(p, "decide")
  /\ local' = [local EXCEPT ![p].lineage = Origin(local[p])]
  /\ UNCHANGED <<head, baseline, rows, moves, excused>>

OriginFails(p) ==
  /\ Move
  /\ pc[p] = "origin"
  /\ Goto(p, "decide")
  /\ UNCHANGED <<head, baseline, rows, local, excused>>

(* The revise_safer row of an assessment.                                  *)
AddRow(l) ==
  \E retry \in BOOLEAN :
    rows' = Append(rows, [commit |-> l.commit, cand |-> l.cand, base |-> l.base,
                          lineage |-> Key(l), retry |-> retry])

(* decide answers revise_safer only while attempts are left                *)
(* (ReviseSpendsAttempts of ReviewLoopProofs) ...                          *)
Revise(p) ==
  /\ pc[p] = "decide"
  /\ ~Exhausted(local[p].attempt)
  /\ AddRow(local[p])
  /\ Goto(p, "idle")
  /\ UNCHANGED <<head, baseline, local, moves, excused>>

(* ... or because a sanction met unfinished obligations.                   *)
ReviseSanctioned(p) ==
  /\ Move
  /\ pc[p] = "decide"
  /\ AddRow(local[p])
  /\ Goto(p, "idle")
  /\ excused' = excused + 1
  /\ UNCHANGED <<head, baseline, local>>

(* Any other decision, or the row could not be written.                    *)
Conclude(p) ==
  /\ pc[p] = "decide"
  /\ Goto(p, "idle")
  /\ UNCHANGED <<head, baseline, rows, local, moves, excused>>

-------------------------------------------------------------------------------
(* Somebody edits, or commits.                                             *)
Drift(b) ==
  /\ Move
  /\ b # baseline
  /\ baseline' = b
  /\ UNCHANGED <<head, rows, pc, local, excused>>

MoveHead(h, b) ==
  /\ Move
  /\ h # head
  /\ head' = h
  /\ baseline' = b
  /\ UNCHANGED <<rows, pc, local, excused>>

Step(p) ==
  \/ \E c \in Candidates : Submit(p, c)
  \/ Bind(p) \/ BindFails(p) \/ Meter(p) \/ MeterFails(p)
  \/ ReadOrigin(p) \/ OriginFails(p)
  \/ Revise(p) \/ ReviseSanctioned(p) \/ Conclude(p)

Next ==
  \/ \E p \in Agents : Step(p)
  \/ \E b \in Baselines : Drift(b)
  \/ \E h \in Commits, b \in Baselines : MoveHead(h, b)

Spec == Init /\ [][Next]_vars

-------------------------------------------------------------------------------
(***************************************************************************)
(* Properties                                                              *)
(***************************************************************************)
InLineage(k) == {i \in DOMAIN rows : rows[i].lineage = k}

(* The search for a safer edit of a file ends: whatever fails and however  *)
(* agents overlap, the rows of one lineage that touch the file are no more *)
(* than the attempts allowed, the free retry, the other agents' attempts   *)
(* under way when the last was written, the unreadable meters and the      *)
(* sanctioned revisions.  (The lineage itself may creep on to other files: *)
(* the meter does not charge a candidate for a lineage it does not touch,  *)
(* and it can join that one by a row added before it reads its origin.)    *)
LineageBounded ==
  \A i \in DOMAIN rows : \A f \in Files(i) :
    rows[i].lineage # NoLineage =>
      Cardinality({j \in InLineage(rows[i].lineage) : f \in Files(j)})
        <= Cap + Cardinality(Agents) + excused

(* A lineage is one search: its rows belong to one commit and one baseline,*)
(* and each but the first revises files of an earlier one.                 *)
LineageIsOneSearch ==
  \A i \in DOMAIN rows : rows[i].lineage # NoLineage =>
    /\ rows[i].lineage[1] = rows[i].commit
    /\ rows[i].lineage[2] = rows[i].base
    /\ \/ rows[i].lineage[3] = rows[i].cand
       \/ \E j \in InLineage(rows[i].lineage) : j < i /\ Files(i) \cap Files(j) # {}
===============================================================================
