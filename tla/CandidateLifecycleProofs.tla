----------------------- MODULE CandidateLifecycleProofs -----------------------
(***************************************************************************)
(* For any number of commands, candidates, commits and worktrees.          *)
(***************************************************************************)
EXTENDS CandidateLifecycle, SequenceTheorems, TLAPS

Applying == {"load", "lock", "gate", "consume", "write", "clean"}
Places == {"idle", "review"} \cup Working

(* The two halves of TypeOK.                                               *)
Control == pc \in [Procs -> Places] /\ local \in [Procs -> Locals]
Shared ==
  /\ head \in Commits
  /\ tree \in Worktrees
  /\ rows \in Seq(Rows)
  /\ sanctions \in Seq(Sanctions)
  /\ cache \in [Patches -> {"none", "fresh", "expired"}]
  /\ lock \in Procs \cup {None}
  /\ events \in 0..MaxEvents
  /\ disturbed \subseteq Procs
  /\ skewed \subseteq Nat
  /\ spent \subseteq Patches

(* What a row points to exists.                                            *)
RowRefs ==
  \A a \in DOMAIN rows :
    /\ rows[a].sanction # 0 => rows[a].sanction \in DOMAIN sanctions
    /\ rows[a].decision = "controlled" => rows[a].sanction # 0

(* What a process remembers exists.                                        *)
LocalRefs(p) ==
  /\ pc[p] \in Assessing \cup Applying \cup {"review", "confirm"} =>
       local[p].patch \in Patches
  /\ pc[p] \in Assessing \cup {"confirm"} => local[p].commit \in Commits
  /\ pc[p] \in {"review", "confirm"} =>
       local[p].pend \in DOMAIN rows /\ rows[local[p].pend].bind # None
  /\ pc[p] \in Applying =>
       local[p].asm \in DOMAIN rows /\ local[p].patch = rows[local[p].asm].patch
  /\ local[p].claim # 0 =>
       pc[p] \in {"score", "persist"} /\ local[p].claim \in DOMAIN sanctions

Refs == RowRefs /\ \A p \in Procs : LocalRefs(p)

(* Rows are appended; a sanction moves away from active, and never out of  *)
(* invalidated.                                                            *)
LedgerGrows ==
  /\ DOMAIN rows \subseteq DOMAIN rows'
  /\ \A a \in DOMAIN rows : rows'[a] = rows[a]
  /\ DOMAIN sanctions \subseteq DOMAIN sanctions'
  /\ \A s \in DOMAIN sanctions :
       /\ sanctions'[s].asm = sanctions[s].asm
       /\ sanctions'[s].bind = sanctions[s].bind
       /\ sanctions[s].status # "active" => sanctions'[s].status # "active"
       /\ sanctions[s].status = "invalidated" => sanctions'[s].status = "invalidated"

(* Only p moves.                                                           *)
OnlyMoves(p) ==
  \A q \in Procs \ {p} : pc'[q] = pc[q] /\ local'[q] = local[q]

-------------------------------------------------------------------------------
(* The helpers                                                             *)
LEMMA BlankType == Blank \in Locals
BY DEF Blank, Locals

(* A patch yields content, or nothing.                                     *)
LEMMA MaterializeType ==
  ASSUME NEW c \in Patches, NEW t
  PROVE  Materialize(c, t) \in Contents \cup {None}
BY DEF Materialize, Contents

(* Claiming one sanction changes nothing but its status.                   *)
LEMMA RestatusType ==
  ASSUME sanctions \in Seq(Sanctions), NEW s \in DOMAIN sanctions,
         NEW st \in {"active", "consumed", "invalidated"},
         sanctions' = [sanctions EXCEPT ![s].status = st]
  PROVE  /\ sanctions' \in Seq(Sanctions)
         /\ DOMAIN sanctions' = DOMAIN sanctions
         /\ \A q \in DOMAIN sanctions :
              sanctions'[q] = IF q = s THEN [sanctions[q] EXCEPT !.status = st]
                              ELSE sanctions[q]
<1> DEFINE e == [sanctions[s] EXCEPT !.status = st]
<1>0. sanctions[s] \in Sanctions
  BY LenProperties, ElementOfSeq
<1>1. e \in Sanctions
  BY <1>0 DEF Sanctions
<1>2. sanctions' = [sanctions EXCEPT ![s] = e]
  OBVIOUS
<1> HIDE DEF e
<1>3. sanctions' \in Seq(Sanctions) /\ DOMAIN sanctions' = DOMAIN sanctions
  BY <1>1, <1>2, LenProperties, ExceptSeq
<1>4. \A q \in DOMAIN sanctions : sanctions'[q] = IF q = s THEN e ELSE sanctions[q]
  BY <1>2
<1> QED
  BY <1>3, <1>4 DEF e

(* Revoking changes the status of the live sanctions of one row.           *)
LEMMA InvalidatedType ==
  ASSUME sanctions \in Seq(Sanctions), NEW a
  PROVE  /\ Invalidated(a) \in Seq(Sanctions)
         /\ DOMAIN Invalidated(a) = DOMAIN sanctions
         /\ \A s \in DOMAIN sanctions : Invalidated(a)[s] =
              IF s \in LiveFor(a) THEN [sanctions[s] EXCEPT !.status = "invalidated"]
              ELSE sanctions[s]
<1>0. \A s \in DOMAIN sanctions : sanctions[s] \in Sanctions
  BY LenProperties, ElementOfSeq
<1>1. \A s \in DOMAIN sanctions :
        [sanctions[s] EXCEPT !.status = "invalidated"] \in Sanctions
  BY <1>0 DEF Sanctions
<1>2. \A s \in DOMAIN sanctions : Invalidated(a)[s] \in Sanctions
  BY <1>0, <1>1 DEF Invalidated
<1>3. DOMAIN Invalidated(a) = 1..Len(sanctions) /\ Len(sanctions) \in Nat
  BY LenProperties DEF Invalidated
<1>4. Invalidated(a) \in [1..Len(sanctions) -> Sanctions]
  BY <1>2, <1>3 DEF Invalidated
<1>5. Invalidated(a) \in Seq(Sanctions)
  BY <1>3, <1>4, SeqDef
<1> QED
  BY <1>5 DEF Invalidated

(* A process that moves to a known place with a typed memory is typed, and *)
(* moves alone.                                                            *)
LEMMA Moving ==
  ASSUME Control, NEW p \in Procs, NEW w \in Places, NEW l \in Locals,
         Goto(p, w), Remember(p, l)
  PROVE  Control' /\ OnlyMoves(p) /\ pc'[p] = w /\ local'[p] = l
BY DEF Control, Goto, Remember, OnlyMoves

(* What a step to another place leaves alone.                              *)
LEMMA Going ==
  ASSUME Control, NEW p \in Procs, NEW w \in Places, Goto(p, w), UNCHANGED local
  PROVE  Control' /\ OnlyMoves(p) /\ pc'[p] = w /\ local'[p] = local[p]
BY DEF Control, Goto, OnlyMoves

(* What the normal end of a command leaves alone.                          *)
LEMMA Ending ==
  ASSUME Control, NEW p \in Procs, End(p)
  PROVE  Control' /\ OnlyMoves(p) /\ pc'[p] = "idle" /\ local'[p] = Blank
BY BlankType, Moving DEF End, Places

(* An exception ends a command, or takes an approval to its undo.          *)
LEMMA Raising ==
  ASSUME Control, NEW p \in Procs, Raise(p)
  PROVE  /\ Control' /\ OnlyMoves(p)
         /\ \/ /\ pc'[p] = "undo"
               /\ local'[p] = [Blank EXCEPT !.cmd = "approve",
                                 !.pend = local[p].pend, !.own = local[p].own]
            \/ pc'[p] = "idle" /\ local'[p] = Blank
<1>1. CASE local[p].cmd = "approve"
  <2> DEFINE l == [Blank EXCEPT !.cmd = "approve", !.pend = local[p].pend,
                                !.own = local[p].own]
  <2>1. l \in Locals
    BY DEF Locals, Blank, Control
  <2>2. Goto(p, "undo") /\ Remember(p, l)
    BY <1>1 DEF Raise
  <2> HIDE DEF l
  <2>3. Control' /\ OnlyMoves(p) /\ pc'[p] = "undo" /\ local'[p] = l
    BY <2>1, <2>2, Moving DEF Working, Places
  <2> QED
    BY <2>3 DEF l
<1> QED
  BY <1>1, Ending DEF Raise

(* A step that leaves the ledger alone.                                    *)
LEMMA LedgerKept ==
  ASSUME Refs, UNCHANGED ledger
  PROVE  LedgerGrows /\ RowRefs'
BY DEF Refs, RowRefs, ledger, LedgerGrows

(* A process out of the way remembers nothing that could dangle.           *)
LEMMA ErrorRefs ==
  ASSUME NEW p \in Procs,
         \/ /\ pc'[p] = "undo"
            /\ local'[p] = [Blank EXCEPT !.cmd = "approve",
                              !.pend = local[p].pend, !.own = local[p].own]
         \/ pc'[p] = "idle" /\ local'[p] = Blank
  PROVE  LocalRefs(p)'
<1>1. \A m, o : [Blank EXCEPT !.cmd = "approve", !.pend = m, !.own = o].claim = 0
  BY DEF Blank
<1>2. local'[p].claim = 0
  BY <1>1 DEF Blank
<1>3. pc'[p] \in {"undo", "idle"}
  OBVIOUS
<1> QED
  BY <1>2, <1>3 DEF LocalRefs, Assessing, Applying

(***************************************************************************)
(* Every step of a process keeps the types and the references.             *)
(***************************************************************************)
LEMMA ProcessStep ==
  ASSUME Control, Shared, Refs, NEW p \in Procs, Step(p) \/ Fault(p) \/ Command(p)
  PROVE  Control' /\ OnlyMoves(p) /\ Shared' /\ LedgerGrows /\ RowRefs' /\ LocalRefs(p)'
<1> DEFINE Kept == Control' /\ OnlyMoves(p) /\ Shared' /\ LedgerGrows
                     /\ RowRefs' /\ LocalRefs(p)'
<1> SUFFICES Kept
  OBVIOUS
<1> HIDE DEF Kept
<1>0. local[p] \in Locals /\ LocalRefs(p) /\ pc[p] \in Places
  BY DEF Refs, Control
<1>a. /\ DOMAIN rows = 1..Len(rows) /\ Len(rows) \in Nat
      /\ DOMAIN sanctions = 1..Len(sanctions) /\ Len(sanctions) \in Nat
      /\ \A a \in DOMAIN rows : rows[a] \in Rows
      /\ \A s \in DOMAIN sanctions : sanctions[s] \in Sanctions
  BY LenProperties, ElementOfSeq DEF Shared
<1>1. CASE Bind(p)
  <2> DEFINE l == [local[p] EXCEPT !.bind = Materialize(local[p].patch, tree)]
  <2>1. l \in Locals /\ l.claim = local[p].claim /\ l.patch = local[p].patch
        /\ l.commit = local[p].commit
    BY <1>0, <1>1, MaterializeType DEF Locals, LocalRefs, Bind, Assessing
  <2>2. Goto(p, "claim") /\ Remember(p, l)
    BY <1>1 DEF Bind
  <2> HIDE DEF l
  <2>3. Control' /\ OnlyMoves(p) /\ pc'[p] = "claim" /\ local'[p] = l
    BY <2>1, <2>2, Moving DEF Working, Assessing, Places
  <2>4. UNCHANGED ledger /\ Shared'
    BY <1>1 DEF Bind, Shared, ledger
  <2>5. LocalRefs(p)'
    BY <1>0, <1>1, <2>1, <2>3 DEF LocalRefs, Bind, Assessing, Applying
  <2> QED
    BY <2>3, <2>4, <2>5, LedgerKept DEF Kept
<1>2. CASE Claim(p)
  <2> DEFINE mine == Claimable(Materialize(local[p].patch, tree))
  <2>1. CASE UNCHANGED <<sanctions, local>>
    <3>1. Goto(p, "score") /\ pc[p] = "claim"
      BY <1>2 DEF Claim
    <3>2. Control' /\ OnlyMoves(p) /\ pc'[p] = "score" /\ local'[p] = local[p]
      BY <2>1, <3>1, Going DEF Working, Assessing, Places
    <3>3. UNCHANGED ledger /\ Shared'
      BY <1>2, <2>1 DEF Claim, Shared, ledger, history
    <3>4. LocalRefs(p)'
      BY <1>0, <3>1, <3>2 DEF LocalRefs, Assessing, Applying
    <3> QED
      BY <3>2, <3>3, <3>4, LedgerKept DEF Kept
  <2>2. CASE \E s \in Newest(mine) :
               /\ Remember(p, [local[p] EXCEPT !.claim = s])
               /\ sanctions' = [sanctions EXCEPT ![s].status = "consumed"]
    <3>1. PICK s \in DOMAIN sanctions :
            /\ sanctions[s].status = "active"
            /\ Remember(p, [local[p] EXCEPT !.claim = s])
            /\ sanctions' = [sanctions EXCEPT ![s].status = "consumed"]
      BY <2>2 DEF Newest, Claimable
    <3> DEFINE l == [local[p] EXCEPT !.claim = s]
    <3>2. s \in Nat
      BY <1>a
    <3>3. l \in Locals /\ l.claim = s /\ l.patch = local[p].patch
          /\ l.commit = local[p].commit
      BY <1>0, <3>2 DEF Locals
    <3>4. Goto(p, "score") /\ Remember(p, l) /\ pc[p] = "claim"
      BY <1>2, <3>1 DEF Claim
    <3> HIDE DEF l
    <3>5. Control' /\ OnlyMoves(p) /\ pc'[p] = "score" /\ local'[p] = l
      BY <3>3, <3>4, Moving DEF Working, Assessing, Places
    <3>6. /\ sanctions' \in Seq(Sanctions) /\ DOMAIN sanctions' = DOMAIN sanctions
          /\ \A q \in DOMAIN sanctions : sanctions'[q] =
               IF q = s THEN [sanctions[q] EXCEPT !.status = "consumed"] ELSE sanctions[q]
      BY <3>1, RestatusType DEF Shared
    <3>7. Shared' /\ UNCHANGED rows
      BY <1>2, <3>6 DEF Claim, Shared, history
    <3>8. LedgerGrows
      BY <1>a, <3>1, <3>6, <3>7 DEF LedgerGrows, Sanctions
    <3>9. RowRefs'
      BY <3>6, <3>7 DEF Refs, RowRefs
    <3>10. LocalRefs(p)'
      BY <1>0, <3>3, <3>4, <3>5, <3>6, <3>7 DEF LocalRefs, Assessing, Applying
    <3> QED
      BY <3>5, <3>7, <3>8, <3>9, <3>10 DEF Kept
  <2> QED
    BY <1>2, <2>1, <2>2 DEF Claim
<1>3. CASE Score(p)
  <2> DEFINE l == [local[p] EXCEPT !.replay = TRUE]
  <2>1. l \in Locals /\ l.claim = local[p].claim /\ l.patch = local[p].patch
        /\ l.commit = local[p].commit
    BY <1>0 DEF Locals
  <2>2. Goto(p, "persist") /\ Remember(p, l) /\ pc[p] = "score"
    BY <1>3 DEF Score
  <2> HIDE DEF l
  <2>3. Control' /\ OnlyMoves(p) /\ pc'[p] = "persist" /\ local'[p] = l
    BY <2>1, <2>2, Moving DEF Working, Assessing, Places
  <2>4. UNCHANGED ledger /\ Shared'
    BY <1>3 DEF Score, Shared, ledger, Reaped
  <2>5. LocalRefs(p)'
    BY <1>0, <2>1, <2>2, <2>3, <2>4 DEF LocalRefs, Assessing, Applying, ledger
  <2> QED
    BY <2>3, <2>4, <2>5, LedgerKept DEF Kept
<1>4. CASE ScoreUnstored(p)
  <2>1. Goto(p, "persist") /\ UNCHANGED local /\ pc[p] = "score"
    BY <1>4 DEF ScoreUnstored
  <2>2. Control' /\ OnlyMoves(p) /\ pc'[p] = "persist" /\ local'[p] = local[p]
    BY <2>1, Going DEF Working, Assessing, Places
  <2>3. UNCHANGED ledger /\ Shared'
    BY <1>4, BoundsAssumption DEF ScoreUnstored, Shared, ledger, history, Reaped, Event
  <2>4. LocalRefs(p)'
    BY <1>0, <2>1, <2>2, <2>3 DEF LocalRefs, Assessing, Applying, ledger
  <2> QED
    BY <2>2, <2>3, <2>4, LedgerKept DEF Kept
<1>5. CASE Persist(p)
  <2>1. PICK d \in Decisions :
          /\ d = "controlled" => local[p].claim # 0
          /\ rows' = Append(rows,
               [patch |-> local[p].patch, commit |-> local[p].commit,
                bind |-> local[p].bind, decision |-> d,
                replay |-> local[p].replay, sanction |-> local[p].claim])
          /\ IF local[p].cmd = "assess"
             THEN End(p)
             ELSE IF d = "controlled"
             THEN /\ Goto(p, "load")
                  /\ Remember(p, [Blank EXCEPT !.cmd = "approve",
                       !.patch = local[p].patch, !.asm = Len(rows) + 1,
                       !.pend = local[p].pend, !.own = local[p].own])
             ELSE Raise(p)
    BY <1>5 DEF Persist
  <2> DEFINE row == [patch |-> local[p].patch, commit |-> local[p].commit,
                     bind |-> local[p].bind, decision |-> d,
                     replay |-> local[p].replay, sanction |-> local[p].claim]
  <2> DEFINE l == [Blank EXCEPT !.cmd = "approve", !.patch = local[p].patch,
                     !.asm = Len(rows) + 1, !.pend = local[p].pend, !.own = local[p].own]
  <2>2. pc[p] = "persist" /\ UNCHANGED sanctions
    BY <1>5 DEF Persist
  <2>3. /\ row \in Rows /\ l \in Locals /\ row.patch = local[p].patch
        /\ row.sanction = local[p].claim /\ row.decision = d
        /\ l.patch = local[p].patch /\ l.asm = Len(rows) + 1 /\ l.claim = 0
    <3>1. local[p].patch \in Patches /\ local[p].commit \in Commits
      BY <1>0, <2>2 DEF LocalRefs, Assessing
    <3>2. row \in Rows
      BY <1>0, <3>1 DEF Rows, Locals
    <3>3. l \in Locals
      <4>1. local[p].pend \in Nat /\ local[p].own \in Nat /\ Len(rows) + 1 \in Nat
        BY <1>0, <1>a DEF Locals
      <4> QED
        BY <3>1, <4>1, BlankType DEF Locals, Blank
    <3> QED
      BY <3>2, <3>3 DEF Blank
  <2> HIDE DEF row, l
  <2>4. /\ rows' \in Seq(Rows) /\ DOMAIN rows' = DOMAIN rows \cup {Len(rows) + 1}
        /\ \A a \in DOMAIN rows : rows'[a] = rows[a]
        /\ rows'[Len(rows) + 1] = row
    BY <1>a, <2>1, <2>3, AppendProperties DEF Shared, row
  <2>5. Shared'
    BY <1>a, <1>5, <2>4 DEF Persist, Shared
  <2>6. LedgerGrows
    BY <2>2, <2>4 DEF LedgerGrows
  <2>7. RowRefs'
    <3>1. /\ row.sanction # 0 => row.sanction \in DOMAIN sanctions
          /\ row.decision = "controlled" => row.sanction # 0
      BY <1>0, <2>1, <2>3 DEF LocalRefs
    <3> QED
      BY <3>1, <2>2, <2>4 DEF Refs, RowRefs
  <2>8. Control' /\ OnlyMoves(p) /\ LocalRefs(p)'
    <3>1. CASE local[p].cmd = "assess"
      BY <2>1, <3>1, Ending, ErrorRefs
    <3>2. CASE Goto(p, "load") /\ Remember(p, l)
      <4>1. Control' /\ OnlyMoves(p) /\ pc'[p] = "load" /\ local'[p] = l
        BY <2>3, <3>2, Moving DEF Working, Places
      <4> QED
        BY <1>0, <2>2, <2>3, <2>4, <4>1 DEF LocalRefs, Assessing, Applying
    <3>3. CASE Raise(p)
      BY <3>3, Raising, ErrorRefs
    <3> QED
      BY <2>1, <3>1, <3>2, <3>3 DEF l
  <2> QED
    BY <2>5, <2>6, <2>7, <2>8 DEF Kept
<1>6. CASE Fails(p)
  <2>1. Raise(p)
    BY <1>6 DEF Fails
  <2>2. UNCHANGED ledger /\ Shared'
    BY <1>6, BoundsAssumption DEF Fails, GiveBack, Shared, ledger, history, Event
  <2> QED
    BY <2>1, <2>2, Raising, ErrorRefs, LedgerKept DEF Kept
<1>7. CASE WriteRefused(p)
  <2>1. Raise(p)
    BY <1>7 DEF WriteRefused
  <2>2. UNCHANGED ledger /\ Shared'
    BY <1>7, BoundsAssumption DEF WriteRefused, Shared, ledger, history
  <2> QED
    BY <2>1, <2>2, Raising, ErrorRefs, LedgerKept DEF Kept
<1>8. CASE WriteFails(p)
  <2>1. Raise(p)
    BY <1>8 DEF WriteFails
  <2>2. UNCHANGED ledger /\ Shared'
    BY <1>8, BoundsAssumption DEF WriteFails, Shared, ledger, history, Event, Worktrees
  <2> QED
    BY <2>1, <2>2, Raising, ErrorRefs, LedgerKept DEF Kept
<1>9. CASE Clean(p)
  <2>1. End(p)
    BY <1>9 DEF Clean
  <2>2. UNCHANGED ledger /\ Shared'
    BY <1>9, BoundsAssumption DEF Clean, Shared, ledger, history
  <2> QED
    BY <2>1, <2>2, Ending, ErrorRefs, LedgerKept DEF Kept
<1>10. CASE CleanFails(p)
  <2>1. End(p)
    BY <1>10 DEF CleanFails
  <2>2. UNCHANGED ledger /\ Shared'
    BY <1>10, BoundsAssumption DEF CleanFails, Shared, ledger, history, Event
  <2> QED
    BY <2>1, <2>2, Ending, ErrorRefs, LedgerKept DEF Kept
<1>11. CASE Cancel(p)
  <2>1. End(p)
    BY <1>11 DEF Cancel
  <2>2. UNCHANGED ledger /\ Shared'
    BY <1>11, BoundsAssumption DEF Cancel, Shared, ledger, history
  <2> QED
    BY <2>1, <2>2, Ending, ErrorRefs, LedgerKept DEF Kept
<1>12. CASE Die(p)
  <2>1. End(p)
    BY <1>12 DEF Die
  <2>2. UNCHANGED ledger /\ Shared'
    BY <1>12, BoundsAssumption DEF Die, GiveBack, Shared, ledger, history, Event, Worktrees
  <2> QED
    BY <2>1, <2>2, Ending, ErrorRefs, LedgerKept DEF Kept
<1>13. CASE Load(p)
  <2>0. pc[p] = "load"
    BY <1>13 DEF Load
  <2>1. UNCHANGED ledger /\ Shared'
    BY <1>13, <2>0, <1>0 DEF Load, Shared, ledger, history
  <2>2. CASE Raise(p)
    BY <2>1, <2>2, Raising, ErrorRefs, LedgerKept DEF Kept
  <2>3. CASE Goto(p, "lock") /\ UNCHANGED local
    <3>1. Control' /\ OnlyMoves(p) /\ pc'[p] = "lock" /\ local'[p] = local[p]
      BY <2>3, Going DEF Working, Critical, Places
    <3>2. LocalRefs(p)'
      BY <1>0, <2>0, <2>1, <3>1 DEF LocalRefs, Assessing, Applying, ledger
    <3> QED
      BY <2>1, <3>1, <3>2, LedgerKept DEF Kept
  <2> QED
    BY <1>13, <2>2, <2>3 DEF Load
<1>14. CASE Gate(p)
  <2>0. pc[p] = "gate"
    BY <1>14 DEF Gate
  <2>1. UNCHANGED ledger /\ Shared'
    BY <1>14, <2>0, <1>0 DEF Gate, Shared, ledger, history
  <2>2. CASE Raise(p)
    BY <2>1, <2>2, Raising, ErrorRefs, LedgerKept DEF Kept
  <2>3. CASE Goto(p, "consume") /\ UNCHANGED local
    <3>1. Control' /\ OnlyMoves(p) /\ pc'[p] = "consume" /\ local'[p] = local[p]
      BY <2>3, Going DEF Working, Critical, Places
    <3>2. LocalRefs(p)'
      BY <1>0, <2>0, <2>1, <3>1 DEF LocalRefs, Assessing, Applying, ledger
    <3> QED
      BY <2>1, <3>1, <3>2, LedgerKept DEF Kept
  <2> QED
    BY <1>14, <2>2, <2>3 DEF Gate
<1>15. CASE Consume(p)
  <2>0. pc[p] = "consume"
    BY <1>15 DEF Consume
  <2>1. UNCHANGED ledger /\ Shared'
    BY <1>15, <2>0, <1>0 DEF Consume, Shared, ledger, history, LocalRefs, Applying
  <2>2. CASE Raise(p)
    BY <2>1, <2>2, Raising, ErrorRefs, LedgerKept DEF Kept
  <2>3. CASE Goto(p, "write") /\ UNCHANGED local
    <3>1. Control' /\ OnlyMoves(p) /\ pc'[p] = "write" /\ local'[p] = local[p]
      BY <2>3, Going DEF Working, Critical, Places
    <3>2. LocalRefs(p)'
      BY <1>0, <2>0, <2>1, <3>1 DEF LocalRefs, Assessing, Applying, ledger
    <3> QED
      BY <2>1, <3>1, <3>2, LedgerKept DEF Kept
  <2> QED
    BY <1>15, <2>2, <2>3 DEF Consume
<1>16. CASE Lock(p)
  <2>1. Goto(p, "gate") /\ UNCHANGED local /\ pc[p] = "lock"
    BY <1>16 DEF Lock
  <2>2. Control' /\ OnlyMoves(p) /\ pc'[p] = "gate" /\ local'[p] = local[p]
    BY <2>1, Going DEF Working, Critical, Places
  <2>3. UNCHANGED ledger /\ Shared'
    BY <1>16 DEF Lock, Shared, ledger, history
  <2>4. LocalRefs(p)'
    BY <1>0, <2>1, <2>2, <2>3 DEF LocalRefs, Assessing, Applying, ledger
  <2> QED
    BY <2>2, <2>3, <2>4, LedgerKept DEF Kept
<1>17. CASE Write(p)
  <2>1. Goto(p, "clean") /\ UNCHANGED local /\ pc[p] = "write"
    BY <1>17 DEF Write
  <2>2. Control' /\ OnlyMoves(p) /\ pc'[p] = "clean" /\ local'[p] = local[p]
    BY <2>1, Going DEF Working, Places
  <2>3. tree' \in Contents
    <3>1. local[p].patch \in Patches
      BY <1>0, <1>a, <2>1 DEF LocalRefs, Applying
    <3> QED
      BY <1>17, <3>1, MaterializeType DEF Write, Shared
  <2>4. UNCHANGED ledger /\ Shared'
    BY <1>17, <2>3 DEF Write, Shared, ledger, history, Worktrees
  <2>5. LocalRefs(p)'
    BY <1>0, <2>1, <2>2, <2>4 DEF LocalRefs, Assessing, Applying, ledger
  <2> QED
    BY <2>2, <2>4, <2>5, LedgerKept DEF Kept
<1>18. CASE Confirm(p)
  <2>1. CASE End(p) /\ UNCHANGED sanctions
    <3>1. UNCHANGED ledger /\ Shared'
      BY <1>18, <2>1 DEF Confirm, Shared, ledger, history
    <3> QED
      BY <2>1, <3>1, Ending, ErrorRefs, LedgerKept DEF Kept
  <2>2. CASE /\ sanctions' = Append(sanctions,
                  [asm |-> local[p].pend, bind |-> rows[local[p].pend].bind,
                   status |-> "active"])
             /\ Remember(p, [local[p] EXCEPT !.own = Len(sanctions) + 1])
             /\ Goto(p, IF local[p].patch \in Obliged THEN "bind" ELSE "undo")
    <3> DEFINE s == [asm |-> local[p].pend, bind |-> rows[local[p].pend].bind,
                     status |-> "active"]
    <3> DEFINE l == [local[p] EXCEPT !.own = Len(sanctions) + 1]
    <3>1. pc[p] = "confirm" /\ UNCHANGED rows
      BY <1>18 DEF Confirm
    <3>2. s \in Sanctions /\ l \in Locals /\ l.claim = local[p].claim
          /\ l.patch = local[p].patch /\ l.commit = local[p].commit
      <4>1. rows[local[p].pend] \in Rows /\ rows[local[p].pend].bind # None
        BY <1>0, <1>a, <3>1 DEF LocalRefs
      <4> QED
        BY <1>0, <1>a, <4>1 DEF Rows, Sanctions, Locals
    <3> HIDE DEF s, l
    <3>3. /\ sanctions' \in Seq(Sanctions)
          /\ DOMAIN sanctions' = DOMAIN sanctions \cup {Len(sanctions) + 1}
          /\ \A q \in DOMAIN sanctions : sanctions'[q] = sanctions[q]
      BY <1>a, <2>2, <3>2, AppendProperties DEF Shared, s
    <3>4. Shared'
      BY <1>18, <3>3 DEF Confirm, Shared, history
    <3>5. LedgerGrows /\ RowRefs'
      BY <3>1, <3>3 DEF LedgerGrows, Refs, RowRefs
    <3>6. PICK w \in {"bind", "undo"} : Goto(p, w) /\ Remember(p, l)
      BY <2>2 DEF l
    <3>7. Control' /\ OnlyMoves(p) /\ pc'[p] = w /\ local'[p] = l
      BY <3>2, <3>6, Moving DEF Working, Assessing, Places
    <3>8. LocalRefs(p)'
      BY <1>0, <3>1, <3>2, <3>3, <3>7 DEF LocalRefs, Assessing, Applying
    <3> QED
      BY <3>4, <3>5, <3>7, <3>8 DEF Kept
  <2> QED
    BY <1>18, <2>1, <2>2 DEF Confirm
<1>19. CASE Undo(p)
  <2>1. /\ sanctions' \in Seq(Sanctions) /\ DOMAIN sanctions' = DOMAIN sanctions
        /\ \A s \in DOMAIN sanctions : sanctions'[s] =
             IF s \in LiveFor(local[p].pend)
             THEN [sanctions[s] EXCEPT !.status = "invalidated"] ELSE sanctions[s]
    BY <1>19, InvalidatedType DEF Undo, Shared
  <2>2. Shared' /\ UNCHANGED rows
    BY <1>19, <2>1 DEF Undo, Shared, history
  <2>3. LedgerGrows
    BY <1>a, <2>1, <2>2 DEF LedgerGrows, Sanctions
  <2>4. RowRefs'
    BY <2>1, <2>2 DEF Refs, RowRefs
  <2>5. End(p)
    BY <1>19 DEF Undo
  <2> QED
    BY <2>2, <2>3, <2>4, <2>5, Ending, ErrorRefs DEF Kept
<1>20. CASE \E c \in Patches : Assess(p, c)
  <2>0. PICK c \in Patches : Assess(p, c)
    BY <1>20
  <2> DEFINE l == [Blank EXCEPT !.cmd = "assess", !.patch = c, !.commit = head]
  <2>1. l \in Locals /\ l.claim = 0 /\ l.patch = c /\ l.commit \in Commits
    BY <2>0 DEF Locals, Blank, Shared
  <2>2. Goto(p, "bind") /\ Remember(p, l)
    BY <2>0 DEF Assess
  <2> HIDE DEF l
  <2>3. Control' /\ OnlyMoves(p) /\ pc'[p] = "bind" /\ local'[p] = l
    BY <2>1, <2>2, Moving DEF Working, Assessing, Places
  <2>4. UNCHANGED ledger /\ Shared'
    BY <2>0 DEF Assess, Shared, ledger, history
  <2>5. LocalRefs(p)'
    BY <1>a, <2>0, <2>1, <2>3, <2>4 DEF Assess, LocalRefs, Assessing, Applying, ledger, Rows
  <2> QED
    BY <2>3, <2>4, <2>5, LedgerKept DEF Kept
<1>21. CASE \E a \in DOMAIN rows : ApplyCandidate(p, a)
  <2>0. PICK a \in DOMAIN rows : ApplyCandidate(p, a)
    BY <1>21
  <2> DEFINE l == [Blank EXCEPT !.cmd = "apply", !.patch = rows[a].patch, !.asm = a]
  <2>1. l \in Locals /\ l.claim = 0
        /\ l.patch = rows[a].patch /\ l.patch \in Patches /\ l.asm = a
    <3>1. rows[a].patch \in Patches /\ a \in Nat
      BY <1>a DEF Rows
    <3> QED
      BY <3>1 DEF Locals, Blank
  <2>2. Goto(p, "load") /\ Remember(p, l)
    BY <2>0 DEF ApplyCandidate
  <2> HIDE DEF l
  <2>3. Control' /\ OnlyMoves(p) /\ pc'[p] = "load" /\ local'[p] = l
    BY <2>1, <2>2, Moving DEF Working, Assessing, Places
  <2>4. UNCHANGED ledger /\ Shared'
    BY <2>0 DEF ApplyCandidate, Shared, ledger, history
  <2>5. LocalRefs(p)'
    BY <1>a, <2>0, <2>1, <2>3, <2>4 DEF ApplyCandidate, LocalRefs, Assessing, Applying, ledger, Rows
  <2> QED
    BY <2>3, <2>4, <2>5, LedgerKept DEF Kept
<1>22. CASE \E a \in DOMAIN rows : Select(p, a)
  <2>0. PICK a \in DOMAIN rows : Select(p, a)
    BY <1>22
  <2> DEFINE l == [Blank EXCEPT !.cmd = "approve", !.patch = rows[a].patch, !.pend = a]
  <2>1. l \in Locals /\ l.claim = 0
        /\ l.patch \in Patches /\ l.pend = a
    <3>1. rows[a].patch \in Patches /\ a \in Nat
      BY <1>a DEF Rows
    <3> QED
      BY <3>1 DEF Locals, Blank
  <2>2. Goto(p, "review") /\ Remember(p, l)
    BY <2>0 DEF Select
  <2> HIDE DEF l
  <2>3. Control' /\ OnlyMoves(p) /\ pc'[p] = "review" /\ local'[p] = l
    BY <2>1, <2>2, Moving DEF Working, Assessing, Places
  <2>4. UNCHANGED ledger /\ Shared'
    BY <2>0 DEF Select, Shared, ledger, history
  <2>5. LocalRefs(p)'
    BY <1>a, <2>0, <2>1, <2>3, <2>4 DEF Select, LocalRefs, Assessing, Applying, ledger, Rows
  <2> QED
    BY <2>3, <2>4, <2>5, LedgerKept DEF Kept
<1>23. CASE \E a \in DOMAIN rows : VerifyDrift(p, a)
  <2>0. PICK a \in DOMAIN rows : VerifyDrift(p, a)
    BY <1>23
  <2>1. PICK n \in Nat : Remember(p, [Blank EXCEPT !.cmd = "verify", !.pend = n])
    <3> DEFINE origin == sanctions[rows[a].sanction].asm
    <3> DEFINE n == IF LiveFor(a) = {} /\ rows[a].decision = "controlled"
                       /\ LiveFor(origin) # {} THEN origin ELSE a
    <3>1. rows[a].decision = "controlled" => origin \in Nat
      BY <1>a DEF Refs, RowRefs, Sanctions
    <3>2. n \in Nat
      BY <1>a, <3>1
    <3>3. Remember(p, [Blank EXCEPT !.cmd = "verify", !.pend = n])
      BY <2>0 DEF VerifyDrift
    <3> QED
      BY <3>2, <3>3
  <2> DEFINE l == [Blank EXCEPT !.cmd = "verify", !.pend = n]
  <2>2. l \in Locals /\ l.claim = 0
    BY DEF Locals, Blank
  <2>3. Goto(p, "undo") /\ Remember(p, l)
    BY <2>0, <2>1 DEF VerifyDrift
  <2> HIDE DEF l
  <2>4. Control' /\ OnlyMoves(p) /\ pc'[p] = "undo" /\ local'[p] = l
    BY <2>2, <2>3, Moving DEF Working, Places
  <2>5. UNCHANGED ledger /\ Shared'
    BY <2>0 DEF VerifyDrift, Shared, ledger, history
  <2>6. LocalRefs(p)'
    BY <2>2, <2>4 DEF LocalRefs, Assessing, Applying
  <2> QED
    BY <2>4, <2>5, <2>6, LedgerKept DEF Kept
<1>24. CASE Approve(p)
  <2> DEFINE l == [local[p] EXCEPT !.commit = head]
  <2>1. l \in Locals /\ l.claim = local[p].claim /\ l.patch = local[p].patch
        /\ l.commit \in Commits /\ l.pend = local[p].pend
    BY <1>0 DEF Locals, Shared
  <2>2. Goto(p, "confirm") /\ Remember(p, l) /\ pc[p] = "review"
    BY <1>24 DEF Approve
  <2> HIDE DEF l
  <2>3. Control' /\ OnlyMoves(p) /\ pc'[p] = "confirm" /\ local'[p] = l
    BY <2>1, <2>2, Moving DEF Working, Places
  <2>4. UNCHANGED ledger /\ Shared'
    BY <1>24 DEF Approve, Shared, ledger, history
  <2>5. LocalRefs(p)'
    BY <1>0, <2>1, <2>2, <2>3, <2>4 DEF LocalRefs, Assessing, Applying, ledger
  <2> QED
    BY <2>3, <2>4, <2>5, LedgerKept DEF Kept
<1>25. CASE UndoFails(p)
  <2>1. End(p)
    BY <1>25 DEF UndoFails
  <2>2. UNCHANGED ledger /\ Shared'
    BY <1>25, BoundsAssumption DEF UndoFails, Shared, ledger, history, Event
  <2> QED
    BY <2>1, <2>2, Ending, ErrorRefs, LedgerKept DEF Kept
<1> QED
  BY <1>1, <1>2, <1>3, <1>4, <1>5, <1>6, <1>7, <1>8, <1>9, <1>10, <1>11,
     <1>12, <1>13, <1>14, <1>15, <1>16, <1>17, <1>18, <1>19, <1>20, <1>21,
     <1>22, <1>23, <1>24, <1>25 DEF Step, Fault, Command

(***************************************************************************)
(* A sanction is created outside of any process; nothing else in the world *)
(* touches the ledger or a process.                                        *)
(***************************************************************************)
LEMMA WorldStep ==
  ASSUME Control, Shared, Refs, World
  PROVE  Shared' /\ LedgerGrows /\ RowRefs' /\ UNCHANGED <<rows, pc, local>>
<1> USE NamesAssumption, BoundsAssumption
<1>1. CASE \E a \in DOMAIN rows : AcceptRisk(a)
  <2>1. PICK a \in DOMAIN rows : AcceptRisk(a)
    BY <1>1
  <2> DEFINE s == [asm |-> a, bind |-> rows[a].bind, status |-> "active"]
  <2>2. a \in Nat /\ rows[a] \in Rows /\ Len(sanctions) \in Nat
    BY LenProperties, ElementOfSeq DEF Shared
  <2>3. s \in Sanctions
    BY <2>1, <2>2 DEF AcceptRisk, Rows, Sanctions
  <2> HIDE DEF s
  <2>4. /\ sanctions' \in Seq(Sanctions)
        /\ DOMAIN sanctions' = DOMAIN sanctions \cup {Len(sanctions) + 1}
        /\ \A q \in DOMAIN sanctions : sanctions'[q] = sanctions[q]
    BY <2>1, <2>2, <2>3, AppendProperties, LenProperties DEF AcceptRisk, Shared, s
  <2>5. Shared' /\ UNCHANGED <<rows, pc, local>>
    BY <2>1, <2>4 DEF AcceptRisk, Shared, Event, history
  <2> QED
    BY <2>4, <2>5 DEF LedgerGrows, Refs, RowRefs
<1>2. CASE \E t \in Sources \cup {Torn} : Edit(t)
  BY <1>2, LedgerKept DEF Edit, Shared, Event, Worktrees, Exposed, ledger
<1>3. CASE \E h \in Commits, t \in Sources \cup {tree} : MoveHead(h, t)
  BY <1>3, LedgerKept DEF MoveHead, Shared, Event, Worktrees, Exposed, ledger
<1>4. CASE \E c \in Patches : Expire(c)
  BY <1>4, LedgerKept DEF Expire, Shared, Event, history, ledger
<1> QED
  BY <1>1, <1>2, <1>3, <1>4 DEF World

(* The references of a process that does not move stay good.               *)
LEMMA RefsStable ==
  ASSUME NEW q, LocalRefs(q), LedgerGrows, pc'[q] = pc[q], local'[q] = local[q]
  PROVE  LocalRefs(q)'
BY DEF LocalRefs, LedgerGrows

(* Types, control and references survive every step, and the ledger only   *)
(* grows.                                                                  *)
LEMMA TypeStep ==
  Control /\ Shared /\ Refs /\ [Next]_vars => Control' /\ Shared' /\ Refs' /\ LedgerGrows
<1> SUFFICES ASSUME Control, Shared, Refs, [Next]_vars
             PROVE  Control' /\ Shared' /\ Refs' /\ LedgerGrows
  OBVIOUS
<1>1. CASE World
  <2>1. Shared' /\ LedgerGrows /\ RowRefs' /\ UNCHANGED <<rows, pc, local>>
    BY <1>1, WorldStep
  <2>2. \A q \in Procs : LocalRefs(q)'
    BY <2>1, RefsStable DEF Refs
  <2> QED
    BY <2>1, <2>2 DEF Control, Refs
<1>2. ASSUME NEW p \in Procs, Step(p) \/ Fault(p) \/ Command(p)
      PROVE  Control' /\ Shared' /\ Refs' /\ LedgerGrows
  <2>1. Control' /\ OnlyMoves(p) /\ Shared' /\ LedgerGrows /\ RowRefs' /\ LocalRefs(p)'
    BY <1>2, ProcessStep
  <2>2. \A q \in Procs \ {p} : LocalRefs(q)'
    BY <2>1, RefsStable DEF Refs, OnlyMoves
  <2> QED
    BY <2>1, <2>2 DEF Refs
<1>3. CASE UNCHANGED vars
  BY <1>3 DEF vars, Control, Shared, Refs, RowRefs, LocalRefs, LedgerGrows
<1> QED
  BY <1>1, <1>2, <1>3 DEF Next

(* They hold at the start.                                                 *)
LEMMA TypeInit == Init => Control /\ Shared /\ Refs
<1> SUFFICES ASSUME Init PROVE Control /\ Shared /\ Refs
  OBVIOUS
<1>1. Control
  BY BlankType DEF Init, Control, Places
<1>2. Shared
  BY BoundsAssumption DEF Init, Shared, Worktrees
<1>3. Refs
  BY DEF Init, Refs, RowRefs, LocalRefs, Blank, Assessing, Applying
<1> QED
  BY <1>1, <1>2, <1>3

(* Types, control and references are invariant.                            *)
LEMMA TypeInvariance == Spec => [](Control /\ Shared /\ Refs)
<1>1. Control /\ Shared /\ Refs /\ [Next]_vars => (Control /\ Shared /\ Refs)'
  BY TypeStep
<1> QED
  BY <1>1, TypeInit, PTL DEF Spec

(* Every reachable state is well typed: what a command remembers, what the *)
(* ledger stores and what the worktree holds stay within their domains.    *)
THEOREM TypeCorrect == Spec => []TypeOK
<1>1. Control /\ Shared => TypeOK
  BY DEF Control, Shared, TypeOK, Places
<1> QED
  BY <1>1, TypeInvariance, PTL


-------------------------------------------------------------------------------
(***************************************************************************)
(* What a step of process p can do to the state the properties speak of.   *)
(***************************************************************************)
Footprint(p) ==
  /\ \/ Claim(p) \/ Persist(p)
     \/ /\ UNCHANGED <<rows, skewed>>
        /\ \/ local'[p].claim = 0
           \/ local'[p].claim = local[p].claim /\ local'[p].bind = local[p].bind
  /\ \/ Confirm(p) \/ Undo(p) \/ UndoFails(p) \/ Die(p)
     \/ /\ local'[p].own = 0
        /\ pc[p] \in {"idle", "review", "clean"} \/ local[p].cmd # "approve"
     \/ /\ local'[p].own = local[p].own /\ local'[p].pend = local[p].pend
        /\ local'[p].cmd \in {local[p].cmd, "approve"} /\ pc'[p] \notin {"idle", "review"}
        /\ pc'[p] = "confirm" => pc[p] = "review"
  /\ pc'[p] \in {"review", "confirm"} =>
       local'[p].cmd = "approve" \/ (pc[p] = "review" /\ local'[p].cmd = local[p].cmd)
  /\ Score(p) \/ ScoreUnstored(p) \/ Consume(p) \/ Clean(p) \/ UNCHANGED <<cache, spent>>
  /\ \/ Lock(p)
     \/ pc[p] \in Critical /\ pc'[p] \in Critical /\ UNCHANGED lock
     \/ pc[p] \in Critical /\ pc'[p] \notin Critical /\ lock' = None
     \/ pc'[p] \notin Critical /\ lock' = IF lock = p THEN None ELSE lock
     \/ pc[p] \notin Critical /\ pc'[p] \notin Critical /\ UNCHANGED lock
  /\ UNCHANGED head
  /\ UNCHANGED tree \/ (pc[p] = "write" /\ tree' \notin Sources)
  /\ Bind(p) \/ Gate(p) \/ UNCHANGED disturbed
  /\ \/ Gate(p) \/ pc'[p] \notin {"consume", "write"}
     \/ pc[p] = "consume" /\ local'[p] = local[p]
  /\ Bind(p) \/ pc'[p] # "claim"

(* A process in error forgets its claim, and its sanction unless it goes on *)
(* to revoke it.                                                           *)
LEMMA Erring ==
  ASSUME Control, NEW p \in Procs, Raise(p) \/ End(p)
  PROVE  /\ local'[p].claim = 0 /\ pc'[p] \in {"undo", "idle"}
         /\ \/ local'[p].own = 0
            \/ /\ local'[p].own = local[p].own /\ local'[p].pend = local[p].pend
               /\ pc'[p] = "undo"
<1>1. CASE pc'[p] = "idle" /\ local'[p] = Blank
  BY <1>1 DEF Blank
<1>2. CASE /\ pc'[p] = "undo"
           /\ local'[p] = [Blank EXCEPT !.cmd = "approve",
                             !.pend = local[p].pend, !.own = local[p].own]
  <2> DEFINE m == local[p].pend
             o == local[p].own
  <2>1. /\ [Blank EXCEPT !.cmd = "approve", !.pend = m, !.own = o].claim = 0
        /\ [Blank EXCEPT !.cmd = "approve", !.pend = m, !.own = o].pend = m
        /\ [Blank EXCEPT !.cmd = "approve", !.pend = m, !.own = o].own = o
    <3> HIDE DEF m, o
    <3> QED
      BY DEF Blank
  <2> QED
    BY <1>2, <2>1
<1> QED
  BY <1>1, <1>2, Ending, Raising

(* An exception keeps the sanction of an approval in view.                 *)
LEMMA Raised ==
  ASSUME Control, NEW p \in Procs, Raise(p)
  PROVE  \/ local[p].cmd # "approve" /\ local'[p].own = 0 /\ pc'[p] = "idle"
         \/ /\ local'[p].own = local[p].own /\ local'[p].pend = local[p].pend
            /\ local'[p].cmd = local[p].cmd /\ pc'[p] = "undo"
<1>1. CASE local[p].cmd = "approve"
  <2> DEFINE m == local[p].pend
             o == local[p].own
             l == [Blank EXCEPT !.cmd = "approve", !.pend = m, !.own = o]
  <2>1. Goto(p, "undo") /\ Remember(p, l)
    BY <1>1 DEF Raise
  <2>2. l.own = o /\ l.pend = m /\ l.cmd = "approve"
    <3> HIDE DEF m, o
    <3> QED
      BY DEF Blank
  <2> HIDE DEF l
  <2>3. pc'[p] = "undo" /\ local'[p] = l
    BY <2>1 DEF Goto, Remember, Control
  <2> QED
    BY <1>1, <2>2, <2>3
<1>2. CASE local[p].cmd # "approve"
  BY <1>2, Ending DEF Raise, Blank
<1> QED
  BY <1>1, <1>2

(* What each place of a process may change of the shared state: the case   *)
(* analysis over the actions is done once, here.                           *)
LEMMA Footprints ==
  ASSUME Control, Refs, NEW p \in Procs, Step(p) \/ Fault(p) \/ Command(p)
  PROVE  Footprint(p)
<1>0. local[p] \in Locals /\ pc[p] \in Places /\ LocalRefs(p)
  BY DEF Control, Refs
<1> USE NamesAssumption DEF Footprint, ledger, history, Critical
<1>1. CASE Bind(p)
  BY <1>0, <1>1 DEF Bind, Goto, Remember, Control, Locals, LocalRefs
<1>2. CASE Claim(p)
  BY <1>0, <1>2 DEF Claim, Goto, Remember, Control, Locals
<1>3. CASE Score(p)
  BY <1>0, <1>3 DEF Score, Goto, Remember, Control, Locals
<1>4. CASE Persist(p)
  <2>1. /\ pc[p] = "persist" /\ Persist(p)
        /\ UNCHANGED <<cache, spent, lock, head, tree, disturbed>>
    BY <1>4 DEF Persist
  <2>2. CASE End(p) /\ local[p].cmd = "assess"
    BY <2>1, <2>2, Erring, Ending DEF Blank
  <2>4. CASE Raise(p)
    BY <2>1, <2>4, Erring, Raised
  <2> DEFINE l == [Blank EXCEPT !.cmd = "approve", !.patch = local[p].patch,
                     !.asm = Len(rows) + 1, !.pend = local[p].pend, !.own = local[p].own]
  <2>3. CASE Goto(p, "load") /\ Remember(p, l)
    <3>1. l.own = local[p].own /\ l.pend = local[p].pend /\ l.cmd = "approve"
      BY <1>0 DEF Blank
    <3>2. pc'[p] = "load" /\ local'[p] = l
      BY <2>3 DEF Goto, Remember, Control
    <3> HIDE DEF l
    <3> QED
      BY <2>1, <3>1, <3>2
  <2> QED
    BY <2>1, <2>2, <2>3, <2>4 DEF Persist
<1>5. CASE Load(p)
  BY <1>0, <1>5, Erring, Raised DEF Load, Goto, Control, Blank
<1>6. CASE Gate(p)
  BY <1>0, <1>6, Erring, Raised DEF Gate, Goto, Control, Blank
<1>7. CASE Consume(p)
  BY <1>0, <1>7, Erring, Raised DEF Consume, Goto, Control, Blank
<1>8. CASE Lock(p)
  BY <1>0, <1>8 DEF Lock, Goto, Control
<1>9. CASE Write(p)
  <2>1. local[p].patch \in Patches /\ pc[p] = "write"
    BY <1>0, <1>9 DEF Write, LocalRefs, Applying
  <2>2. tree' \notin Sources
    BY <1>9, <2>1 DEF Write, Materialize
  <2> QED
    BY <1>0, <1>9, <2>1, <2>2 DEF Write, Goto, Control
<1>10. CASE WriteRefused(p)
  <2>1. /\ local'[p].claim = 0 /\ pc'[p] \in {"undo", "idle"}
        /\ \/ local'[p].own = 0 /\ local[p].cmd # "approve"
           \/ /\ local'[p].own = local[p].own /\ local'[p].pend = local[p].pend
              /\ local'[p].cmd = local[p].cmd /\ pc'[p] = "undo"
    BY <1>10, Erring, Raised DEF WriteRefused
  <2> QED
    BY <1>0, <1>10, <2>1 DEF WriteRefused
<1>11. CASE WriteFails(p)
  <2>1. /\ local'[p].claim = 0 /\ pc'[p] \in {"undo", "idle"}
        /\ \/ local'[p].own = 0 /\ local[p].cmd # "approve"
           \/ /\ local'[p].own = local[p].own /\ local'[p].pend = local[p].pend
              /\ local'[p].cmd = local[p].cmd /\ pc'[p] = "undo"
    BY <1>11, Erring, Raised DEF WriteFails
  <2> QED
    BY <1>0, <1>11, <2>1 DEF WriteFails, Event
<1>12. CASE Fails(p)
  <2>1. /\ local'[p].claim = 0 /\ pc'[p] \in {"undo", "idle"}
        /\ \/ local'[p].own = 0 /\ local[p].cmd # "approve"
           \/ /\ local'[p].own = local[p].own /\ local'[p].pend = local[p].pend
              /\ local'[p].cmd = local[p].cmd /\ pc'[p] = "undo"
    BY <1>12, Erring, Raised DEF Fails
  <2> QED
    BY <1>0, <1>12, <2>1 DEF Fails, GiveBack, Event
<1>13. CASE Clean(p)
  BY <1>0, <1>13, Ending DEF Clean, Blank, Event
<1>14. CASE CleanFails(p)
  BY <1>0, <1>14, Ending DEF CleanFails, Blank, Event
<1>15. CASE Die(p)
  BY <1>0, <1>15, Erring DEF Die, GiveBack, Blank, Event
<1>16. CASE Cancel(p)
  BY <1>0, <1>16, Ending DEF Cancel, Blank, Event
<1>17. CASE Confirm(p)
  BY <1>0, <1>17, Erring DEF Confirm, Goto, Remember, Control, Locals, Blank
<1>18. CASE Undo(p)
  BY <1>0, <1>18, Erring DEF Undo, Blank
<1>19. CASE ScoreUnstored(p)
  BY <1>0, <1>19 DEF ScoreUnstored, Goto, Remember, Control, Locals
<1>20. CASE Approve(p)
  BY <1>0, <1>20 DEF Approve, Goto, Remember, Control, Locals
<1>21. CASE \E c \in Patches : Assess(p, c)
  BY <1>0, <1>21 DEF Assess, Goto, Remember, Control, Locals, Blank
<1>22. CASE \E a \in DOMAIN rows : ApplyCandidate(p, a)
  BY <1>0, <1>22 DEF ApplyCandidate, Goto, Remember, Control, Locals, Blank
<1>23. CASE \E a \in DOMAIN rows : Select(p, a)
  BY <1>0, <1>23 DEF Select, Goto, Remember, Control, Locals, Blank
<1>24. CASE \E a \in DOMAIN rows : VerifyDrift(p, a)
  BY <1>0, <1>24 DEF VerifyDrift, Goto, Remember, Control, Locals, Blank
<1>25. CASE UndoFails(p)
  BY <1>0, <1>25, Erring DEF UndoFails, Blank, Event
<1> QED
  BY <1>1, <1>2, <1>3, <1>4, <1>5, <1>6, <1>7, <1>8, <1>9, <1>10, <1>11,
     <1>12, <1>13, <1>14, <1>15, <1>16, <1>17, <1>18, <1>19, <1>20, <1>21,
     <1>22, <1>23, <1>24, <1>25 DEF Step, Fault, Command

-------------------------------------------------------------------------------
(***************************************************************************)
(* The lock                                                                *)
(***************************************************************************)
LEMMA OneWriterStep ==
  Control /\ Shared /\ Refs /\ OneWriter /\ [Next]_vars => OneWriter'
<1> SUFFICES ASSUME Control, Shared, Refs, OneWriter, [Next]_vars PROVE OneWriter'
  OBVIOUS
<1>1. CASE World
  BY <1>1 DEF World, AcceptRisk, Edit, MoveHead, Expire, OneWriter
<1>2. ASSUME NEW p \in Procs, Step(p) \/ Fault(p) \/ Command(p) PROVE OneWriter'
  <2>1. Footprint(p) /\ OnlyMoves(p)
    BY <1>2, Footprints, ProcessStep
  <2>2. CASE Lock(p)
    BY <2>1, <2>2, NamesAssumption
    DEF Lock, OneWriter, OnlyMoves, Goto, Control, Critical
  <2> QED
    BY <2>1, <2>2, NamesAssumption DEF Footprint, OneWriter, OnlyMoves
<1>3. CASE UNCHANGED vars
  BY <1>3 DEF vars, OneWriter
<1> QED
  BY <1>1, <1>2, <1>3 DEF Next

(* However many commands run and wherever they fail or die, one of them at *)
(* a time is between the gate and the end of the write, and it holds the   *)
(* lock; and nobody else holds it: every way out of there gives it back.   *)
THEOREM WritersExclude == Spec => []OneWriter
<1>1. Init => OneWriter
  BY NamesAssumption DEF Init, OneWriter, Critical
<1> QED
  BY <1>1, TypeInvariance, OneWriterStep, PTL DEF Spec

-------------------------------------------------------------------------------
(***************************************************************************)
(* Sanctions reach one assessment                                          *)
(***************************************************************************)
(* A claim in flight is of a sanction no longer active, held by no other   *)
(* process and recorded in no row; what a row records is spent too.        *)
ClaimInv ==
  /\ \A p \in Procs : local[p].claim # 0 => sanctions[local[p].claim].status # "active"
  /\ \A a \in DOMAIN rows : rows[a].sanction # 0 =>
       sanctions[rows[a].sanction].status # "active"
  /\ SanctionClaimedOnce

(* No step gives a claimed sanction to a second assessment.                *)
LEMMA ClaimStep ==
  Control /\ Shared /\ Refs /\ ClaimInv /\ [Next]_vars => ClaimInv'
<1> SUFFICES ASSUME Control, Shared, Refs, ClaimInv, [Next]_vars PROVE ClaimInv'
  OBVIOUS
<1>0. LedgerGrows
  BY TypeStep
<1>a. /\ \A p \in Procs : local[p].claim # 0 => local[p].claim \in DOMAIN sanctions
      /\ \A a \in DOMAIN rows : rows[a].sanction # 0 => rows[a].sanction \in DOMAIN sanctions
  BY DEF Refs, RowRefs, LocalRefs
<1>1. CASE World \/ UNCHANGED vars
  <2>1. UNCHANGED <<rows, local>>
    BY <1>1, WorldStep DEF vars
  <2> QED
    BY <1>0, <1>a, <2>1 DEF ClaimInv, SanctionClaimedOnce, LedgerGrows
<1>2. ASSUME NEW p \in Procs, Step(p) \/ Fault(p) \/ Command(p) PROVE ClaimInv'
  <2>1. Footprint(p) /\ OnlyMoves(p)
    BY <1>2, Footprints, ProcessStep
  <2>2. CASE UNCHANGED rows /\ (local'[p].claim = 0 \/ local'[p].claim = local[p].claim)
    BY <1>0, <1>a, <2>1, <2>2 DEF ClaimInv, SanctionClaimedOnce, LedgerGrows, OnlyMoves
  <2>3. CASE Claim(p)
    <3>1. CASE UNCHANGED <<sanctions, local>>
      BY <2>2, <2>3, <3>1 DEF Claim, ledger
    <3>2. CASE ~UNCHANGED <<sanctions, local>>
      <4>1. PICK s \in DOMAIN sanctions :
              /\ sanctions[s].status = "active"
              /\ Remember(p, [local[p] EXCEPT !.claim = s])
              /\ sanctions' = [sanctions EXCEPT ![s].status = "consumed"]
              /\ UNCHANGED rows
        BY <2>3, <3>2 DEF Claim, Newest, Claimable
      <4>2. local'[p].claim = s
        BY <4>1 DEF Remember, Control, Locals
      <4>3. sanctions'[s].status # "active"
        <5>1. sanctions[s] \in Sanctions
          BY LenProperties, ElementOfSeq DEF Shared
        <5> QED
          BY <4>1, <5>1, RestatusType DEF Shared, Sanctions
      <4>4. /\ \A q \in Procs : local[q].claim # s \/ s = 0
            /\ \A a \in DOMAIN rows : rows[a].sanction # s \/ s = 0
        BY <4>1 DEF ClaimInv
      <4>5. s # 0
        BY LenProperties DEF Shared
      <4> QED
        BY <1>0, <1>a, <2>1, <4>1, <4>2, <4>3, <4>4, <4>5
        DEF ClaimInv, SanctionClaimedOnce, LedgerGrows, OnlyMoves
    <3> QED
      BY <3>1, <3>2
  <2>4. CASE Persist(p)
    <3>1. PICK row : rows' = Append(rows, row) /\ row.sanction = local[p].claim
      BY <2>4 DEF Persist
    <3>2. UNCHANGED sanctions /\ local'[p].claim = 0
      <4>1. CASE End(p) \/ Raise(p)
        BY <2>4, <4>1, Erring DEF Persist
      <4>2. CASE Goto(p, "load")
        BY <1>2, <2>4, <4>2, ProcessStep DEF Persist, LocalRefs, Goto, Control
      <4> QED
        BY <2>4, <4>1, <4>2 DEF Persist
    <3>3. /\ DOMAIN rows' = DOMAIN rows \cup {Len(rows) + 1}
          /\ Len(rows) + 1 \notin DOMAIN rows
          /\ \A a \in DOMAIN rows : rows'[a] = rows[a]
          /\ rows'[Len(rows) + 1] = row
      <4>1. row = rows'[Len(rows) + 1] /\ Len(rows) \in Nat /\ DOMAIN rows = 1..Len(rows)
        BY <3>1, LenProperties DEF Shared
      <4> QED
        BY <3>1, <4>1 DEF Shared
    <3> QED
      BY <1>a, <2>1, <3>1, <3>2, <3>3 DEF ClaimInv, SanctionClaimedOnce, OnlyMoves
  <2> QED
    BY <2>1, <2>2, <2>3, <2>4 DEF Footprint
<1> QED
  BY <1>1, <1>2 DEF Next

(* Any number of assessments may look for a sanction at the same time: it  *)
(* is recorded in one row at most.                                         *)
THEOREM ClaimedOnce == Spec => []SanctionClaimedOnce
<1>1. Init => ClaimInv
  BY DEF Init, ClaimInv, SanctionClaimedOnce, Blank
<1>2. ClaimInv => SanctionClaimedOnce
  BY DEF ClaimInv
<1> QED
  BY <1>1, <1>2, TypeInvariance, ClaimStep, PTL DEF Spec

-------------------------------------------------------------------------------
(***************************************************************************)
(* Failed approvals revoke their sanction                                  *)
(***************************************************************************)
(* An approval at work remembers the sanction it has created, and which    *)
(* assessment it was for.                                                  *)
Answerable(p) ==
  local[p].own # 0 =>
    /\ local[p].own \in DOMAIN sanctions
    /\ sanctions[local[p].own].asm = local[p].pend
    /\ local[p].cmd = "approve"
    /\ pc[p] \notin {"idle", "review", "confirm"}

(* Whoever has a human to ask is an approval.                              *)
Asking(p) == pc[p] \in {"review", "confirm"} => local[p].cmd = "approve"

OwnInv == \A p \in Procs : Answerable(p) /\ Asking(p)

(* No step forgets the sanction an approval has to revoke.                 *)
LEMMA OwnStep ==
  Control /\ Shared /\ Refs /\ OwnInv /\ [Next]_vars => OwnInv'
<1> SUFFICES ASSUME Control, Shared, Refs, OwnInv, [Next]_vars PROVE OwnInv'
  OBVIOUS
<1>0. LedgerGrows
  BY TypeStep
<1>1. CASE World \/ UNCHANGED vars
  <2>1. UNCHANGED <<pc, local>>
    BY <1>1, WorldStep DEF vars
  <2> QED
    BY <1>0, <2>1 DEF OwnInv, Answerable, Asking, LedgerGrows
<1>2. ASSUME NEW p \in Procs, Step(p) \/ Fault(p) \/ Command(p) PROVE OwnInv'
  <2> USE DEF Answerable, Asking
  <2>1. Footprint(p) /\ OnlyMoves(p)
    BY <1>2, Footprints, ProcessStep
  <2>2. \A q \in Procs \ {p} : Answerable(q)' /\ Asking(q)'
    BY <1>0, <2>1 DEF OwnInv, LedgerGrows, OnlyMoves
  <2>a. Asking(p)'
    BY <2>1 DEF Footprint, OwnInv
  <2> SUFFICES Answerable(p)'
    BY <2>2, <2>a DEF OwnInv
  <2>3. CASE local'[p].own = 0
    BY <2>3
  <2>4. CASE /\ local'[p].own = local[p].own /\ local'[p].pend = local[p].pend
             /\ local'[p].cmd \in {local[p].cmd, "approve"}
             /\ pc'[p] \notin {"idle", "review"}
             /\ pc'[p] = "confirm" => pc[p] = "review"
    BY <1>0, <2>4 DEF OwnInv, LedgerGrows
  <2>5. CASE Confirm(p)
    <3>1. CASE End(p)
      BY <3>1, <2>3, Ending DEF Blank
    <3>2. CASE /\ sanctions' = Append(sanctions,
                    [asm |-> local[p].pend, bind |-> rows[local[p].pend].bind,
                     status |-> "active"])
               /\ Remember(p, [local[p] EXCEPT !.own = Len(sanctions) + 1])
               /\ Goto(p, IF local[p].patch \in Obliged THEN "bind" ELSE "undo")
      <4>1. /\ local'[p].own = Len(sanctions) + 1 /\ local'[p].pend = local[p].pend
            /\ local'[p].cmd = "approve"
        BY <2>5, <3>2 DEF Confirm, OwnInv, Remember, Control, Locals
      <4>2. pc'[p] \in {"bind", "undo"}
        BY <3>2 DEF Goto, Control
      <4>3. /\ Len(sanctions) + 1 \in DOMAIN sanctions'
            /\ sanctions'[Len(sanctions) + 1].asm = local[p].pend
        BY <3>2, LenProperties DEF Shared
      <4> QED
        BY <4>1, <4>2, <4>3
    <3> QED
      BY <2>5, <3>1, <3>2 DEF Confirm
  <2>6. CASE Undo(p) \/ UndoFails(p) \/ Die(p)
    BY <2>3, <2>6, Ending DEF Undo, UndoFails, Die, Blank
  <2> QED
    BY <2>1, <2>3, <2>4, <2>5, <2>6 DEF Footprint
<1> QED
  BY <1>1, <1>2 DEF Next

(* A revocation that goes through takes the sanction the approval created, *)
(* whether an assessment has claimed it or not.                            *)
LEMMA UndoRevokes ==
  ASSUME Shared, NEW p \in Procs, Answerable(p), local[p].own # 0, Undo(p)
  PROVE  sanctions'[local[p].own].status = "invalidated"
<1> DEFINE s == local[p].own
<1>1. s \in DOMAIN sanctions /\ sanctions[s].asm = local[p].pend /\ sanctions[s] \in Sanctions
  BY LenProperties, ElementOfSeq DEF Answerable, Shared
<1>2. sanctions'[s] = IF s \in LiveFor(local[p].pend)
                      THEN [sanctions[s] EXCEPT !.status = "invalidated"]
                      ELSE sanctions[s]
  BY <1>1, InvalidatedType DEF Undo, Shared
<1>3. s \in LiveFor(local[p].pend) \/ sanctions[s].status = "invalidated"
  BY <1>1 DEF LiveFor, Live, Sanctions
<1> HIDE DEF s
<1> QED
  BY <1>1, <1>2, <1>3 DEF Sanctions, s

(* At whatever step an approval fails after creating its sanction, and     *)
(* whoever claimed the sanction meanwhile, it does not end before the      *)
(* sanction is invalidated.  Only its death and the ledger's refusal to    *)
(* record the revocation leave a sanction alive with nothing written.      *)
THEOREM FailureRevokes == Spec => FailedApprovalRevoked
<1>1. Init => OwnInv
  BY DEF Init, OwnInv, Answerable, Asking, Blank
<1>2. ASSUME Control, Shared, Refs, OwnInv, Next, NEW p \in Procs,
             local[p].own # 0, pc'[p] = "idle"
      PROVE  \/ sanctions'[local[p].own].status = "invalidated"
             \/ pc[p] = "clean" \/ UndoFails(p) \/ Die(p)
  <2>1. Answerable(p) /\ pc[p] \notin {"idle", "review", "confirm"}
    BY <1>2 DEF OwnInv, Answerable
  <2>2. ~World
    BY <1>2, <2>1, WorldStep
  <2>3. PICK q \in Procs : Step(q) \/ Fault(q) \/ Command(q)
    BY <1>2, <2>2 DEF Next
  <2>4. q = p
    BY <1>2, <2>1, <2>3, ProcessStep DEF OnlyMoves
  <2>5. Footprint(p)
    BY <1>2, <2>3, <2>4, Footprints
  <2>6. CASE Undo(p)
    BY <1>2, <2>1, <2>6, UndoRevokes
  <2>7. ~Confirm(p)
    BY <2>1 DEF Confirm
  <2> QED
    BY <1>2, <2>1, <2>5, <2>6, <2>7 DEF Footprint, Answerable
<1>3. Control /\ Shared /\ Refs /\ OwnInv /\ [Next]_vars =>
        [\A p \in Procs : local[p].own # 0 /\ pc'[p] = "idle" =>
           \/ sanctions'[local[p].own].status = "invalidated"
           \/ pc[p] = "clean"
           \/ UndoFails(p)
           \/ Die(p)]_vars
  BY <1>2
<1> QED
  BY <1>1, <1>3, TypeInvariance, OwnStep, PTL DEF Spec, FailedApprovalRevoked

-------------------------------------------------------------------------------
(***************************************************************************)
(* Replays are spent once                                                  *)
(***************************************************************************)
SpentInv == \A c \in spent : cache[c] = "none"

(* No step brings a spent replay back but the one that stores it.          *)
LEMMA SpentStep ==
  Control /\ Shared /\ Refs /\ SpentInv /\ [Next]_vars => SpentInv'
<1> SUFFICES ASSUME Control, Shared, Refs, SpentInv, [Next]_vars PROVE SpentInv'
  OBVIOUS
<1> USE DEF SpentInv, Shared
<1>1. CASE World
  BY <1>1 DEF World, AcceptRisk, Edit, MoveHead, Expire, history
<1>2. ASSUME NEW p \in Procs, Step(p) \/ Fault(p) \/ Command(p) PROVE SpentInv'
  <2>1. Footprint(p)
    BY <1>2, Footprints
  <2>2. CASE Score(p)
    BY <2>2 DEF Score, Reaped
  <2>3. CASE ScoreUnstored(p)
    BY <2>3 DEF ScoreUnstored, Reaped, history
  <2>4. CASE Consume(p)
    BY <2>4 DEF Consume, Critical, Refs, LocalRefs, Applying
  <2>5. CASE Clean(p)
    BY <2>5 DEF Clean, history
  <2> QED
    BY <2>1, <2>2, <2>3, <2>4, <2>5 DEF Footprint
<1>3. CASE UNCHANGED vars
  BY <1>3 DEF vars
<1> QED
  BY <1>1, <1>2, <1>3 DEF Next

(* Two commands that race for the same replay, in whatever order they      *)
(* loaded, locked or cleaned up, do not both go on to write.               *)
THEOREM SpentOnce == Spec => ReplaySpentOnce
<1>1. Init => SpentInv
  BY DEF Init, SpentInv
<1>2. Control /\ Shared /\ Refs /\ SpentInv /\ [Next]_vars =>
        [\A p \in Procs :
           pc[p] = "consume" /\ pc'[p] = "write" => local[p].patch \notin spent]_vars
  <2> SUFFICES ASSUME Control, Shared, Refs, SpentInv, [Next]_vars,
                      NEW p \in Procs, pc[p] = "consume", pc'[p] = "write"
               PROVE  local[p].patch \notin spent
    OBVIOUS
  <2>1. ~World /\ ~UNCHANGED vars
    BY WorldStep DEF vars
  <2>2. PICK q \in Procs : Step(q) \/ Fault(q) \/ Command(q)
    BY <2>1 DEF Next
  <2>3. q = p
    BY <2>2, ProcessStep DEF OnlyMoves
  <2>4. Consume(p) \/ Fails(p)
    BY <2>2, <2>3 DEF Step, Fault, Command, Bind, Claim, Score, Persist, Load, Lock,
       Gate, Write, WriteRefused, Clean, Confirm, Undo, ScoreUnstored,
       UndoFails, WriteFails, CleanFails, Die, End, Goto, Control, Assess, ApplyCandidate,
       Select, VerifyDrift, Cancel, Approve
  <2>5. CASE cache[local[p].patch] # "none"
    BY <2>5 DEF SpentInv
  <2>6. CASE Raise(p)
    BY <2>6, Raising
  <2> QED
    BY <2>4, <2>5, <2>6 DEF Consume, Fails
<1> QED
  BY <1>1, <1>2, TypeInvariance, SpentStep, PTL DEF Spec, ReplaySpentOnce

-------------------------------------------------------------------------------
(***************************************************************************)
(* What is written is what was assessed                                    *)
(***************************************************************************)
(* Past the gate and undisturbed, a process is about to write what its row *)
(* was assessed for.                                                       *)
Covered(p) ==
  pc[p] \in {"consume", "write"} /\ p \notin disturbed =>
    LET row == rows[local[p].asm] IN
      /\ row.bind = Materialize(local[p].patch, tree)
      /\ row.commit = head
      /\ row.decision \in {"proceed", "controlled"}

CoveredInv == \A p \in Procs : Covered(p)

(* No pebra step changes the worktree under a process between its reading  *)
(* and its write.                                                          *)
LEMMA CoveredStep ==
  Control /\ Shared /\ Refs /\ OneWriter /\ CoveredInv /\ [Next]_vars => CoveredInv'
<1> SUFFICES ASSUME Control, Shared, Refs, OneWriter, CoveredInv, [Next]_vars
             PROVE  CoveredInv'
  OBVIOUS
<1>0. LedgerGrows
  BY TypeStep
<1>a. \A q \in Procs : pc[q] \in {"consume", "write"} => local[q].asm \in DOMAIN rows
  BY DEF Refs, LocalRefs, Applying
<1>1. CASE World
  <2>1. UNCHANGED <<rows, pc, local>>
    BY <1>1, WorldStep
  <2>2. CASE UNCHANGED <<head, tree, disturbed>>
    BY <2>1, <2>2 DEF CoveredInv, Covered, Materialize
  <2>3. CASE disturbed' = disturbed \cup Exposed
    BY <2>1, <2>3 DEF CoveredInv, Covered, Exposed
  <2> QED
    BY <1>1, <2>2, <2>3 DEF World, AcceptRisk, Edit, MoveHead, Expire, history
<1>2. ASSUME NEW p \in Procs, Step(p) \/ Fault(p) \/ Command(p) PROVE CoveredInv'
  <2>1. Footprint(p) /\ OnlyMoves(p)
    BY <1>2, Footprints, ProcessStep
  <2>2. /\ UNCHANGED head
        /\ \A q \in Procs \ {p} : q \in disturbed' <=> q \in disturbed
    BY <2>1 DEF Footprint, Bind, Gate
  <2>3. \A q \in Procs \ {p} : Covered(q)'
    <3>1. SUFFICES ASSUME NEW q \in Procs \ {p}, pc[q] \in {"consume", "write"},
                          q \notin disturbed
                   PROVE  Covered(q)'
      BY <2>1, <2>2 DEF OnlyMoves, Covered
    <3>2. lock = q
      BY <3>1 DEF OneWriter, Critical
    <3>3. UNCHANGED tree
      BY <2>1, <3>2 DEF Footprint, OneWriter, Critical
    <3>4. rows'[local[q].asm] = rows[local[q].asm]
      BY <1>0, <1>a, <3>1 DEF LedgerGrows
    <3>5. Covered(q)
      BY DEF CoveredInv
    <3> QED
      BY <2>1, <2>2, <3>1, <3>3, <3>4, <3>5 DEF Covered, OnlyMoves, Materialize
  <2>4. Covered(p)'
    <3>1. CASE Gate(p)
      <4>1. CASE Raise(p)
        BY <4>1, Erring DEF Covered
      <4>2. CASE Authorizes(local[p].asm) /\ UNCHANGED local
        <5>1. rows[local[p].asm].patch = local[p].patch
          BY <3>1 DEF Gate, Refs, LocalRefs, Applying
        <5>2. UNCHANGED <<rows, head, tree>>
          BY <3>1 DEF Gate, ledger
        <5>3. LET row == rows[local[p].asm] IN
                /\ row.bind = Materialize(local[p].patch, tree)
                /\ row.commit = head
                /\ row.decision \in {"proceed", "controlled"}
          BY <4>2, <5>1 DEF Authorizes, Newest, ExactRows
        <5> QED
          BY <4>2, <5>2, <5>3 DEF Covered, Materialize
      <4> QED
        BY <3>1, <4>1, <4>2 DEF Gate
    <3>2. CASE pc'[p] \notin {"consume", "write"}
      BY <3>2 DEF Covered
    <3>3. CASE pc[p] = "consume" /\ local'[p] = local[p] /\ ~Gate(p)
      <4>1. ~Bind(p) /\ UNCHANGED tree
        BY <2>1, <3>3 DEF Footprint, Bind
      <4>2. UNCHANGED disturbed
        BY <2>1, <3>3, <4>1 DEF Footprint
      <4>3. rows'[local[p].asm] = rows[local[p].asm]
        BY <1>0, <1>a, <3>3 DEF LedgerGrows
      <4> QED
        BY <2>2, <3>3, <4>1, <4>2, <4>3 DEF CoveredInv, Covered, Materialize
    <3> QED
      BY <2>1, <3>1, <3>2, <3>3 DEF Footprint
  <2> QED
    BY <2>3, <2>4 DEF CoveredInv
<1>3. CASE UNCHANGED vars
  BY <1>3 DEF vars, CoveredInv, Covered, Materialize
<1> QED
  BY <1>1, <1>2, <1>3 DEF Next

(* Without an editor or a git command between its gate and its write, a    *)
(* command installs the content its row was assessed for, at the commit it *)
(* was assessed at, and only if the row allows it: no other command can    *)
(* come between.                                                           *)
THEOREM WritesWhatWasAssessed == Spec => AppliedAsAssessed
<1>1. Init => OneWriter /\ CoveredInv
  BY NamesAssumption DEF Init, OneWriter, CoveredInv, Covered, Critical
<1>2. CoveredInv /\ [Next]_vars =>
        [\A p \in Procs :
           Write(p) /\ p \notin disturbed =>
             LET row == rows[local[p].asm] IN
               /\ tree' = row.bind
               /\ head = row.commit
               /\ row.decision \in {"proceed", "controlled"}]_vars
  BY DEF CoveredInv, Covered, Write
<1> QED
  BY <1>1, <1>2, TypeInvariance, OneWriterStep, CoveredStep, PTL
  DEF Spec, AppliedAsAssessed

-------------------------------------------------------------------------------
(***************************************************************************)
(* Controlled rows rest on a sanction for their content                    *)
(***************************************************************************)
BindInv ==
  /\ \A p \in Procs : p \notin disturbed =>
       /\ pc[p] = "claim" /\ tree \in Sources =>
            local[p].bind = Materialize(local[p].patch, tree)
       /\ local[p].claim # 0 => sanctions[local[p].claim].bind = local[p].bind
  /\ \A a \in DOMAIN rows : rows[a].sanction # 0 =>
       a \in skewed \/ sanctions[rows[a].sanction].bind = rows[a].bind

(* A claimed sanction stays bound to the content of its row.               *)
LEMMA BindStep ==
  Control /\ Shared /\ Refs /\ BindInv /\ [Next]_vars => BindInv'
<1> SUFFICES ASSUME Control, Shared, Refs, BindInv, [Next]_vars PROVE BindInv'
  OBVIOUS
<1>0. LedgerGrows
  BY TypeStep
<1>a. /\ \A p \in Procs : local[p].claim # 0 =>
           local[p].claim \in DOMAIN sanctions /\ pc[p] \in {"score", "persist"}
      /\ \A a \in DOMAIN rows : rows[a].sanction # 0 => rows[a].sanction \in DOMAIN sanctions
  BY DEF Refs, RowRefs, LocalRefs
<1>1. CASE World \/ UNCHANGED vars
  <2>1. UNCHANGED <<rows, pc, local>>
    BY <1>1, WorldStep DEF vars
  <2>2. CASE UNCHANGED <<tree, disturbed, skewed>>
    BY <1>0, <1>a, <2>1, <2>2 DEF BindInv, LedgerGrows, Materialize
  <2>3. CASE disturbed' = disturbed \cup Exposed /\ UNCHANGED skewed
    BY <1>0, <1>a, <2>1, <2>3 DEF BindInv, LedgerGrows, Exposed
  <2> QED
    BY <1>1, <2>2, <2>3 DEF World, AcceptRisk, Edit, MoveHead, Expire, history, vars
<1>2. ASSUME NEW p \in Procs, Step(p) \/ Fault(p) \/ Command(p) PROVE BindInv'
  <2> DEFINE Own(q) ==
        q \notin disturbed =>
          /\ pc[q] = "claim" /\ tree \in Sources =>
               local[q].bind = Materialize(local[q].patch, tree)
          /\ local[q].claim # 0 => sanctions[local[q].claim].bind = local[q].bind
  <2>1. Footprint(p) /\ OnlyMoves(p)
    BY <1>2, Footprints, ProcessStep
  <2>2. /\ \A q \in Procs \ {p} : q \in disturbed' <=> q \in disturbed
        /\ tree' \in Sources => UNCHANGED tree
    BY <2>1 DEF Footprint, Bind, Gate
  <2>3. \A q \in Procs \ {p} : Own(q)'
    <3> SUFFICES ASSUME NEW q \in Procs \ {p}, q \notin disturbed PROVE Own(q)'
      BY <2>2
    <3>1. pc'[q] = pc[q] /\ local'[q] = local[q]
      BY <2>1 DEF OnlyMoves
    <3>2. Own(q)
      BY DEF BindInv
    <3>3. local[q].claim # 0 =>
            sanctions'[local[q].claim].bind = sanctions[local[q].claim].bind
      BY <1>0, <1>a DEF LedgerGrows
    <3>4. Materialize(local[q].patch, tree)' = Materialize(local[q].patch, tree)
            \/ tree' \notin Sources
      BY <2>2, <3>1 DEF Materialize
    <3> QED
      BY <2>2, <3>1, <3>2, <3>3, <3>4
  <2>4. CASE /\ UNCHANGED <<rows, skewed>>
             /\ \/ local'[p].claim = 0
                \/ local'[p].claim = local[p].claim /\ local'[p].bind = local[p].bind
    <3>1. \A a \in DOMAIN rows : rows[a].sanction # 0 =>
            a \in skewed \/ sanctions'[rows[a].sanction].bind = rows[a].bind
      BY <1>0, <1>a DEF BindInv, LedgerGrows
    <3>2. Own(p)'
      <4>1. CASE Bind(p)
        <5>1. /\ local'[p].bind = Materialize(local[p].patch, tree)
              /\ local'[p].patch = local[p].patch /\ local'[p].claim = local[p].claim
          BY <4>1 DEF Bind, Remember, Control, Locals
        <5>2. local'[p].claim = 0 /\ UNCHANGED tree
          BY <1>a, <4>1, <5>1 DEF Bind
        <5> QED
          BY <5>1, <5>2 DEF Materialize
      <4>2. CASE ~Bind(p)
        <5>1. pc'[p] # "claim"
          BY <2>1, <4>2 DEF Footprint
        <5>2. CASE local'[p].claim = 0
          BY <5>1, <5>2
        <5>3. CASE /\ local'[p].claim # 0 /\ local'[p].claim = local[p].claim
                   /\ local'[p].bind = local[p].bind
          <6>1. ~Gate(p)
            BY <1>a, <5>3 DEF Gate
          <6>2. UNCHANGED disturbed
            BY <2>1, <4>2, <6>1 DEF Footprint
          <6> QED
            BY <1>0, <1>a, <5>1, <5>3, <6>2 DEF BindInv, LedgerGrows
        <5> QED
          BY <2>4, <5>2, <5>3
      <4> QED
        BY <4>1, <4>2
    <3> QED
      BY <2>3, <2>4, <3>1, <3>2 DEF BindInv
  <2>5. CASE Claim(p)
    <3>1. CASE UNCHANGED <<sanctions, local>>
      BY <2>4, <2>5, <3>1 DEF Claim, history
    <3>2. CASE ~UNCHANGED <<sanctions, local>>
      <4>1. PICK s \in DOMAIN sanctions :
              /\ sanctions[s].bind = Materialize(local[p].patch, tree)
              /\ Remember(p, [local[p] EXCEPT !.claim = s])
              /\ pc[p] = "claim" /\ Goto(p, "score")
              /\ UNCHANGED <<rows, tree, disturbed, skewed>>
        BY <2>5, <3>2 DEF Claim, Newest, Claimable, history
      <4>2. pc'[p] = "score" /\ local'[p].claim = s /\ local'[p].bind = local[p].bind
        BY <4>1 DEF Remember, Goto, Control, Locals
      <4>3. tree \in Sources
        <5>1. sanctions[s].bind \in Contents
          <6>1. sanctions[s] \in Sanctions
            BY LenProperties, ElementOfSeq DEF Shared
          <6> QED
            BY <6>1 DEF Sanctions
        <5> QED
          BY <4>1, <5>1, NamesAssumption DEF Materialize, Contents
      <4>4. Own(p)'
        BY <1>0, <4>1, <4>2, <4>3 DEF BindInv, LedgerGrows
      <4>5. \A a \in DOMAIN rows : rows[a].sanction # 0 =>
              a \in skewed \/ sanctions'[rows[a].sanction].bind = rows[a].bind
        BY <1>0, <1>a DEF BindInv, LedgerGrows
      <4> QED
        BY <2>3, <4>1, <4>4, <4>5 DEF BindInv
    <3> QED
      BY <3>1, <3>2
  <2>6. CASE Persist(p)
    <3>1. PICK row : /\ rows' = Append(rows, row)
                     /\ row.sanction = local[p].claim /\ row.bind = local[p].bind
      BY <2>6 DEF Persist
    <3>2. /\ UNCHANGED <<sanctions, disturbed, tree>>
          /\ skewed' = IF p \in disturbed THEN skewed \cup {Len(rows) + 1} ELSE skewed
      BY <2>6 DEF Persist
    <3>3. /\ DOMAIN rows' = DOMAIN rows \cup {Len(rows) + 1}
          /\ \A a \in DOMAIN rows : rows'[a] = rows[a]
          /\ rows'[Len(rows) + 1] = row
      <4>1. row = rows'[Len(rows) + 1] /\ Len(rows) \in Nat /\ DOMAIN rows = 1..Len(rows)
        BY <3>1, LenProperties DEF Shared
      <4> QED
        BY <3>1, <4>1 DEF Shared
    <3>4. pc'[p] # "claim" /\ local'[p].claim = 0
      <4>1. CASE End(p) \/ Raise(p)
        BY <2>6, <4>1, Erring DEF Persist
      <4>2. CASE Goto(p, "load")
        BY <1>2, <2>6, <4>2, ProcessStep DEF Persist, LocalRefs, Goto, Control
      <4> QED
        BY <2>6, <4>1, <4>2 DEF Persist
    <3>5. Own(p)'
      BY <3>4
    <3>6. row.sanction # 0 =>
            Len(rows) + 1 \in skewed' \/ sanctions[row.sanction].bind = row.bind
      BY <3>1, <3>2 DEF BindInv
    <3>7. \A a \in DOMAIN rows' : rows'[a].sanction # 0 =>
            a \in skewed' \/ sanctions'[rows'[a].sanction].bind = rows'[a].bind
      BY <3>2, <3>3, <3>6 DEF BindInv
    <3> QED
      BY <2>3, <3>5, <3>7 DEF BindInv
  <2> QED
    BY <2>1, <2>4, <2>5, <2>6 DEF Footprint
<1> QED
  BY <1>1, <1>2 DEF Next

(* A row that gate 10 let through rests on an approval of its own content, *)
(* unless the worktree moved while it was assessed.                        *)
THEOREM ControlledRests == Spec => []ControlledIsApproved
<1>1. Init => BindInv
  BY DEF Init, BindInv, Blank
<1>2. Refs /\ BindInv => ControlledIsApproved
  BY DEF Refs, RowRefs, BindInv, ControlledIsApproved
<1> QED
  BY <1>1, <1>2, TypeInvariance, BindStep, PTL DEF Spec

-------------------------------------------------------------------------------
(***************************************************************************)
(* The end of a command                                                    *)
(***************************************************************************)
(* How many steps of its own a process has left at most, from each place:  *)
(* an approval goes the longest way, through the assessment, the           *)
(* application and the undo.                                               *)
StepsFrom(place) ==
  CASE place = "review" -> 12  [] place = "confirm" -> 11 [] place = "bind" -> 10
    [] place = "claim" -> 9    [] place = "score" -> 8    [] place = "persist" -> 7
    [] place = "load" -> 6     [] place = "lock" -> 5     [] place = "gate" -> 4
    [] place = "consume" -> 3  [] place = "write" -> 2    [] place \in {"clean", "undo"} -> 1
    [] place = "idle" -> 0

(* Those numbers, place by place.                                          *)
LEMMA StepsAre ==
  /\ StepsFrom("review") = 12 /\ StepsFrom("confirm") = 11 /\ StepsFrom("bind") = 10
  /\ StepsFrom("claim") = 9 /\ StepsFrom("score") = 8 /\ StepsFrom("persist") = 7
  /\ StepsFrom("load") = 6 /\ StepsFrom("lock") = 5 /\ StepsFrom("gate") = 4
  /\ StepsFrom("consume") = 3 /\ StepsFrom("write") = 2 /\ StepsFrom("clean") = 1
  /\ StepsFrom("undo") = 1 /\ StepsFrom("idle") = 0
BY DEF StepsFrom

(* Every step of a process at work brings it nearer to its end.            *)
LEMMA StepsAdvance ==
  ASSUME Control, NEW p \in Procs, Step(p) \/ Fault(p) \/ Command(p), pc[p] # "idle"
  PROVE  StepsFrom(pc'[p]) < StepsFrom(pc[p])
<1> DEFINE Nearer == StepsFrom(pc'[p]) < StepsFrom(pc[p])
<1> SUFFICES Nearer
  OBVIOUS
<1>0. pc \in [Procs -> Places]
  BY DEF Control
<1>1. CASE Bind(p)
  BY <1>0, <1>1, StepsAre DEF Bind, Goto
<1>2. CASE Claim(p)
  BY <1>0, <1>2, StepsAre DEF Claim, Goto
<1>3. CASE Score(p) \/ ScoreUnstored(p)
  BY <1>0, <1>3, StepsAre DEF Score, ScoreUnstored, Goto
<1>4. CASE Persist(p)
  <2>1. pc[p] = "persist" /\ (End(p) \/ Raise(p) \/ Goto(p, "load"))
    BY <1>4 DEF Persist
  <2>2. pc'[p] \in {"undo", "idle", "load"}
    BY <1>0, <2>1, Erring DEF Goto
  <2> QED
    BY <2>1, <2>2, StepsAre
<1>5. CASE Fails(p)
  <2>1. /\ pc[p] \in Assessing \cup {"load", "lock", "gate", "consume"}
        /\ pc'[p] \in {"undo", "idle"}
    BY <1>5, Erring DEF Fails
  <2> QED
    BY <2>1, StepsAre DEF Assessing
<1>6. CASE Load(p)
  <2>1. pc[p] = "load" /\ pc'[p] \in {"undo", "idle", "lock"}
    BY <1>0, <1>6, Erring DEF Load, Goto
  <2> QED
    BY <2>1, StepsAre
<1>7. CASE Lock(p)
  BY <1>0, <1>7, StepsAre DEF Lock, Goto
<1>8. CASE Gate(p)
  <2>1. pc[p] = "gate" /\ pc'[p] \in {"undo", "idle", "consume"}
    BY <1>0, <1>8, Erring DEF Gate, Goto
  <2> QED
    BY <2>1, StepsAre
<1>9. CASE Consume(p)
  <2>1. pc[p] = "consume" /\ pc'[p] \in {"undo", "idle", "write"}
    BY <1>0, <1>9, Erring DEF Consume, Goto
  <2> QED
    BY <2>1, StepsAre
<1>10. CASE Write(p)
  BY <1>0, <1>10, StepsAre DEF Write, Goto
<1>11. CASE WriteRefused(p) \/ WriteFails(p)
  <2>1. pc[p] = "write" /\ pc'[p] \in {"undo", "idle"}
    BY <1>11, Erring DEF WriteRefused, WriteFails
  <2> QED
    BY <2>1, StepsAre
<1>12. CASE Clean(p) \/ CleanFails(p) \/ Cancel(p) \/ Undo(p) \/ UndoFails(p) \/ Die(p)
  <2>1. pc[p] \in Places \ {"idle"} /\ pc'[p] = "idle"
    BY <1>0, <1>12, Ending DEF Clean, CleanFails, Cancel, Undo, UndoFails, Die
  <2> QED
    BY <2>1, StepsAre DEF Places, Working, Assessing, Critical
<1>13. CASE Confirm(p)
  <2>1. pc[p] = "confirm" /\ pc'[p] \in {"idle", "bind", "undo"}
    BY <1>0, <1>13, Erring DEF Confirm, Goto
  <2> QED
    BY <2>1, StepsAre
<1>15. CASE Approve(p)
  BY <1>0, <1>15, StepsAre DEF Approve, Goto
<1> HIDE DEF Nearer
<1>16. CASE Step(p)
  BY <1>1, <1>2, <1>3, <1>4, <1>6, <1>7, <1>8, <1>9, <1>10, <1>11, <1>12, <1>13, <1>16
  DEF Step
<1>17. CASE Fault(p)
  BY <1>3, <1>5, <1>11, <1>12, <1>17 DEF Fault
<1>18. CASE Command(p)
  <2>1. \A c : ~Assess(p, c)
    BY DEF Assess
  <2>2. \A a : ~ApplyCandidate(p, a)
    BY DEF ApplyCandidate
  <2>3. \A a : ~Select(p, a)
    BY DEF Select
  <2>4. \A a : ~VerifyDrift(p, a)
    BY DEF VerifyDrift
  <2> QED
    BY <1>12, <1>15, <1>18, <2>1, <2>2, <2>3, <2>4 DEF Command
<1> QED
  BY <1>16, <1>17, <1>18

(* A command never goes back: nothing but its own steps, its faults and    *)
(* the human's word move it, and each of them forward, whatever the others *)
(* do to the ledger, the cache or the worktree.  So a command ends within  *)
(* twelve steps; that it takes them, unless others are served before it at *)
(* the lock again and again, is CommandEnds.                               *)
THEOREM CommandsRunOut ==
  Spec => [][\A p \in Procs : pc[p] # "idle" =>
               \/ StepsFrom(pc'[p]) < StepsFrom(pc[p])
               \/ pc'[p] = pc[p] /\ ~Step(p)]_vars
<1>1. ASSUME Control, Shared, Refs, Next, NEW p \in Procs, pc[p] # "idle"
      PROVE  \/ StepsFrom(pc'[p]) < StepsFrom(pc[p])
             \/ pc'[p] = pc[p] /\ ~Step(p)
  <2>1. CASE Step(p)
    BY <1>1, <2>1, StepsAdvance
  <2>2. CASE World /\ ~Step(p)
    BY <2>2 DEF World, AcceptRisk, Edit, MoveHead, Expire
  <2>3. ASSUME NEW q \in Procs, Step(q) \/ Command(q) \/ Fault(q), ~Step(p)
        PROVE  \/ StepsFrom(pc'[p]) < StepsFrom(pc[p])
               \/ pc'[p] = pc[p] /\ ~Step(p)
    <3>1. CASE q = p
      BY <1>1, <2>3, <3>1, StepsAdvance
    <3>2. CASE q # p
      BY <1>1, <2>3, <3>2, ProcessStep DEF OnlyMoves
    <3> QED
      BY <3>1, <3>2
  <2> QED
    BY <1>1, <2>1, <2>2, <2>3 DEF Next
<1>2. Control /\ Shared /\ Refs /\ [Next]_vars =>
        [\A p \in Procs : pc[p] # "idle" =>
           \/ StepsFrom(pc'[p]) < StepsFrom(pc[p])
           \/ pc'[p] = pc[p] /\ ~Step(p)]_vars
  BY <1>1
<1> QED
  BY <1>2, TypeInvariance, PTL DEF Spec
===============================================================================
