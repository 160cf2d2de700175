-------------------------- MODULE LearningLoopProofs --------------------------
(***************************************************************************)
(* The learning loop, for any number of commands, assessments and retries. *)
(*                                                                         *)
(* A row is written once because every write looks for it in its own       *)
(* transaction; what is learned comes from verified edits because what a   *)
(* command read before the write -- a verification that proceeded, a       *)
(* recorded outcome, rows in production -- is never taken back: guardrails,*)
(* outcomes and errors only grow.                                          *)
(***************************************************************************)
EXTENDS LearningLoop, FiniteSetTheorems, TLAPS

(* Some verification of a has proceeded.                                   *)
Passed(a) == \E i \in DOMAIN guardrails :
               guardrails[i].asm = a /\ guardrails[i].decision = "proceed"

(* Assessment a may be learned from for family f.                          *)
Teaches(a, f) ==
  \E k \in DOMAIN outcomes :
    /\ outcomes[k].asm = a
    /\ outcomes[k].status = "completed"
    /\ f # "benefit" => outcomes[k].source = "host" /\ f \in Labelled[outcomes[k].detail]

(* What the row of one measurement rests on.                               *)
Grounded(e) ==
  \E k \in DOMAIN outcomes :
    /\ outcomes[k].asm = e.asm
    /\ e.production <=> outcomes[k].status = "completed"
    /\ \A f \in e.observed :
         f # "benefit" => outcomes[k].source = "host" /\ f \in Labelled[outcomes[k].detail]

Expected(p) == [asm |-> Asm(p), status |-> req[p].status,
                detail |-> req[p].detail, source |-> "host"]

OneEach ==
  /\ \A i, j \in DOMAIN outcomes : outcomes[i].asm = outcomes[j].asm => i = j
  /\ \A i, j \in DOMAIN errors : errors[i].asm = errors[j].asm => i = j
  /\ \A i, j \in DOMAIN lessons : lessons[i] = lessons[j] => i = j

TriggeredOnce ==
  \A i, j \in DOMAIN snapshots :
    /\ snapshots[i].trigger # None
    /\ snapshots[i].trigger = snapshots[j].trigger
    /\ snapshots[i].family = snapshots[j].family
    => i = j

RowsRest ==
  /\ \A i \in DOMAIN outcomes : outcomes[i].status = "completed" => Passed(outcomes[i].asm)
  /\ \A i \in DOMAIN lessons : Teaches(lessons[i], "benefit")
  /\ \A i \in DOMAIN errors : Grounded(errors[i])
  /\ \A i \in DOMAIN snapshots : \A a \in snapshots[i].basis :
       Teaches(a, snapshots[i].family)

(* What the reads of a command under way are still good for.               *)
ReadsStand(p) ==
  /\ pc[p] = "write" /\ req[p].status = "completed" => Passed(Asm(p))
  /\ pc[p] \in {"once", "evidence", "measure"} =>
       \E k \in DOMAIN outcomes :
         outcomes[k] = view[p].outcome /\ outcomes[k].asm = Asm(p)
  /\ pc[p] = "promote" =>
       \A a \in view[p].basis : Teaches(a, Families[view[p].step])

AsAsked(p) ==
  req[p].op = "finalize" =>
    /\ pc[p] \in {"lesson", "measured", "labels", "once", "evidence", "measure",
                  "rows", "promote", "done"} =>
         \E k \in DOMAIN outcomes : outcomes[k] = Expected(p)
    /\ pc[p] \in {"rows", "promote", "done"} => Measured(Asm(p))

(* A verify knows whose sanction it looks for.                             *)
Placed(p) ==
  /\ pc[p] \in {"own", "origin", "persist", "withdraw"} => req[p].op = "verify"
  /\ pc[p] = "origin" => Origin[Asm(p)] \in Assessments
  /\ pc[p] \in {"origin", "persist", "withdraw"} => view[p].target \in Assessments

UnderWay(p) == ReadsStand(p) /\ AsAsked(p) /\ Placed(p)

IInv ==
  /\ TypeOK
  /\ OneEach
  /\ TriggeredOnce
  /\ RowsRest
  /\ \A p \in Commands : UnderWay(p)

-------------------------------------------------------------------------------
(***************************************************************************)
(* Sequences that grow                                                     *)
(***************************************************************************)
Grows(s, t) == \A i \in DOMAIN s : i \in DOMAIN t /\ t[i] = s[i]

(* Appending keeps what was there, and adds one row at the end.            *)
LEMMA Appended ==
  ASSUME NEW R, NEW s \in Seq(R), NEW e \in R
  PROVE  /\ Append(s, e) \in Seq(R)
         /\ Grows(s, Append(s, e))
         /\ Len(s) + 1 \in DOMAIN Append(s, e)
         /\ Append(s, e)[Len(s) + 1] = e
         /\ \A i \in DOMAIN Append(s, e) : i \in DOMAIN s \/ i = Len(s) + 1
BY DEF Grows

(* Every step keeps the rows of every table.                               *)
TablesGrow ==
  /\ Grows(guardrails, guardrails')
  /\ Grows(outcomes, outcomes')
  /\ Grows(errors, errors')
  /\ Grows(lessons, lessons')
  /\ Grows(snapshots, snapshots')

(* A command that does nothing while the tables grow is none the worse.    *)
LEMMA OthersWait ==
  ASSUME TypeOK, TablesGrow, NEW q \in Commands, UnderWay(q),
         pc'[q] = pc[q], req'[q] = req[q], view'[q] = view[q]
  PROVE  UnderWay(q)'
<1>1. /\ \A i \in DOMAIN outcomes : i \in DOMAIN outcomes' /\ outcomes'[i] = outcomes[i]
      /\ \A i \in DOMAIN errors : i \in DOMAIN errors' /\ errors'[i] = errors[i]
  BY DEF TablesGrow, Grows
<1>2. Asm(q)' = Asm(q) /\ Expected(q)' = Expected(q)
  BY DEF Asm, Expected
<1>3. ReadsStand(q)'
  <2>1. pc[q] = "write" /\ req[q].status = "completed" => Passed(Asm(q))'
    <3> SUFFICES ASSUME pc[q] = "write", req[q].status = "completed"
                 PROVE  Passed(Asm(q))'
      OBVIOUS
    <3>1. Passed(Asm(q))
      BY DEF UnderWay, ReadsStand
    <3>2. \A i \in DOMAIN guardrails : i \in DOMAIN guardrails' /\ guardrails'[i] = guardrails[i]
      BY DEF TablesGrow, Grows
    <3> QED
      BY <1>2, <3>1, <3>2 DEF Passed
  <2>2. pc[q] \in {"once", "evidence", "measure"} =>
          \E k \in DOMAIN outcomes' :
            outcomes'[k] = view[q].outcome /\ outcomes'[k].asm = Asm(q)
    BY <1>1 DEF UnderWay, ReadsStand
  <2>3. ASSUME pc[q] = "promote", NEW a \in view[q].basis
        PROVE  Teaches(a, Families[view[q].step])'
    <3>1. Teaches(a, Families[view[q].step])
      BY <2>3 DEF UnderWay, ReadsStand
    <3> QED
      BY <1>1, <3>1 DEF Teaches
  <2> QED
    BY <1>2, <2>1, <2>2, <2>3 DEF ReadsStand
<1>4. AsAsked(q)'
  BY <1>1, <1>2 DEF UnderWay, AsAsked, Measured
<1>5. Placed(q)'
  BY <1>2 DEF UnderWay, Placed
<1> QED
  BY <1>3, <1>4, <1>5 DEF UnderWay

-------------------------------------------------------------------------------
(***************************************************************************)
(* The post-edit decision                                                  *)
(***************************************************************************)
(* The decision is the most severe of the rules that fired.                *)
LEMMA MostSevere ==
  ASSUME NEW e, NEW required
  PROVE  /\ PreCommit(e, required) \in Candidates(e, required)
         /\ \A o \in Candidates(e, required) :
              DECISION_RANK[o] <= DECISION_RANK[PreCommit(e, required)]
<1> DEFINE C == Candidates(e, required)
<1>1. C \subseteq {"proceed", "inspect_first", "test_first", "ask_human", "reject"}
  BY DEF Candidates
<1>2. /\ DECISION_RANK["proceed"] = 0 /\ DECISION_RANK["inspect_first"] = 1
      /\ DECISION_RANK["test_first"] = 2 /\ DECISION_RANK["ask_human"] = 4
      /\ DECISION_RANK["reject"] = 5
  BY DEF DECISION_RANK
<1>3. "proceed" \in C
  BY DEF Candidates
<1>4. \E d \in C : \A o \in C : DECISION_RANK[o] <= DECISION_RANK[d]
  <2> HIDE DEF C
  <2>1. CASE "reject" \in C
    BY <1>1, <1>2, <2>1
  <2>2. CASE "reject" \notin C /\ "ask_human" \in C
    BY <1>1, <1>2, <2>2
  <2>3. CASE {"reject", "ask_human"} \cap C = {} /\ "test_first" \in C
    BY <1>1, <1>2, <2>3
  <2>4. CASE {"reject", "ask_human", "test_first"} \cap C = {} /\ "inspect_first" \in C
    BY <1>1, <1>2, <2>4
  <2>5. CASE C = {"proceed"}
    BY <1>2, <2>5
  <2> QED
    BY <1>1, <1>3, <2>1, <2>2, <2>3, <2>4, <2>5
<1> QED
  BY <1>4 DEF PreCommit

(* It is one of the decisions.                                             *)
LEMMA PreCommitType ==
  ASSUME NEW e, NEW required
  PROVE  PreCommit(e, required) \in Decisions
<1>1. PreCommit(e, required) \in Candidates(e, required)
  BY MostSevere
<1>2. Decisions = {"proceed", "inspect_first", "test_first", "revise_safer",
                   "ask_human", "reject"}
  BY DEF Decisions, DECISION_RANK
<1> QED
  BY <1>1, <1>2 DEF Candidates

(* An edit that drifted -- the reason a sanction is withdrawn -- is never  *)
(* let through, whatever checks ran: no assessment keeps "proceed" as its  *)
(* latest verification while its sanction is taken for drift.              *)
THEOREM DriftHalts ==
  ASSUME NEW e \in Evidence, NEW required, Drift(e)
  PROVE  PreCommit(e, required) # "proceed"
<1>1. \E o \in Candidates(e, required) : o \in {"inspect_first", "ask_human"}
  BY DEF Drift, ScopeDrift, Candidates
<1>2. /\ DECISION_RANK["proceed"] = 0 /\ DECISION_RANK["inspect_first"] = 1
      /\ DECISION_RANK["ask_human"] = 4
  BY DEF DECISION_RANK
<1> QED
  BY <1>1, <1>2, MostSevere

-------------------------------------------------------------------------------
(***************************************************************************)
(* Types                                                                   *)
(***************************************************************************)
(* A command that is not running was asked something it may be asked.      *)
LEMMA IdleType == Idle \in Requests
BY AskedAssumption DEF Idle

(* The blank view, and what a step makes of a view.                        *)
LEMMA BlankType == Blank \in Views
BY DEF Blank, Views

(* The last outcome of a closed assessment is an outcome.                  *)
LEMMA RecordedType ==
  ASSUME TypeOK, OneEach, NEW a \in Assessments, Closed(a)
  PROVE  \E k \in DOMAIN outcomes :
           /\ Recorded(a) = outcomes[k] /\ outcomes[k].asm = a
           /\ outcomes[k] \in OutcomeRows
<1>1. PICK k \in DOMAIN outcomes : outcomes[k].asm = a
  BY DEF Closed, Outcomes
<1>2. Outcomes(a) = {k}
  BY <1>1 DEF Outcomes, OneEach
<1>3. k \in Nat
  BY <1>1 DEF TypeOK
<1>4. Recorded(a) = outcomes[k]
  BY <1>2, <1>3 DEF Recorded
<1> QED
  BY <1>1, <1>4 DEF TypeOK

(* Starting, returning and dying keep the types.                           *)
LEMMA TypeRun ==
  ASSUME TypeOK, NEW p \in Commands, Start(p) \/ Return(p) \/ Die(p)
  PROVE  TypeOK' /\ TablesGrow
<1>1. UNCHANGED ledger
  BY DEF Start, Return, Die, Forget
<1>2. TablesGrow
  BY <1>1 DEF ledger, TablesGrow, Grows
<1>3. CASE Start(p)
  <2>1. PICK r \in Asked : /\ req' = [req EXCEPT ![p] = r] /\ Goto(p, First(r))
    BY <1>3 DEF Start
  <2>2. r \in Requests /\ First(r) \in Places
    BY <2>1, AskedAssumption DEF Requests, First, Places
  <2> QED
    BY <1>1, <1>2, <1>3, <2>1, <2>2, BlankType DEF Start, TypeOK, ledger, Goto, Note
<1>4. CASE Return(p) \/ Die(p)
  <2>1. Forget(p)
    BY <1>4 DEF Return, Die
  <2> QED
    BY <1>1, <1>2, <2>1, BlankType, IdleType DEF Forget, TypeOK, ledger, Goto, Note, Places
<1> QED
  BY <1>3, <1>4

(* The steps of verify keep the types.                                     *)
LEMMA TypeVerify ==
  ASSUME IInv, NEW p \in Commands,
         LookUpOwn(p) \/ LookUpOrigin(p) \/ Persist(p) \/ Withdraw(p)
  PROVE  TypeOK' /\ TablesGrow
<1>1. TypeOK /\ Placed(p) /\ Asm(p) \in Assessments /\ view[p] \in Views
  BY DEF IInv, UnderWay, TypeOK, Asm, Requests
<1>2. \A a \in Assessments : Live(a) \in SUBSET (Assessments \X Nat)
  BY <1>1 DEF Live, TypeOK
<1>3. CASE LookUpOwn(p)
  <2>1. [Blank EXCEPT !.live = Live(Asm(p)), !.target = Asm(p)] \in Views
    BY <1>1, <1>2, BlankType DEF Views
  <2>2. UNCHANGED <<ledger, req>> /\ pc' \in [Commands -> Places] /\ view' \in [Commands -> Views]
    BY <1>1, <1>3, <2>1 DEF LookUpOwn, Goto, Note, TypeOK, Places
  <2> QED
    BY <1>1, <2>2 DEF TypeOK, ledger, TablesGrow, Grows
<1>4. CASE LookUpOrigin(p)
  <2>1. Origin[Asm(p)] \in Assessments
    BY <1>1, <1>4 DEF Placed, LookUpOrigin
  <2>2. [view[p] EXCEPT !.live = Live(Origin[Asm(p)]), !.target = Origin[Asm(p)]] \in Views
    BY <1>1, <1>2, <2>1 DEF Views
  <2>3. UNCHANGED <<ledger, req>> /\ pc' \in [Commands -> Places] /\ view' \in [Commands -> Views]
    BY <1>1, <1>4, <2>2 DEF LookUpOrigin, Goto, Note, TypeOK, Places
  <2> QED
    BY <1>1, <2>3 DEF TypeOK, ledger, TablesGrow, Grows
<1>5. CASE Persist(p)
  <2>0. PICK e \in Offered : \E required :
            /\ guardrails' = Append(guardrails, [asm |-> Asm(p),
                                                 decision |-> PreCommit(e, required),
                                                 drift |-> Drift(e)])
            /\ Note(p, [view[p] EXCEPT !.drift = Drift(e)])
            /\ Goto(p, IF Drift(e) THEN "withdraw" ELSE "done")
    BY <1>5 DEF Persist
  <2>1. PICK required :
          /\ guardrails' = Append(guardrails, [asm |-> Asm(p),
                                               decision |-> PreCommit(e, required),
                                               drift |-> Drift(e)])
          /\ Note(p, [view[p] EXCEPT !.drift = Drift(e)])
          /\ Goto(p, IF Drift(e) THEN "withdraw" ELSE "done")
    BY <2>0
  <2>2. Drift(e) \in BOOLEAN /\ PreCommit(e, required) \in Decisions
    BY PreCommitType DEF Drift, ScopeDrift
  <2> DEFINE row == [asm |-> Asm(p), decision |-> PreCommit(e, required), drift |-> Drift(e)]
  <2>3. row \in GuardrailRows
    BY <1>1, <2>2 DEF GuardrailRows
  <2>4. guardrails' \in Seq(GuardrailRows) /\ Grows(guardrails, guardrails')
    <3> HIDE DEF row
    <3>1. guardrails' = Append(guardrails, row)
      BY <2>1 DEF row
    <3> QED
      BY <1>1, <2>3, <3>1, Appended DEF TypeOK
  <2>5. [view[p] EXCEPT !.drift = Drift(e)] \in Views
    BY <1>1, <2>2 DEF Views
  <2>6. pc' \in [Commands -> Places] /\ view' \in [Commands -> Views]
    BY <1>1, <2>1, <2>5 DEF Goto, Note, TypeOK, Places
  <2> QED
    BY <1>1, <1>5, <2>4, <2>6 DEF Persist, TypeOK, TablesGrow, Grows
<1>6. CASE Withdraw(p)
  <2> DEFINE a == view[p].target
  <2>1. a \in Assessments
    BY <1>1, <1>6 DEF Placed, Withdraw
  <2>2. [i \in DOMAIN sanctions[a] |-> "invalidated"] \in Seq(SanctionStates)
    BY <1>1, <2>1 DEF TypeOK, SanctionStates
  <2>3. sanctions' \in [Assessments -> Seq(SanctionStates)]
    BY <1>1, <1>6, <2>1, <2>2 DEF Withdraw, TypeOK
  <2>4. pc' \in [Commands -> Places]
    BY <1>1, <1>6 DEF Withdraw, Goto, TypeOK, Places
  <2> QED
    BY <1>1, <1>6, <2>3, <2>4 DEF Withdraw, TypeOK, TablesGrow, Grows
<1> QED
  BY <1>3, <1>4, <1>5, <1>6

(* The steps of record-outcome keep the types.                             *)
LEMMA TypeRecord ==
  ASSUME IInv, NEW p \in Commands,
         \/ ReadClosed(p) \/ CheckVerified(p) \/ WriteOutcome(p)
         \/ Materialize(p) \/ MatchOutcome(p)
  PROVE  TypeOK' /\ TablesGrow
<1>1. TypeOK /\ Asm(p) \in Assessments /\ req[p] \in Requests
  BY DEF IInv, TypeOK, Asm, Requests
<1>2. CASE ReadClosed(p) \/ CheckVerified(p) \/ MatchOutcome(p)
  <2>1. UNCHANGED <<ledger, req, view>> /\ pc' \in [Commands -> Places]
    BY <1>1, <1>2 DEF ReadClosed, CheckVerified, MatchOutcome, Refuse, Goto, TypeOK, Places
  <2> QED
    BY <1>1, <2>1 DEF TypeOK, ledger, TablesGrow, Grows
<1>3. CASE WriteOutcome(p)
  <2>1. NewOutcome(p) \in OutcomeRows
    BY <1>1 DEF NewOutcome, OutcomeRows, Requests
  <2>2. outcomes' \in Seq(OutcomeRows) /\ Grows(outcomes, outcomes')
    <3>1. CASE outcomes' = outcomes
      BY <1>1, <3>1 DEF TypeOK, Grows
    <3>2. CASE outcomes' = Append(outcomes, NewOutcome(p))
      BY <1>1, <2>1, <3>2, Appended DEF TypeOK
    <3> QED
      BY <1>3, <3>1, <3>2 DEF WriteOutcome
  <2>3. pc' \in [Commands -> Places]
    BY <1>1, <1>3 DEF WriteOutcome, Refuse, AfterOutcome, Goto, TypeOK, Places
  <2> QED
    BY <1>1, <1>3, <2>2, <2>3 DEF WriteOutcome, TypeOK, TablesGrow, Grows
<1>4. CASE Materialize(p)
  <2>1. lessons' \in Seq(Assessments) /\ Grows(lessons, lessons')
    <3>1. CASE lessons' = lessons
      BY <1>1, <3>1 DEF TypeOK, Grows
    <3>2. CASE lessons' = Append(lessons, Asm(p))
      BY <1>1, <3>2, Appended DEF TypeOK
    <3> QED
      BY <1>4, <3>1, <3>2 DEF Materialize
  <2>2. pc' \in [Commands -> Places]
    BY <1>1, <1>4 DEF Materialize, AfterOutcome, Goto, TypeOK, Places
  <2> QED
    BY <1>1, <1>4, <2>1, <2>2 DEF Materialize, TypeOK, TablesGrow, Grows
<1> QED
  BY <1>2, <1>3, <1>4

(* The steps of learn keep the types.                                      *)
LEMMA TypeLearn ==
  ASSUME IInv, NEW p \in Commands,
         \/ SkipMeasured(p) \/ ReadLabels(p) \/ MeasureOnce(p)
         \/ ReadVerified(p) \/ Measure(p)
  PROVE  TypeOK' /\ TablesGrow
<1>1. /\ TypeOK /\ OneEach /\ ReadsStand(p) /\ Asm(p) \in Assessments
      /\ req[p] \in Requests /\ view[p] \in Views
  BY DEF IInv, UnderWay, TypeOK, Asm, Requests
<1>2. CASE SkipMeasured(p) \/ MeasureOnce(p)
  <2>1. UNCHANGED <<ledger, req, view>> /\ pc' \in [Commands -> Places]
    BY <1>1, <1>2 DEF SkipMeasured, MeasureOnce, Goto, TypeOK, Places
  <2> QED
    BY <1>1, <2>1 DEF TypeOK, ledger, TablesGrow, Grows
<1>3. CASE ReadLabels(p)
  <2>1. UNCHANGED <<ledger, req>> /\ pc' \in [Commands -> Places]
    BY <1>1, <1>3 DEF ReadLabels, Goto, TypeOK, Places
  <2>2. CASE Closed(Asm(p))
    <3>1. Recorded(Asm(p)) \in OutcomeRows
      BY <1>1, <2>2, RecordedType
    <3>2. [view[p] EXCEPT !.outcome = Recorded(Asm(p))] \in Views
      BY <1>1, <3>1 DEF Views
    <3> QED
      BY <1>1, <1>3, <2>1, <2>2, <3>2 DEF ReadLabels, Note, TypeOK, ledger, TablesGrow, Grows
  <2>3. CASE ~Closed(Asm(p))
    BY <1>1, <1>3, <2>1, <2>3 DEF ReadLabels, TypeOK, ledger, TablesGrow, Grows
  <2> QED
    BY <2>2, <2>3
<1>4. CASE ReadVerified(p)
  <2>1. [view[p] EXCEPT !.verified = Verifies(Asm(p)) # {}] \in Views
    BY <1>1 DEF Views
  <2>2. UNCHANGED <<ledger, req>> /\ pc' \in [Commands -> Places] /\ view' \in [Commands -> Views]
    BY <1>1, <1>4, <2>1 DEF ReadVerified, Goto, Note, TypeOK, Places
  <2> QED
    BY <1>1, <2>2 DEF TypeOK, ledger, TablesGrow, Grows
<1>5. CASE Measure(p)
  <2>1. ErrorRow(p) \in ErrorRows /\ ShadowRow \in SnapshotRows
    <3>1. view[p].outcome \in OutcomeRows
      BY <1>1, <1>5 DEF Measure, ReadsStand, TypeOK
    <3>2. Labels(view[p].outcome) \in SUBSET Family
      BY <3>1, LabelledAssumption DEF Labels, OutcomeRows
    <3> QED
      BY <1>1, <3>2 DEF ErrorRow, ErrorRows, ShadowRow, SnapshotRows, Family
  <2>2. /\ errors' \in Seq(ErrorRows) /\ Grows(errors, errors')
        /\ snapshots' \in Seq(SnapshotRows) /\ Grows(snapshots, snapshots')
    <3>1. CASE UNCHANGED <<errors, snapshots>>
      BY <1>1, <3>1 DEF TypeOK, Grows
    <3>2. CASE errors' = Append(errors, ErrorRow(p)) /\ snapshots' = Append(snapshots, ShadowRow)
      BY <1>1, <2>1, <3>2, Appended DEF TypeOK
    <3> QED
      BY <1>5, <3>1, <3>2 DEF Measure
  <2>3. pc' \in [Commands -> Places] /\ view' \in [Commands -> Views]
    BY <1>1, <1>5, BlankType DEF Measure, Goto, Note, TypeOK, Places
  <2> QED
    BY <1>1, <1>5, <2>2, <2>3 DEF Measure, TypeOK, TablesGrow, Grows
<1> QED
  BY <1>2, <1>3, <1>4, <1>5

(* Whichever family comes next, the command stays well placed.             *)
LEMMA TypeNextFamily ==
  ASSUME TypeOK, NEW p \in Commands, NextFamily(p)
  PROVE  pc' \in [Commands -> Places] /\ view' \in [Commands -> Views]
<1>1. view[p] \in Views
  BY DEF TypeOK
<1>2. CASE view[p].step = 3
  BY <1>2, BlankType DEF NextFamily, Goto, Note, TypeOK, Places
<1>3. CASE view[p].step # 3
  <2>1. view[p].step + 1 \in 1..3
    BY <1>1, <1>3 DEF Views
  <2>2. [view[p] EXCEPT !.step = @ + 1, !.basis = {}] \in Views
    BY <1>1, <2>1 DEF Views
  <2> QED
    BY <1>3, <2>2 DEF NextFamily, Goto, Note, TypeOK, Places
<1> QED
  BY <1>2, <1>3

(* The families are the families.                                          *)
LEMMA FamilyOf ==
  ASSUME NEW v \in Views
  PROVE  Families[v.step] \in Family
<1>1. v.step = 1 \/ v.step = 2 \/ v.step = 3
  BY DEF Views
<1>2. Families[1] = "risk" /\ Families[2] = "benefit" /\ Families[3] = "review_cost"
  BY DEF Families
<1> QED
  BY <1>1, <1>2 DEF Family

(* The steps of promote keep the types.                                    *)
LEMMA TypePromote ==
  ASSUME IInv, NEW p \in Commands, ReadRows(p) \/ WritePromotion(p)
  PROVE  TypeOK' /\ TablesGrow
<1>1. TypeOK /\ Asm(p) \in Assessments /\ req[p] \in Requests /\ view[p] \in Views
  BY DEF IInv, TypeOK, Asm, Requests
<1>2. CASE ReadRows(p)
  <2> DEFINE basis == Calibrating(Families[view[p].step])
  <2>1. UNCHANGED <<ledger, req>>
    BY <1>2 DEF ReadRows
  <2>2. pc' \in [Commands -> Places] /\ view' \in [Commands -> Views]
    <3>1. CASE NextFamily(p)
      BY <1>1, <3>1, TypeNextFamily
    <3>2. CASE Goto(p, "promote") /\ Note(p, [view[p] EXCEPT !.basis = basis])
      <4>1. basis \in SUBSET Assessments
        BY DEF Calibrating
      <4>2. [view[p] EXCEPT !.basis = basis] \in Views
        <5> HIDE DEF basis
        <5> QED BY <1>1, <4>1 DEF Views
      <4> QED
        BY <1>1, <3>2, <4>2 DEF Goto, Note, TypeOK, Places
    <3> QED
      BY <1>2, <3>1, <3>2 DEF ReadRows
  <2> QED
    BY <1>1, <2>1, <2>2 DEF TypeOK, ledger, TablesGrow, Grows
<1>3. CASE WritePromotion(p)
  <2>1. Promoted(p) \in SnapshotRows
    <3>1. Families[view[p].step] \in Family /\ view[p].basis \in SUBSET Assessments
      BY <1>1, FamilyOf DEF Views
    <3>2. Trigger(p) \in Assessments \cup {None}
      BY <1>1 DEF Trigger
    <3> QED
      BY <3>1, <3>2 DEF Promoted, SnapshotRows
  <2>2. snapshots' \in Seq(SnapshotRows) /\ Grows(snapshots, snapshots')
    <3>1. CASE UNCHANGED snapshots
      BY <1>1, <3>1 DEF TypeOK, Grows
    <3>2. CASE snapshots' = Append(snapshots, Promoted(p))
      BY <1>1, <2>1, <3>2, Appended DEF TypeOK
    <3> QED
      BY <1>3, <3>1, <3>2 DEF WritePromotion
  <2>3. pc' \in [Commands -> Places] /\ view' \in [Commands -> Views]
    BY <1>1, <1>3, TypeNextFamily DEF WritePromotion
  <2> QED
    BY <1>1, <1>3, <2>2, <2>3 DEF WritePromotion, TypeOK, TablesGrow, Grows
<1> QED
  BY <1>2, <1>3

(* Every step keeps the types, and takes no row back.                      *)
LEMMA TypeStep ==
  ASSUME IInv, [Next]_vars
  PROVE  TypeOK' /\ TablesGrow
<1>1. TypeOK
  BY DEF IInv
<1>2. CASE UNCHANGED vars
  BY <1>1, <1>2 DEF vars, TypeOK, TablesGrow, Grows
<1>3. ASSUME NEW a \in Assessments, AcceptRisk(a)
      PROVE  TypeOK' /\ TablesGrow
  <2>1. Append(sanctions[a], "active") \in Seq(SanctionStates)
    BY <1>1 DEF TypeOK, SanctionStates
  <2>2. sanctions' \in [Assessments -> Seq(SanctionStates)]
    BY <1>1, <1>3, <2>1 DEF AcceptRisk, TypeOK
  <2> QED
    BY <1>1, <1>3, <2>2 DEF AcceptRisk, TypeOK, TablesGrow, Grows
<1>4. ASSUME NEW p \in Commands, Start(p) \/ Command(p) \/ Return(p) \/ Die(p)
      PROVE  TypeOK' /\ TablesGrow
  BY <1>1, <1>4, TypeRun, TypeVerify, TypeRecord, TypeLearn, TypePromote DEF Command
<1> QED
  BY <1>2, <1>3, <1>4 DEF Next

-------------------------------------------------------------------------------
(***************************************************************************)
(* The tables                                                              *)
(***************************************************************************)
Tables == OneEach /\ TriggeredOnce /\ RowsRest

(* Rows nobody adds to are as sound as before.                             *)
LEMMA OldRowsRest ==
  ASSUME TypeOK, RowsRest, TablesGrow
  PROVE  /\ \A i \in DOMAIN outcomes :
              outcomes[i].status = "completed" => Passed(outcomes[i].asm)'
         /\ \A i \in DOMAIN lessons : Teaches(lessons[i], "benefit")'
         /\ \A i \in DOMAIN errors : Grounded(errors[i])'
         /\ \A i \in DOMAIN snapshots : \A a \in snapshots[i].basis :
              Teaches(a, snapshots[i].family)'
<1>1. \A i \in DOMAIN guardrails : i \in DOMAIN guardrails' /\ guardrails'[i] = guardrails[i]
  BY DEF TablesGrow, Grows
<1>2. /\ \A i \in DOMAIN outcomes : i \in DOMAIN outcomes' /\ outcomes'[i] = outcomes[i]
      /\ \A i \in DOMAIN errors : i \in DOMAIN errors' /\ errors'[i] = errors[i]
      /\ \A i \in DOMAIN lessons : i \in DOMAIN lessons' /\ lessons'[i] = lessons[i]
      /\ \A i \in DOMAIN snapshots : i \in DOMAIN snapshots' /\ snapshots'[i] = snapshots[i]
  BY DEF TablesGrow, Grows
<1>3. ASSUME NEW i \in DOMAIN outcomes, outcomes[i].status = "completed"
      PROVE  Passed(outcomes[i].asm)'
  <2>1. PICK j \in DOMAIN guardrails : /\ guardrails[j].asm = outcomes[i].asm
                                       /\ guardrails[j].decision = "proceed"
    BY <1>3 DEF RowsRest, Passed
  <2> QED
    BY <1>1, <1>2, <2>1 DEF Passed
<1>4. ASSUME NEW i \in DOMAIN lessons
      PROVE  Teaches(lessons[i], "benefit")'
  <2>1. Teaches(lessons[i], "benefit")
    BY DEF RowsRest
  <2> QED
    BY <1>2, <2>1 DEF Teaches
<1>5. ASSUME NEW i \in DOMAIN errors
      PROVE  Grounded(errors[i])'
  <2>1. Grounded(errors[i])
    BY DEF RowsRest
  <2> QED
    BY <1>2, <2>1 DEF Grounded
<1>6. ASSUME NEW i \in DOMAIN snapshots, NEW a \in snapshots[i].basis
      PROVE  Teaches(a, snapshots[i].family)'
  <2>1. Teaches(a, snapshots[i].family)
    BY DEF RowsRest
  <2> QED
    BY <1>2, <2>1 DEF Teaches
<1> QED
  BY <1>3, <1>4, <1>5, <1>6

(* A step that writes none of the four tables of the loop.                 *)
LEMMA TablesUntouched ==
  ASSUME IInv, TablesGrow, UNCHANGED <<outcomes, lessons, errors, snapshots>>
  PROVE  Tables'
<1>1. OneEach' /\ TriggeredOnce'
  BY DEF IInv, OneEach, TriggeredOnce
<1>2. RowsRest'
  BY OldRowsRest DEF IInv, RowsRest
<1> QED
  BY <1>1, <1>2 DEF Tables

(* An outcome: the assessment was not closed, and had passed verify if it  *)
(* was carried out.                                                        *)
LEMMA TablesOutcome ==
  ASSUME IInv, TypeOK', TablesGrow, NEW p \in Commands, WriteOutcome(p)
  PROVE  Tables'
<1>1. CASE UNCHANGED outcomes
  BY <1>1, TablesUntouched DEF WriteOutcome
<1>2. CASE ~Closed(Asm(p)) /\ outcomes' = Append(outcomes, NewOutcome(p))
  <2>1. UNCHANGED <<guardrails, lessons, errors, snapshots, req>> /\ pc[p] = "write"
    BY DEF WriteOutcome
  <2>2. /\ outcomes \in Seq(OutcomeRows) /\ NewOutcome(p).asm = Asm(p)
        /\ NewOutcome(p).status = req[p].status
    BY DEF IInv, TypeOK, NewOutcome
  <2>3. \A i \in DOMAIN outcomes : outcomes[i].asm # Asm(p)
    BY <1>2 DEF Closed, Outcomes
  <2> DEFINE n == Len(outcomes) + 1
  <2>4. /\ \A i \in DOMAIN outcomes' : i \in DOMAIN outcomes \/ i = n
        /\ \A i \in DOMAIN outcomes : outcomes'[i] = outcomes[i]
        /\ outcomes'[n] = NewOutcome(p)
    BY <1>2, <2>2
  <2> HIDE DEF n
  <2>5. OneEach'
    BY <2>1, <2>2, <2>3, <2>4 DEF IInv, OneEach
  <2>6. TriggeredOnce'
    BY <2>1 DEF IInv, TriggeredOnce
  <2>7. req[p].status = "completed" => Passed(Asm(p))'
    BY <2>1 DEF IInv, UnderWay, ReadsStand, Passed, Asm
  <2>8. ASSUME NEW i \in DOMAIN outcomes', outcomes'[i].status = "completed"
        PROVE  Passed(outcomes[i].asm)'
    <3>1. CASE i = n
      BY <2>1, <2>2, <2>4, <2>7, <2>8, <3>1 DEF Passed, Asm
    <3>2. CASE i \in DOMAIN outcomes
      BY <2>4, <2>8, <3>2, OldRowsRest DEF IInv
    <3> QED
      BY <2>4, <3>1, <3>2
  <2>9. RowsRest'
    BY <2>1, <2>8, OldRowsRest DEF IInv, RowsRest
  <2> QED
    BY <2>5, <2>6, <2>9 DEF Tables
<1> QED
  BY <1>1, <1>2 DEF WriteOutcome

(* A lesson: the assessment has none, and its one outcome is completed.    *)
LEMMA TablesLesson ==
  ASSUME IInv, TypeOK', TablesGrow, NEW p \in Commands, Materialize(p)
  PROVE  Tables'
<1> DEFINE a == Asm(p)
<1>1. CASE UNCHANGED lessons
  BY <1>1, TablesUntouched DEF Materialize
<1>2. CASE /\ \A i \in DOMAIN lessons : lessons[i] # a
           /\ Cardinality(Outcomes(a)) = 1 /\ Recorded(a).status = "completed"
           /\ lessons' = Append(lessons, a)
  <2>1. UNCHANGED <<guardrails, outcomes, errors, snapshots>>
    BY DEF Materialize
  <2>2. TypeOK /\ OneEach /\ a \in Assessments /\ lessons \in Seq(Assessments)
    BY DEF IInv, TypeOK, Asm, Requests
  <2>3. Closed(a)
    BY <1>2, FS_EmptySet DEF Closed
  <2>4. PICK k \in DOMAIN outcomes : outcomes[k].asm = a /\ outcomes[k].status = "completed"
    BY <1>2, <2>2, <2>3, RecordedType
  <2> HIDE DEF a
  <2> DEFINE n == Len(lessons) + 1
  <2>5. /\ \A i \in DOMAIN lessons' : i \in DOMAIN lessons \/ i = n
        /\ \A i \in DOMAIN lessons : lessons'[i] = lessons[i]
        /\ lessons'[n] = a
    BY <1>2, <2>2
  <2> HIDE DEF n
  <2>6. OneEach' /\ TriggeredOnce'
    BY <1>2, <2>1, <2>5 DEF IInv, OneEach, TriggeredOnce
  <2>7. ASSUME NEW i \in DOMAIN lessons'
        PROVE  Teaches(lessons[i], "benefit")'
    <3>1. CASE i = n
      BY <2>1, <2>4, <2>5, <3>1 DEF Teaches
    <3>2. CASE i \in DOMAIN lessons
      BY <2>5, <3>2, OldRowsRest DEF IInv, Teaches
    <3> QED
      BY <2>5, <3>1, <3>2
  <2>8. RowsRest'
    BY <2>1, <2>7, OldRowsRest DEF IInv, RowsRest
  <2> QED
    BY <2>6, <2>8 DEF Tables
<1> QED
  BY <1>1, <1>2 DEF Materialize

(* A measurement: the assessment has none, and it rests on the outcome     *)
(* the command read.                                                       *)
LEMMA TablesMeasure ==
  ASSUME IInv, TypeOK', TablesGrow, NEW p \in Commands, Measure(p)
  PROVE  Tables'
<1>1. CASE UNCHANGED <<errors, snapshots>>
  BY <1>1, TablesUntouched DEF Measure
<1>2. CASE /\ ~Measured(Asm(p))
           /\ errors' = Append(errors, ErrorRow(p))
           /\ snapshots' = Append(snapshots, ShadowRow)
  <2>1. UNCHANGED <<guardrails, outcomes, lessons>> /\ pc[p] = "measure"
    BY DEF Measure
  <2>2. PICK e : e = ErrorRow(p)
    OBVIOUS
  <2>3. PICK s : s = ShadowRow
    OBVIOUS
  <2>4. /\ errors \in Seq(ErrorRows) /\ snapshots \in Seq(SnapshotRows)
        /\ e.asm = Asm(p) /\ s.trigger = None /\ s.basis = {}
    BY <2>2, <2>3 DEF IInv, TypeOK, ErrorRow, ShadowRow
  <2>5. \A i \in DOMAIN errors : errors[i].asm # Asm(p)
    BY <1>2 DEF Measured
  <2>6. Grounded(e)
    <3>1. PICK k \in DOMAIN outcomes : outcomes[k] = view[p].outcome /\ outcomes[k].asm = Asm(p)
      BY <2>1 DEF IInv, UnderWay, ReadsStand
    <3>2. /\ e.production <=> view[p].outcome.status = "completed"
          /\ \A f \in e.observed : f # "benefit" =>
               view[p].outcome.source = "host" /\ f \in Labelled[view[p].outcome.detail]
      BY <2>2 DEF ErrorRow, Labels
    <3> QED
      BY <2>4, <3>1, <3>2 DEF Grounded
  <2> DEFINE n == Len(errors) + 1
             m == Len(snapshots) + 1
  <2>7. /\ \A i \in DOMAIN errors' : i \in DOMAIN errors \/ i = n
        /\ \A i \in DOMAIN errors : errors'[i] = errors[i]
        /\ errors'[n] = e
    BY <1>2, <2>2, <2>4
  <2>8. /\ \A i \in DOMAIN snapshots' : i \in DOMAIN snapshots \/ i = m
        /\ \A i \in DOMAIN snapshots : snapshots'[i] = snapshots[i]
        /\ snapshots'[m] = s
    BY <1>2, <2>3, <2>4
  <2> HIDE DEF n, m
  <2>9. OneEach'
    BY <2>1, <2>4, <2>5, <2>7 DEF IInv, OneEach
  <2>10. TriggeredOnce'
    BY <2>4, <2>8 DEF IInv, TriggeredOnce
  <2>11. ASSUME NEW i \in DOMAIN errors'
         PROVE  Grounded(errors[i])'
    <3>1. CASE i = n
      BY <2>1, <2>6, <2>7, <3>1 DEF Grounded
    <3>2. CASE i \in DOMAIN errors
      BY <2>7, <3>2, OldRowsRest DEF IInv, Grounded
    <3> QED
      BY <2>7, <3>1, <3>2
  <2>12. ASSUME NEW i \in DOMAIN snapshots', NEW a \in snapshots'[i].basis
         PROVE  Teaches(a, snapshots[i].family)'
    <3>1. i \in DOMAIN snapshots
      BY <2>4, <2>8, <2>12
    <3> QED
      BY <2>8, <2>12, <3>1, OldRowsRest DEF IInv, Teaches
  <2>13. RowsRest'
    BY <2>1, <2>11, <2>12, OldRowsRest DEF IInv, RowsRest
  <2> QED
    BY <2>9, <2>10, <2>13 DEF Tables
<1> QED
  BY <1>1, <1>2 DEF Measure

(* A promotion: the finalization has not written this family, and every    *)
(* assessment it rests on may be learned from.                             *)
LEMMA TablesPromotion ==
  ASSUME IInv, TypeOK', TablesGrow, NEW p \in Commands, WritePromotion(p)
  PROVE  Tables'
<1>1. UNCHANGED <<guardrails, outcomes, lessons, errors>> /\ pc[p] = "promote"
  BY DEF WritePromotion
<1>2. CASE UNCHANGED snapshots
  BY <1>1, <1>2, TablesUntouched
<1>3. CASE /\ snapshots' = Append(snapshots, Promoted(p))
           /\ Trigger(p) # None =>
                \A i \in DOMAIN snapshots :
                  ~(/\ snapshots[i].trigger = Trigger(p)
                    /\ snapshots[i].family = Families[view[p].step])
  <2>1. PICK s : s = Promoted(p)
    OBVIOUS
  <2>2. /\ snapshots \in Seq(SnapshotRows) /\ s.trigger = Trigger(p)
        /\ s.family = Families[view[p].step] /\ s.basis = view[p].basis
    BY <2>1 DEF IInv, TypeOK, Promoted
  <2>3. \A a \in s.basis : Teaches(a, s.family)
    BY <1>1, <2>2 DEF IInv, UnderWay, ReadsStand
  <2> DEFINE n == Len(snapshots) + 1
  <2>4. /\ \A i \in DOMAIN snapshots' : i \in DOMAIN snapshots \/ i = n
        /\ \A i \in DOMAIN snapshots : snapshots'[i] = snapshots[i]
        /\ snapshots'[n] = s
    BY <1>3, <2>1, <2>2
  <2> HIDE DEF n
  <2>5. OneEach'
    BY <1>1 DEF IInv, OneEach
  <2>6. TriggeredOnce'
    BY <1>3, <2>2, <2>4 DEF IInv, TriggeredOnce
  <2>7. ASSUME NEW i \in DOMAIN snapshots', NEW a \in snapshots'[i].basis
        PROVE  Teaches(a, snapshots[i].family)'
    <3>1. CASE i = n
      BY <1>1, <2>3, <2>4, <2>7, <3>1 DEF Teaches
    <3>2. CASE i \in DOMAIN snapshots
      BY <2>4, <2>7, <3>2, OldRowsRest DEF IInv, Teaches
    <3> QED
      BY <2>4, <3>1, <3>2
  <2>8. RowsRest'
    BY <1>1, <2>7, OldRowsRest DEF IInv, RowsRest
  <2> QED
    BY <2>5, <2>6, <2>8 DEF Tables
<1> QED
  BY <1>2, <1>3 DEF WritePromotion

(* Every step keeps the tables sound.                                      *)
LEMMA TablesStep ==
  ASSUME IInv, [Next]_vars, TypeOK', TablesGrow
  PROVE  Tables'
<1>1. CASE UNCHANGED <<outcomes, lessons, errors, snapshots>>
  BY <1>1, TablesUntouched
<1>2. ASSUME NEW p \in Commands,
             WriteOutcome(p) \/ Materialize(p) \/ Measure(p) \/ WritePromotion(p)
      PROVE  Tables'
  BY <1>2, TablesOutcome, TablesLesson, TablesMeasure, TablesPromotion
<1>3. ASSUME NEW p \in Commands,
             \/ Start(p) \/ Return(p) \/ Die(p)
             \/ LookUpOwn(p) \/ LookUpOrigin(p) \/ Persist(p) \/ Withdraw(p)
             \/ ReadClosed(p) \/ CheckVerified(p) \/ MatchOutcome(p)
             \/ SkipMeasured(p) \/ ReadLabels(p) \/ MeasureOnce(p) \/ ReadVerified(p)
             \/ ReadRows(p)
      PROVE  UNCHANGED <<outcomes, lessons, errors, snapshots>>
  BY <1>3 DEF Start, Return, Die, Forget, LookUpOwn, LookUpOrigin, Persist, Withdraw,
       ReadClosed, CheckVerified, MatchOutcome, SkipMeasured, ReadLabels,
       MeasureOnce, ReadVerified, ReadRows, ledger
<1>4. ASSUME NEW a \in Assessments, AcceptRisk(a)
      PROVE  UNCHANGED <<outcomes, lessons, errors, snapshots>>
  BY <1>4 DEF AcceptRisk
<1>5. CASE UNCHANGED vars
  BY <1>1, <1>5 DEF vars
<1> QED
  BY <1>1, <1>2, <1>3, <1>4, <1>5 DEF Next, Command

-------------------------------------------------------------------------------
(***************************************************************************)
(* The commands under way                                                  *)
(***************************************************************************)
(* A step of p leaves the other commands where they are.                   *)
LEMMA OthersStand ==
  ASSUME TypeOK, NEW p \in Commands, Start(p) \/ Command(p) \/ Return(p) \/ Die(p),
         NEW q \in Commands \ {p}
  PROVE  pc'[q] = pc[q] /\ req'[q] = req[q] /\ view'[q] = view[q]
BY DEF TypeOK, Start, Return, Die, Forget, Command,
     LookUpOwn, LookUpOrigin, Persist, Withdraw, ReadClosed, CheckVerified,
     WriteOutcome, Materialize, MatchOutcome, SkipMeasured, ReadLabels, MeasureOnce,
     ReadVerified, Measure, ReadRows, WritePromotion, NextFamily, Refuse, Goto, Note

(* Starting, returning, dying and the steps of verify.                     *)
LEMMA UnderWayVerify ==
  ASSUME IInv, NEW p \in Commands,
         \/ Start(p) \/ Return(p) \/ Die(p)
         \/ LookUpOwn(p) \/ LookUpOrigin(p) \/ Persist(p) \/ Withdraw(p)
  PROVE  UnderWay(p)'
<1>1. TypeOK /\ Placed(p) /\ Asm(p) \in Assessments /\ req[p] \in Requests
  BY DEF IInv, UnderWay, TypeOK, Asm, Requests
<1>2. CASE Start(p)
  <2>1. PICK r \in Asked : /\ req'[p] = r /\ pc'[p] = First(r)
    BY <1>1, <1>2 DEF Start, Goto, TypeOK
  <2>2. /\ r.op \in {"verify", "record", "learn", "finalize", "promote"}
        /\ pc'[p] \in {"own", "check", "write", "labels", "closed", "rows"}
        /\ pc'[p] = "own" => r.op = "verify"
        /\ pc'[p] = "write" => r.status # "completed"
        /\ r.op = "finalize" => pc'[p] = "closed"
    BY <2>1, AskedAssumption DEF First, Requests
  <2> QED
    BY <2>1, <2>2 DEF UnderWay, ReadsStand, AsAsked, Placed
<1>3. CASE Return(p) \/ Die(p)
  <2>1. pc'[p] = "idle"
    BY <1>1, <1>3 DEF Return, Die, Forget, Goto, TypeOK
  <2> QED
    BY <2>1 DEF UnderWay, ReadsStand, AsAsked, Placed
<1>4. CASE LookUpOwn(p)
  <2>1. /\ pc'[p] \in {"origin", "persist"} /\ req' = req /\ req[p].op = "verify"
        /\ pc'[p] = "origin" => Origin[Asm(p)] # None
    BY <1>1, <1>4 DEF LookUpOwn, Goto, TypeOK, Placed
  <2>2. view'[p].target = Asm(p)
    BY <1>1, <1>4, BlankType DEF LookUpOwn, Note, TypeOK, Views
  <2> QED
    BY <1>1, <2>1, <2>2, OriginAssumption DEF UnderWay, ReadsStand, AsAsked, Placed, Asm
<1>5. CASE LookUpOrigin(p)
  <2>1. pc'[p] = "persist" /\ req' = req /\ req[p].op = "verify" /\ Origin[Asm(p)] \in Assessments
    BY <1>1, <1>5 DEF LookUpOrigin, Goto, TypeOK, Placed
  <2>2. view'[p].target \in Assessments
    BY <1>1, <1>5, <2>1 DEF LookUpOrigin, Note, TypeOK, Views, Placed
  <2> QED
    BY <2>1, <2>2 DEF UnderWay, ReadsStand, AsAsked, Placed
<1>6. CASE Persist(p)
  <2>1. pc'[p] \in {"withdraw", "done"} /\ req' = req /\ req[p].op = "verify"
    BY <1>1, <1>6 DEF Persist, Goto, TypeOK, Placed
  <2>2. view'[p].target = view[p].target /\ view[p].target \in Assessments
    BY <1>1, <1>6 DEF Persist, Note, TypeOK, Views, Placed
  <2> QED
    BY <2>1, <2>2 DEF UnderWay, ReadsStand, AsAsked, Placed
<1>7. CASE Withdraw(p)
  <2>1. pc'[p] = "done" /\ req' = req /\ req[p].op = "verify"
    BY <1>1, <1>7 DEF Withdraw, Goto, TypeOK, Placed
  <2> QED
    BY <2>1 DEF UnderWay, ReadsStand, AsAsked, Placed
<1> QED
  BY <1>2, <1>3, <1>4, <1>5, <1>6, <1>7

(* A recorded outcome that matches is the one a finalization asks for.     *)
LEMMA MatchedOutcome ==
  ASSUME IInv, NEW p \in Commands, Closed(Asm(p)), Matches(p)
  PROVE  \E k \in DOMAIN outcomes : outcomes[k] = Expected(p)
<1>1. Asm(p) \in Assessments
  BY DEF IInv, TypeOK, Asm, Requests
<1> QED
  BY <1>1, RecordedType DEF IInv, Matches, Expected

(* The steps of record-outcome.                                            *)
LEMMA UnderWayRecord ==
  ASSUME IInv, TablesGrow, NEW p \in Commands,
         \/ ReadClosed(p) \/ CheckVerified(p) \/ WriteOutcome(p)
         \/ Materialize(p) \/ MatchOutcome(p)
  PROVE  UnderWay(p)'
<1>1. /\ TypeOK /\ ReadsStand(p) /\ AsAsked(p) /\ Asm(p) \in Assessments
      /\ req[p] \in Requests /\ req' = req
  BY DEF IInv, UnderWay, TypeOK, Asm, Requests, ReadClosed, CheckVerified,
         WriteOutcome, Materialize, MatchOutcome
<1>2. Asm(p)' = Asm(p) /\ Expected(p)' = Expected(p)
  BY <1>1 DEF Asm, Expected
<1>3. CASE ReadClosed(p) \/ MatchOutcome(p)
  <2>1. /\ pc'[p] \in {"measured", "failed", "check", "write"} /\ outcomes' = outcomes
        /\ pc'[p] = "measured" => Closed(Asm(p)) /\ Matches(p)
        /\ pc'[p] = "write" => req[p].status # "completed"
    BY <1>1, <1>3 DEF ReadClosed, MatchOutcome, Goto, TypeOK, ledger
  <2>2. pc'[p] = "measured" => \E k \in DOMAIN outcomes' : outcomes'[k] = Expected(p)'
    BY <1>2, <2>1, MatchedOutcome
  <2> QED
    BY <1>1, <2>1, <2>2 DEF UnderWay, ReadsStand, AsAsked, Placed
<1>4. CASE CheckVerified(p)
  <2>1. /\ pc'[p] \in {"write", "match", "failed"} /\ guardrails' = guardrails
        /\ pc'[p] = "write" => LatestProceeds(Asm(p))
    BY <1>1, <1>4 DEF CheckVerified, Refuse, Goto, TypeOK, ledger
  <2>2. pc'[p] = "write" => Passed(Asm(p))'
    BY <1>2, <2>1 DEF LatestProceeds, Verifies, Passed
  <2> QED
    BY <1>1, <1>2, <2>1, <2>2 DEF UnderWay, ReadsStand, AsAsked, Placed
<1>5. CASE WriteOutcome(p)
  <2>1. CASE Closed(Asm(p))
    <3>1. pc'[p] \in {"match", "failed"}
      BY <1>1, <1>5, <2>1 DEF WriteOutcome, Refuse, Goto, TypeOK
    <3> QED
      BY <3>1 DEF UnderWay, ReadsStand, AsAsked, Placed
  <2>2. CASE ~Closed(Asm(p))
    <3>1. pc'[p] \in {"lesson", "measured", "done"}
          /\ outcomes' = Append(outcomes, NewOutcome(p))
      BY <1>1, <1>5, <2>2 DEF WriteOutcome, AfterOutcome, Goto, TypeOK
    <3>2. req[p].op = "finalize" => NewOutcome(p) = Expected(p) /\ pc'[p] # "done"
      BY <1>1, <1>5, <2>2 DEF NewOutcome, Expected, WriteOutcome, AfterOutcome, Goto, TypeOK
    <3>3. PICK o : o = NewOutcome(p)
      OBVIOUS
    <3>4. Len(outcomes) + 1 \in DOMAIN outcomes' /\ outcomes'[Len(outcomes) + 1] = o
      BY <1>1, <3>1, <3>3 DEF TypeOK
    <3>5. req[p].op = "finalize" => \E k \in DOMAIN outcomes' : outcomes'[k] = Expected(p)'
      BY <1>2, <3>2, <3>3, <3>4
    <3> QED
      BY <1>1, <3>1, <3>2, <3>5 DEF UnderWay, ReadsStand, AsAsked, Placed
  <2> QED
    BY <2>1, <2>2
<1>6. CASE Materialize(p)
  <2>1. /\ pc[p] = "lesson" /\ outcomes' = outcomes
        /\ pc'[p] = IF req[p].op = "finalize" THEN "measured" ELSE "done"
    BY <1>1, <1>6 DEF Materialize, AfterOutcome, Goto, TypeOK
  <2> QED
    BY <1>1, <1>2, <2>1 DEF UnderWay, ReadsStand, AsAsked, Placed
<1> QED
  BY <1>3, <1>4, <1>5, <1>6

(* The steps of learn.                                                     *)
LEMMA UnderWayLearn ==
  ASSUME IInv, TablesGrow, NEW p \in Commands,
         \/ SkipMeasured(p) \/ ReadLabels(p) \/ MeasureOnce(p)
         \/ ReadVerified(p) \/ Measure(p)
  PROVE  UnderWay(p)'
<1>1. /\ TypeOK /\ OneEach /\ ReadsStand(p) /\ AsAsked(p) /\ Asm(p) \in Assessments
      /\ req[p] \in Requests /\ view[p] \in Views /\ req' = req /\ outcomes' = outcomes
  BY DEF IInv, UnderWay, TypeOK, Asm, Requests, SkipMeasured, ReadLabels,
         MeasureOnce, ReadVerified, Measure, ledger
<1>2. Asm(p)' = Asm(p) /\ Expected(p)' = Expected(p)
  BY <1>1 DEF Asm, Expected
<1>3. CASE SkipMeasured(p)
  <2>1. /\ pc[p] = "measured" /\ errors' = errors
        /\ pc'[p] = IF Measured(Asm(p)) THEN "rows" ELSE "labels"
    BY <1>1, <1>3 DEF SkipMeasured, Goto, TypeOK, ledger
  <2>2. Measured(Asm(p))' <=> Measured(Asm(p))
    BY <1>2, <2>1 DEF Measured
  <2> QED
    BY <1>1, <1>2, <2>1, <2>2 DEF UnderWay, ReadsStand, AsAsked, Placed
<1>4. CASE ReadLabels(p)
  <2>1. /\ pc[p] = "labels" /\ pc'[p] \in {"once", "failed"}
        /\ pc'[p] = "once" => Closed(Asm(p)) /\ view'[p].outcome = Recorded(Asm(p))
    BY <1>1, <1>4 DEF ReadLabels, Goto, Note, TypeOK, Views
  <2>2. pc'[p] = "once" => \E k \in DOMAIN outcomes :
          outcomes[k] = view'[p].outcome /\ outcomes[k].asm = Asm(p)
    BY <1>1, <2>1, RecordedType
  <2> QED
    BY <1>1, <1>2, <2>1, <2>2 DEF UnderWay, ReadsStand, AsAsked, Placed
<1>5. CASE MeasureOnce(p)
  <2>1. /\ pc[p] = "once" /\ pc'[p] \in {"evidence", "failed"} /\ view' = view
    BY <1>1, <1>5 DEF MeasureOnce, Goto, TypeOK
  <2> QED
    BY <1>1, <1>2, <2>1 DEF UnderWay, ReadsStand, AsAsked, Placed
<1>6. CASE ReadVerified(p)
  <2>1. /\ pc[p] = "evidence" /\ pc'[p] = "measure" /\ view'[p].outcome = view[p].outcome
    BY <1>1, <1>6 DEF ReadVerified, Goto, Note, TypeOK, Views
  <2> QED
    BY <1>1, <1>2, <2>1 DEF UnderWay, ReadsStand, AsAsked, Placed
<1>7. CASE Measure(p)
  <2>1. /\ pc[p] = "measure" /\ pc'[p] \in {"rows", "done", "failed"}
        /\ req[p].op = "finalize" => pc'[p] = "rows"
    BY <1>1, <1>7 DEF Measure, Goto, TypeOK
  <2>2. Measured(Asm(p))'
    <3>1. CASE Measured(Asm(p))
      BY <1>2, <1>7, <3>1 DEF Measure, Measured
    <3>2. CASE ~Measured(Asm(p))
      <4>1. PICK e : e = ErrorRow(p)
        OBVIOUS
      <4>2. errors' = Append(errors, e) /\ e.asm = Asm(p) /\ errors \in Seq(ErrorRows)
        BY <1>1, <1>7, <3>2, <4>1 DEF Measure, ErrorRow, TypeOK
      <4>3. Len(errors) + 1 \in DOMAIN errors' /\ errors'[Len(errors) + 1] = e
        BY <4>2
      <4> QED
        BY <1>2, <4>2, <4>3 DEF Measured
    <3> QED
      BY <3>1, <3>2
  <2> QED
    BY <1>1, <1>2, <2>1, <2>2 DEF UnderWay, ReadsStand, AsAsked, Placed
<1> QED
  BY <1>3, <1>4, <1>5, <1>6, <1>7

(* The rows promotion reads are grounded in completed edits.               *)
LEMMA CalibratingTeaches ==
  ASSUME IInv, NEW f, NEW a \in Calibrating(f)
  PROVE  Teaches(a, f)
<1>1. PICK i \in DOMAIN errors : errors[i].asm = a /\ errors[i].production /\ f \in errors[i].observed
  BY DEF Calibrating, Calibrates
<1>2. Grounded(errors[i])
  BY <1>1 DEF IInv, RowsRest
<1> QED
  BY <1>1, <1>2 DEF Grounded, Teaches

(* The steps of promote.                                                   *)
LEMMA UnderWayPromote ==
  ASSUME IInv, TablesGrow, NEW p \in Commands, ReadRows(p) \/ WritePromotion(p)
  PROVE  UnderWay(p)'
<1>1. /\ TypeOK /\ ReadsStand(p) /\ AsAsked(p) /\ view[p] \in Views
      /\ req' = req /\ outcomes' = outcomes /\ errors' = errors
      /\ pc[p] \in {"rows", "promote"}
  BY DEF IInv, UnderWay, TypeOK, ReadRows, WritePromotion, ledger
<1>2. Asm(p)' = Asm(p) /\ Expected(p)' = Expected(p) /\ (Measured(Asm(p))' <=> Measured(Asm(p)))
  BY <1>1 DEF Asm, Expected, Measured
<1>3. CASE NextFamily(p)
  <2>1. pc'[p] \in {"done", "rows"}
    BY <1>1, <1>3 DEF NextFamily, Goto, TypeOK
  <2> QED
    BY <1>1, <1>2, <2>1 DEF UnderWay, ReadsStand, AsAsked, Placed
<1>4. CASE ReadRows(p) /\ ~NextFamily(p)
  <2> DEFINE f == Families[view[p].step]
  <2>1. /\ pc'[p] = "promote" /\ view'[p].step = view[p].step
        /\ view'[p].basis = Calibrating(f)
    BY <1>1, <1>4 DEF ReadRows, Goto, Note, TypeOK, Views
  <2>2. \A a \in view'[p].basis : Teaches(a, Families[view'[p].step])
    BY <2>1, CalibratingTeaches
  <2>3. ASSUME NEW a \in view'[p].basis
        PROVE  Teaches(a, Families[view[p].step])'
    BY <1>1, <2>2 DEF Teaches
  <2> QED
    BY <1>1, <1>2, <2>1, <2>3 DEF UnderWay, ReadsStand, AsAsked, Placed
<1> QED
  BY <1>3, <1>4 DEF WritePromotion

(* Every step leaves every command well under way.                         *)
LEMMA UnderWayStep ==
  ASSUME IInv, [Next]_vars, TypeOK', TablesGrow
  PROVE  \A q \in Commands : UnderWay(q)'
<1>1. TypeOK /\ \A q \in Commands : UnderWay(q)
  BY DEF IInv
<1>2. CASE UNCHANGED <<pc, req, view>>
  BY <1>1, <1>2, OthersWait
<1>3. ASSUME NEW p \in Commands, Start(p) \/ Command(p) \/ Return(p) \/ Die(p)
      PROVE  \A q \in Commands : UnderWay(q)'
  <2>1. UnderWay(p)'
    BY <1>3, UnderWayVerify, UnderWayRecord, UnderWayLearn, UnderWayPromote DEF Command
  <2>2. \A q \in Commands \ {p} : UnderWay(q)'
    BY <1>1, <1>3, OthersStand, OthersWait
  <2> QED
    BY <2>1, <2>2
<1>4. ASSUME NEW a \in Assessments, AcceptRisk(a)
      PROVE  UNCHANGED <<pc, req, view>>
  BY <1>4 DEF AcceptRisk
<1>5. CASE UNCHANGED vars
  BY <1>2, <1>5 DEF vars
<1> QED
  BY <1>2, <1>3, <1>4, <1>5 DEF Next

-------------------------------------------------------------------------------
(***************************************************************************)
(* The theorems                                                            *)
(***************************************************************************)
(* The empty ledger, with the spent sanctions of controlled assessments.   *)
LEMMA InitIInv == Init => IInv
<1> SUFFICES ASSUME Init PROVE IInv
  OBVIOUS
<1>1. TypeOK
  <2>1. <<"consumed">> \in Seq(SanctionStates) /\ <<>> \in Seq(SanctionStates)
    BY DEF SanctionStates
  <2>2. sanctions \in [Assessments -> Seq(SanctionStates)]
    BY <2>1 DEF Init
  <2> QED
    BY <2>2, BlankType, IdleType DEF Init, TypeOK, Places
<1>2. OneEach /\ TriggeredOnce /\ RowsRest
  BY DEF Init, OneEach, TriggeredOnce, RowsRest
<1>3. \A p \in Commands : UnderWay(p)
  BY DEF Init, UnderWay, ReadsStand, AsAsked, Placed
<1> QED
  BY <1>1, <1>2, <1>3 DEF IInv

(* The invariant is inductive.                                             *)
LEMMA StepIInv == IInv /\ [Next]_vars => IInv'
<1> SUFFICES ASSUME IInv, [Next]_vars PROVE IInv'
  OBVIOUS
<1>1. TypeOK' /\ TablesGrow
  BY TypeStep
<1>2. Tables'
  BY <1>1, TablesStep
<1>3. \A q \in Commands : UnderWay(q)'
  BY <1>1, UnderWayStep
<1> QED
  BY <1>1, <1>2, <1>3 DEF IInv, Tables

(* What a command read while it is under way is still true when it writes. *)
THEOREM ReadsHold == Spec => []IInv
BY InitIInv, StepIInv, PTL DEF Spec

(* The tables and the commands keep their types.                           *)
THEOREM TypeCorrect == Spec => []TypeOK
<1>1. IInv => TypeOK
  BY DEF IInv
<1> QED
  BY <1>1, ReadsHold, PTL

(* However many commands retry and race, an assessment is closed, measured *)
(* and taught from once, and a finalization writes a family once.          *)
THEOREM EverythingOnce == Spec => []ClosedOnce
<1>1. IInv => ClosedOnce
  BY DEF IInv, OneEach, TriggeredOnce, ClosedOnce
<1> QED
  BY <1>1, ReadsHold, PTL

(* Lessons and facts come from edits that were verified and carried out,   *)
(* and on labels a host reported.                                          *)
THEOREM LearnsFromVerified == Spec => []LearnedFromVerified
<1>1. IInv => LearnedFromVerified
  <2> SUFFICES ASSUME IInv PROVE LearnedFromVerified
    OBVIOUS
  <2>1. ASSUME NEW a, NEW f, Teaches(a, f)
        PROVE  CompletedVerified(a)
    <3>1. PICK k \in DOMAIN outcomes : outcomes[k].asm = a /\ outcomes[k].status = "completed"
      BY <2>1 DEF Teaches
    <3>2. Passed(a)
      BY <3>1 DEF IInv, RowsRest
    <3> QED
      BY <3>1, <3>2 DEF Passed, CompletedVerified, Verifies
  <2>2. \A i \in DOMAIN lessons : CompletedVerified(lessons[i])
    BY <2>1 DEF IInv, RowsRest
  <2>3. ASSUME NEW i \in DOMAIN snapshots, NEW a \in snapshots[i].basis
        PROVE  /\ CompletedVerified(a)
               /\ snapshots[i].family # "benefit" =>
                    \E k \in Outcomes(a) :
                      /\ outcomes[k].source = "host"
                      /\ snapshots[i].family \in Labelled[outcomes[k].detail]
    <3>1. Teaches(a, snapshots[i].family)
      BY <2>3 DEF IInv, RowsRest
    <3>2. CompletedVerified(a)
      BY <2>1, <3>1
    <3>3. snapshots[i].family # "benefit" =>
            \E k \in Outcomes(a) :
              /\ outcomes[k].source = "host"
              /\ snapshots[i].family \in Labelled[outcomes[k].detail]
      BY <3>1 DEF Teaches, Outcomes
    <3> QED
      BY <3>2, <3>3
  <2> QED
    BY <2>2, <2>3 DEF LearnedFromVerified
<1> QED
  BY <1>1, ReadsHold, PTL

(* A finalization that returns has closed the assessment as it was asked,  *)
(* and the assessment is measured accordingly, whoever wrote which part.   *)
THEOREM FinalizationCloses == Spec => []FinalizedIsClosed
<1>1. IInv => FinalizedIsClosed
  <2> SUFFICES ASSUME IInv, NEW p \in Commands, pc[p] = "done", req[p].op = "finalize"
               PROVE  /\ Closed(Asm(p)) /\ Matches(p)
                      /\ \E i \in DOMAIN errors :
                           /\ errors[i].asm = Asm(p)
                           /\ errors[i].production <=> req[p].status = "completed"
    BY DEF FinalizedIsClosed
  <2>1. PICK k \in DOMAIN outcomes : outcomes[k] = Expected(p)
    BY DEF IInv, UnderWay, AsAsked
  <2>2. outcomes[k].asm = Asm(p) /\ outcomes[k].status = req[p].status
    BY <2>1 DEF Expected
  <2>3. Asm(p) \in Assessments
    BY DEF IInv, TypeOK, Asm, Requests
  <2>4. Closed(Asm(p))
    BY <2>2 DEF Closed, Outcomes
  <2>5. Recorded(Asm(p)) = outcomes[k]
    BY <2>2, <2>3, <2>4, RecordedType DEF IInv, OneEach
  <2>6. Matches(p)
    BY <2>1, <2>5 DEF Matches, Expected
  <2>7. PICK i \in DOMAIN errors : errors[i].asm = Asm(p)
    BY DEF IInv, UnderWay, AsAsked, Measured
  <2>8. Grounded(errors[i])
    BY DEF IInv, RowsRest
  <2>9. errors[i].production <=> req[p].status = "completed"
    BY <2>2, <2>7, <2>8 DEF Grounded, IInv, OneEach
  <2> QED
    BY <2>4, <2>6, <2>7, <2>9
<1> QED
  BY <1>1, ReadsHold, PTL

-------------------------------------------------------------------------------
(***************************************************************************)
(* The sanctions of an edit that drifted                                   *)
(***************************************************************************)
Withdrawing(p) ==
  /\ req[p].op = "verify" =>
       pc[p] \in {"idle", "own", "origin", "persist", "withdraw", "done", "failed"}
  /\ pc[p] = "origin" => view[p].live = {}
  /\ pc[p] \in {"persist", "withdraw"} =>
       \A s \in view[p].live : s[1] = view[p].target /\ s[2] \in DOMAIN sanctions[s[1]]
  /\ pc[p] = "done" /\ req[p].op = "verify" /\ view[p].drift =>
       \A s \in view[p].live :
         /\ s[1] \in Assessments /\ s[2] \in DOMAIN sanctions[s[1]]
         /\ sanctions[s[1]][s[2]] = "invalidated"

WInv == \A p \in Commands : Withdrawing(p)

(* A sanction is never removed, and an invalidated one never revived.      *)
SanctionsStay ==
  \A a \in Assessments : \A i \in DOMAIN sanctions[a] :
    /\ i \in DOMAIN sanctions'[a]
    /\ sanctions[a][i] = "invalidated" => sanctions'[a][i] = "invalidated"

(* No step revives a sanction.                                             *)
LEMMA SanctionsStep ==
  ASSUME IInv, [Next]_vars
  PROVE  SanctionsStay
<1>1. TypeOK /\ sanctions \in [Assessments -> Seq(SanctionStates)]
  BY DEF IInv, TypeOK
<1>2. CASE UNCHANGED sanctions
  BY <1>2 DEF SanctionsStay
<1>3. ASSUME NEW a \in Assessments, AcceptRisk(a)
      PROVE  SanctionsStay
  <2>1. sanctions' = [sanctions EXCEPT ![a] = Append(@, "active")]
    BY <1>3 DEF AcceptRisk
  <2>2. sanctions[a] \in Seq(SanctionStates)
    BY <1>1
  <2> QED
    BY <1>1, <2>1, <2>2 DEF SanctionsStay
<1>4. ASSUME NEW p \in Commands, Withdraw(p)
      PROVE  SanctionsStay
  <2> DEFINE a == view[p].target
  <2>1. a \in Assessments
    BY <1>4 DEF IInv, UnderWay, Placed, Withdraw
  <2>2. sanctions' = [sanctions EXCEPT ![a] = [i \in DOMAIN @ |-> "invalidated"]]
    BY <1>4 DEF Withdraw
  <2> HIDE DEF a
  <2> QED
    BY <1>1, <2>1, <2>2 DEF SanctionsStay
<1>5. ASSUME NEW p \in Commands, Start(p) \/ Return(p) \/ Die(p) \/ (Command(p) /\ ~Withdraw(p))
      PROVE  UNCHANGED sanctions
  BY <1>5 DEF Start, Return, Die, Forget, Command, LookUpOwn, LookUpOrigin, Persist,
       ReadClosed, CheckVerified, WriteOutcome, Materialize, MatchOutcome,
       SkipMeasured, ReadLabels, MeasureOnce, ReadVerified, Measure,
       ReadRows, WritePromotion, ledger
<1>6. CASE UNCHANGED vars
  BY <1>2, <1>6 DEF vars
<1> QED
  BY <1>2, <1>3, <1>4, <1>5, <1>6 DEF Next

(* A command that does nothing keeps what it has withdrawn.                *)
LEMMA WithdrawnStays ==
  ASSUME IInv, SanctionsStay, NEW q \in Commands, Withdrawing(q),
         pc'[q] = pc[q], req'[q] = req[q], view'[q] = view[q]
  PROVE  Withdrawing(q)'
<1>1. pc[q] \in {"persist", "withdraw"} => view[q].target \in Assessments
  BY DEF IInv, UnderWay, Placed
<1> QED
  BY <1>1 DEF Withdrawing, SanctionsStay

(* A step of p takes it one place further.                                 *)
LEMMA WithdrawingRuns ==
  ASSUME IInv, SanctionsStay, NEW p \in Commands, Withdrawing(p),
         Start(p) \/ Command(p) \/ Return(p) \/ Die(p)
  PROVE  Withdrawing(p)'
<1>1. /\ TypeOK /\ Placed(p) /\ Asm(p) \in Assessments /\ req[p] \in Requests
      /\ view[p] \in Views /\ sanctions \in [Assessments -> Seq(SanctionStates)]
  BY DEF IInv, UnderWay, TypeOK, Asm, Requests
<1>2. CASE Start(p)
  <2>1. PICK r \in Asked : req'[p] = r /\ pc'[p] = First(r)
    BY <1>1, <1>2 DEF Start, Goto, TypeOK
  <2>2. /\ pc'[p] \in {"own", "check", "write", "labels", "closed", "rows"}
        /\ r.op = "verify" => pc'[p] = "own"
    BY <2>1, AskedAssumption DEF First, Requests
  <2> QED
    BY <2>1, <2>2 DEF Withdrawing
<1>3. CASE Return(p) \/ Die(p)
  <2>1. pc'[p] = "idle"
    BY <1>1, <1>3 DEF Return, Die, Forget, Goto, TypeOK
  <2> QED
    BY <2>1 DEF Withdrawing
<1>4. CASE LookUpOwn(p)
  <2>1. /\ pc'[p] = IF Live(Asm(p)) = {} /\ Origin[Asm(p)] # None THEN "origin" ELSE "persist"
        /\ sanctions' = sanctions
    BY <1>1, <1>4 DEF LookUpOwn, Goto, TypeOK, ledger
  <2>2. view'[p].target = Asm(p) /\ view'[p].live = Live(Asm(p))
    BY <1>1, <1>4, BlankType DEF LookUpOwn, Note, TypeOK, Views
  <2>3. \A s \in Live(Asm(p)) : s[1] = Asm(p) /\ s[2] \in DOMAIN sanctions[s[1]]
    BY DEF Live
  <2> QED
    BY <2>1, <2>2, <2>3 DEF Withdrawing
<1>5. CASE LookUpOrigin(p)
  <2> DEFINE origin == Origin[Asm(p)]
  <2>1. pc'[p] = "persist" /\ sanctions' = sanctions /\ view[p].live = {}
    BY <1>1, <1>5 DEF LookUpOrigin, Goto, TypeOK, ledger, Withdrawing
  <2>2. view'[p].live # {} => view'[p].target = origin /\ view'[p].live = Live(origin)
    BY <1>1, <1>5, <2>1 DEF LookUpOrigin, Note, TypeOK, Views
  <2>3. \A s \in Live(origin) : s[1] = origin /\ s[2] \in DOMAIN sanctions[s[1]]
    BY DEF Live
  <2> QED
    BY <2>1, <2>2, <2>3 DEF Withdrawing
<1>6. CASE Persist(p)
  <2>1. PICK e \in Offered :
          /\ Note(p, [view[p] EXCEPT !.drift = Drift(e)])
          /\ Goto(p, IF Drift(e) THEN "withdraw" ELSE "done")
    BY <1>6 DEF Persist
  <2>2. pc'[p] = IF Drift(e) THEN "withdraw" ELSE "done"
    BY <1>1, <2>1 DEF Goto, TypeOK
  <2>3. /\ view'[p].live = view[p].live /\ view'[p].target = view[p].target
        /\ view'[p].drift = Drift(e)
    BY <1>1, <2>1 DEF Note, TypeOK, Views
  <2>4. sanctions' = sanctions /\ pc[p] = "persist"
    BY <1>6 DEF Persist
  <2> QED
    BY <2>2, <2>3, <2>4 DEF Withdrawing
<1>7. CASE Withdraw(p)
  <2> DEFINE a == view[p].target
  <2>1. a \in Assessments /\ pc[p] = "withdraw" /\ pc'[p] = "done" /\ view' = view
    BY <1>1, <1>7 DEF Placed, Withdraw, Goto, TypeOK
  <2>2. \A i \in DOMAIN sanctions[a] :
          i \in DOMAIN sanctions'[a] /\ sanctions'[a][i] = "invalidated"
    BY <1>1, <1>7, <2>1 DEF Withdraw
  <2>3. \A s \in view[p].live : s[1] = a /\ s[2] \in DOMAIN sanctions[s[1]]
    BY <2>1 DEF Withdrawing
  <2> HIDE DEF a
  <2>4. \A s \in view'[p].live :
          /\ s[1] \in Assessments /\ s[2] \in DOMAIN sanctions'[s[1]]
          /\ sanctions'[s[1]][s[2]] = "invalidated"
    BY <2>1, <2>2, <2>3
  <2> QED
    BY <2>1, <2>4 DEF Withdrawing
<1>8. ASSUME Command(p),
             ~(LookUpOwn(p) \/ LookUpOrigin(p) \/ Persist(p) \/ Withdraw(p))
      PROVE  Withdrawing(p)'
  <2>1. /\ pc[p] \in {"check", "write", "lesson", "closed", "match", "measured", "labels",
                      "once", "evidence", "measure", "rows", "promote"}
        /\ req' = req
    BY <1>8 DEF Command, ReadClosed, CheckVerified, WriteOutcome, Materialize,
         MatchOutcome, SkipMeasured, ReadLabels, MeasureOnce, ReadVerified, Measure,
         ReadRows, WritePromotion
  <2>2. pc'[p] \notin {"origin", "persist", "withdraw"}
    BY <1>1, <1>8 DEF Command, ReadClosed, CheckVerified, WriteOutcome, Materialize,
         MatchOutcome, SkipMeasured, ReadLabels, MeasureOnce, ReadVerified, Measure,
         ReadRows, WritePromotion, NextFamily, AfterOutcome, Refuse, Goto, TypeOK
  <2> QED
    BY <2>1, <2>2 DEF Withdrawing
<1> QED
  BY <1>2, <1>3, <1>4, <1>5, <1>6, <1>7, <1>8

(* A verify that found drift has withdrawn every sanction it found live.   *)
THEOREM DriftIsWithdrawn == Spec => []DriftWithdraws
<1>1. Init => WInv
  BY DEF Init, WInv, Withdrawing
<1>2. IInv /\ WInv /\ [Next]_vars => WInv'
  <2> SUFFICES ASSUME IInv, WInv, [Next]_vars, NEW q \in Commands PROVE Withdrawing(q)'
    BY DEF WInv
  <2>1. SanctionsStay /\ Withdrawing(q) /\ TypeOK
    BY SanctionsStep DEF WInv, IInv
  <2>2. CASE UNCHANGED <<pc, req, view>>
    BY <2>1, <2>2, WithdrawnStays
  <2>3. ASSUME NEW p \in Commands, Start(p) \/ Command(p) \/ Return(p) \/ Die(p)
        PROVE  Withdrawing(q)'
    BY <2>1, <2>3, WithdrawingRuns, WithdrawnStays, OthersStand
  <2>4. ASSUME NEW a \in Assessments, AcceptRisk(a)
        PROVE  UNCHANGED <<pc, req, view>>
    BY <2>4 DEF AcceptRisk
  <2> QED
    BY <2>2, <2>3, <2>4 DEF Next, vars
<1>3. WInv => DriftWithdraws
  BY DEF WInv, Withdrawing, DriftWithdraws
<1> QED
  BY <1>1, <1>2, <1>3, ReadsHold, PTL DEF Spec
===============================================================================
