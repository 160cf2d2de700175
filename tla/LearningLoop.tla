----------------------------- MODULE LearningLoop -----------------------------
(***************************************************************************)
(* What follows an edit.  verify compares it with its assessment and       *)
(* withdraws the sanction of one that drifted; record-outcome closes the   *)
(* assessment; learn measures its predictions; promote turns measured rows *)
(* into facts that later assessments apply; finalize-outcome does the last *)
(* three in a row and may be retried.  Each is a process of its own, and   *)
(* only the ledger's writes are transactions: everything a command decides *)
(* on was read earlier.  A command may die between any two of its steps.   *)
(***************************************************************************)
EXTENDS PostEditVerify, Sequences

CONSTANTS
  Commands,      \* command invocations that may run at a time
  Assessments,   \* the assessments in the ledger
  None,          \* no assessment
  Origin,        \* the assessment whose sanction a controlled one consumed
  Required,      \* the checks each assessment's binding requires
  Controls,      \* the checks a sanction adds
  Offered,       \* the evidence a verify may meet
  Details,       \* the outcome details a host or an agent may report
  Labelled,      \* the families each detail has labels for
  Asked,         \* the commands that may be given
  Refined,       \* the assessments whose numbers a graph refinement moved
  MinSamples,    \* min_calibration_samples
  MaxVerifies,   \* bound: guardrail rows
  MaxSanctions,  \* bound: sanctions
  MaxSnapshots   \* bound: snapshots

(* The three families promotion goes through, in its order.                *)
Families == <<"risk", "benefit", "review_cost">>
Family == {"risk", "benefit", "review_cost"}

Statuses == {"completed", "skipped", "rejected"}

Requests ==
  [op: {"verify", "record", "learn", "finalize", "promote"}, asm: Assessments,
   status: Statuses, detail: Details, source: {"host", "agent"}]

ASSUME OriginAssumption == Origin \in [Assessments -> Assessments \cup {None}]
ASSUME NoneAssumption == None \notin Assessments
ASSUME OfferedAssumption == Offered \subseteq Evidence
ASSUME ChecksAssumption ==
  Required \in [Assessments -> SUBSET Checks] /\ Controls \subseteq Checks
ASSUME LabelledAssumption == Labelled \in [Details -> SUBSET Family]
ASSUME AskedAssumption == Asked \subseteq Requests /\ Asked # {}
ASSUME RefinedAssumption == Refined \subseteq Assessments
ASSUME FiniteAssumption == IsFiniteSet(Assessments)
ASSUME BoundsAssumption ==
  /\ MinSamples \in Nat /\ MaxVerifies \in Nat
  /\ MaxSanctions \in Nat /\ MaxSnapshots \in Nat

VARIABLES
  guardrails,  \* post_assessment_guardrails
  sanctions,   \* sanction_events: the states of each assessment's, oldest first
  outcomes,    \* the outcomes table
  lessons,     \* learning_context
  errors,      \* prediction_errors: the rows of one measurement as one record
  snapshots,   \* risk_snapshots, each with the facts of its batch
  pc,          \* where each command is
  req,         \* what it was asked
  view         \* what it has read

ledger == <<guardrails, sanctions, outcomes, lessons, errors, snapshots>>
vars == <<guardrails, sanctions, outcomes, lessons, errors, snapshots, pc, req, view>>

OutcomeRows ==
  [asm: Assessments, status: Statuses, detail: Details, source: {"host", "agent"}]
GuardrailRows == [asm: Assessments, decision: Decisions, drift: BOOLEAN]
SanctionStates == {"active", "consumed", "invalidated"}
ErrorRows == [asm: Assessments, production: BOOLEAN, observed: SUBSET Family]
SnapshotRows ==
  [status: {"shadow", "active"}, family: Family \cup {"measurement"},
   trigger: Assessments \cup {None}, basis: SUBSET Assessments]

(* What a command remembers: the sanctions it found live and the           *)
(* assessment it will withdraw them from, whether the edit drifted, the    *)
(* outcome and the verification it measures, the family it promotes and on *)
(* which assessments.                                                      *)
Views ==
  [live: SUBSET (Assessments \X Nat), target: Assessments \cup {None}, drift: BOOLEAN,
   outcome: OutcomeRows \cup {None}, verified: BOOLEAN,
   step: 1..3, basis: SUBSET Assessments]
Blank ==
  [live |-> {}, target |-> None, drift |-> FALSE, outcome |-> None,
   verified |-> FALSE, step |-> 1, basis |-> {}]

(* What a command that is not running has been asked.                      *)
Idle == CHOOSE r \in Asked : TRUE

Places ==
  {"idle", "own", "origin", "persist", "withdraw", "check", "write", "lesson",
   "closed", "match", "measured", "labels", "once", "evidence", "measure",
   "rows", "promote", "done", "failed"}

(* The tables and the commands under way.                                  *)
TypeOK ==
  /\ guardrails \in Seq(GuardrailRows)
  /\ sanctions \in [Assessments -> Seq(SanctionStates)]
  /\ outcomes \in Seq(OutcomeRows)
  /\ lessons \in Seq(Assessments)
  /\ errors \in Seq(ErrorRows)
  /\ snapshots \in Seq(SnapshotRows)
  /\ pc \in [Commands -> Places]
  /\ req \in [Commands -> Requests]
  /\ view \in [Commands -> Views]

(* A controlled assessment was persisted with its origin's sanction spent. *)
Init ==
  /\ guardrails = <<>>
  /\ sanctions = [a \in Assessments |->
                    IF \E b \in Assessments : Origin[b] = a THEN <<"consumed">> ELSE <<>>]
  /\ outcomes = <<>>
  /\ lessons = <<>>
  /\ errors = <<>>
  /\ snapshots = <<>>
  /\ pc = [p \in Commands |-> "idle"]
  /\ req = [p \in Commands |-> Idle]
  /\ view = [p \in Commands |-> Blank]

Goto(p, where) == pc' = [pc EXCEPT ![p] = where]
Note(p, seen) == view' = [view EXCEPT ![p] = seen]

(* The assessment p was asked about.                                       *)
Asm(p) == req[p].asm

-------------------------------------------------------------------------------
(***************************************************************************)
(* What the ledger answers                                                 *)
(***************************************************************************)
Verifies(a) == {i \in DOMAIN guardrails : guardrails[i].asm = a}

(* latest_guardrails: the newest row of a, whose decision is "proceed".    *)
LatestProceeds(a) ==
  \E i \in Verifies(a) :
    /\ guardrails[i].decision = "proceed"
    /\ \A j \in Verifies(a) : j <= i

Outcomes(a) == {i \in DOMAIN outcomes : outcomes[i].asm = a}
Closed(a) == Outcomes(a) # {}

(* load_outcomes(a)[-1]                                                    *)
Recorded(a) == outcomes[CHOOSE i \in Outcomes(a) : \A j \in Outcomes(a) : j <= i]

Measured(a) == \E i \in DOMAIN errors : errors[i].asm = a

(* active_sanction_for_assessment finds the newest of these; all of them   *)
(* are those invalidate_sanctions_for_assessment would take.               *)
Live(a) == {<<a, i>> : i \in {j \in DOMAIN sanctions[a] : sanctions[a][j] # "invalidated"}}

(* matching_recorded_outcome, once there is one.                           *)
Matches(p) ==
  Recorded(Asm(p)) = [asm |-> Asm(p), status |-> req[p].status,
                      detail |-> req[p].detail, source |-> "host"]

(* _validate_learning_context_chain, as far as it is not a hash: the       *)
(* latest verification of every assessment with a lesson proceeds.         *)
LessonsStand == \A i \in DOMAIN lessons : LatestProceeds(lessons[i])

-------------------------------------------------------------------------------
(***************************************************************************)
(* A command starts, returns, or dies                                      *)
(***************************************************************************)
First(r) ==
  CASE r.op = "verify" -> "own"
    [] r.op = "record" -> IF r.status = "completed" THEN "check" ELSE "write"
    [] r.op = "learn" -> "labels"
    [] r.op = "finalize" -> "closed"
    [] r.op = "promote" -> "rows"

Start(p) ==
  /\ pc[p] = "idle"
  /\ \E r \in Asked :
       /\ req' = [req EXCEPT ![p] = r]
       /\ Goto(p, First(r))
  /\ Note(p, Blank)
  /\ UNCHANGED ledger

(* Nothing outlives a command but what it wrote.                           *)
Forget(p) ==
  /\ Goto(p, "idle")
  /\ req' = [req EXCEPT ![p] = Idle]
  /\ Note(p, Blank)
  /\ UNCHANGED ledger

Return(p) == pc[p] \in {"done", "failed"} /\ Forget(p)
Die(p) == pc[p] \notin {"idle", "done", "failed"} /\ Forget(p)

(* create_sanction: the file an operator writes may name any assessment.   *)
AcceptRisk(a) ==
  /\ Len(sanctions[a]) < MaxSanctions
  /\ sanctions' = [sanctions EXCEPT ![a] = Append(@, "active")]
  /\ UNCHANGED <<guardrails, outcomes, lessons, errors, snapshots, pc, req, view>>

-------------------------------------------------------------------------------
(***************************************************************************)
(* verify                                                                  *)
(***************************************************************************)
LookUpOwn(p) ==
  /\ pc[p] = "own"
  /\ Note(p, [Blank EXCEPT !.live = Live(Asm(p)), !.target = Asm(p)])
  /\ Goto(p, IF Live(Asm(p)) = {} /\ Origin[Asm(p)] # None THEN "origin" ELSE "persist")
  /\ UNCHANGED <<ledger, req>>

(* Mutant of LookUpOrigin: the sanction is the origin's, the withdrawal is *)
(* not.                                                                    *)
LookUpOriginOnly(p) ==
  /\ pc[p] = "origin"
  /\ Note(p, [view[p] EXCEPT !.live = Live(Origin[Asm(p)])])
  /\ Goto(p, "persist")
  /\ UNCHANGED <<ledger, req>>

(* A controlled assessment without a sanction of its own answers for the   *)
(* one it consumed.                                                        *)
LookUpOrigin(p) ==
  LET origin == Origin[Asm(p)] IN
  /\ pc[p] = "origin"
  /\ Note(p, IF Live(origin) = {} THEN view[p]
             ELSE [view[p] EXCEPT !.live = Live(origin), !.target = origin])
  /\ Goto(p, "persist")
  /\ UNCHANGED <<ledger, req>>

Persist(p) ==
  /\ pc[p] = "persist"
  /\ Len(guardrails) < MaxVerifies
  /\ \E e \in Offered :
       LET required == Required[Asm(p)] \cup (IF view[p].live = {} THEN {} ELSE Controls)
       IN /\ guardrails' = Append(guardrails, [asm |-> Asm(p),
                                               decision |-> PreCommit(e, required),
                                               drift |-> Drift(e)])
          /\ Note(p, [view[p] EXCEPT !.drift = Drift(e)])
          /\ Goto(p, IF Drift(e) THEN "withdraw" ELSE "done")
  /\ UNCHANGED <<sanctions, outcomes, lessons, errors, snapshots, req>>

(* invalidate_sanctions_for_assessment                                     *)
Withdraw(p) ==
  LET a == view[p].target IN
  /\ pc[p] = "withdraw"
  /\ sanctions' = [sanctions EXCEPT ![a] = [i \in DOMAIN @ |-> "invalidated"]]
  /\ Goto(p, "done")
  /\ UNCHANGED <<guardrails, outcomes, lessons, errors, snapshots, req, view>>

-------------------------------------------------------------------------------
(***************************************************************************)
(* record-outcome, and the first half of finalize-outcome                  *)
(***************************************************************************)
(* ValueError: finalize looks again whether somebody else recorded it.     *)
Refuse(p) == Goto(p, IF req[p].op = "finalize" THEN "match" ELSE "failed")

(* Mutant of ReadClosed: closed is closed, whatever was recorded.          *)
ReadClosedAsAnything(p) ==
  /\ pc[p] = "closed"
  /\ Goto(p, IF Closed(Asm(p)) THEN "measured"
             ELSE IF req[p].status = "completed" THEN "check" ELSE "write")
  /\ UNCHANGED <<ledger, req, view>>

(* finalize reads whether the assessment is closed already.                *)
ReadClosed(p) ==
  /\ pc[p] = "closed"
  /\ Goto(p, IF Closed(Asm(p)) THEN (IF Matches(p) THEN "measured" ELSE "failed")
             ELSE IF req[p].status = "completed" THEN "check" ELSE "write")
  /\ UNCHANGED <<ledger, req, view>>

(* A completed outcome wants the latest verification to proceed.           *)
CheckVerified(p) ==
  /\ pc[p] = "check"
  /\ IF LatestProceeds(Asm(p)) THEN Goto(p, "write") ELSE Refuse(p)
  /\ UNCHANGED <<ledger, req, view>>

NewOutcome(p) ==
  [asm |-> Asm(p), status |-> req[p].status, detail |-> req[p].detail,
   source |-> IF req[p].op = "finalize" THEN "host" ELSE req[p].source]

AfterOutcome(p) == IF req[p].op = "finalize" THEN "measured" ELSE "done"

(* record_outcome: an assessment closes once.                              *)
WriteOutcome(p) ==
  /\ pc[p] = "write"
  /\ IF Closed(Asm(p)) THEN Refuse(p) /\ UNCHANGED outcomes
     ELSE /\ outcomes' = Append(outcomes, NewOutcome(p))
          /\ Goto(p, IF req[p].status = "completed" THEN "lesson" ELSE AfterOutcome(p))
  /\ UNCHANGED <<guardrails, sanctions, lessons, errors, snapshots, req, view>>

(* materialize_learning_context: one transaction, whose failure is only    *)
(* reported.                                                               *)
Materialize(p) ==
  LET a == Asm(p) IN
  /\ pc[p] = "lesson"
  /\ lessons' = IF /\ LessonsStand /\ LatestProceeds(a)
                   /\ \A i \in DOMAIN lessons : lessons[i] # a
                   /\ Cardinality(Outcomes(a)) = 1 /\ Recorded(a).status = "completed"
                THEN Append(lessons, a) ELSE lessons
  /\ Goto(p, AfterOutcome(p))
  /\ UNCHANGED <<guardrails, sanctions, outcomes, errors, snapshots, req, view>>

MatchOutcome(p) ==
  /\ pc[p] = "match"
  /\ Goto(p, IF Closed(Asm(p)) /\ Matches(p) THEN "measured" ELSE "failed")
  /\ UNCHANGED <<ledger, req, view>>

-------------------------------------------------------------------------------
(***************************************************************************)
(* learn, and the second half of finalize-outcome                          *)
(***************************************************************************)
(* finalize measures only what is not measured yet.                        *)
SkipMeasured(p) ==
  /\ pc[p] = "measured"
  /\ Goto(p, IF Measured(Asm(p)) THEN "rows" ELSE "labels")
  /\ UNCHANGED <<ledger, req, view>>

ReadLabels(p) ==
  /\ pc[p] = "labels"
  /\ IF Closed(Asm(p))
     THEN Goto(p, "once") /\ Note(p, [view[p] EXCEPT !.outcome = Recorded(Asm(p))])
     ELSE Goto(p, "failed") /\ UNCHANGED view
  /\ UNCHANGED <<ledger, req>>

(* measure_learning's own check raises a plain ValueError, which finalize  *)
(* does not expect.                                                        *)
MeasureOnce(p) ==
  /\ pc[p] = "once"
  /\ Goto(p, IF Measured(Asm(p)) THEN "failed" ELSE "evidence")
  /\ UNCHANGED <<ledger, req, view>>

(* assessment_detail: whatever was verified last, as of now.               *)
ReadVerified(p) ==
  /\ pc[p] = "evidence"
  /\ Note(p, [view[p] EXCEPT !.verified = Verifies(Asm(p)) # {}])
  /\ Goto(p, "measure")
  /\ UNCHANGED <<ledger, req>>

(* extract_labels: a label counts only when a host reported it.            *)
Labels(outcome) == IF outcome.source = "host" THEN Labelled[outcome.detail] ELSE {}

(* Mutant of ErrorRow: every measurement is a production one.              *)
ErrorRowProduction(p) ==
  [asm |-> Asm(p), production |-> TRUE,
   observed |-> Labels(view[p].outcome)
                  \cup (IF view[p].verified THEN {"benefit"} ELSE {})]

(* build_error_rows: what has no label is censored, the measured benefit   *)
(* comes from verify, and only a completed edit calibrates production.     *)
ErrorRow(p) ==
  [asm |-> Asm(p), production |-> view[p].outcome.status = "completed",
   observed |-> Labels(view[p].outcome)
                  \cup (IF view[p].verified THEN {"benefit"} ELSE {})]

ShadowRow == [status |-> "shadow", family |-> "measurement", trigger |-> None, basis |-> {}]

(* Mutant of Measure: measured again if the check before the lock passed.  *)
MeasureUnlocked(p) ==
  /\ pc[p] = "measure"
  /\ errors' = Append(errors, ErrorRow(p))
  /\ snapshots' = Append(snapshots, ShadowRow)
  /\ Goto(p, IF req[p].op = "finalize" THEN "rows" ELSE "done")
  /\ Note(p, Blank)
  /\ UNCHANGED <<guardrails, sanctions, outcomes, lessons, req>>

(* insert_learning_measurement: rows and shadow snapshot in one            *)
(* transaction, unless another command measured meanwhile.                 *)
Measure(p) ==
  /\ pc[p] = "measure"
  /\ IF Measured(Asm(p))
     THEN /\ Goto(p, IF req[p].op = "finalize" THEN "rows" ELSE "failed")
          /\ UNCHANGED <<errors, snapshots>>
     ELSE /\ errors' = Append(errors, ErrorRow(p))
          /\ snapshots' = Append(snapshots, ShadowRow)
          /\ Goto(p, IF req[p].op = "finalize" THEN "rows" ELSE "done")
  /\ Note(p, Blank)
  /\ UNCHANGED <<guardrails, sanctions, outcomes, lessons, req>>

-------------------------------------------------------------------------------
(***************************************************************************)
(* promote, and the last part of finalize-outcome                          *)
(***************************************************************************)
(* The calibration views: observed rows of measurements in production.     *)
Calibrates(row, f) == row.production /\ f \in row.observed

(* load_production_calibration_rows of a family, less what a graph         *)
(* refinement conditioned.                                                 *)
Calibrating(f) ==
  {a \in Assessments : \E i \in DOMAIN errors :
     errors[i].asm = a /\ Calibrates(errors[i], f)} \ Refined

Enough(basis) == Cardinality(basis) >= MinSamples /\ Cardinality(basis) >= 2

NextFamily(p) ==
  IF view[p].step = 3 THEN Goto(p, "done") /\ Note(p, Blank)
  ELSE Goto(p, "rows") /\ Note(p, [view[p] EXCEPT !.step = @ + 1, !.basis = {}])

(* The rows are read; without enough of them, or when the replay or the    *)
(* drift freeze objects, the family is left alone.                         *)
ReadRows(p) ==
  LET basis == Calibrating(Families[view[p].step]) IN
  /\ pc[p] = "rows"
  /\ \/ NextFamily(p)
     \/ /\ Enough(basis)
        /\ Goto(p, "promote")
        /\ Note(p, [view[p] EXCEPT !.basis = basis])
  /\ UNCHANGED <<ledger, req>>

Trigger(p) == IF req[p].op = "finalize" THEN Asm(p) ELSE None

Promoted(p) ==
  [status |-> "active", family |-> Families[view[p].step], trigger |-> Trigger(p),
   basis |-> view[p].basis]

(* insert_learned_fact_batch_with_snapshot: a finalization writes each     *)
(* family once.                                                            *)
WritePromotion(p) ==
  /\ pc[p] = "promote"
  /\ IF /\ Trigger(p) # None
        /\ \E i \in DOMAIN snapshots :
             /\ snapshots[i].trigger = Trigger(p)
             /\ snapshots[i].family = Families[view[p].step]
     THEN UNCHANGED snapshots
     ELSE Len(snapshots) < MaxSnapshots /\ snapshots' = Append(snapshots, Promoted(p))
  /\ NextFamily(p)
  /\ UNCHANGED <<guardrails, sanctions, outcomes, lessons, errors, req>>

-------------------------------------------------------------------------------
Command(p) ==
  \/ LookUpOwn(p) \/ LookUpOrigin(p) \/ Persist(p) \/ Withdraw(p)
  \/ ReadClosed(p) \/ CheckVerified(p) \/ WriteOutcome(p) \/ Materialize(p)
  \/ MatchOutcome(p)
  \/ SkipMeasured(p) \/ ReadLabels(p) \/ MeasureOnce(p) \/ ReadVerified(p)
  \/ Measure(p)
  \/ ReadRows(p) \/ WritePromotion(p)

Next ==
  \/ \E p \in Commands : Start(p) \/ Command(p) \/ Return(p) \/ Die(p)
  \/ \E a \in Assessments : AcceptRisk(a)

Spec == Init /\ [][Next]_vars

-------------------------------------------------------------------------------
(***************************************************************************)
(* Properties                                                              *)
(***************************************************************************)

(* Retries and racing commands write everything once: one outcome, one     *)
(* measurement and one lesson for an assessment, and one snapshot of a     *)
(* family for a finalization.  The checks before the locks do not give it; *)
(* the ones inside do.                                                     *)
ClosedOnce ==
  /\ \A i, j \in DOMAIN outcomes : outcomes[i].asm = outcomes[j].asm => i = j
  /\ \A i, j \in DOMAIN errors : errors[i].asm = errors[j].asm => i = j
  /\ \A i, j \in DOMAIN lessons : lessons[i] = lessons[j] => i = j
  /\ \A i, j \in DOMAIN snapshots :
       /\ snapshots[i].trigger # None
       /\ snapshots[i].trigger = snapshots[j].trigger
       /\ snapshots[i].family = snapshots[j].family
       => i = j

CompletedVerified(a) ==
  /\ \E i \in DOMAIN outcomes : outcomes[i].asm = a /\ outcomes[i].status = "completed"
  /\ \E i \in Verifies(a) : guardrails[i].decision = "proceed"

(* Whatever the loop teaches comes from edits that passed verify and were  *)
(* carried out: every lesson that can be recalled, and every assessment    *)
(* behind a fact that can be applied.  A fact on risk or review cost       *)
(* rests on a host's labels alone, never on an agent's.                    *)
LearnedFromVerified ==
  /\ \A i \in DOMAIN lessons : CompletedVerified(lessons[i])
  /\ \A i \in DOMAIN snapshots : \A a \in snapshots[i].basis :
       /\ CompletedVerified(a)
       /\ snapshots[i].family # "benefit" =>
            \E k \in Outcomes(a) :
              /\ outcomes[k].source = "host"
              /\ snapshots[i].family \in Labelled[outcomes[k].detail]

(* A finalization that returns has closed the assessment with exactly what *)
(* the host reported, and it is measured, whoever wrote which part.        *)
FinalizedIsClosed ==
  \A p \in Commands :
    pc[p] = "done" /\ req[p].op = "finalize" =>
      /\ Closed(Asm(p)) /\ Matches(p)
      /\ \E i \in DOMAIN errors :
           /\ errors[i].asm = Asm(p)
           /\ errors[i].production <=> req[p].status = "completed"

(* When a verify that found drift returns, no sanction it found live is    *)
(* still live: those of the assessment itself, or, when it has none, those *)
(* of the origin whose approval it used.                                   *)
DriftWithdraws ==
  \A p \in Commands :
    pc[p] = "done" /\ req[p].op = "verify" /\ view[p].drift =>
      \A s \in view[p].live : sanctions[s[1]][s[2]] = "invalidated"
===============================================================================
