---------------------------- MODULE DecisionProofs -----------------------------
(***************************************************************************)
(* Theorems of ReviewLoop, for every choice of stages, revisions, proofs   *)
(* and gaps, and any number of changes; and of RevisionMeter, for any      *)
(* number of agents, candidates, baselines and attempts: what is filed     *)
(* under one lineage is one search, and it ends for every file.            *)
(***************************************************************************)
EXTENDS ReviewLoop, RevisionMeter, FiniteSetTheorems, TLAPS

--------------------------------------------------------------------------------
(***************************************************************************)
(* ReviewLoop                                                              *)
(***************************************************************************)


(* The gates noted by a revision are a sequence of numbers.                *)
LEMMA RevisionNotes ==
  ASSUME NEW e
  PROVE  RevisionTrace(e) \in Seq(Nat)
BY DEF RevisionTrace

(* Where the gates of a revision may stop.                                 *)
LEMMA RevisionEnds ==
  ASSUME NEW e \in Evidence
  PROVE  /\ RevisionEnd(e) \in {"none", "approved", "ask_human", "revise_safer", "reject"}
         /\ RevisionEnd(e) = "none" <=> e.revision = "none"
         /\ RevisionEnd(e) \notin {"none", "approved"} => RevisionTrace(e) # <<>>
         /\ RevisionEnd(e) = "reject" => RevisionTrace(e) = <<9>>
BY RevisionsAssumption, ProofsAssumption
DEF Evidence, RevisionEnd, RevisionTrace, Retry

(* What a verdict of the ladder is made of.                                *)
Ladder(e, v) ==
  /\ v \in Verdicts
  /\ v.trace # <<>>
  /\ ~v.controlled
  /\ v.confirm => v.decision \in {"ask_human", "proceed"}
  /\ v.decision = "proceed" => v.gate = 11 /\ ~e.unmet /\ (v.confirm <=> Sensitive(e))
  /\ v.decision = "reject" => v.gate \in {3, 4, 9} /\ Controlling(v) = v.gate

(* A verdict that does not let anything through.                           *)
LEMMA StopsAt ==
  ASSUME NEW e, NEW d \in Decisions \ {"proceed", "reject"}, NEW g \in Nat,
         NEW t \in Seq(Nat), t # <<>>
  PROVE  Ladder(e, Verdict(d, g, t))
BY DEF Ladder, Verdict, Verdicts, Decisions

(* A rejection stands on the ladder.                                       *)
LEMMA RejectsAt ==
  ASSUME NEW e, NEW g \in {3, 4, 9}
  PROVE  Ladder(e, Verdict("reject", g, <<g>>))
<1> DEFINE v == [decision |-> "reject", confirm |-> FALSE, gate |-> g,
                 trace |-> <<g>>, controlled |-> FALSE]
<1>1. <<g>> \in Seq(Nat) /\ <<g>> # <<>> /\ Head(<<g>>) = g
  OBVIOUS
<1>2. Verdict("reject", g, <<g>>) = v
  BY DEF Verdict
<1>3. v \in Verdicts
  BY <1>1 DEF Verdicts, Decisions
<1>4. v.trace = <<g>> /\ v.gate = g /\ ~v.confirm /\ ~v.controlled /\ v.decision = "reject"
  OBVIOUS
<1> HIDE DEF v
<1>5. Ladder(e, v)
  BY <1>1, <1>3, <1>4 DEF Ladder, Controlling
<1> QED
  BY <1>2, <1>5

(* So does a loss or an utility beyond its threshold.                      *)
LEMMA UnfavourableStops ==
  ASSUME NEW e, NEW g \in {3, 4}, NEW rejects \in BOOLEAN
  PROVE  Ladder(e, Unfavourable(e, g, rejects))
<1>1. <<6, g>> \in Seq(Nat) /\ <<6, g>> # <<>> /\ <<g>> \in Seq(Nat) /\ <<g>> # <<>>
  OBVIOUS
<1>2. CASE ShouldRevise(e)
  <2>1. Ladder(e, Verdict("revise_safer", g, <<6, g>>))
    BY <1>1, StopsAt DEF Decisions
  <2> QED
    BY <1>2, <2>1 DEF Unfavourable
<1>3. CASE ~ShouldRevise(e) /\ rejects
  BY <1>3, RejectsAt DEF Unfavourable
<1>4. CASE ~ShouldRevise(e) /\ ~rejects
  <2>1. Ladder(e, Verdict("ask_human", g, <<g>>))
    BY <1>1, StopsAt DEF Decisions
  <2> QED
    BY <1>4, <2>1 DEF Unfavourable
<1> QED
  BY <1>2, <1>3, <1>4

(* The verdict before any sanction stands on the ladder, whatever the      *)
(* evidence.                                                               *)
LEMMA LadderHolds ==
  ASSUME NEW e \in Evidence
  PROVE  Ladder(e, Provisional(e))
<1> DEFINE end == RevisionEnd(e)
           seen == RevisionTrace(e)
           approved == end = "approved"
<1>1. seen \in Seq(Nat)
  BY RevisionNotes
<1>2. \A g \in Nat : seen \o <<g>> \in Seq(Nat) /\ seen \o <<g>> # <<>>
  BY <1>1
<1>3. /\ end \in {"none", "approved", "ask_human", "revise_safer", "reject"}
      /\ end \notin {"none", "approved"} => seen # <<>>
      /\ end = "reject" => seen = <<9>>
  BY RevisionEnds
<1>4. e.gap \in Gaps /\ e.unmet \in BOOLEAN /\ e.strict \in BOOLEAN
  BY DEF Evidence
<1>5. e.gap \in Nat
  <2> DEFINE n == e.gap
  <2>1. n \in {0, 8, 12, 13, 14}
    BY <1>4, GapsAssumption
  <2> HIDE DEF n
  <2>2. n \in Nat
    BY <2>1
  <2> QED
    BY <2>2 DEF n
<1> HIDE DEF end, seen
<1>a. CASE e.stage = "held"
  BY <1>a, <1>2, StopsAt DEF Provisional, Decisions, end, seen
<1>b. CASE e.stage # "held" /\ end \notin {"none", "approved"}
  <2>1. Provisional(e) = Verdict(end, 9, seen)
    BY <1>b DEF Provisional, end, seen
  <2>2. CASE end = "reject"
    BY <2>1, <2>2, <1>3, RejectsAt
  <2>3. CASE end # "reject"
    BY <2>1, <2>3, <1>b, <1>1, <1>3, StopsAt DEF Decisions
  <2> QED
    BY <2>2, <2>3
<1>c. CASE e.stage # "held" /\ end \in {"none", "approved"}
  <2>1. CASE e.lossOver /\ ~approved
    <3>1. Provisional(e) = Unfavourable(e, 3, e.utility = "loss")
      BY <1>c, <2>1 DEF Provisional, end, seen
    <3> QED
      BY <3>1, UnfavourableStops
  <2>2. CASE ~(e.lossOver /\ ~approved) /\ e.utility # "sound" /\ ~approved
    <3>1. Provisional(e) = Unfavourable(e, 4, e.strict)
      BY <1>c, <2>2 DEF Provisional, end, seen
    <3> QED
      BY <3>1, <1>4, UnfavourableStops
  <2> DEFINE past4 == ~(e.lossOver /\ ~approved) /\ ~(e.utility # "sound" /\ ~approved)
  <2>3. CASE past4 /\ e.wide /\ ~approved
    <3>1. Provisional(e) = Verdict("ask_human", 5, <<5>>)
      BY <1>c, <2>3 DEF Provisional, end, seen
    <3>2. <<5>> \in Seq(Nat) /\ <<5>> # <<>>
      OBVIOUS
    <3> QED
      BY <3>1, <3>2, StopsAt DEF Decisions
  <2> DEFINE past5 == past4 /\ ~(e.wide /\ ~approved)
             cyclic == e.cycle /\ e.proof # "bound"
  <2>4. CASE past5 /\ cyclic
    <3>1. Provisional(e) = Verdict("test_first", 16, seen \o <<16>>)
      BY <1>c, <2>4 DEF Provisional, end, seen
    <3> QED
      BY <3>1, <1>2, StopsAt DEF Decisions
  <2>5. CASE past5 /\ ~cyclic /\ e.gap # 0
    <3>1. Provisional(e) = Verdict("inspect_first", e.gap, seen \o <<e.gap>>)
      BY <1>c, <2>5 DEF Provisional, end, seen
    <3> QED
      BY <3>1, <1>2, <1>5, StopsAt DEF Decisions
  <2>6. CASE past5 /\ ~cyclic /\ e.gap = 0 /\ e.unmet
    <3>1. Provisional(e) = Verdict("ask_human", 15, seen \o <<15>>)
      BY <1>c, <2>6 DEF Provisional, end, seen
    <3> QED
      BY <3>1, <1>2, StopsAt DEF Decisions
  <2>7. CASE past5 /\ ~cyclic /\ e.gap = 0 /\ ~e.unmet
    <3>1. Provisional(e) = Proceed(e)
      BY <1>c, <2>7 DEF Provisional, end, seen
    <3>2. Sensitive(e) \in BOOLEAN
      BY DEF Sensitive
    <3> DEFINE v == [decision |-> "proceed", confirm |-> Sensitive(e), gate |-> 11,
                     trace |-> seen \o <<11>>, controlled |-> FALSE]
    <3>3. Proceed(e) = v
      BY DEF Proceed, seen
    <3>4. v \in Verdicts
      BY <3>2, <1>2 DEF Verdicts, Decisions
    <3>5. v.trace # <<>> /\ v.gate = 11 /\ v.confirm = Sensitive(e) /\ ~v.controlled
          /\ v.decision = "proceed"
      BY <1>2
    <3> HIDE DEF v
    <3>6. Ladder(e, v)
      BY <3>2, <3>4, <3>5, <2>7 DEF Ladder
    <3> QED
      BY <3>1, <3>3, <3>6
  <2> QED
    BY <2>1, <2>2, <2>3, <2>4, <2>5, <2>6, <2>7
<1> QED
  BY <1>a, <1>b, <1>c

(* A verdict a sanction has lifted.                                        *)
LEMMA ControlledKeeps ==
  ASSUME NEW v \in Verdicts
  PROVE  /\ Controlled(v) \in Verdicts
         /\ Controlled(v).trace # <<>> /\ Controlled(v).gate = v.gate
         /\ Controlled(v).controlled /\ Controlled(v).decision = "proceed"
         /\ ~Controlled(v).confirm
<1>1. v.trace \in Seq(Nat) /\ v.gate \in Nat
  BY DEF Verdicts
<1>2. v.trace \o <<10>> \in Seq(Nat) /\ v.trace \o <<10>> # <<>>
  BY <1>1
<1> DEFINE t == v.trace \o <<10>>
           w == [decision |-> "proceed", confirm |-> FALSE, gate |-> v.gate, trace |-> t,
                 controlled |-> TRUE]
<1>3. Controlled(v) = w
  BY DEF Controlled
<1>4. w \in Verdicts
  BY <1>1, <1>2 DEF Verdicts, Decisions
<1>5. w.trace = t /\ w.gate = v.gate /\ w.controlled /\ w.decision = "proceed" /\ ~w.confirm
  OBVIOUS
<1> QED
  BY <1>2, <1>3, <1>4, <1>5

(* The other answer to a lifting sanction: the obligations stand.          *)
LEMMA ResolveKeeps ==
  ASSUME NEW e, NEW v \in Verdicts
  PROVE  /\ Resolve(e, v) \in Verdicts
         /\ Resolve(e, v).trace # <<>> /\ Resolve(e, v).gate = v.gate
         /\ e.unmet => Resolve(e, v).decision = "revise_safer"
         /\ ~e.unmet => Resolve(e, v) = Controlled(v)
<1>1. CASE ~e.unmet
  BY <1>1, ControlledKeeps DEF Resolve
<1>2. CASE e.unmet
  <2>1. v.trace \in Seq(Nat) /\ v.gate \in Nat /\ v.controlled \in BOOLEAN
    BY DEF Verdicts
  <2>2. v.trace \o <<10, 15>> \in Seq(Nat) /\ v.trace \o <<10, 15>> # <<>>
    BY <2>1
  <2> DEFINE t == v.trace \o <<10, 15>>
             w == [decision |-> "revise_safer", confirm |-> FALSE, gate |-> v.gate,
                   trace |-> t, controlled |-> FALSE]
  <2>3. Resolve(e, v) = w
    BY <1>2 DEF Resolve, Verdict
  <2>4. w \in Verdicts
    BY <2>1, <2>2 DEF Verdicts, Decisions
  <2>5. w.trace = t /\ w.gate = v.gate /\ w.decision = "revise_safer"
    OBVIOUS
  <2> QED
    BY <1>2, <2>2, <2>3, <2>4, <2>5
<1> QED
  BY <1>1, <1>2

(* decide returns a verdict with at least one gate fired.                  *)
LEMMA DecideTyped ==
  ASSUME NEW e \in Evidence, NEW c
  PROVE  Decide(e, c) \in Verdicts /\ Decide(e, c).trace # <<>>
<1> DEFINE v == Provisional(e)
           p == [decision |-> "reject", confirm |-> FALSE, gate |-> 1,
                 trace |-> <<1>>, controlled |-> FALSE]
<1>1. v \in Verdicts /\ v.trace # <<>>
  BY LadderHolds DEF Ladder
<1>2. Verdict("reject", 1, <<1>>) = p
  BY DEF Verdict
<1>3. p \in Verdicts /\ p.trace # <<>>
  BY DEF Verdicts, Decisions
<1> HIDE DEF v, p
<1>4. Decide(e, c) \in {p, Controlled(v), Resolve(e, v), v}
  BY <1>2 DEF Decide, v
<1> QED
  BY <1>1, <1>3, <1>4, ControlledKeeps, ResolveKeeps

-------------------------------------------------------------------------------
(* Where each verdict comes from, and what a sanction was made for.        *)
ReviewInv ==
  /\ phase \in {"new", "assessed"} => converts = {} /\ changes = 0
  /\ phase = "assessed" => verdict = Decide(evidence, {})
  /\ phase = "reassessed" => verdict = Decide(evidence, converts)
  /\ phase = "approved" =>
       /\ Reviewable(verdict)
       /\ converts = {Controlling(verdict)}
       /\ changes = 0 => verdict = Decide(evidence, {})
  /\ phase = "granted" => converts # {}

(* The invariant of the loop holds at the start.                           *)
LEMMA InitReview == ReviewInit => ReviewInv
BY DEF ReviewInit, ReviewInv

(* What a change of the evidence leaves alone.                             *)
LEMMA Moved ==
  ReviewTyped /\ EvidenceMoves =>
    /\ phase \in {"approved", "granted"}
    /\ changes \in Nat /\ changes < MaxChanges /\ changes' = changes + 1
    /\ UNCHANGED <<phase, verdict, converts>>
<1>1. ReviewTyped => changes \in Nat
  BY MaxChangesAssumption DEF ReviewTyped
<1>2. EvidenceMoves =>
        /\ phase \in {"approved", "granted"}
        /\ changes < MaxChanges /\ changes' = changes + 1
        /\ UNCHANGED <<phase, verdict, converts>>
  BY Zenon DEF EvidenceMoves
<1> QED
  BY <1>1, <1>2

(* Every step of the loop preserves it.                                    *)
LEMMA NextReview == ReviewTyped /\ ReviewInv /\ [ReviewNext]_reviewing => ReviewInv'
<1> SUFFICES ASSUME ReviewTyped, ReviewInv, [ReviewNext]_reviewing PROVE ReviewInv'
  OBVIOUS
<1>1. CASE Assess
  BY <1>1 DEF Assess, ReviewInv
<1>2. CASE Approve
  BY <1>2 DEF Approve, ReviewInv
<1>3. CASE Grant
  BY <1>3 DEF Grant, ReviewInv, Convertible
<1>4. CASE EvidenceMoves
  <2>1. changes \in Nat /\ changes' = changes + 1
    BY <1>4, Moved
  <2>2. changes' # 0
    BY <2>1
  <2> QED
    BY <1>4, <2>2, Moved DEF ReviewInv
<1>5. CASE Reassess
  BY <1>5 DEF Reassess, ReviewInv
<1>6. CASE UNCHANGED reviewing
  BY <1>6 DEF reviewing, ReviewInv
<1> QED
  BY <1>1, <1>2, <1>3, <1>4, <1>5, <1>6 DEF ReviewNext

(* The types hold at the start.                                            *)
LEMMA ReviewInitTyped == ReviewInit => ReviewTyped
<1> SUFFICES ASSUME ReviewInit PROVE ReviewTyped
  OBVIOUS
<1> DEFINE v == [decision |-> "inspect_first", confirm |-> FALSE, gate |-> 0,
                 trace |-> <<0>>, controlled |-> FALSE]
<1>1. verdict = v
  BY DEF ReviewInit, Verdict
<1>2. v \in Verdicts /\ v.trace # <<>>
  BY DEF Verdicts, Decisions
<1> HIDE DEF v
<1> QED
  BY <1>1, <1>2, MaxChangesAssumption DEF ReviewInit, ReviewTyped

(* Every step preserves the types.                                         *)
LEMMA ReviewNextTyped == ReviewTyped /\ [ReviewNext]_reviewing => ReviewTyped'
<1> SUFFICES ASSUME ReviewTyped, [ReviewNext]_reviewing PROVE ReviewTyped'
  OBVIOUS
<1>1. CASE Assess
  BY <1>1, DecideTyped DEF Assess, ReviewTyped
<1>2. CASE Approve
  <2>1. Controlling(verdict) \in Nat
    BY DEF ReviewTyped, Verdicts, Controlling
  <2> QED
    BY <1>2, <2>1 DEF Approve, ReviewTyped
<1>3. CASE Grant
  BY <1>3 DEF Grant, ReviewTyped, Convertible
<1>4. CASE EvidenceMoves
  <2>1. evidence' \in Evidence
    <3>1. CASE \E r \in Revisions, x \in BOOLEAN :
                 evidence' = [evidence EXCEPT !.revision = r, !.exhausted = x]
      BY <3>1 DEF ReviewTyped, Evidence
    <3>2. CASE \E s \in Stages : evidence' = [evidence EXCEPT !.stage = s]
      BY <3>2 DEF ReviewTyped, Evidence
    <3>3. CASE \E g \in Gaps : evidence' = [evidence EXCEPT !.gap = g]
      BY <3>3 DEF ReviewTyped, Evidence
    <3>4. CASE \E b \in BOOLEAN : evidence' = [evidence EXCEPT !.cycle = b]
      BY <3>4 DEF ReviewTyped, Evidence
    <3>5. CASE \E b, w \in BOOLEAN, u \in {"loss", "weak", "sound"} :
                 evidence' = [evidence EXCEPT !.lossOver = b, !.utility = u, !.wide = w]
      BY <3>5 DEF ReviewTyped, Evidence
    <3> QED
      BY <1>4, <3>1, <3>2, <3>3, <3>4, <3>5 DEF EvidenceMoves
  <2>2. changes \in Nat /\ changes < MaxChanges /\ changes' = changes + 1
    BY <1>4, Moved
  <2>3. changes' \in 0..MaxChanges
    BY <2>2, MaxChangesAssumption
  <2> QED
    BY <1>4, <2>1, <2>3, Moved DEF ReviewTyped
<1>5. CASE Reassess
  BY <1>5, DecideTyped DEF Reassess, ReviewTyped
<1>6. CASE UNCHANGED reviewing
  BY <1>6 DEF reviewing, ReviewTyped
<1> QED
  BY <1>1, <1>2, <1>3, <1>4, <1>5, <1>6 DEF ReviewNext

(* decide always answers, and notes at least one gate for controlling_gate *)
(* and human_review to read: the types hold.                               *)
THEOREM ReviewTypeCorrect == ReviewSpec => []ReviewTyped
BY ReviewInitTyped, ReviewNextTyped, PTL DEF ReviewSpec

(* A verdict is the decision on the evidence and the sanction of its time. *)
LEMMA Reviewed == ReviewSpec => []ReviewInv
BY ReviewTypeCorrect, InitReview, NextReview, PTL DEF ReviewSpec

(* What decide can answer, by the rung of the ladder it stopped at.        *)
LEMMA DecideCases ==
  ASSUME NEW e, NEW c, ~e.policy
  PROVE  LET v == Provisional(e) IN
         \/ v.decision = "proceed" /\ v.confirm /\ 11 \in c /\ Decide(e, c) = Controlled(v)
         \/ Lifts(v, c) /\ Decide(e, c) = Resolve(e, v)
         \/ ~Lifts(v, c) /\ Decide(e, c) = v
BY DEF Decide, Lifts

(* A policy violation is rejected at gate 1, and not reviewable, whatever  *)
(* sanction there is.                                                      *)
LEMMA PolicyVerdict ==
  ASSUME NEW e, NEW c, e.policy
  PROVE  /\ Decide(e, c).decision = "reject" /\ Decide(e, c).gate = 1
         /\ ~Decide(e, c).controlled /\ Controlling(Decide(e, c)) = 1
         /\ ~Reviewable(Decide(e, c))
<1> DEFINE p == [decision |-> "reject", confirm |-> FALSE, gate |-> 1,
                 trace |-> <<1>>, controlled |-> FALSE]
<1>1. Decide(e, c) = p
  BY DEF Decide, Verdict
<1>2. p.decision = "reject" /\ p.gate = 1 /\ ~p.controlled /\ Head(p.trace) = 1
  OBVIOUS
<1> QED
  BY <1>1, <1>2 DEF Controlling, Reviewable, Overridable, Convertible

(* Whenever a verdict stands, it is what decide says of the evidence.      *)
LEMMA JudgedByDecide ==
  ReviewTyped /\ ReviewInv /\ Judged => evidence \in Evidence /\ verdict = Decide(evidence, converts)
BY DEF ReviewTyped, ReviewInv, Judged

(* A policy violation is final, for every approval and every sanction file *)
(* (decision_engine gate 1 before gate 10).                                *)
THEOREM PolicyStands == ReviewSpec => []PolicyIsFinal
<1>1. ReviewTyped /\ ReviewInv => PolicyIsFinal
  BY JudgedByDecide, PolicyVerdict DEF PolicyIsFinal
<1> QED
  BY <1>1, ReviewTypeCorrect, Reviewed, PTL

(* No approval waives the host's obligations (gate 15, and gate 10 when it *)
(* resolves a sanction).                                                   *)
THEOREM ObligationsHold == ReviewSpec => []ObligationsStand
<1>1. ASSUME NEW e \in Evidence, NEW c, e.unmet
      PROVE  Decide(e, c).decision # "proceed"
  <2>1. CASE e.policy
    BY <2>1, PolicyVerdict
  <2>2. CASE ~e.policy
    <3>1. Ladder(e, Provisional(e))
      BY LadderHolds
    <3> QED
      BY <1>1, <2>2, <3>1, DecideCases, ResolveKeeps DEF Ladder
  <2> QED
    BY <2>1, <2>2
<1>2. ReviewTyped /\ ReviewInv => ObligationsStand
  BY <1>1, JudgedByDecide DEF ObligationsStand
<1> QED
  BY <1>2, ReviewTypeCorrect, Reviewed, PTL

(* In a sensitive stage only a sanction lets a candidate proceed without a *)
(* confirmation (gate 11's requires_confirmation, and gate 10).            *)
THEOREM SensitiveAsks == ReviewSpec => []SensitiveNeedsHuman
<1>1. ASSUME NEW e \in Evidence, NEW c, Sensitive(e),
             Decide(e, c).decision = "proceed", ~Decide(e, c).confirm
      PROVE  Decide(e, c).controlled /\ c # {}
  <2>1. ~e.policy
    BY <1>1, PolicyVerdict
  <2>2. Ladder(e, Provisional(e))
    BY LadderHolds
  <2>3. e.unmet \in BOOLEAN
    BY DEF Evidence
  <2>4. ~(~Lifts(Provisional(e), c) /\ Decide(e, c) = Provisional(e))
    BY <1>1, <2>2 DEF Ladder
  <2>5. c # {}
    BY <2>1, <2>4, DecideCases DEF Lifts
  <2>6. Decide(e, c).controlled
    BY <1>1, <2>1, <2>2, <2>3, <2>4, DecideCases, ResolveKeeps, ControlledKeeps DEF Ladder
  <2> QED
    BY <2>5, <2>6
<1>2. ReviewTyped /\ ReviewInv => SensitiveNeedsHuman
  BY <1>1, JudgedByDecide DEF SensitiveNeedsHuman
<1> QED
  BY <1>2, ReviewTypeCorrect, Reviewed, PTL

(* No approval and no sanction file moves the three gates they are not for. *)
THEOREM GatesHold == ReviewSpec => []GatesStand
<1> QED
  BY PolicyStands, ObligationsHold, SensitiveAsks, PTL DEF GatesStand

(* A sanction changes only verdicts a human may be shown (gate 10 converts *)
(* ask_human, risk rejects and confirmations).                             *)
THEOREM LiftsTheReviewable == ReviewSpec => []LiftsOnlyReviewable
<1>1. ASSUME NEW e \in Evidence, NEW c, Decide(e, c) # Decide(e, {})
      PROVE  Reviewable(Decide(e, {}))
  <2>1. ~e.policy
    BY <1>1 DEF Decide
  <2>2. Decide(e, {}) = Provisional(e)
    BY <2>1, DecideCases DEF Lifts
  <2>3. Ladder(e, Provisional(e))
    BY LadderHolds
  <2> QED
    BY <1>1, <2>1, <2>2, <2>3, DecideCases
    DEF Lifts, Ladder, Reviewable, Overridable, Convertible
<1>2. ReviewTyped /\ ReviewInv => LiftsOnlyReviewable
  BY <1>1, JudgedByDecide DEF LiftsOnlyReviewable
<1> QED
  BY <1>2, ReviewTypeCorrect, Reviewed, PTL

(* What an approval lets through is what the human was shown, although the *)
(* evidence may have moved any number of times (human_approval_controller  *)
(* 153-155, gate 10).                                                      *)
THEOREM ShownIsConverted == ReviewSpec => ConvertsWhatWasShown
<1>1. ASSUME NEW e \in Evidence, NEW c, Decide(e, c).controlled
      PROVE  Decide(e, c).gate \in c
  <2>1. ~e.policy
    BY <1>1, PolicyVerdict
  <2>2. Ladder(e, Provisional(e))
    BY LadderHolds
  <2> QED
    BY <1>1, <2>1, <2>2, DecideCases, ResolveKeeps, ControlledKeeps DEF Ladder, Lifts
<1>2. ReviewTyped /\ ReviewInv /\ [ReviewNext]_reviewing =>
        [Reassess /\ phase = "approved" /\ verdict'.controlled =>
           verdict'.gate = Controlling(verdict)]_reviewing
  BY <1>1 DEF Reassess, ReviewInv, ReviewTyped
<1> QED
  BY <1>2, ReviewTypeCorrect, Reviewed, PTL DEF ReviewSpec, ConvertsWhatWasShown

(* An override that is offered can be carried through (reject_override_gate*)
(* against gate 10).                                                       *)
THEOREM OverridesFinish == ReviewSpec => OverrideFinishes
<1>1. ASSUME NEW e \in Evidence, Reviewable(Decide(e, {})), Decide(e, {}).decision = "reject",
             NEW c, c = {Controlling(Decide(e, {}))}
      PROVE  \/ Decide(e, c).controlled
             \/ e.unmet /\ Decide(e, c).decision = "revise_safer"
  <2>1. ~e.policy
    BY <1>1, PolicyVerdict
  <2>2. Decide(e, {}) = Provisional(e)
    BY <2>1, DecideCases DEF Lifts
  <2>3. Ladder(e, Provisional(e))
    BY LadderHolds
  <2>4. Lifts(Provisional(e), c)
    BY <1>1, <2>2, <2>3 DEF Lifts, Ladder, Convertible
  <2>5. Decide(e, c) = Resolve(e, Provisional(e))
    BY <1>1, <2>1, <2>2, <2>4, DecideCases
  <2>6. e.unmet \in BOOLEAN
    BY DEF Evidence
  <2> QED
    BY <2>3, <2>5, <2>6, ResolveKeeps, ControlledKeeps DEF Ladder
<1>2. ReviewTyped /\ ReviewInv /\ [ReviewNext]_reviewing =>
        [Reassess /\ phase = "approved" /\ changes = 0 /\ verdict.decision = "reject" =>
           verdict'.controlled \/ (evidence.unmet /\ verdict'.decision = "revise_safer")]_reviewing
  BY <1>1 DEF Reassess, ReviewInv, ReviewTyped
<1> QED
  BY <1>2, ReviewTypeCorrect, Reviewed, PTL DEF ReviewSpec, OverrideFinishes

-------------------------------------------------------------------------------
(* Without a sanction decide never asks for another revision once the      *)
(* attempts are used up (_revision_exhausted in gates 3, 4 and 9): what    *)
(* RevisionMeter takes from decide.                                        *)
THEOREM ReviseSpendsAttempts ==
  ASSUME NEW e \in Evidence, Decide(e, {}).decision = "revise_safer"
  PROVE  ~e.exhausted
<1> SUFFICES ASSUME e.exhausted PROVE FALSE
  OBVIOUS
<1>1. Decide(e, {}) = Provisional(e)
  <2>1. ~e.policy
    BY PolicyVerdict
  <2> QED
    BY <2>1, DecideCases DEF Lifts
<1>2. \A d, g, t : Verdict(d, g, t).decision = d
  BY DEF Verdict
<1>3. \A g, r : Unfavourable(e, g, r).decision # "revise_safer"
  BY <1>2 DEF Unfavourable, ShouldRevise
<1>4. RevisionEnd(e) # "revise_safer"
  BY RevisionsAssumption DEF RevisionEnd, Retry, Evidence
<1>5. Proceed(e).decision = "proceed"
  BY DEF Proceed
<1> QED
  BY <1>1, <1>2, <1>3, <1>4, <1>5 DEF Provisional

--------------------------------------------------------------------------------
(***************************************************************************)
(* RevisionMeter                                                           *)
(***************************************************************************)


Steps == {"bind", "meter", "origin", "decide"}

(* Any choice of rows can be counted.                                      *)
LEMMA RowsFinite ==
  ASSUME rows \in Seq(Records), NEW S \in SUBSET DOMAIN rows
  PROVE  IsFiniteSet(S) /\ Cardinality(S) \in Nat
<1>1. DOMAIN rows = 1..Len(rows) /\ Len(rows) \in Nat
  OBVIOUS
<1>2. IsFiniteSet(1..Len(rows))
  BY <1>1, FS_Interval
<1> QED
  BY <1>1, <1>2, FS_Subset, FS_CardinalityType

(* A row of the ledger is one.                                             *)
LEMMA RowTyped ==
  ASSUME TypeOK, NEW i \in DOMAIN rows
  PROVE  /\ rows[i] \in Records
         /\ rows[i].cand \in Candidates /\ rows[i].lineage \in Lineages
<1>1. rows \in Seq(Records)
  BY DEF TypeOK
<1>2. rows[i] \in Records
  BY <1>1
<1> QED
  BY <1>2 DEF Records

(* The meter reads a number.                                               *)
LEMMA ChargeNatural ==
  ASSUME rows \in Seq(Records), NEW l, NEW k
  PROVE  Charge(l, k) \in Nat
<1> DEFINE lineage == {i \in DOMAIN rows : rows[i].commit = l.commit /\ rows[i].lineage = k}
           retries == {i \in lineage : rows[i].retry}
           charged == {i \in lineage : ~rows[i].retry}
<1>1. Cardinality(retries) \in Nat /\ Cardinality(charged) \in Nat
  <2>1. retries \in SUBSET DOMAIN rows /\ charged \in SUBSET DOMAIN rows
    OBVIOUS
  <2> QED
    BY <2>1, RowsFinite
<1>2. Charge(l, k) = Cardinality(charged) +
        (IF Cardinality(retries) > 1 THEN Cardinality(retries) - 1 ELSE 0)
  BY DEF Charge
<1> HIDE DEF retries, charged
<1> QED
  BY <1>1, <1>2

(* The meter counts.                                                       *)
LEMMA AttemptsNatural ==
  ASSUME rows \in Seq(Records), NEW l
  PROVE  Attempts(l) \subseteq Nat
BY ChargeNatural DEF Attempts

(* An origin is the lineage of a row that the candidate overlaps, on the   *)
(* candidate's own baseline.                                               *)
IsOrigin(l, k, i) ==
  /\ i \in DOMAIN rows
  /\ rows[i].lineage = k
  /\ rows[i].commit = l.commit
  /\ rows[i].base = l.base
  /\ Files(i) \cap FilesOf[l.cand] # {}

(* An origin is the lineage of a row that is there.                        *)
LEMMA OriginIsARow ==
  ASSUME TypeOK, NEW l, l.cand \in Candidates, Origin(l) # NoLineage
  PROVE  l.base # Unbound /\ \E i \in DOMAIN rows : IsOrigin(l, Origin(l), i)
<1> DEFINE same == {j \in Related(l) : rows[j].base = l.base}
           keys == {rows[i].lineage : i \in same}
<1>1. l.base # Unbound /\ Cardinality(keys) = 1 /\ Origin(l) = CHOOSE k \in keys : TRUE
  BY DEF Origin
<1>2. keys # {}
  BY <1>1, FS_EmptySet
<1>3. Origin(l) \in keys
  BY <1>1, <1>2
<1>4. PICK i \in same : Origin(l) = rows[i].lineage
  BY <1>3
<1>5. i \in DOMAIN rows /\ rows[i].cand \in Candidates
  <2>1. i \in DOMAIN rows
    BY <1>4 DEF Related
  <2> QED
    BY <2>1, RowTyped
<1>6. Files(i) \cap FilesOf[l.cand] # {}
  BY <1>4, <1>5, FilesAssumption DEF Related, Files
<1>7. IsOrigin(l, Origin(l), i)
  BY <1>4, <1>5, <1>6 DEF IsOrigin, Related
<1> QED
  BY <1>1, <1>5, <1>7

(* An origin is a lineage.                                                 *)
LEMMA OriginTyped ==
  ASSUME TypeOK, NEW l, l.cand \in Candidates
  PROVE  Origin(l) \in Lineages
<1>1. CASE Origin(l) = NoLineage
  BY <1>1 DEF Lineages
<1>2. CASE Origin(l) # NoLineage
  BY <1>2, OriginIsARow, RowTyped DEF IsOrigin
<1> QED
  BY <1>1, <1>2

(* The key of a new row has the row's commit and baseline.                 *)
LEMMA KeyTyped ==
  ASSUME NEW l \in Locals
  PROVE  Key(l) \in Lineages
BY DEF Key, Locals, Lineages, NoLineage

-------------------------------------------------------------------------------
(* Type correctness                                                        *)
LEMMA InitTyped == Init => TypeOK
BY NumbersAssumption DEF Init, TypeOK

(* A row of an agent that decides is well typed.                           *)
LEMMA AddTyped ==
  ASSUME TypeOK, NEW l \in Locals, AddRow(l)
  PROVE  rows' \in Seq(Records)
<1>1. PICK retry \in BOOLEAN :
        rows' = Append(rows, [commit |-> l.commit, cand |-> l.cand, base |-> l.base,
                              lineage |-> Key(l), retry |-> retry])
  BY DEF AddRow
<1>2. [commit |-> l.commit, cand |-> l.cand, base |-> l.base,
       lineage |-> Key(l), retry |-> retry] \in Records
  BY KeyTyped DEF Locals, Records
<1> QED
  BY <1>1, <1>2 DEF TypeOK

(* What an agent remembers stays typed when one field of it changes.       *)
LEMMA LocalTyped ==
  ASSUME TypeOK, NEW p \in Agents, NEW l \in Locals, NEW where \in Steps,
         local' = [local EXCEPT ![p] = l], Goto(p, where)
  PROVE  /\ local' \in [Agents -> Locals \cup {<<>>}]
         /\ \A q \in Agents : pc'[q] # "idle" => local'[q] \in Locals
         /\ pc' \in [Agents -> Steps \cup {"idle"}]
BY DEF TypeOK, Goto, Steps

(* What a step of an assessment to another place preserves.                *)
LEMMA PcTyped ==
  ASSUME TypeOK, NEW p \in Agents, NEW where \in Steps \cup {"idle"},
         pc[p] # "idle", Goto(p, where), UNCHANGED local
  PROVE  /\ local' \in [Agents -> Locals \cup {<<>>}]
         /\ \A q \in Agents : pc'[q] # "idle" => local'[q] \in Locals
         /\ pc' \in [Agents -> Steps \cup {"idle"}]
BY DEF TypeOK, Goto, Steps

(* The bound on moves, and the count of excuses under it.                  *)
LEMMA MoveTyped ==
  ASSUME TypeOK, Move
  PROVE  /\ moves' \in 0..MaxMoves
         /\ excused' \in {excused, excused + 1} => excused' \in 0..moves'
<1>1. moves \in 0..MaxMoves /\ excused \in 0..moves /\ moves < MaxMoves /\ moves' = moves + 1
  BY DEF TypeOK, Move
<1> QED
  BY <1>1, NumbersAssumption

(* Every step preserves the types.                                         *)
LEMMA NextTyped == TypeOK /\ [Next]_vars => TypeOK'
<1> SUFFICES ASSUME TypeOK, [Next]_vars PROVE TypeOK'
  OBVIOUS
<1>1. ASSUME NEW p \in Agents, Step(p) PROVE TypeOK'
  <2>1. ASSUME NEW c \in Candidates, Submit(p, c) PROVE TypeOK'
    <3> DEFINE l == [commit |-> head, cand |-> c, base |-> Unbound, attempt |-> 0,
                     lineage |-> NoLineage]
    <3>1. l \in Locals
      BY DEF Locals, Lineages, TypeOK
    <3> HIDE DEF l
    <3>2. local' = [local EXCEPT ![p] = l] /\ Goto(p, "bind")
      BY <2>1 DEF Submit, l
    <3> QED
      BY <2>1, <3>1, <3>2, LocalTyped DEF Submit, TypeOK, Steps
  <2>2. CASE Bind(p)
    <3> DEFINE l == [local[p] EXCEPT !.base = baseline]
    <3>1. l \in Locals
      BY <2>2 DEF Bind, TypeOK, Locals
    <3> HIDE DEF l
    <3>2. local' = [local EXCEPT ![p] = l] /\ Goto(p, "meter")
      BY <2>2 DEF Bind, l
    <3> QED
      BY <2>2, <3>1, <3>2, LocalTyped DEF Bind, TypeOK, Steps
  <2>3. CASE BindFails(p)
    BY <2>3, PcTyped, MoveTyped DEF BindFails, TypeOK, Steps
  <2>4. CASE Meter(p)
    <3>1. PICK claim \in 0..1, counted \in Attempts(local[p]) :
            LET attempt == IF claim > counted THEN claim ELSE counted IN
            /\ local' = [local EXCEPT ![p].attempt = attempt]
            /\ Goto(p, IF attempt > 0 THEN "origin" ELSE "decide")
      BY <2>4 DEF Meter
    <3> DEFINE attempt == IF claim > counted THEN claim ELSE counted
               l == [local[p] EXCEPT !.attempt = attempt]
               where == IF attempt > 0 THEN "origin" ELSE "decide"
    <3>2. attempt \in Nat
      BY AttemptsNatural DEF TypeOK
    <3> HIDE DEF attempt
    <3>3. l \in Locals
      BY <2>4, <3>2 DEF Meter, TypeOK, Locals
    <3>4. local' = [local EXCEPT ![p] = l] /\ Goto(p, where)
      BY <3>1 DEF attempt
    <3>5. where \in Steps
      BY DEF Steps
    <3> HIDE DEF l, where
    <3> QED
      BY <2>4, <3>3, <3>4, <3>5, LocalTyped DEF Meter, TypeOK, Steps
  <2>5. CASE MeterFails(p)
    <3>1. PICK claim \in 0..1 :
            /\ local' = [local EXCEPT ![p].attempt = claim]
            /\ Goto(p, IF claim > 0 THEN "origin" ELSE "decide")
      BY <2>5 DEF MeterFails
    <3> DEFINE l == [local[p] EXCEPT !.attempt = claim]
               where == IF claim > 0 THEN "origin" ELSE "decide"
    <3>2. l \in Locals
      BY <2>5 DEF MeterFails, TypeOK, Locals
    <3>3. local' = [local EXCEPT ![p] = l] /\ Goto(p, where)
      BY <3>1
    <3>4. where \in Steps
      BY DEF Steps
    <3> HIDE DEF l, where
    <3> QED
      BY <2>5, <3>2, <3>3, <3>4, LocalTyped, MoveTyped DEF MeterFails, TypeOK, Steps
  <2>6. CASE ReadOrigin(p)
    <3> DEFINE l == [local[p] EXCEPT !.lineage = Origin(local[p])]
    <3>1. local[p] \in Locals
      BY <2>6 DEF ReadOrigin, TypeOK
    <3>2. local[p].cand \in Candidates
      BY <3>1 DEF Locals
    <3>3. Origin(local[p]) \in Lineages
      BY <3>2, OriginTyped
    <3>4. l \in Locals
      BY <3>1, <3>3 DEF Locals
    <3> HIDE DEF l
    <3>5. local' = [local EXCEPT ![p] = l] /\ Goto(p, "decide")
      BY <2>6 DEF ReadOrigin, l
    <3> QED
      BY <2>6, <3>4, <3>5, LocalTyped DEF ReadOrigin, TypeOK, Steps
  <2>7. CASE OriginFails(p)
    BY <2>7, PcTyped, MoveTyped DEF OriginFails, TypeOK, Steps
  <2>8. CASE Revise(p)
    BY <2>8, PcTyped, AddTyped DEF Revise, TypeOK, Steps
  <2>9. CASE ReviseSanctioned(p)
    BY <2>9, PcTyped, AddTyped, MoveTyped DEF ReviseSanctioned, TypeOK, Steps
  <2>10. CASE Conclude(p)
    BY <2>10, PcTyped DEF Conclude, TypeOK, Steps
  <2> QED
    BY <1>1, <2>1, <2>2, <2>3, <2>4, <2>5, <2>6, <2>7, <2>8, <2>9, <2>10 DEF Step
<1>2. ASSUME NEW b \in Baselines, Drift(b) PROVE TypeOK'
  BY <1>2, MoveTyped DEF Drift, TypeOK
<1>3. ASSUME NEW h \in Commits, NEW b \in Baselines, MoveHead(h, b) PROVE TypeOK'
  BY <1>3, MoveTyped DEF MoveHead, TypeOK
<1>4. CASE UNCHANGED vars
  BY <1>4 DEF vars, TypeOK
<1> QED
  BY <1>1, <1>2, <1>3, <1>4 DEF Next

(* The meter and the lineages keep their types.                            *)
THEOREM TypeCorrect == Spec => []TypeOK
BY InitTyped, NextTyped, PTL DEF Spec

-------------------------------------------------------------------------------
(* Lineages                                                                *)
(* An agent that will extend a lineage has seen the row it revises.        *)
OriginInv ==
  \A p \in Agents :
    /\ pc[p] \in {"bind", "meter", "origin"} => local[p].lineage = NoLineage
    /\ pc[p] = "decide" /\ local[p].lineage # NoLineage =>
         \E i \in DOMAIN rows : IsOrigin(local[p], local[p].lineage, i)

LineageInv == TypeOK /\ OriginInv /\ LineageIsOneSearch

(* Rows are only ever appended.                                            *)
RowsGrow ==
  /\ DOMAIN rows \subseteq DOMAIN rows'
  /\ \A i \in DOMAIN rows : rows'[i] = rows[i]

(* The row an assessment adds: its own commit, candidate, baseline and     *)
(* key.                                                                    *)
LEMMA AddedRow ==
  ASSUME TypeOK, NEW l \in Locals, AddRow(l)
  PROVE  /\ RowsGrow
         /\ DOMAIN rows' = DOMAIN rows \cup {Len(rows) + 1}
         /\ Len(rows) + 1 \notin DOMAIN rows
         /\ \A i \in DOMAIN rows : i < Len(rows) + 1
         /\ rows'[Len(rows) + 1].commit = l.commit /\ rows'[Len(rows) + 1].cand = l.cand
         /\ rows'[Len(rows) + 1].base = l.base /\ rows'[Len(rows) + 1].lineage = Key(l)
<1>1. PICK retry \in BOOLEAN :
        rows' = Append(rows, [commit |-> l.commit, cand |-> l.cand, base |-> l.base,
                              lineage |-> Key(l), retry |-> retry])
  BY DEF AddRow
<1> DEFINE r == [commit |-> l.commit, cand |-> l.cand, base |-> l.base,
                 lineage |-> Key(l), retry |-> retry]
<1>2. rows \in Seq(Records)
  BY DEF TypeOK
<1>3. r.commit = l.commit /\ r.cand = l.cand /\ r.base = l.base /\ r.lineage = Key(l)
  OBVIOUS
<1>4. rows' = Append(rows, r)
  BY <1>1
<1> HIDE DEF r
<1> QED
  BY <1>2, <1>3, <1>4 DEF RowsGrow

(* Rows are never removed, so an origin that was read stays one.           *)
LEMMA OriginStays ==
  ASSUME TypeOK, RowsGrow, NEW l, NEW k, NEW i, IsOrigin(l, k, i)
  PROVE  IsOrigin(l, k, i)'
BY DEF RowsGrow, IsOrigin, Files

(* The invariant holds of an empty ledger.                                 *)
LEMMA InitLineage == Init => LineageInv
<1> SUFFICES ASSUME Init PROVE OriginInv /\ LineageIsOneSearch
  BY InitTyped DEF LineageInv
<1> QED
  BY DEF Init, OriginInv, LineageIsOneSearch

(* A step that adds no row leaves the lineages alone.                      *)
LEMMA SameRows ==
  ASSUME LineageIsOneSearch, UNCHANGED rows
  PROVE  LineageIsOneSearch'
BY DEF LineageIsOneSearch, InLineage, Files

(* A step of one agent that gives it no new origin keeps OriginInv.        *)
LEMMA OriginKept ==
  ASSUME TypeOK, OriginInv, RowsGrow, NEW p \in Agents,
         \A q \in Agents \ {p} : pc'[q] = pc[q] /\ local'[q] = local[q],
         \/ pc'[p] = "idle"
         \/ pc'[p] # "idle" /\ local'[p].lineage = NoLineage
  PROVE  OriginInv'
<1> SUFFICES ASSUME NEW q \in Agents
             PROVE  /\ pc'[q] \in {"bind", "meter", "origin"} => local'[q].lineage = NoLineage
                    /\ pc'[q] = "decide" /\ local'[q].lineage # NoLineage =>
                         \E i \in DOMAIN rows' : IsOrigin(local[q], local[q].lineage, i)'
  BY DEF OriginInv
<1>1. CASE q = p
  BY <1>1
<1>2. CASE q # p /\ pc[q] = "decide" /\ local[q].lineage # NoLineage
  <2>1. PICK i \in DOMAIN rows : IsOrigin(local[q], local[q].lineage, i)
    BY <1>2 DEF OriginInv
  <2>2. i \in DOMAIN rows' /\ local'[q] = local[q]
    BY <1>2 DEF RowsGrow
  <2>3. IsOrigin(local[q], local[q].lineage, i)'
    BY <2>1, <2>2 DEF IsOrigin, RowsGrow, Files
  <2> QED
    BY <1>2, <2>2, <2>3
<1>3. CASE q # p /\ ~(pc[q] = "decide" /\ local[q].lineage # NoLineage)
  BY <1>3 DEF OriginInv
<1> QED
  BY <1>1, <1>2, <1>3

(* A new row extends the search of its origin, or starts one.              *)
LEMMA SearchExtended ==
  ASSUME TypeOK, OriginInv, LineageIsOneSearch, NEW p \in Agents, pc[p] = "decide",
         AddRow(local[p])
  PROVE  LineageIsOneSearch'
<1> DEFINE l == local[p]
           n == Len(rows) + 1
<1>1. l \in Locals
  BY DEF TypeOK
<1>2. /\ RowsGrow /\ DOMAIN rows' = DOMAIN rows \cup {n}
      /\ n \notin DOMAIN rows /\ \A i \in DOMAIN rows : i < n
      /\ rows'[n].commit = l.commit /\ rows'[n].cand = l.cand
      /\ rows'[n].base = l.base /\ rows'[n].lineage = Key(l)
  BY <1>1, AddedRow
<1> HIDE DEF n
<1> DEFINE Search(i) ==
      rows'[i].lineage # NoLineage =>
        /\ rows'[i].lineage[1] = rows'[i].commit
        /\ rows'[i].lineage[2] = rows'[i].base
        /\ \/ rows'[i].lineage[3] = rows'[i].cand
           \/ \E j \in DOMAIN rows' :
                /\ rows'[j].lineage = rows'[i].lineage
                /\ j < i
                /\ FilesOf[rows'[i].cand] \cap FilesOf[rows'[j].cand] # {}
<1>3. ASSUME NEW i \in DOMAIN rows PROVE Search(i)
  BY <1>2 DEF RowsGrow, LineageIsOneSearch, InLineage, Files
<1>4. Search(n)
  <2>1. CASE l.lineage = NoLineage
    <3>1. Key(l) = NoLineage \/ Key(l) = <<l.commit, l.base, l.cand>>
      BY <2>1 DEF Key
    <3> QED
      BY <1>2, <3>1
  <2>2. CASE l.lineage # NoLineage
    <3>1. PICK i \in DOMAIN rows : IsOrigin(l, l.lineage, i)
      BY <2>2 DEF OriginInv
    <3>2. /\ rows[i].lineage = l.lineage /\ rows[i].commit = l.commit
          /\ rows[i].base = l.base /\ FilesOf[rows[i].cand] \cap FilesOf[l.cand] # {}
      BY <3>1 DEF IsOrigin, Files
    <3>3. l.lineage[1] = l.commit /\ l.lineage[2] = l.base
      BY <2>2, <3>2 DEF LineageIsOneSearch
    <3>4. Key(l) = l.lineage
      BY <2>2 DEF Key
    <3>5. /\ i \in DOMAIN rows' /\ rows'[i] = rows[i] /\ i < n
      BY <1>2 DEF RowsGrow
    <3> HIDE DEF l
    <3> QED
      BY <1>2, <3>2, <3>3, <3>4, <3>5
  <2> QED
    BY <2>1, <2>2
<1>5. \A i \in DOMAIN rows' : Search(i)
  BY <1>2, <1>3, <1>4
<1> QED
  BY <1>5 DEF LineageIsOneSearch, InLineage, Files

(* Every step preserves it, whoever adds a row between an agent's readings *)
(* and its own row.                                                        *)
LEMMA NextLineage == LineageInv /\ [Next]_vars => LineageInv'
<1> SUFFICES ASSUME LineageInv, [Next]_vars PROVE OriginInv' /\ LineageIsOneSearch'
  BY NextTyped DEF LineageInv
<1> USE DEF LineageInv
<1>0. UNCHANGED rows => RowsGrow
  BY DEF RowsGrow
<1>1. ASSUME NEW p \in Agents, Step(p) PROVE OriginInv' /\ LineageIsOneSearch'
  <2> DEFINE others == \A q \in Agents \ {p} : pc'[q] = pc[q] /\ local'[q] = local[q]
  <2>1. ASSUME NEW c \in Candidates, Submit(p, c)
        PROVE  others /\ UNCHANGED rows /\ local'[p].lineage = NoLineage /\ pc'[p] # "idle"
    BY <2>1 DEF Submit, Goto, TypeOK
  <2>2. CASE Bind(p) \/ BindFails(p) \/ Meter(p) \/ MeterFails(p) \/ OriginFails(p)
    <3>1. pc[p] \in {"bind", "meter", "origin"} /\ UNCHANGED rows
      BY <2>2 DEF Bind, BindFails, Meter, MeterFails, OriginFails
    <3>2. local[p] \in Locals /\ local[p].lineage = NoLineage
      BY <3>1 DEF OriginInv, TypeOK
    <3>3. pc'[p] # "idle" /\ local'[p].lineage = local[p].lineage
      BY <2>2, <3>2 DEF Bind, BindFails, Meter, MeterFails, OriginFails, Goto, TypeOK, Locals
    <3>4. others
      BY <2>2 DEF Bind, BindFails, Meter, MeterFails, OriginFails, Goto, TypeOK
    <3> QED
      BY <1>0, <3>1, <3>2, <3>3, <3>4, OriginKept, SameRows
  <2>3. CASE ReadOrigin(p)
    <3>1. pc[p] = "origin" /\ UNCHANGED rows /\ others /\ pc'[p] = "decide"
      BY <2>3 DEF ReadOrigin, Goto, TypeOK
    <3>2. local[p] \in Locals
      BY <3>1 DEF TypeOK
    <3>3. /\ local'[p].lineage = Origin(local[p]) /\ local'[p].commit = local[p].commit
          /\ local'[p].base = local[p].base /\ local'[p].cand = local[p].cand
      BY <2>3, <3>2 DEF ReadOrigin, TypeOK, Locals
    <3>4. CASE Origin(local[p]) = NoLineage
      BY <1>0, <3>1, <3>3, <3>4, OriginKept, SameRows
    <3>5. CASE Origin(local[p]) # NoLineage
      <4>1. local[p].cand \in Candidates
        BY <3>2 DEF Locals
      <4>2. PICK i \in DOMAIN rows : IsOrigin(local[p], Origin(local[p]), i)
        BY <3>5, <4>1, OriginIsARow
      <4>3. i \in DOMAIN rows' /\ IsOrigin(local[p], local[p].lineage, i)'
        BY <3>1, <3>3, <4>2 DEF IsOrigin, Files
      <4>4. ASSUME NEW q \in Agents
            PROVE  /\ pc'[q] \in {"bind", "meter", "origin"} => local'[q].lineage = NoLineage
                   /\ pc'[q] = "decide" /\ local'[q].lineage # NoLineage =>
                        \E j \in DOMAIN rows' : IsOrigin(local[q], local[q].lineage, j)'
        <5>1. CASE q = p
          BY <5>1, <3>1, <4>3
        <5>2. CASE q # p
          BY <5>2, <3>1 DEF OriginInv, IsOrigin, Files
        <5> QED
          BY <5>1, <5>2
      <4> QED
        BY <3>1, <4>4, SameRows DEF OriginInv
    <3> QED
      BY <3>4, <3>5
  <2>4. CASE Revise(p) \/ ReviseSanctioned(p)
    <3>1. pc[p] = "decide" /\ AddRow(local[p]) /\ others /\ pc'[p] = "idle"
      BY <2>4 DEF Revise, ReviseSanctioned, Goto, TypeOK
    <3>2. local[p] \in Locals
      BY <3>1 DEF TypeOK
    <3> QED
      BY <3>1, <3>2, AddedRow, OriginKept, SearchExtended
  <2>5. CASE Conclude(p)
    <3>1. UNCHANGED rows /\ others /\ pc'[p] = "idle"
      BY <2>5 DEF Conclude, Goto, TypeOK
    <3> QED
      BY <1>0, <3>1, OriginKept, SameRows
  <2> QED
    BY <1>0, <1>1, <2>1, <2>2, <2>3, <2>4, <2>5, OriginKept, SameRows DEF Step
<1>2. ASSUME UNCHANGED <<rows, pc, local>> PROVE OriginInv' /\ LineageIsOneSearch'
  BY <1>2, SameRows DEF OriginInv, IsOrigin, Files
<1>3. CASE \E b \in Baselines : Drift(b)
  BY <1>2, <1>3 DEF Drift
<1>4. CASE \E h \in Commits, b \in Baselines : MoveHead(h, b)
  BY <1>2, <1>4 DEF MoveHead
<1>5. CASE UNCHANGED vars
  BY <1>2, <1>5 DEF vars
<1> QED
  BY <1>1, <1>3, <1>4, <1>5 DEF Next

(* What revision_origin_envelope compares a candidate with, and what       *)
(* revise_safer_attempt_count counts, is the same search of the same       *)
(* baseline, whatever moved between the two readings and the new row.      *)
THEOREM OneSearch == Spec => []LineageIsOneSearch
<1>1. LineageInv => LineageIsOneSearch
  BY DEF LineageInv
<1> QED
  BY <1>1, InitLineage, NextLineage, PTL DEF Spec

-------------------------------------------------------------------------------
(* The bound                                                               *)
(* The rows of a lineage about a file.                                     *)
About(k, f) == {i \in InLineage(k) : f \in Files(i)}

(* The agents that may still revise the file in the lineage, whatever the  *)
(* meter says from now on: they have read it.                              *)
Live(k, f) ==
  {p \in Agents :
     /\ pc[p] \in {"origin", "decide"}
     /\ ~Exhausted(local[p].attempt)
     /\ f \in FilesOf[local[p].cand]
     /\ local[p].commit = k[1]
     /\ local[p].base = k[2]}

Keys == Commits \X Baselines \X Candidates
AllFiles == UNION {FilesOf[c] : c \in Candidates}

(* The bound of one lineage and file.                                      *)
Bounded(k, f) ==
  Cardinality(About(k, f)) + Cardinality(Live(k, f)) <= Cap + Cardinality(Agents) + excused

(* Their rows to come are within the bound with those that are there: an   *)
(* agent becomes one of them only while the meter is below the cap, and    *)
(* its row costs its place.                                                *)
BoundInv == \A k \in Keys : \A f \in AllFiles : Bounded(k, f)

(* Any choice of agents can be counted, and only one out of a choice is    *)
(* missed.                                                                 *)
LEMMA AgentsFinite ==
  ASSUME NEW S \in SUBSET Agents
  PROVE  /\ IsFiniteSet(S) /\ Cardinality(S) \in Nat /\ Cardinality(S) <= Cardinality(Agents)
         /\ Cardinality(Agents) \in Nat
BY AgentsAssumption, FS_Subset, FS_CardinalityType

(* The cap is a number, and an attempt that is not exhausted is below it.  *)
LEMMA BelowCap ==
  ASSUME NEW n \in Nat
  PROVE  Cap \in Nat /\ (~Exhausted(n) => n < Cap)
BY NumbersAssumption DEF Cap, Exhausted

(* The meter charges all the rows of a lineage but one.                    *)
LEMMA ChargeCounts ==
  ASSUME rows \in Seq(Records), NEW l, NEW k,
         NEW S \in SUBSET {i \in DOMAIN rows : rows[i].commit = l.commit /\ rows[i].lineage = k}
  PROVE  Cardinality(S) \in Nat /\ Cardinality(S) <= Charge(l, k) + 1
<1> DEFINE lineage == {i \in DOMAIN rows : rows[i].commit = l.commit /\ rows[i].lineage = k}
           retries == {i \in lineage : rows[i].retry}
           charged == {i \in lineage : ~rows[i].retry}
<1>1. /\ IsFiniteSet(retries) /\ Cardinality(retries) \in Nat
      /\ IsFiniteSet(charged) /\ Cardinality(charged) \in Nat
      /\ IsFiniteSet(lineage) /\ Cardinality(lineage) \in Nat
      /\ IsFiniteSet(S) /\ Cardinality(S) \in Nat
  <2>1. /\ retries \in SUBSET DOMAIN rows /\ charged \in SUBSET DOMAIN rows
        /\ lineage \in SUBSET DOMAIN rows /\ S \in SUBSET DOMAIN rows
    OBVIOUS
  <2> QED
    BY <2>1, RowsFinite
<1>2. Charge(l, k) = Cardinality(charged) +
        (IF Cardinality(retries) > 1 THEN Cardinality(retries) - 1 ELSE 0)
  BY DEF Charge
<1>3. lineage = retries \cup charged /\ retries \cap charged = {} /\ S \subseteq lineage
  OBVIOUS
<1> HIDE DEF lineage, retries, charged
<1>4. Cardinality(lineage) =
        Cardinality(retries) + Cardinality(charged) - Cardinality(retries \cap charged)
  BY <1>1, <1>3, FS_Union
<1>5. Cardinality(S) <= Cardinality(lineage)
  BY <1>1, <1>3, FS_Subset
<1>6. Cardinality(retries \cap charged) = 0
  BY <1>3, FS_EmptySet
<1> QED
  BY <1>1, <1>2, <1>4, <1>5, <1>6

(* What the meter returns is no less than the charge of a lineage that     *)
(* touches the candidate on its own baseline.                              *)
LEMMA AttemptsCover ==
  ASSUME TypeOK, LineageIsOneSearch, NEW k \in Keys, NEW f, About(k, f) # {},
         NEW l, l.commit = k[1], l.base = k[2], f \in FilesOf[l.cand],
         NEW counted \in Attempts(l)
  PROVE  counted \in Nat /\ Cardinality(About(k, f)) \in Nat
           /\ Cardinality(About(k, f)) <= counted + 1
<1>1. rows \in Seq(Records)
  BY DEF TypeOK
<1>2. k # NoLineage /\ k[2] \in Baselines
  BY DEF Keys, NoLineage
<1>3. l.base # Unbound
  BY <1>2, UnboundAssumption
<1>4. \A i \in About(k, f) : /\ i \in DOMAIN rows /\ rows[i].lineage = k
                             /\ rows[i].commit = l.commit /\ rows[i].base = l.base
                             /\ f \in Files(i) \cap FilesOf[l.cand]
  BY <1>2 DEF About, InLineage, LineageIsOneSearch
<1>5. PICK i \in About(k, f) : TRUE
  OBVIOUS
<1>6. i \in Related(l)
  BY <1>3, <1>4, <1>5 DEF Related
<1>7. i \in Matching(l) /\ rows[i].lineage = k
  BY <1>2, <1>4, <1>5, <1>6 DEF Matching
<1> DEFINE charges == {Charge(l, rows[j].lineage) : j \in Matching(l)}
<1>8. Charge(l, k) \in charges
  BY <1>7
<1>9. counted \in charges /\ \A m \in charges : m <= counted
  <2>1. Attempts(l) = {n \in charges : \A m \in charges : m <= n}
    BY <1>6, <1>8 DEF Attempts
  <2> QED
    BY <2>1
<1>10. Charge(l, k) <= counted
  BY <1>8, <1>9
<1>11. Cardinality(About(k, f)) \in Nat /\ Cardinality(About(k, f)) <= Charge(l, k) + 1
  <2>1. About(k, f) \in SUBSET {j \in DOMAIN rows : rows[j].commit = l.commit
                                                      /\ rows[j].lineage = k}
    BY <1>4
  <2> QED
    BY <1>1, <2>1, ChargeCounts
<1>12. Charge(l, k) \in Nat /\ counted \in Nat
  BY <1>1, ChargeNatural, AttemptsNatural
<1> QED
  BY <1>10, <1>11, <1>12

(* The numbers the bound is made of.                                       *)
LEMMA BoundTyped ==
  ASSUME TypeOK, NEW k, NEW f
  PROVE  /\ About(k, f) \in SUBSET DOMAIN rows /\ IsFiniteSet(About(k, f))
         /\ Cardinality(About(k, f)) \in Nat
         /\ Live(k, f) \in SUBSET Agents /\ IsFiniteSet(Live(k, f))
         /\ Cardinality(Live(k, f)) \in Nat
         /\ Cardinality(Live(k, f)) <= Cardinality(Agents) /\ Cardinality(Agents) \in Nat
         /\ Cap \in Nat /\ excused \in Nat
<1>1. About(k, f) \in SUBSET DOMAIN rows /\ rows \in Seq(Records)
  BY DEF About, InLineage, TypeOK
<1>2. Live(k, f) \in SUBSET Agents
  BY DEF Live
<1>3. excused \in Nat /\ Cap \in Nat
  BY BelowCap, NumbersAssumption DEF TypeOK
<1> QED
  BY <1>1, <1>2, <1>3, RowsFinite, AgentsFinite

(* Where no row is added and nobody becomes live, the bound stays.         *)
LEMMA BoundStays ==
  ASSUME TypeOK, TypeOK', NEW k, NEW f, Bounded(k, f),
         About(k, f)' = About(k, f), Live(k, f)' \subseteq Live(k, f), excused' >= excused
  PROVE  Bounded(k, f)'
<1>1. Cardinality(Live(k, f)') <= Cardinality(Live(k, f)) /\ Cardinality(Live(k, f)') \in Nat
  <2>1. IsFiniteSet(Live(k, f))
    BY BoundTyped
  <2> QED
    BY <2>1, FS_Subset, FS_CardinalityType
<1>2. excused' \in Nat
  BY NumbersAssumption DEF TypeOK
<1>3. Cap' = Cap
  BY DEF Cap
<1> QED
  BY <1>1, <1>2, <1>3, BoundTyped DEF Bounded

(* One more of either is excused.                                          *)
LEMMA BoundExcused ==
  ASSUME TypeOK, TypeOK', NEW k, NEW f, Bounded(k, f), excused' = excused + 1,
         \/ /\ About(k, f)' = About(k, f)
            /\ \E p \in Agents : Live(k, f)' \subseteq Live(k, f) \cup {p}
         \/ /\ \E i : About(k, f)' \subseteq About(k, f) \cup {i}
            /\ Live(k, f)' \subseteq Live(k, f)
  PROVE  Bounded(k, f)'
<1> DEFINE A == About(k, f)
           L == Live(k, f)
           B == About(k, f)'
           M == Live(k, f)'
<1>1. /\ IsFiniteSet(A) /\ IsFiniteSet(L) /\ Cardinality(A) \in Nat /\ Cardinality(L) \in Nat
      /\ Cardinality(Agents) \in Nat /\ Cap \in Nat /\ excused \in Nat
  BY BoundTyped
<1>2. Cap' = Cap
  BY DEF Cap
<1>3. Cardinality(A) + Cardinality(L) <= Cap + Cardinality(Agents) + excused
  BY DEF Bounded
<1>4. Cardinality(B) \in Nat /\ Cardinality(M) \in Nat
        /\ Cardinality(B) + Cardinality(M) <= Cardinality(A) + Cardinality(L) + 1
  <2> HIDE DEF A, L, B, M
  <2>1. CASE B = A /\ \E p \in Agents : M \subseteq L \cup {p}
    <3>1. PICK p \in Agents : M \subseteq L \cup {p}
      BY <2>1
    <3>2. IsFiniteSet(L \cup {p}) /\ Cardinality(L \cup {p}) \in {Cardinality(L), Cardinality(L) + 1}
      BY <1>1, FS_AddElement
    <3>3. IsFiniteSet(M) /\ Cardinality(M) <= Cardinality(L \cup {p}) /\ Cardinality(M) \in Nat
      BY <3>1, <3>2, FS_Subset, FS_CardinalityType
    <3> QED
      BY <1>1, <2>1, <3>2, <3>3
  <2>2. CASE (\E i : B \subseteq A \cup {i}) /\ M \subseteq L
    <3>1. PICK i : B \subseteq A \cup {i}
      BY <2>2
    <3>2. IsFiniteSet(A \cup {i}) /\ Cardinality(A \cup {i}) \in {Cardinality(A), Cardinality(A) + 1}
      BY <1>1, FS_AddElement
    <3>3. /\ IsFiniteSet(B) /\ Cardinality(B) <= Cardinality(A \cup {i}) /\ Cardinality(B) \in Nat
      BY <3>1, <3>2, FS_Subset, FS_CardinalityType
    <3>4. /\ IsFiniteSet(M) /\ Cardinality(M) <= Cardinality(L) /\ Cardinality(M) \in Nat
      BY <1>1, <2>2, FS_Subset, FS_CardinalityType
    <3> QED
      BY <1>1, <3>2, <3>3, <3>4
  <2> QED
    BY <2>1, <2>2 DEF A, L, B, M
<1>5. Cardinality(B) + Cardinality(M) <= Cap' + Cardinality(Agents) + excused'
  <2> HIDE DEF A, L, B, M
  <2> QED
    BY <1>1, <1>2, <1>3, <1>4
<1> QED
  BY <1>5 DEF Bounded

(* A row that a live agent adds costs it its place.                        *)
LEMMA BoundSpent ==
  ASSUME TypeOK, TypeOK', NEW k, NEW f, Bounded(k, f), excused' = excused,
         NEW p, p \in Live(k, f), Live(k, f)' \subseteq Live(k, f) \ {p},
         NEW i, About(k, f)' \subseteq About(k, f) \cup {i}
  PROVE  Bounded(k, f)'
<1> DEFINE A == About(k, f)
           L == Live(k, f)
           B == About(k, f)'
           M == Live(k, f)'
<1>1. /\ IsFiniteSet(A) /\ IsFiniteSet(L) /\ Cardinality(A) \in Nat /\ Cardinality(L) \in Nat
      /\ Cardinality(Agents) \in Nat /\ Cap \in Nat /\ excused \in Nat
  BY BoundTyped
<1>2. Cap' = Cap
  BY DEF Cap
<1>3. Cardinality(A) + Cardinality(L) <= Cap + Cardinality(Agents) + excused
  BY DEF Bounded
<1>4. Cardinality(B) \in Nat /\ Cardinality(M) \in Nat
        /\ Cardinality(B) + Cardinality(M) <= Cardinality(A) + Cardinality(L)
  <2> HIDE DEF A, L, B, M
  <2>1. IsFiniteSet(A \cup {i}) /\ Cardinality(A \cup {i}) \in {Cardinality(A), Cardinality(A) + 1}
    BY <1>1, FS_AddElement
  <2>2. B \subseteq A \cup {i} /\ M \subseteq L \ {p} /\ p \in L
    BY DEF A, L, B, M
  <2>3. IsFiniteSet(B) /\ Cardinality(B) <= Cardinality(A \cup {i}) /\ Cardinality(B) \in Nat
    BY <2>1, <2>2, FS_Subset, FS_CardinalityType
  <2>4. IsFiniteSet(L \ {p}) /\ Cardinality(L \ {p}) = Cardinality(L) - 1
    BY <1>1, <2>2, FS_RemoveElement
  <2>5. IsFiniteSet(M) /\ Cardinality(M) <= Cardinality(L \ {p}) /\ Cardinality(M) \in Nat
    BY <2>2, <2>4, FS_Subset, FS_CardinalityType
  <2> QED
    BY <1>1, <2>1, <2>3, <2>4, <2>5
<1>5. Cardinality(B) + Cardinality(M) <= Cap' + Cardinality(Agents) + excused'
  <2> HIDE DEF A, L, B, M
  <2> QED
    BY <1>1, <1>2, <1>3, <1>4
<1> QED
  BY <1>5 DEF Bounded

(* While the rows are within the cap, all agents may be live.              *)
LEMMA BoundOpen ==
  ASSUME TypeOK', NEW k, NEW f, Cardinality(About(k, f)') <= Cap
  PROVE  Bounded(k, f)'
<1>1. Cap' = Cap
  BY DEF Cap
<1>2. /\ Cardinality(About(k, f)') \in Nat /\ Cardinality(Live(k, f)') \in Nat
      /\ Cardinality(Live(k, f)') <= Cardinality(Agents) /\ Cardinality(Agents) \in Nat
      /\ Cap' \in Nat /\ excused' \in Nat
  <2>1. About(k, f)' \in SUBSET DOMAIN rows' /\ rows' \in Seq(Records)
    BY DEF About, InLineage, TypeOK
  <2>2. IsFiniteSet(DOMAIN rows')
    <3>1. DOMAIN rows' = 1..Len(rows') /\ Len(rows') \in Nat
      BY <2>1
    <3> QED
      BY <3>1, FS_Interval
  <2>3. Live(k, f)' \in SUBSET Agents
    BY DEF Live
  <2>4. excused' \in Nat /\ Cap \in Nat
    BY BelowCap, NumbersAssumption DEF TypeOK
  <2>5. Cardinality(About(k, f)') \in Nat
    BY <2>1, <2>2, FS_Subset, FS_CardinalityType
  <2> QED
    BY <1>1, <2>3, <2>4, <2>5, AgentsFinite
<1> QED
  BY <1>1, <1>2 DEF Bounded

(* The key of a new row is of its commit and baseline.                     *)
LEMMA KeyMatches ==
  ASSUME TypeOK, OriginInv, LineageIsOneSearch, NEW p \in Agents, pc[p] = "decide",
         Key(local[p]) # NoLineage
  PROVE  Key(local[p])[1] = local[p].commit /\ Key(local[p])[2] = local[p].base
<1>1. CASE local[p].lineage = NoLineage
  BY <1>1 DEF Key
<1>2. CASE local[p].lineage # NoLineage
  <2>1. PICK i \in DOMAIN rows : IsOrigin(local[p], local[p].lineage, i)
    BY <1>2 DEF OriginInv
  <2>2. Key(local[p]) = local[p].lineage
    BY <1>2 DEF Key
  <2> QED
    BY <1>2, <2>1, <2>2 DEF IsOrigin, LineageIsOneSearch
<1> QED
  BY <1>1, <1>2

(* Only the agent that steps can become live.                              *)
LEMMA LiveOthers ==
  ASSUME NEW k, NEW f, NEW p \in Agents,
         \A q \in Agents \ {p} : pc'[q] = pc[q] /\ local'[q] = local[q]
  PROVE  /\ Live(k, f)' \subseteq Live(k, f) \cup {p}
         /\ p \notin Live(k, f)' => Live(k, f)' \subseteq Live(k, f) \ {p}
         /\ (p \in Live(k, f)' => p \in Live(k, f)) => Live(k, f)' \subseteq Live(k, f)
BY DEF Live, Exhausted, Cap

(* An agent becomes live by the meter only while the rows are within the   *)
(* cap.                                                                    *)
LEMMA MeterBounds ==
  ASSUME LineageInv, TypeOK', NEW k \in Keys, NEW f, Bounded(k, f), NEW p \in Agents, Meter(p)
  PROVE  Bounded(k, f)'
<1>1. PICK claim \in 0..1, counted \in Attempts(local[p]) :
        LET attempt == IF claim > counted THEN claim ELSE counted IN
        /\ local' = [local EXCEPT ![p].attempt = attempt]
        /\ Goto(p, IF attempt > 0 THEN "origin" ELSE "decide")
  BY DEF Meter
<1> DEFINE attempt == IF claim > counted THEN claim ELSE counted
<1>2. attempt \in Nat /\ counted \in Nat /\ counted <= attempt
  BY AttemptsNatural DEF LineageInv, TypeOK
<1>3. local' = [local EXCEPT ![p].attempt = attempt]
  BY <1>1
<1> HIDE DEF attempt
<1>4. /\ TypeOK /\ LineageIsOneSearch /\ UNCHANGED <<rows, excused>> /\ local[p] \in Locals
      /\ \A q \in Agents \ {p} : pc'[q] = pc[q] /\ local'[q] = local[q]
  BY DEF LineageInv, Meter, Goto, TypeOK
<1>5. local'[p].attempt = attempt /\ local'[p].commit = local[p].commit
        /\ local'[p].cand = local[p].cand /\ local'[p].base = local[p].base
  BY <1>3, <1>4 DEF TypeOK, Locals
<1>6. About(k, f)' = About(k, f)
  BY <1>4 DEF About, InLineage, Files
<1>7. CASE p \notin Live(k, f)'
  <2>1. excused' >= excused
    BY <1>4, BoundTyped
  <2> QED
    BY <1>4, <1>6, <1>7, <2>1, LiveOthers, BoundStays
<1>8. CASE p \in Live(k, f)'
  <2>1. /\ ~Exhausted(attempt) /\ f \in FilesOf[local[p].cand]
        /\ local[p].commit = k[1] /\ local[p].base = k[2]
    BY <1>5, <1>8 DEF Live, Exhausted, Cap
  <2>2. attempt < Cap /\ Cap \in Nat
    BY <1>2, <2>1, BelowCap
  <2>3. Cardinality(About(k, f)) <= Cap
    <3>1. CASE About(k, f) = {}
      BY <2>2, <3>1, FS_EmptySet
    <3>2. CASE About(k, f) # {}
      <4>1. Cardinality(About(k, f)) \in Nat /\ Cardinality(About(k, f)) <= counted + 1
        BY <1>4, <2>1, <3>2, AttemptsCover
      <4> QED
        BY <1>2, <2>2, <4>1
    <3> QED
      BY <3>1, <3>2
  <2> QED
    BY <1>6, <2>3, BoundOpen
<1> QED
  BY <1>7, <1>8

(* A row is paid for by the place of the agent that adds it, or excused.   *)
LEMMA RowBounds ==
  ASSUME LineageInv, TypeOK', NEW k \in Keys, NEW f, Bounded(k, f), NEW p \in Agents,
         Revise(p) \/ ReviseSanctioned(p)
  PROVE  Bounded(k, f)'
<1> DEFINE l == local[p]
           n == Len(rows) + 1
<1>1. /\ TypeOK /\ OriginInv /\ LineageIsOneSearch /\ pc[p] = "decide" /\ AddRow(l)
      /\ l \in Locals /\ pc'[p] = "idle"
      /\ \A q \in Agents \ {p} : pc'[q] = pc[q] /\ local'[q] = local[q]
  BY DEF LineageInv, Revise, ReviseSanctioned, Goto, TypeOK
<1>2. /\ RowsGrow /\ DOMAIN rows' = DOMAIN rows \cup {n} /\ n \notin DOMAIN rows
      /\ rows'[n].cand = l.cand /\ rows'[n].lineage = Key(l)
  BY <1>1, AddedRow
<1> HIDE DEF n
<1>3. Live(k, f)' \subseteq Live(k, f) \ {p}
  <2>1. p \notin Live(k, f)'
    BY <1>1 DEF Live
  <2> QED
    BY <1>1, <2>1, LiveOthers
<1>4. About(k, f)' \subseteq About(k, f) \cup {n}
  BY <1>2 DEF About, InLineage, Files, RowsGrow
<1>5. n \notin About(k, f)' => About(k, f)' = About(k, f)
  BY <1>2 DEF About, InLineage, Files, RowsGrow
<1>6. CASE Revise(p)
  <2>1. excused' = excused /\ ~Exhausted(l.attempt)
    BY <1>6 DEF Revise
  <2>2. CASE n \in About(k, f)'
    <3>1. Key(l) = k /\ f \in FilesOf[l.cand]
      BY <1>2, <2>2 DEF About, InLineage, Files
    <3>2. k # NoLineage
      BY DEF Keys, NoLineage
    <3>3. l.commit = k[1] /\ l.base = k[2]
      BY <1>1, <3>1, <3>2, KeyMatches
    <3>4. p \in Live(k, f)
      BY <1>1, <2>1, <3>1, <3>3 DEF Live
    <3> QED
      BY <1>1, <1>3, <1>4, <2>1, <3>4, BoundSpent
  <2>3. CASE n \notin About(k, f)'
    <3>1. excused' >= excused
      BY <1>1, <2>1, BoundTyped
    <3> QED
      BY <1>1, <1>3, <1>5, <2>3, <3>1, BoundStays
  <2> QED
    BY <2>2, <2>3
<1>7. CASE ReviseSanctioned(p)
  <2>1. excused' = excused + 1
    BY <1>7 DEF ReviseSanctioned
  <2> QED
    BY <1>1, <1>3, <1>4, <2>1, BoundExcused
<1> QED
  BY <1>6, <1>7

(* An empty ledger is within any bound.                                    *)
LEMMA InitBound == Init => BoundInv
<1> SUFFICES ASSUME Init, NEW k \in Keys, NEW f \in AllFiles PROVE Bounded(k, f)
  BY DEF BoundInv
<1>1. TypeOK
  BY InitTyped
<1>2. About(k, f) = {} /\ Live(k, f) = {}
  BY DEF Init, About, InLineage, Live
<1>3. Cardinality(About(k, f)) = 0 /\ Cardinality(Live(k, f)) = 0
  BY <1>2, FS_EmptySet
<1> QED
  BY <1>1, <1>3, BoundTyped DEF Bounded

(* Every step keeps the rows and those to come within the bound.           *)
LEMMA NextBound == LineageInv /\ BoundInv /\ [Next]_vars => BoundInv'
<1> SUFFICES ASSUME LineageInv, BoundInv, [Next]_vars, NEW k \in Keys, NEW f \in AllFiles
             PROVE  Bounded(k, f)'
  <2>1. Keys' = Keys /\ AllFiles' = AllFiles
    BY DEF Keys, AllFiles
  <2> QED
    BY <2>1 DEF BoundInv
<1>1. TypeOK /\ TypeOK' /\ Bounded(k, f) /\ excused \in Nat
  BY NextTyped, BoundTyped DEF LineageInv, BoundInv
<1>2. UNCHANGED rows => About(k, f)' = About(k, f)
  BY DEF About, InLineage, Files
<1>3. UNCHANGED excused => excused' >= excused
  BY <1>1
<1>4. ASSUME NEW p \in Agents, Step(p) PROVE Bounded(k, f)'
  <2> DEFINE others == \A q \in Agents \ {p} : pc'[q] = pc[q] /\ local'[q] = local[q]
  <2>1. CASE Meter(p) \/ Revise(p) \/ ReviseSanctioned(p)
    BY <1>1, <2>1, MeterBounds, RowBounds
  <2>2. CASE MeterFails(p)
    <3>1. UNCHANGED rows /\ excused' = excused + 1 /\ others
      BY <1>1, <2>2 DEF MeterFails, Goto, TypeOK
    <3> QED
      BY <1>1, <1>2, <3>1, LiveOthers, BoundExcused
  <2>3. CASE Bind(p) \/ BindFails(p) \/ Conclude(p) \/ \E c \in Candidates : Submit(p, c)
    <3>1. UNCHANGED <<rows, excused>> /\ others /\ pc'[p] \in {"bind", "meter", "idle"}
      BY <1>1, <2>3 DEF Bind, BindFails, Conclude, Submit, Goto, TypeOK
    <3>2. p \notin Live(k, f)'
      BY <3>1 DEF Live
    <3> QED
      BY <1>1, <1>2, <1>3, <3>1, <3>2, LiveOthers, BoundStays
  <2>4. CASE ReadOrigin(p) \/ OriginFails(p)
    <3>1. UNCHANGED <<rows, excused>> /\ others /\ pc[p] = "origin" /\ local[p] \in Locals
      BY <1>1, <2>4 DEF ReadOrigin, OriginFails, Goto, TypeOK
    <3>2. /\ local'[p].attempt = local[p].attempt /\ local'[p].cand = local[p].cand
          /\ local'[p].commit = local[p].commit /\ local'[p].base = local[p].base
      BY <1>1, <2>4, <3>1 DEF ReadOrigin, OriginFails, TypeOK, Locals
    <3>3. p \in Live(k, f)' => p \in Live(k, f)
      BY <3>1, <3>2 DEF Live, Exhausted, Cap
    <3> QED
      BY <1>1, <1>2, <1>3, <3>1, <3>3, LiveOthers, BoundStays
  <2> QED
    BY <1>4, <2>1, <2>2, <2>3, <2>4 DEF Step
<1>5. ASSUME UNCHANGED <<rows, pc, local, excused>> PROVE Bounded(k, f)'
  <2>1. Live(k, f)' = Live(k, f)
    BY <1>5 DEF Live, Exhausted, Cap
  <2> QED
    BY <1>1, <1>2, <1>3, <1>5, <2>1, BoundStays
<1>6. CASE \E b \in Baselines : Drift(b)
  BY <1>5, <1>6 DEF Drift
<1>7. CASE \E h \in Commits, b \in Baselines : MoveHead(h, b)
  BY <1>5, <1>7 DEF MoveHead
<1>8. CASE UNCHANGED vars
  BY <1>5, <1>8 DEF vars
<1> QED
  BY <1>4, <1>6, <1>7, <1>8 DEF Next

(* The bound with those to come is one on those that are there.            *)
LEMMA BoundSuffices == LineageInv /\ BoundInv => LineageBounded
<1> SUFFICES ASSUME LineageInv, BoundInv, NEW i \in DOMAIN rows, NEW f \in Files(i),
                    rows[i].lineage # NoLineage
             PROVE  Cardinality({j \in InLineage(rows[i].lineage) : f \in Files(j)})
                      <= Cap + Cardinality(Agents) + excused
  BY DEF LineageBounded
<1> DEFINE k == rows[i].lineage
<1>1. k \in Keys /\ f \in AllFiles /\ TypeOK
  BY RowTyped DEF LineageInv, Lineages, Keys, AllFiles, Files
<1>2. Bounded(k, f)
  BY <1>1 DEF BoundInv
<1>3. {j \in InLineage(k) : f \in Files(j)} = About(k, f)
  BY DEF About
<1> HIDE DEF k
<1>4. Cardinality(About(k, f)) <= Cap + Cardinality(Agents) + excused
  BY <1>1, <1>2, BoundTyped DEF Bounded
<1> QED
  BY <1>3, <1>4 DEF k

(* The search for a safer edit of a file ends, however many agents, files  *)
(* and candidates there are.                                               *)
THEOREM SearchEnds == Spec => []LineageBounded
<1>1. Init => LineageInv /\ BoundInv
  BY InitLineage, InitBound
<1>2. LineageInv /\ BoundInv /\ [Next]_vars => LineageInv' /\ BoundInv'
  BY NextLineage, NextBound
<1> QED
  BY <1>1, <1>2, BoundSuffices, PTL DEF Spec
================================================================================
