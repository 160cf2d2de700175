---------------------------- MODULE DecisionGates ----------------------------
(***************************************************************************)
(* decision_engine.decide, the only place a risk decision is made, as a    *)
(* function of the evidence and of the sanction claimed for the candidate. *)
(* Scores are kept as the comparisons the gates make of them.              *)
(***************************************************************************)
EXTENDS Naturals, Sequences

CONSTANTS
  Stages,     \* criticality stages considered
  Revisions,  \* kinds of resubmission considered
  Proofs,     \* candidate verifications considered
  Gaps        \* evidence gaps considered

ASSUME StagesAssumption == Stages \subseteq {"plain", "sensitive", "held"}
ASSUME RevisionsAssumption ==
  Revisions \subseteq {"none", "broken", "unscored", "riskier", "reduced"}
ASSUME ProofsAssumption == Proofs \subseteq {"none", "bound", "unbound", "missing"}
ASSUME GapsAssumption == Gaps \subseteq {0, 8, 12, 13, 14}

(* stage: plain is C0 to C2, sensitive C3 or C4, held a C4 whose change is *)
(* consequential or unknown while c4_always_ask_human is set.              *)
(* revision: broken has an unavailable or incomplete origin envelope,      *)
(* unscored an origin without scores, riskier did not reduce the loss.     *)
(* utility: loss is EU < 0, weak EU >= 0 > RAU, sound RAU >= 0.            *)
(* proof: none is not_applicable, bound passed with every required check   *)
(* for this very patch, unbound passed for another, missing anything else. *)
(* gap: the first of gates 8, 12, 13, 14 that fires.  unmet: the host's    *)
(* task obligations.  narrowable: all that _should_revise_safer asks but   *)
(* the budget and the benefit.                                             *)
Evidence ==
  [policy: BOOLEAN, stage: Stages, revision: Revisions, exhausted: BOOLEAN,
   benefit: BOOLEAN, lossOver: BOOLEAN, utility: {"loss", "weak", "sound"},
   strict: BOOLEAN, wide: BOOLEAN, narrowable: BOOLEAN, proof: Proofs,
   cycle: BOOLEAN, gap: Gaps, unmet: BOOLEAN]

Decisions == {"proceed", "inspect_first", "test_first", "revise_safer",
              "ask_human", "reject"}

(* What a decision carries: its gate, and gates_fired without advisories.  *)
Verdicts == [decision: Decisions, confirm: BOOLEAN, gate: Nat, trace: Seq(Nat),
             controlled: BOOLEAN]

Verdict(d, g, t) ==
  [decision |-> d, confirm |-> d = "ask_human", gate |-> g, trace |-> t,
   controlled |-> FALSE]

Sensitive(e) == e.stage \in {"sensitive", "held"}

(* Out of attempts, a revision goes to a human.                            *)
Retry(e) == IF e.exhausted THEN "ask_human" ELSE "revise_safer"

(* _revision_risk_benefit_outcome: "approved", or the decision that ends   *)
(* the revision; and the gates it notes.                                   *)
RevisionEnd(e) ==
  CASE e.revision = "none" -> "none"
    [] e.revision = "broken" -> Retry(e)
    [] e.revision = "unscored" -> "ask_human"
    [] e.revision \in {"riskier", "reduced"} ->
         IF ~e.benefit THEN "reject"
         ELSE IF e.revision = "riskier" \/ e.utility # "sound" THEN "ask_human"
         ELSE IF e.proof \in {"unbound", "missing"} THEN Retry(e)
         ELSE "approved"

RevisionTrace(e) ==
  CASE e.revision = "none" -> <<>>
    [] e.revision = "reduced" /\ e.benefit /\ e.utility = "sound" ->
         IF e.proof = "none" THEN <<9>>
         ELSE IF e.proof = "bound" THEN <<7, 9>> ELSE <<7>>
    [] OTHER -> <<9>>

ShouldRevise(e) == e.narrowable /\ e.benefit /\ ~e.exhausted

(* Gates 3 and 4: revise if it may help, else reject or ask.               *)
Unfavourable(e, g, rejects) ==
  IF ShouldRevise(e) THEN Verdict("revise_safer", g, <<6, g>>)
  ELSE Verdict(IF rejects THEN "reject" ELSE "ask_human", g, <<g>>)

(* Mutant of Proceed: the stage asks for nothing.                          *)
ProceedFreely(e) == Verdict("proceed", 11, RevisionTrace(e) \o <<11>>)

Proceed(e) ==
  [decision |-> "proceed", confirm |-> Sensitive(e), gate |-> 11,
   trace |-> RevisionTrace(e) \o <<11>>, controlled |-> FALSE]

(* The ladder: the first gate that fires.                                  *)
Provisional(e) ==
  LET end == RevisionEnd(e)
      seen == RevisionTrace(e)
      approved == end = "approved" IN
  IF e.stage = "held" THEN Verdict("ask_human", 2, seen \o <<2>>)
  ELSE IF end \notin {"none", "approved"} THEN Verdict(end, 9, seen)
  ELSE IF e.lossOver /\ ~approved THEN Unfavourable(e, 3, e.utility = "loss")
  ELSE IF e.utility # "sound" /\ ~approved THEN Unfavourable(e, 4, e.strict)
  ELSE IF e.wide /\ ~approved THEN Verdict("ask_human", 5, <<5>>)
  ELSE IF e.cycle /\ e.proof # "bound" THEN Verdict("test_first", 16, seen \o <<16>>)
  ELSE IF e.gap # 0 THEN Verdict("inspect_first", e.gap, seen \o <<e.gap>>)
  ELSE IF e.unmet THEN Verdict("ask_human", 15, seen \o <<15>>)
  ELSE Proceed(e)

Convertible == {2, 3, 4, 9}  \* SANCTION_CONVERTIBLE_GATES

Controlled(v) ==
  [decision |-> "proceed", confirm |-> FALSE, gate |-> v.gate,
   trace |-> v.trace \o <<10>>, controlled |-> TRUE]

(* Mutant of Lifts: only a question.                                       *)
LiftsQuestions(v, converts) ==
  v.decision = "ask_human" /\ v.gate \in Convertible \cap converts

Lifts(v, converts) ==
  v.decision \in {"ask_human", "reject"} /\ v.gate \in Convertible \cap converts

Resolve(e, v) ==
  IF e.unmet
  THEN Verdict("revise_safer", v.gate, v.trace \o <<10, 15>>)
  ELSE Controlled(v)

(* Gate 1, the ladder, gate 10.  converts: the gates the claimed sanction  *)
(* names, none if none was claimed or its controls are not satisfied.      *)
Decide(e, converts) ==
  LET v == Provisional(e) IN
  IF e.policy THEN Verdict("reject", 1, <<1>>)
  ELSE IF v.decision = "proceed" /\ v.confirm /\ 11 \in converts THEN Controlled(v)
  ELSE IF Lifts(v, converts) THEN Resolve(e, v)
  ELSE v

-------------------------------------------------------------------------------
(***************************************************************************)
(* What a human may review                                                 *)
(***************************************************************************)
(* controlling_gate: the first gate noted, whichever gate decided.         *)
Controlling(v) == Head(v.trace)

(* reject_override_eligible: the evidence is that of a risk rejection.     *)
Overridable(v) == v.decision = "reject" /\ Controlling(v) \in Convertible \ {2}

Reviewable(v) ==
  \/ v.decision = "ask_human"
  \/ v.decision = "proceed" /\ v.confirm
  \/ Overridable(v)
===============================================================================
