------------------------------ MODULE ReviewLoop ------------------------------
(***************************************************************************)
(* One candidate between its assessment and the reassessment that follows  *)
(* a human's approval.  The interactive `accept-risk --apply` offers what  *)
(* is reviewable and sanctions the gate it shows; the file form sanctions  *)
(* any row, by default for every convertible gate.  Before the             *)
(* reassessment the ledger, the graph or the learned facts may change what *)
(* the evidence says; the request, its proof and its obligations are       *)
(* replayed as they were.                                                  *)
(***************************************************************************)
EXTENDS DecisionGates

CONSTANT MaxChanges  \* bound: changes of the evidence before the reassessment
ASSUME MaxChangesAssumption == MaxChanges \in Nat

VARIABLES
  evidence,  \* what an assessment would gather now
  phase,     \* where the candidate is
  verdict,   \* of its last assessment
  converts,  \* the gates its sanction names
  changes    \* changes of the evidence since the assessment

reviewing == <<evidence, phase, verdict, converts, changes>>

(* decide always names the gates that fired, and one of its decisions.     *)
ReviewTyped ==
  /\ evidence \in Evidence
  /\ phase \in {"new", "assessed", "approved", "granted", "reassessed"}
  /\ verdict \in Verdicts
  /\ verdict.trace # <<>>
  /\ converts \subseteq Nat
  /\ changes \in 0..MaxChanges

ReviewInit ==
  /\ evidence \in Evidence
  /\ phase = "new"
  /\ verdict = Verdict("inspect_first", 0, <<0>>)  \* unread until Assess
  /\ converts = {}
  /\ changes = 0

Assess ==
  /\ phase = "new"
  /\ phase' = "assessed"
  /\ verdict' = Decide(evidence, {})
  /\ UNCHANGED <<evidence, converts, changes>>

(* Mutant of Approve: the gate that decided is no obstacle to an override. *)
ApproveAny ==
  /\ phase = "assessed"
  /\ Reviewable(verdict)
  /\ phase' = "approved"
  /\ converts' = Convertible
  /\ UNCHANGED <<evidence, verdict, changes>>

(* select_pending_approval, APPROVE, and the sanction for what was shown.  *)
Approve ==
  /\ phase = "assessed"
  /\ Reviewable(verdict)
  /\ phase' = "approved"
  /\ converts' = {Controlling(verdict)}
  /\ UNCHANGED <<evidence, verdict, changes>>

(* accept_risk with a file: whatever the row's decision is.                *)
Grant ==
  /\ phase = "assessed"
  /\ phase' = "granted"
  /\ converts' \in {Convertible, Convertible \cup {11}}
  /\ UNCHANGED <<evidence, verdict, changes>>

(* Somebody else's rows, the graph, or a promoted snapshot.                *)
EvidenceMoves ==
  /\ phase \in {"approved", "granted"}
  /\ changes < MaxChanges
  /\ changes' = changes + 1
  /\ \/ \E r \in Revisions, x \in BOOLEAN :
          evidence' = [evidence EXCEPT !.revision = r, !.exhausted = x]
     \/ \E s \in Stages : evidence' = [evidence EXCEPT !.stage = s]
     \/ \E g \in Gaps : evidence' = [evidence EXCEPT !.gap = g]
     \/ \E b \in BOOLEAN : evidence' = [evidence EXCEPT !.cycle = b]
     \/ \E b, w \in BOOLEAN, u \in {"loss", "weak", "sound"} :
          evidence' = [evidence EXCEPT !.lossOver = b, !.utility = u, !.wide = w]
  /\ UNCHANGED <<phase, verdict, converts>>

(* The sanction is claimed and spent, and gate 10 sees it.                 *)
Reassess ==
  /\ phase \in {"approved", "granted"}
  /\ phase' = "reassessed"
  /\ verdict' = Decide(evidence, converts)
  /\ UNCHANGED <<evidence, converts, changes>>

ReviewNext == Assess \/ Approve \/ Grant \/ EvidenceMoves \/ Reassess

ReviewSpec == ReviewInit /\ [][ReviewNext]_reviewing

-------------------------------------------------------------------------------
(***************************************************************************)
(* Properties                                                              *)
(***************************************************************************)
Judged == phase \in {"assessed", "reassessed"}

(* "It never overrides a gate-1 policy violation": no sanction, however    *)
(* made, and no review lets such a candidate through.                      *)
PolicyIsFinal ==
  Judged /\ evidence.policy =>
    verdict.decision = "reject" /\ ~Reviewable(verdict)

(* The host's obligations are not for the approver to waive: as long as    *)
(* they are unmet the candidate does not proceed.                          *)
ObligationsStand == Judged /\ evidence.unmet => verdict.decision # "proceed"

(* In a sensitive stage nothing proceeds on the evidence alone.            *)
SensitiveNeedsHuman ==
  Judged /\ Sensitive(evidence) /\ verdict.decision = "proceed" /\ ~verdict.confirm =>
    verdict.controlled /\ converts # {}

(* What no sanction and no review moves: the gates an approval is not for. *)
GatesStand == PolicyIsFinal /\ ObligationsStand /\ SensitiveNeedsHuman

(* A sanction lifts only what a human could have been asked about: an      *)
(* evidence gap, a missing test or a revision stays what it is.            *)
LiftsOnlyReviewable ==
  Judged /\ verdict # Decide(evidence, {}) => Reviewable(Decide(evidence, {}))

(* The approval of one gate's verdict never carries a candidate past       *)
(* another gate, whatever the evidence has become meanwhile.               *)
ConvertsWhatWasShown ==
  [][Reassess /\ phase = "approved" /\ verdict'.controlled =>
       verdict'.gate = Controlling(verdict)]_reviewing

(* A reject that is offered for override is one an approval can lift: on   *)
(* unchanged evidence the reassessment proceeds, or names the obligations. *)
OverrideFinishes ==
  [][Reassess /\ phase = "approved" /\ changes = 0 /\ verdict.decision = "reject" =>
       verdict'.controlled \/ (evidence.unmet /\ verdict'.decision = "revise_safer")]_reviewing
===============================================================================
