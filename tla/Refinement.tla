------------------------------ MODULE Refinement -------------------------------
(***************************************************************************)
(* The second look of an assessment at revised candidates.  The graph says *)
(* how likely an edit is to break its users; a candidate that is held on   *)
(* account of that may be analysed (Continuity), and a proof that users    *)
(* are served makes the one event it is about less likely.  Every input    *)
(* passes two layers of priors before it is scored, the rates shipped with *)
(* the program and over them those learned of the repository; an analysis  *)
(* that proves something may bring a shipped rate to bear.  An analysis is *)
(* expensive: candidates are ranked, few are analysed, and none once one   *)
(* of those analysed proceeds.                                             *)
(*                                                                         *)
(* Probabilities are in thousandths, disutilities in tenths.               *)
(***************************************************************************)
EXTENDS Orders, SequencesExt

CONSTANTS
  Candidates,  \* the actions of the request, numbers in the order of their patches
  Portfolios,  \* what each of them may be
  Tolerance,   \* the loss nobody is asked about
  Budgets,     \* max_materialized_candidates_per_assess
  Answers,     \* owners -> what an analysis of them may answer
  Doubts,      \* what review and uncertainty may take off a refined utility
  Nothing      \* no source, no rate, no row

(* What a request says of an event: what it is, how likely and how bad,    *)
(* and no risk_source, which events_for_modify_risk alone writes.          *)
SaidEvents ==
  [event : STRING, p : Nat, d : Nat, source : {Nothing}, owners : {{}}, floor : {0}]

Statuses == {"not_applicable", "available", "unavailable", "ambiguous"}

ASSUME RefinementAssumption ==
  /\ IsFiniteSet(Candidates) /\ Candidates \subseteq Int
  /\ Budgets \subseteq Nat /\ Doubts \subseteq Int /\ Nothing # "graph"
  /\ \A offers \in Portfolios : \A c \in Candidates :
       /\ offers[c].said \in Seq(SaidEvents) /\ offers[c].change.p \in Nat
       /\ offers[c].benefit \in Int /\ offers[c].breadth \in Int
       /\ offers[c].change.owners \in DOMAIN Answers
       /\ offers[c].success \in Nat /\ offers[c].doubt \in Int
       /\ offers[c].learned.success \in Nat \cup {Nothing}
       /\ \A event \in DOMAIN offers[c].learned.events : offers[c].learned.events[event] \in Nat
  /\ \A owners \in DOMAIN Answers : \A answer \in Answers[owners] :
       DOMAIN answer = {"status", "facts", "verified"} /\ answer.status \in Statuses

VARIABLES
  portfolio,  \* what the candidates are
  budget,     \* how many may be analysed
  at,         \* where the assessment is
  scored,     \* candidate -> how it was scored last
  ranked,     \* those that may be analysed, the best first
  next,       \* the place of the next in ranked
  analysed,   \* those that were, in this order
  row         \* the one recommended

refining == <<portfolio, budget, at, scored, ranked, next, analysed, row>>

-----------------------------------------------------------------------------
(* What the graph expects of an edit                                       *)

(* events_for_modify_risk: is the change one that others may notice?       *)
Consequential(change) ==
  \/ /\ change.reach
     /\ change.contract \/ change.unknown \/ change.consequential \/ change.schema
  \/ change.public /\ (change.contract \/ change.consequential)
  \/ change.exported /\ change.contract /\ change.high

(* _dominant_event: of the nested descriptions of one fault the worst.     *)
Dominant(change) ==
  IF change.schema THEN "api_contract_break"
  ELSE IF change.public \/ change.exported THEN "public_api_break" ELSE "dependency_break"

Disutility(event) == IF event = "dependency_break" THEN 6 ELSE 7

Event(name, p, d, source, owners, floor) ==
  [event |-> name, p |-> p, d |-> d, source |-> source, owners |-> owners, floor |-> floor]

GraphEvents(c) ==
  LET change == c.change
  IN  IF change.operation = "NONE" /\ change.trusted /\ Consequential(change)
      THEN {Event(Dominant(change), change.p, Disutility(Dominant(change)), "graph", change.owners, 0)}
      ELSE {}

Larger(x, y) == IF x > y THEN x ELSE y

(* Mutant of Merge: what others said of the event is forgotten.            *)
MergeForgetful(old, new) ==
  LET worse == new.p >= old.p /\ new.d >= old.d /\ (new.p > old.p \/ new.d > old.d)
  IN  IF worse THEN new
      ELSE [old EXCEPT !.p = Larger(@, new.p), !.d = Larger(@, new.d), !.source = Nothing, !.owners = {}]

(* _merge_event_max: the graph owns the event if it expects worse of it in *)
(* every respect, and what others said stays its floor.                    *)
Merge(old, new) ==
  LET worse == new.p >= old.p /\ new.d >= old.d /\ (new.p > old.p \/ new.d > old.d)
  IN  IF worse THEN [new EXCEPT !.floor = old.p]
      ELSE [old EXCEPT !.p = Larger(@, new.p), !.d = Larger(@, new.d), !.source = Nothing, !.owners = {}]

(* _build_input: the first event of that name is merged with the graph's.  *)
Expected(c) ==
  IF GraphEvents(c) = {} THEN c.said
  ELSE LET new == CHOOSE e \in GraphEvents(c) : TRUE
           same == SelectInSeq(c.said, LAMBDA e : e.event = new.event)
       IN  IF same = 0 THEN Append(c.said, new)
           ELSE [c.said EXCEPT ![same] = Merge(@, new)]

-----------------------------------------------------------------------------
(* The layers of priors                                                    *)

MinConfidence == 90
WarmSuccess == 800

(* The one cell of CALIBRATED_PRIORS: an edit of TypeScript, and a proof   *)
(* of this very patch that what it exports is still there.                 *)
Matches(c, evidence) ==
  /\ c.typescript /\ c.change.tier = "full"
  /\ evidence.status = "available" /\ evidence.verified
  /\ \E f \in Range(evidence.facts) :
       /\ f.kind = "exported_binding_continuity" /\ f.event = "public_api_break"
       /\ f.source = "graph" /\ f.owners # {} /\ f.confidence \in MinConfidence..100

(* apply_warm_prior: what the request says itself is not replaced.         *)
Warmed(c, input, evidence) ==
  IF Matches(c, evidence) /\ ~c.stated THEN [input EXCEPT !.success = WarmSuccess] ELSE input

ConsequenceBearing ==
  {"public_api_break", "security_sensitive_change", "external_state_damage", "migration_failure",
   "dependency_break", "api_contract_break", "route_behavior_break", "tool_schema_break",
   "response_shape_mismatch", "consumer_shape_mismatch", "path_migration_break"}

Clamped(rate) == IF rate < 10 THEN 10 ELSE IF rate > 990 THEN 990 ELSE rate

(* A rate learned of an event replaces what was expected of it, but never  *)
(* makes one with consequences less likely.                                *)
Relearned(e, rates) ==
  IF e.event \notin DOMAIN rates THEN e
  ELSE [e EXCEPT !.p = IF e.event \in ConsequenceBearing THEN Larger(@, Clamped(rates[e.event]))
                       ELSE Clamped(rates[e.event])]

(* apply_snapshot                                                          *)
Learned(c, input) ==
  [events |-> [i \in DOMAIN input.events |-> Relearned(input.events[i], c.learned.events)],
   success |-> IF c.learned.success = Nothing THEN input.success ELSE Clamped(c.learned.success)]

(* Mutant of PriorLayers: what is shipped goes over what was learned here. *)
ShippedOverLearned(c, input, evidence) == Warmed(c, Learned(c, input), evidence)

(* _apply_prior_layers: what was learned here goes over what is shipped.   *)
PriorLayers(c, input, evidence) == Learned(c, Warmed(c, input, evidence))

ContinuityEvidence(status, facts) == [status |-> status, facts |-> facts, verified |-> FALSE]
NotAnalysed == ContinuityEvidence("not_applicable", <<>>)

(* _prepare_action_input                                                   *)
Prepared(c) == PriorLayers(c, [events |-> Expected(c), success |-> c.success], NotAnalysed)

-----------------------------------------------------------------------------
(* What a proof takes away                                                 *)

ProbabilityFloor == 50

KeyOf(e) == <<e.event, e.source, e.owners>>

(* An event a fact is about: named by exactly one fact and like no other.  *)
About(fact, e, events, facts) ==
  /\ KeyOf(fact) = KeyOf(e) /\ e.owners # {}
  /\ Cardinality({g \in DOMAIN events : KeyOf(events[g]) = KeyOf(e)}) = 1
  /\ Cardinality({g \in DOMAIN facts : KeyOf(facts[g]) = KeyOf(e)}) = 1
  /\ fact.kind = "exported_binding_continuity"
  /\ e.event = "public_api_break" /\ e.source = "graph"
  /\ fact.confidence \in MinConfidence..100

(* What is left of p: 35% of it when the proof is certain, but no less     *)
(* than either floor and no more than there was.                           *)
Revised(e, confidence) ==
  LET floor == Larger(ProbabilityFloor, e.floor)
      left == Larger(floor, (e.p * (10000 - 65 * confidence)) \div 10000)
  IN  IF left < e.p THEN left ELSE e.p

(* apply_scoped_adjustments: only what was verified of this very patch.    *)
Adjusted(events, evidence) ==
  LET AboutEvent(i) == {f \in Range(evidence.facts) : About(f, events[i], events, evidence.facts)}
  IN  IF evidence.status # "available" \/ ~evidence.verified THEN events
      ELSE [i \in DOMAIN events |->
              IF AboutEvent(i) = {} THEN events[i]
              ELSE [events[i] EXCEPT !.p = Revised(events[i], (CHOOSE f \in AboutEvent(i) : TRUE).confidence)]]

-----------------------------------------------------------------------------
(* Scores, as far as the second look needs them                            *)

LossOf(events) ==
  LET first[i \in 0..Len(events)] == IF i = 0 THEN 0 ELSE first[i - 1] + events[i].p * events[i].d
  IN  first
Loss(events) == LossOf(events)[Len(events)]

Decision(c, loss, rau) ==
  IF c.violates THEN "reject"
  ELSE IF loss > Tolerance \/ rau < 0 \/ c.verification = "failed" THEN "revise_safer" ELSE "proceed"

(* _score_prepared_input: proofs lower what the priors left, and doubt is  *)
(* what review costs and uncertainty take off the utility.                 *)
Scored(c, input, evidence, doubt) ==
  LET events == Adjusted(input.events, evidence)
      loss == Loss(events)
      rau == ((c.benefit * input.success) \div 1000) - loss - doubt
  IN  [events |-> events, success |-> input.success, loss |-> loss, rau |-> rau,
       decision |-> Decision(c, loss, rau), evidence |-> evidence, status |-> evidence.status]

(* _graph_risk_scope: the owners of the event an analysis would be about.  *)
Scope(c) ==
  LET events == Prepared(c).events
      mine == SelectInSeq(events,
                          LAMBDA e : e.event = "public_api_break" /\ e.source = "graph" /\ e.owners # {})
  IN  IF mine # 0 /\ c.change.trusted /\ c.change.tier = "full" THEN events[mine].owners ELSE {}

HardEvents == {"security_sensitive_change", "external_state_damage", "migration_failure"}

(* _rank_input, rank_candidates                                            *)
Eligible(c) ==
  /\ c.revision /\ Scope(c) # {} /\ c.patch
  /\ c.benefit > 0 /\ c.verification # "failed" /\ ~c.violates
  /\ \A e \in Range(Prepared(c).events) : e.event \notin HardEvents

(* The better candidate: more utility, less loss, more benefit, smaller.   *)
RankKey(c) == <<-scored[c].rau, scored[c].loss, -portfolio[c].benefit, portfolio[c].breadth, c>>
ByRank(S) == InOrder(S, [c \in S |-> RankKey(c)])

Proceeding == {c \in Candidates : scored[c].decision = "proceed"}

(* _recommended                                                            *)
Worth(c) == <<-scored[c].rau, scored[c].loss, -portfolio[c].benefit, c>>
Recommended ==
  LET open == {c \in Candidates : scored[c].decision # "reject"}
      pool == IF Proceeding # {} THEN Proceeding ELSE IF open # {} THEN open ELSE Candidates
  IN  CHOOSE c \in pool : \A o \in pool \ {c} : Precedes(Worth(c), Worth(o))

-----------------------------------------------------------------------------
Unscored == [status |-> "not_applicable"]

RefineInit ==
  /\ portfolio \in Portfolios /\ budget \in Budgets
  /\ at = "score" /\ scored = [c \in Candidates |-> Unscored]
  /\ ranked = <<>> /\ next = 1 /\ analysed = <<>> /\ row = Nothing

(* Every candidate is scored as the graph has it.                          *)
Score ==
  /\ at = "score" /\ at' = "rank"
  /\ scored' = [c \in Candidates |->
       Scored(portfolio[c], Prepared(portfolio[c]), NotAnalysed, portfolio[c].doubt)]
  /\ UNCHANGED <<portfolio, budget, ranked, next, analysed, row>>

(* Those that are held, and could be helped, are ranked.                   *)
Rank ==
  /\ at = "rank" /\ at' = "refine"
  /\ LET pending == {c \in Candidates : Eligible(portfolio[c]) /\ c \notin Proceeding}
     IN  /\ ranked' = ByRank(pending)
         /\ scored' = [c \in Candidates |-> IF c \in pending THEN [scored[c] EXCEPT !.status = "pending"]
                                            ELSE scored[c]]
  /\ UNCHANGED <<portfolio, budget, next, analysed, row>>

Stopped == \E i \in DOMAIN analysed : scored[analysed[i]].decision = "proceed"
MayRefine == next <= Len(ranked) /\ Len(analysed) < budget /\ ~Stopped

(* What an analysis shows is pinned to the patch.                          *)
Pinned(c, answer) == [answer EXCEPT !.verified = answer.status = "available" /\ c.patch]

(* The candidate is scored again, with both layers over its input again.   *)
Rescored(c, evidence, doubt) ==
  Scored(c, PriorLayers(c, Prepared(c), evidence), evidence, doubt)

(* The next is analysed; an analysis that fails takes nothing away.        *)
Refine ==
  /\ at = "refine" /\ MayRefine
  /\ LET c == ranked[next]
     IN  /\ \E answer \in Answers[Scope(portfolio[c])] \cup {ContinuityEvidence("unavailable", <<>>)},
              doubt \in Doubts :
              scored' = [scored EXCEPT ![c] =
                Rescored(portfolio[c], Pinned(portfolio[c], answer), doubt)]
         /\ analysed' = Append(analysed, c)
  /\ next' = next + 1
  /\ UNCHANGED <<portfolio, budget, at, ranked, row>>

(* The others are told why they were not, and one is recommended.          *)
Conclude ==
  /\ at = "refine" /\ ~MayRefine /\ at' = "done"
  /\ scored' = [c \in Candidates |->
       IF scored[c].status = "pending"
       THEN [scored[c] EXCEPT !.status = IF Stopped THEN "not_evaluated_after_proceed" ELSE "budget_exhausted"]
       ELSE scored[c]]
  /\ row' = Recommended
  /\ UNCHANGED <<portfolio, budget, ranked, next, analysed>>

RefineNext == Score \/ Rank \/ Refine \/ Conclude

RefineSpec == RefineInit /\ [][RefineNext]_refining

-----------------------------------------------------------------------------
(* What a request said of an event is as likely as it said at the end,     *)
(* unless it has no consequences and this repository taught another rate.  *)
SaidIsKept(c) ==
  LET rates == portfolio[c].learned.events
      is == scored[c].events
  IN  \A i \in DOMAIN portfolio[c].said :
        LET said == portfolio[c].said[i]
        IN  \E j \in DOMAIN is :
              /\ is[j].event = said.event
              /\ \/ is[j].p >= said.p
                 \/ /\ said.event \in DOMAIN rates \ ConsequenceBearing
                    /\ is[j].p = Clamped(rates[said.event])

WasProved(c) == scored[c].status = "available" /\ \E k \in DOMAIN analysed : analysed[k] = c

(* No event is less likely than it was before the second look, shipped and *)
(* learned rates included, but the one the analysis was about, of which    *)
(* a third remains and never less than the floor.                          *)
ProofsAreScoped(c) ==
  LET was == Prepared(portfolio[c]).events
      is == scored[c].events
  IN  /\ Cardinality({i \in DOMAIN was : is[i].p # was[i].p}) <= 1
      /\ \A i \in DOMAIN was : is[i].p # was[i].p =>
           /\ WasProved(c) /\ was[i].owners = Scope(portfolio[c])
           /\ is[i].p < was[i].p /\ is[i].p >= ProbabilityFloor /\ 20 * is[i].p >= 7 * was[i].p - 20

(* Success is no likelier, or less likely, than before unless something    *)
(* was proved, and then only where neither the request nor what was        *)
(* learned here says how likely it is.                                     *)
SuccessIsEarned(c) ==
  scored[c].success # Prepared(portfolio[c]).success =>
    /\ WasProved(c) /\ portfolio[c].typescript /\ ~portfolio[c].stated
    /\ portfolio[c].learned.success = Nothing

(* Whoever was eligible and was not analysed is told the true reason.      *)
ReasonsAreTrue ==
  \A c \in Candidates :
    /\ scored[c].status # "pending"
    /\ scored[c].status = "budget_exhausted" => Len(analysed) = budget /\ ~Stopped
    /\ scored[c].status = "not_evaluated_after_proceed" =>
         \E d \in Proceeding : \E i, j \in DOMAIN ranked : ranked[i] = d /\ ranked[j] = c /\ i < j

(* The second look of an assessment lowers no expectation but that of the  *)
(* event its analysis was about, keeps what was said and what was learned  *)
(* here over what is shipped, spends no more than it may, says why it did  *)
(* not look, and recommends a candidate that proceeds if there is one.  A  *)
(* learned rate of the graph's event is no floor of it: a proof lowers it  *)
(* with the rest (apply_scoped_adjustments knows two floors only).         *)
RefinedAsProved ==
  at = "done" =>
    /\ \A c \in Candidates : SaidIsKept(c) /\ ProofsAreScoped(c) /\ SuccessIsEarned(c)
    /\ ReasonsAreTrue
    /\ Len(analysed) <= budget
    /\ Proceeding # {} => row \in Proceeding /\ \A c \in Proceeding : scored[c].rau <= scored[row].rau
================================================================================
