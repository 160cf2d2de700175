----------------------------- MODULE LearnedFacts ------------------------------
(***************************************************************************)
(* What the ledger's outcomes teach the next assessment.  Calibration rows *)
(* pile up; a promotion tries a fact for every scope their features        *)
(* support, scoring each row by the rate of the others (leave one out),    *)
(* and replaces the snapshot; an assessment lets the facts of the snapshot *)
(* that match it override what was predicted.                              *)
(*                                                                         *)
(* A probability or a measured value is a number of tenths, or a fraction  *)
(* <<n, d>> of them, a disutility a number of hundredths; sums of squares  *)
(* and products of likelihoods are compared exactly, multiplied out.       *)
(***************************************************************************)
EXTENDS Bags, FiniteSetsExt, Integers

CONSTANTS
  RowKinds,         \* the calibration rows to look at, of one target
  Targets,          \* the targets learned, each [binary, event, consequence]
  MinSamples,       \* min_calibration_samples
  IntervalSamples,  \* min_interval_coverage_samples
  MaxChurn,         \* verified changes of a scope until its fact has faded
  MaxRows,          \* bound on the rows of the ledger
  Unknown           \* a feature that was not captured

(* Of an event there is only whether it occurred.                          *)
ASSUME RowsAssumption ==
  /\ \A k \in RowKinds :
       k.predicted \in Nat /\ k.actual \in Nat /\ k.disutility \in Nat \cup {Unknown}
  /\ \A t \in Targets : t.event => \A k \in RowKinds : k.actual \in {0, 10}

VARIABLES
  target,   \* the target at hand
  rows,     \* its calibration rows, a bag
  facts,    \* the facts of its active snapshot
  basis     \* the rows they were learned from

learning == <<target, rows, facts, basis>>

-----------------------------------------------------------------------------
(* Scopes                                                                  *)

(* A scope is its kind, followed by what it asks for.                      *)
Specificity(s) ==
  CASE s[1] = "global" -> 0
    [] s[1] = "action_type" -> 2
    [] s[1] = "public_api" -> 3
    [] s[1] = "domain" -> 4
    [] s[1] = "domain_change_kind" -> 5
    [] s[1] = "high_symbol_fan_in" -> 6
    [] s[1] = "domain_high_symbol_fan_in" -> 7
    [] s[1] = "public_api_domain" -> 8
    [] s[1] = "symbol" -> 9

HighFanIn == 90  \* the default of min_percentile

(* scope_matches_features                                                  *)
ScopeMatches(s, f) ==
  CASE s[1] = "global" -> TRUE
    [] s[1] = "action_type" -> f.action = s[2]
    [] s[1] = "symbol" -> f.symbol = s[2]
    [] s[1] = "public_api" -> f.public
    [] s[1] = "public_api_domain" -> f.public /\ s[2] \in f.domains
    [] s[1] = "domain" -> s[2] \in f.domains
    [] s[1] = "domain_change_kind" -> s[2] \in f.domains /\ f.change = s[3]
    [] s[1] = "high_symbol_fan_in" -> f.high \/ f.percentile >= HighFanIn
    [] s[1] = "domain_high_symbol_fan_in" -> s[2] \in f.domains /\ f.percentile >= HighFanIn

(* _derive_scope_candidates: what the features of the rows support.        *)
Scopes(fs) ==
  {<<"global">>}
  \cup {<<"action_type", f.action>> : f \in fs}
  \cup {<<"symbol", f.symbol>> : f \in {g \in fs : g.symbol # Unknown}}
  \cup {<<"public_api">> : f \in {g \in fs : g.public}}
  \cup {<<"high_symbol_fan_in">> : f \in {g \in fs : g.high}}
  \cup UNION {{<<"domain", d>>, <<"domain_high_symbol_fan_in", d>>} : d \in UNION {f.domains : f \in fs}}
  \cup UNION {{<<"public_api_domain", d>> : d \in f.domains} : f \in {g \in fs : g.public}}
  \cup UNION {{<<"domain_change_kind", d, f.change>> : d \in f.domains}
                : f \in {g \in fs : g.change # Unknown}}

GraphDerived(s) == s[1] \in {"high_symbol_fan_in", "domain_high_symbol_fan_in"}

-----------------------------------------------------------------------------
(* The promotion gate, over the bag g of the rows a scope matches          *)

Features(b) == {k.features : k \in DOMAIN b}

(* Rows refined by their own candidate's graph teach nothing general.      *)
Teaching(b) == [k \in {j \in DOMAIN b : ~j.refined} |-> b[k]]

Matched(b, s) == [k \in {j \in DOMAIN b : ScopeMatches(s, j.features)} |-> b[k]]

Total(v, g) == MapThenSumSet(LAMBDA k : g[k] * v[k], DOMAIN g)
Size(g) == Total([k \in DOMAIN g |-> 1], g)
Product(v, g) ==
  MapThenFoldSet(LAMBDA x, y : x * y, 1, LAMBDA k : v[k] ^ g[k],
                 LAMBDA S : CHOOSE k \in S : TRUE, DOMAIN g)

Observed(g) == Total([k \in DOMAIN g |-> k.actual], g)

(* Mutant of Value: shrunk towards a half, which no row measured.          *)
ShrunkValue(g) == <<Observed(g) + 5, Size(g) + 1>>

(* The learned value of the matched rows: their observed rate, or mean.    *)
Value(g) == <<Observed(g), Size(g)>>

(* What is predicted of each row: what was; the rate of the others.        *)
Predicted(g) == [k \in DOMAIN g |-> <<k.predicted, 1>>]
OfTheOthers(g) ==
  LET all == Observed(g)
      others == Size(g) - 1
  IN  [k \in DOMAIN g |-> <<all - k.actual, others>>]

(* What p predicts, in parts of d.                                         *)
Parts(p, d) == [k \in DOMAIN p |-> p[k][1] * (d \div p[k][2])]

(* mean_brier and mse, times the square of the common denominator.         *)
Error(g, p, d) ==
  LET q == Parts(p, d) IN Total([k \in DOMAIN g |-> (q[k] - k.actual * d) ^ 2], g)

(* mean_log_loss, as the likelihood of what was observed.  A rate of none  *)
(* that did occur is clipped, and stays below every likelihood of a row.   *)
Likelihood(g, p, d) ==
  LET q == Parts(p, d)
  IN  Product([k \in DOMAIN g |-> IF k.actual = 10 THEN q[k] ELSE 10 * d - q[k]], g)

(* Would the yardstick of the gate let an edit of probability v pass?      *)
Proceeds(v, k) ==
  IF k.disutility = Unknown THEN v[1] * 2 < 10 * v[2] ELSE v[1] * k.disutility < 100 * v[2]

(* The harmful rows that proceed, of all the rows or of the critical ones. *)
Missed(g, p) == [k \in {j \in DOMAIN g : j.actual = 10 /\ Proceeds(p[j], j)} |-> g[k]]
Critical(g) == [k \in {j \in DOMAIN g : j.critical} |-> g[k]]
FalseProceeds(g, p) == Size(Missed(g, p))
CriticalProceeds(g, p) == Size(Missed(Critical(g), p))

(* Mutant of Safe: the critical rows are not looked at on their own.       *)
SafeOverall(g) == target.event => FalseProceeds(g, OfTheOthers(g)) <= FalseProceeds(g, Predicted(g))

(* The hard vetoes, for the probability of a harmful event.                *)
Safe(g) ==
  target.event =>
    /\ FalseProceeds(g, OfTheOthers(g)) <= FalseProceeds(g, Predicted(g))
    /\ CriticalProceeds(g, OfTheOthers(g)) <= CriticalProceeds(g, Predicted(g))

(* evaluate_promotion_gate and evaluate_benefit_continuous_gate, but for   *)
(* the coverage of the intervals.                                          *)
Passes(g) ==
  LET d == Size(g) - 1
  IN  /\ Size(g) >= MinSamples /\ Size(g) >= 2
      /\ Error(g, OfTheOthers(g), d) < Error(g, Predicted(g), d)
      /\ target.binary => Likelihood(g, OfTheOthers(g), d) > Likelihood(g, Predicted(g), d)
      /\ Safe(g)

(* _one_graph_scope                                                        *)
OneGraph(g) ==
  /\ Cardinality({k.features.graph : k \in DOMAIN g}) = 1
  /\ \A k \in DOMAIN g : k.features.graph # Unknown

(* The scopes the rows support, each with the rows it matches.             *)
Groups(b) == {[scope |-> s, rows |-> Matched(b, s)] : s \in Scopes(Features(b))}

Fact(c) == [scope |-> c.scope, value |-> Value(c.rows), size |-> Size(c.rows), churn |-> 0]

(* _collect_facts: a candidate with many rows may yet fall to the coverage *)
(* of its interval, whose arithmetic is left open: lost are those.         *)
Collected(b) ==
  {c \in Groups(b) : Passes(c.rows) /\ (GraphDerived(c.scope) => OneGraph(c.rows))}

Promotions(b) ==
  LET earned == Collected(b)
  IN  {earned \ lost : lost \in SUBSET {c \in earned : Size(c.rows) >= IntervalSamples}}

-----------------------------------------------------------------------------
(* compute_drift: some active fact is off the rate of the rows it matches. *)
Off(f, b) ==
  LET g == Matched(b, f.scope)
  IN  Size(g) > 0 /\ f.value[1] * Size(g) # Observed(g) * f.value[2]

Drifted(fs, b) == \E f \in fs : Off(f, b)

-----------------------------------------------------------------------------
(* apply_snapshot, in its default mode                                     *)

(* _auto_applies: the weight a fact keeps falls with every verified change *)
(* in its scope.                                                           *)
AutoApplies(f) == f.churn <= MaxChurn

Applicable(fs, features) == {f \in fs : AutoApplies(f) /\ ScopeMatches(f.scope, features)}

AtMost(v, w) == v[1] * w[2] <= w[1] * v[2]

(* The facts that come first: the most specific, of those the best known.  *)
Winners(fs) ==
  {f \in fs : \A g \in fs :
     \/ Specificity(f.scope) > Specificity(g.scope)
     \/ Specificity(f.scope) = Specificity(g.scope) /\ f.size >= g.size}

Highest(fs) == {f \in fs : \A g \in fs : AtMost(g.value, f.value)}

(* _clamp: between one and ninety-nine hundredths.                         *)
Clamp(v) ==
  IF AtMost(v, <<1, 10>>) THEN <<1, 10>> ELSE IF AtMost(<<99, 10>>, v) THEN <<99, 10>> ELSE v

(* _resolve_target: of the facts about an event the gloomiest counts.      *)
ResolveTarget(fs) ==
  {IF target.binary THEN Clamp(f.value) ELSE f.value
     : f \in IF target.event THEN Highest(fs) ELSE Winners(fs)}

(* What an assessment of these features, that predicted p, goes on with.   *)
(* An event that bears consequences is never made likelier to pass.        *)
Applied(features, p) ==
  LET fs == Applicable(facts, features)
  IN  IF fs = {} THEN {p}
      ELSE {IF target.consequence /\ AtMost(v, p) THEN p ELSE v : v \in ResolveTarget(fs)}

-----------------------------------------------------------------------------
LearnInit ==
  /\ target \in Targets
  /\ rows = EmptyBag /\ facts = {} /\ basis = EmptyBag

(* An outcome is measured.                                                 *)
Record(k) ==
  /\ Size(rows) < MaxRows
  /\ rows' = rows (+) SetToBag({k})
  /\ UNCHANGED <<target, facts, basis>>

(* run_promotion and its siblings: the new facts take the place of the     *)
(* old, unless there are none.  (A promotion asked to freeze on drift may  *)
(* do nothing instead.)                                                    *)
Promote ==
  \E learned \in Promotions(Teaching(rows)) :
    /\ learned # {}
    /\ facts' = {Fact(c) : c \in learned}
    /\ basis' = rows
    /\ UNCHANGED <<target, rows>>

(* An edit of these features is assessed, made and verified: the facts     *)
(* whose scope it changed fade.                                            *)
Verified(features) ==
  /\ \E f \in facts : ScopeMatches(f.scope, features) /\ AutoApplies(f)
  /\ facts' = {[f EXCEPT !.churn = IF ScopeMatches(f.scope, features) /\ AutoApplies(f)
                                   THEN @ + 1 ELSE @] : f \in facts}
  /\ UNCHANGED <<target, rows, basis>>

LearnNext ==
  \/ \E k \in RowKinds : Record(k)
  \/ Promote
  \/ \E features \in {k.features : k \in RowKinds} : Verified(features)

LearnSpec == LearnInit /\ [][LearnNext]_learning

-----------------------------------------------------------------------------
(* A promoted fact about a harmful event, applied the way assess applies   *)
(* it among all the others, lets no more of the harmful edits it was       *)
(* learned from pass than the predictions it overrides did, nor of the     *)
(* critical ones: though the gate tried it one row short of its value, by  *)
(* itself, and unclamped.                                                  *)
AppliedIn(g) ==
  [k \in DOMAIN g |-> CHOOSE v \in Applied(k.features, <<k.predicted, 1>>) : TRUE]

LearnedSafely ==
  target.event =>
    \A f \in {h \in facts : AutoApplies(h)} :
      LET g == Matched(Teaching(basis), f.scope)
      IN  /\ FalseProceeds(g, AppliedIn(g)) <= FalseProceeds(g, Predicted(g))
          /\ CriticalProceeds(g, AppliedIn(g)) <= CriticalProceeds(g, Predicted(g))

(* But for a harmful edit that would proceed at 0.99 and was stopped by a  *)
(* prediction above: the clamp may let that one by.                        *)
ClampLetsNoneBy ==
  \A k \in RowKinds : k.actual = 10 /\ Proceeds(<<99, 10>>, k) => Proceeds(<<k.predicted, 1>>, k)

(* A snapshot read against the rows it was made of has not drifted: a      *)
(* freeze waits for outcomes that came later, or for rows the promotion    *)
(* leaves out and the reconciler counts.                                   *)
BornWithoutDrift ==
  rows = basis /\ Drifted(facts, rows) => \E k \in DOMAIN rows : k.refined
================================================================================
