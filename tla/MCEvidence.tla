------------------------------ MODULE MCEvidence -------------------------------
(***************************************************************************)
(* The sources an assessment takes its evidence from, one at a time: the   *)
(* impact of the edit in the graph (small graphs of MCGraphImpact), the    *)
(* import graph and its cycles, the continuity of what a candidate         *)
(* renames and the second look that asks for it, and the facts learned;    *)
(* and the views the dashboard draws of the graph.  They share no state,   *)
(* so a behaviour is that of the one that is its subject while the others  *)
(* rest.  The properties are those of the modules.                         *)
(***************************************************************************)
EXTENDS MCGraphImpact, ImportGraphCache, ImportCycles, Continuity, LearnedFacts, Refinement,
        GraphViews

VARIABLE subject

-----------------------------------------------------------------------------
(* Every graph of four files, its edges listed in either order.            *)
Arcs == {a \in (1..4) \X (1..4) : a[1] # a[2]}
Listed(arcs, order) == [v \in 1..4 |-> SelectSeq(order, LAMBDA w : <<v, w>> \in arcs)]
MCAdjacencies ==
  {Listed(arcs, order) : arcs \in SUBSET Arcs, order \in {<<1, 2, 3, 4>>, <<4, 3, 2, 1>>}}

-----------------------------------------------------------------------------
(* A function "api" is renamed to "new" under a forwarder; "helper" used   *)
(* it and may change with it, "user" used it and must not.                 *)
Places == {"api", "new", "helper", "user", "other"}

Source(text, mentions) == [text |-> text, mentions |-> mentions]
Function(text, mentions) ==
  [kind |-> "function", signature |-> "s", exported |-> TRUE, language |-> "typescript",
   source |-> Source(text, mentions)]
Forwarder(text) == [Function(text, "new") EXCEPT !.kind = "constant", !.signature = "c"]
Other == Function("other", "none")

Use(from, to, kind, trust) == [from |-> from, to |-> to, kind |-> kind, trust |-> trust]

Before ==
  [p \in Places |-> CASE p = "api" -> Function("api", "none") [] p = "helper" -> Function("help", "old")
                      [] p = "user" -> Function("use", "old") [] p = "other" -> Other
                      [] p = "new" -> None]

(* The right change, and changes that differ from it in one respect.       *)
Right ==
  [new |-> Function("api", "none"), help |-> Function("help", "new"), use |-> Function("use", "new"),
   refs |-> {Use("api", "new", "references", "trusted")},
   helps |-> {Use("helper", "new", "calls", "trusted")},
   forwarder |-> "forward", more |-> <<>>, lines |-> Source("lines", "new"),
   miscounted |-> 0, applies |-> TRUE, language |-> "typescript"]

ToOther(kind, trust) == Use("api", "other", kind, trust)

Wrong ==
  {[Right EXCEPT !.new = n] : n \in {[Function("api", "none") EXCEPT !.signature = "t"],
                                     Other, Function("api", "new")}}
  \cup {[Right EXCEPT !.help = n] : n \in {Function("help", "old"), Function("other", "new"), None}}
  \cup {[Right EXCEPT !.use = n] : n \in {Function("use", "old"), Function("other", "new"), None}}
  \cup {[Right EXCEPT !.refs = r] :
          r \in {{}, {ToOther("references", "trusted")}, Right.refs \cup {ToOther("calls", "trusted")},
                 {Use("api", "new", "references", "guess")}}}
  \cup {[Right EXCEPT !.forwarder = "swap"], [Right EXCEPT !.more = <<Source("forward", "new")>>],
        [Right EXCEPT !.lines = Source("more lines", "new")]}
  \cup {[Right EXCEPT !.helps = {}], [Right EXCEPT !.miscounted = 1],
        [Right EXCEPT !.applies = FALSE], [Right EXCEPT !.language = "basic"]}

(* What the user used, and every way of using two things afterwards.       *)
OldUses ==
  {{Use("user", "api", "calls", "trusted"), Use("user", "api", "calls", "exact")},
   {Use("user", "api", "references", "exact"), Use("user", "helper", "calls", "trusted")}}
NewUse ==
  {Use("user", p, k, t) : p \in {"api", "new"}, k \in {"calls", "references"}, t \in {"trusted", "exact"}}
  \cup {Use("user", "new", "calls", "guess"), Use("user", "other", "calls", "trusted")}
NewUses == {{}} \cup {{u, v} : u \in NewUse, v \in NewUse}
Moved(uses) == {[u EXCEPT !.to = IF @ = "api" THEN "new" ELSE @] : u \in uses}

Candidate(w, owners, old, new) ==
  [owners |-> owners, applies |-> w.applies, language |-> w.language, before |-> Before,
   patch |-> [declared |-> <<Source(w.forwarder, "new")>> \o w.more,
              removed |-> Source("lines", "old"), added |-> w.lines],
   after |-> [p \in Places |-> CASE p = "api" -> Forwarder(w.forwarder) [] p = "new" -> w.new [] p = "helper" -> w.help
                                 [] p = "user" -> w.use [] p = "other" -> Other],
   usesBefore |-> old \cup {Use("helper", "api", "calls", "trusted")},
   usesAfter |-> new \cup w.refs \cup w.helps,
   consumers |-> w.miscounted + (IF "helper" \in owners THEN 1 ELSE 2)]

Owners == {{"api"}, {"api", "helper"}}
MCEdits ==
  {Candidate(Right, {"api", "helper"}, old, new) : old \in OldUses, new \in NewUses}
  \cup {Candidate(w, o, old, Moved(old)) : w \in Wrong, o \in Owners, old \in OldUses}

-----------------------------------------------------------------------------
(* Three kinds of change, and outcomes of each that were foreseen or not.  *)
Captured(kind, symbol, public, domains, change, high, percentile, scope) ==
  [action |-> kind, symbol |-> symbol, public |-> public, domains |-> domains, change |-> change,
   high |-> high, percentile |-> percentile, graph |-> scope]
Body == Captured("edit", "s", TRUE, {}, Unknown, FALSE, 10, "g1")
Hub == Captured("create", Unknown, FALSE, {"d"}, "body", TRUE, 92, "g2")
Surface == Captured("edit", Unknown, TRUE, {"d"}, Unknown, FALSE, 10, "g1")

Row(predicted, actual, disutility, critical, refined, features) ==
  [predicted |-> predicted, actual |-> actual, disutility |-> disutility, critical |-> critical,
   refined |-> refined, features |-> features]
MCRowKinds ==
  {Row(7, 10, 15, TRUE, FALSE, Body), Row(7, 10, 15, FALSE, FALSE, Body),
   Row(2, 10, 40, FALSE, FALSE, Hub), Row(9, 0, Unknown, FALSE, FALSE, Hub),
   Row(7, 10, Unknown, FALSE, FALSE, Surface), Row(2, 0, 40, FALSE, TRUE, Body),
   Row(7, 0, Unknown, FALSE, FALSE, Surface)}

(* None of these edits is let by where a rate is clamped.                  *)
ASSUME ClampLetsNoneBy

Target(binary, event, consequence) ==
  [binary |-> binary, event |-> event, consequence |-> consequence]
MCTargets ==
  {Target(TRUE, FALSE, FALSE), Target(TRUE, TRUE, FALSE), Target(TRUE, TRUE, TRUE),
   Target(FALSE, FALSE, FALSE)}

-----------------------------------------------------------------------------
(* Four symbols in two files, one of them in none, and up to nine edges.   *)
Call(from, to) == [from |-> from, to |-> to, kind |-> "calls"]
Extend(from, to) == [from |-> from, to |-> to, kind |-> "extends"]
Lines ==
  {Call(1, 2), Call(2, 1), Call(2, 2), Call(3, 2), Call(1, 3), Call(4, 1), Call(4, 3),
   Extend(2, 1), Extend(3, 1)}

Neighbourhood(names, most) == [view |-> "hot", names |-> names, depth |-> 2, maxNodes |-> most]
Map(most, each, symbols, lines) ==
  [view |-> "godmap", maxFiles |-> most, perFile |-> each, maxNodes |-> symbols, maxEdges |-> lines]
Full(symbols, lines, most) ==
  [view |-> "full", maxNodes |-> symbols, maxEdges |-> lines, collapseAfter |-> most]
MCRequests ==
  {Neighbourhood(n, m) : n \in {<<{1}>>, <<{2}, {3, 4}>>}, m \in {1, 3, 5}}
  \cup {Map(t, k, n, e) : t \in {1, 2}, k \in {1, 2}, n \in {2, 6}, e \in {2, 3, 12}}
  \cup {Full(n, e, k) : n \in {1, 4}, e \in {2, 12}, k \in {2, 4}}
  \cup {[view |-> "overview", maxFiles |-> 1], [view |-> "file", file |-> 1, perFile |-> 1]}

MCKindOf == <<"callable", "owner", "callable", "other">>
MCFileOf == <<1, 1, 2, None>>
MCIndexes == {[nodes |-> 1..4, edges |-> es] : es \in SUBSET Lines}
MCResynced ==
  {[nodes |-> 1..4, edges |-> Lines],
   [nodes |-> {1, 3}, edges |-> {Call(1, 3), Call(3, 1)}],
   [nodes |-> {2, 4}, edges |-> {Call(4, 2), Call(2, 2)}]}

-----------------------------------------------------------------------------
(* Three candidates, each the usual one or one that differs from it.       *)
Foreseen(event, p, d) ==
  [event |-> event, p |-> p, d |-> d, source |-> Nothing, owners |-> {}, floor |-> 0]
Change(p) ==
  [operation |-> "NONE", trusted |-> TRUE, tier |-> "full", reach |-> TRUE, high |-> FALSE, public |-> TRUE,
   exported |-> FALSE, contract |-> TRUE, unknown |-> FALSE, consequential |-> FALSE, schema |-> FALSE,
   p |-> p, owners |-> {"api", "helper"}]
Learnt(events, success) == [events |-> events, success |-> success]
Rate(event, rate) == [e \in {event} |-> rate]
Offer(said, change, benefit) ==
  [said |-> said, change |-> change, benefit |-> benefit, breadth |-> 1, patch |-> TRUE, revision |-> TRUE,
   violates |-> FALSE, verification |-> "passed", typescript |-> TRUE, stated |-> FALSE, success |-> 500,
   doubt |-> 0, learned |-> Learnt(<<>>, Nothing)]
Usual == Offer(<<>>, Change(400), 10000)

(* One that a shipped rate may help: it loses 980 of 750 or of 1200.       *)
Doubtful == Offer(<<>>, Change(400), 1500)

Offers ==
  {Usual, Offer(<<Foreseen("public_api_break", 300, 5)>>, Change(400), 10000),
   Offer(<<Foreseen("public_api_break", 100, 7), Foreseen("public_api_break", 90, 1)>>, Change(120), 10000),
   Offer(<<Foreseen("public_api_break", 450, 5)>>, Change(400), 6000),
   Offer(<<Foreseen("dependency_break", 200, 6)>>, Change(200), 8000),
   Offer(<<Foreseen("migration_failure", 10, 6)>>, Change(400), 8000)}
  \cup {Doubtful, [Doubtful EXCEPT !.typescript = FALSE], [Doubtful EXCEPT !.stated = TRUE, !.success = 600]}
  \cup {[Doubtful EXCEPT !.learned = learned] :
          learned \in {Learnt(<<>>, 700), Learnt(Rate("public_api_break", 995), Nothing),
                       Learnt(Rate("public_api_break", 200), 5)}}
  \cup {[Offer(<<Foreseen(event, 300, 5)>>, Change(400), 10000) EXCEPT !.learned.events = Rate(event, rate)] :
          event \in {"public_api_break", "test_regression"}, rate \in {5, 600}}
  \cup {Offer(<<>>, change, 8000) :
          change \in {[Change(300) EXCEPT !.public = FALSE], [Change(300) EXCEPT !.tier = "partial"],
                     [Change(300) EXCEPT !.operation = "DELETE"], [Change(300) EXCEPT !.schema = TRUE],
                     [Change(300) EXCEPT !.public = FALSE, !.reach = FALSE, !.exported = TRUE, !.high = TRUE]}}
  \cup {[Usual EXCEPT !.violates = TRUE], [Usual EXCEPT !.verification = "failed"],
        [Usual EXCEPT !.revision = FALSE], [Usual EXCEPT !.patch = FALSE], [Usual EXCEPT !.benefit = 0]}

ProofOf(owners, confidence) ==
  [event |-> "public_api_break", source |-> "graph", owners |-> owners, confidence |-> confidence,
   kind |-> "exported_binding_continuity"]
Answer(owners) ==
  {[status |-> "available", verified |-> FALSE, facts |-> fs] :
     fs \in {<<ProofOf(owners, 100)>>, <<ProofOf(owners, 90)>>, <<ProofOf(owners, 89)>>, <<ProofOf({"api"}, 100)>>,
            <<ProofOf(owners, 100), ProofOf(owners, 95)>>}}
  \cup {[status |-> "ambiguous", verified |-> FALSE, facts |-> <<>>]}

(* The third is as usual, or one a shipped rate may help.                  *)
MCPortfolios == {p \in [1..3 -> Offers] : p[3] \in {Usual, Doubtful}}
MCAnswers == [owners \in SUBSET {"api", "helper"} |-> Answer(owners)]

-----------------------------------------------------------------------------
ImpactRests ==
  /\ graph = None /\ action = None /\ stage = "rests" /\ resolved = None /\ root = None
  /\ walked = {} /\ frontier = <<>> /\ targets = {} /\ buckets = {} /\ evidence = NoReading
BuildRests ==
  /\ disk = None /\ cache = None /\ temp = None /\ bytes = None
  /\ build = [p \in Procs |-> Resting] /\ builds = 0 /\ edits = 0
CyclesRest ==
  adj = None /\ index = None /\ low = None /\ stack = None /\ work = <<None>> /\ cyclic = {}
AnalysisRests ==
  /\ edit = None /\ engine = None /\ known = None /\ kept = {}
  /\ call = Idle /\ calls = 0
LearningRests ==
  target = [event |-> FALSE] /\ rows = <<>> /\ facts = {} /\ basis = None
ViewsRest == database = None /\ view = [at |-> "rests"] /\ syncs = 0
RefinementRests ==
  /\ portfolio = None /\ budget = 0 /\ at = "rests" /\ scored = None /\ ranked = <<>>
  /\ next = 0 /\ analysed = <<>> /\ row = None

EvidenceInit ==
  /\ subject \in {"impact", "imports", "cycles", "continuity", "learning", "views", "refinement"}
  /\ IF subject = "impact" THEN ImpactInit ELSE ImpactRests
  /\ IF subject = "imports" THEN CacheInit ELSE BuildRests
  /\ IF subject = "cycles" THEN CyclesInit ELSE CyclesRest
  /\ IF subject = "continuity" THEN ContinuityInit ELSE AnalysisRests
  /\ IF subject = "learning" THEN LearnInit ELSE LearningRests
  /\ IF subject = "views" THEN ViewsInit ELSE ViewsRest
  /\ IF subject = "refinement" THEN RefineInit ELSE RefinementRests

EvidenceNext ==
  \/ subject = "impact" /\ ImpactNext
     /\ UNCHANGED <<subject, building, searching, analysing, learning, viewing, refining>>
  \/ subject = "imports" /\ CacheNext
     /\ UNCHANGED <<subject, measuring, searching, analysing, learning, viewing, refining>>
  \/ subject = "cycles" /\ CyclesNext
     /\ UNCHANGED <<subject, measuring, building, analysing, learning, viewing, refining>>
  \/ subject = "continuity" /\ ContinuityNext
     /\ UNCHANGED <<subject, measuring, building, searching, learning, viewing, refining>>
  \/ subject = "learning" /\ LearnNext
     /\ UNCHANGED <<subject, measuring, building, searching, analysing, viewing, refining>>
  \/ subject = "views" /\ ViewsNext
     /\ UNCHANGED <<subject, measuring, building, searching, analysing, learning, refining>>
  \/ subject = "refinement" /\ RefineNext
     /\ UNCHANGED <<subject, measuring, building, searching, analysing, learning, viewing>>

EvidenceSpec ==
  EvidenceInit
  /\ [][EvidenceNext]_<<subject, measuring, building, searching, analysing, learning, viewing, refining>>
================================================================================
