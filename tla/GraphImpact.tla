------------------------------ MODULE GraphImpact -----------------------------
(***************************************************************************)
(* The graph evidence of one proposed edit: its owners, their callers, and *)
(* what a change of them reaches against the direction of use, up to a     *)
(* depth.  The edit's own reach is read by recursive SQL; the population   *)
(* it is ranked in is walked in Python, root by root, breadth first.  Here *)
(* the walk of one root is a state machine and the SQL a set definition,   *)
(* over every small graph.                                                 *)
(***************************************************************************)
EXTENDS OwnerResolution

CONSTANTS
  Graphs,         \* the graphs to look at
  Actions,        \* the candidate actions
  ReachDepth,     \* _TRANSITIVE_REACH_MAX_DEPTH
  ContainDepth,   \* how far containment is followed
  MaxWitnesses    \* _MAX_IMPACT_WITNESSES_PER_OWNER

VARIABLES
  graph,      \* the index read
  action,     \* the action it is read for
  stage,      \* how far the reading is
  resolved,   \* the owners found, and how
  root,       \* the symbol of the population being walked
  walked,     \* the nodes the walk has seen
  frontier,   \* nodes yet to expand, each with its depth
  targets,    \* the containers' walk, once it is over
  buckets,    \* node reached -> depth, by the second walk
  evidence    \* what is reported

measuring == <<graph, action, stage, resolved, root, walked, frontier, targets, buckets, evidence>>

(* Each walk goes some way; a use of a node is by a node.                  *)
ASSUME DepthsAssumption == IsFiniteSet(Nodes) /\ {ReachDepth, ContainDepth} \subseteq Nat \ {0}
ASSUME GraphsAssumption == \A g \in Graphs : \A u \in g.uses : {u.source, u.target} \subseteq Nodes

UseKinds == {"calls"}
ImpactKinds == UseKinds \cup {"extends"}
ContainerKinds == ClassKinds \cup {"module", "file"}

-----------------------------------------------------------------------------
(* What the SQL selects                                                    *)

Users(g, ns, kinds) == {e.source : e \in {u \in g.uses : u.target \in ns /\ u.kind \in kinds}}

(* _fanin: the symbols themselves are not their callers.                   *)
Callers(g, ns) == Users(g, ns, UseKinds) \ ns

ContainersOf(g, n) == {c \in Nodes : <<c, n>> \in g.contains /\ g.kind[c] \in ContainerKinds}

(* _container_hierarchy_rows, one join for each level.                     *)
ContainerLevels(g, ns) ==
  LET Level[d \in 1..ContainDepth] ==
        UNION {ContainersOf(g, n) : n \in IF d = 1 THEN ns ELSE Level[d - 1]}
  IN  Level

Ancestors(g, ns) ==
  LET level == ContainerLevels(g, ns) IN UNION {level[d] : d \in 1..ContainDepth}

(* _modify_impact_target_ids                                               *)
ModifyTargets(g, ns) == ns \cup Ancestors(g, ns)

(* _transitive_impact_nodes: who is reached through edges from outside     *)
(* blocked, each once, with its least depth.                               *)
UserLevels(g, ns, blocked) ==
  LET Level[d \in 1..ReachDepth] ==
        Users(g, IF d = 1 THEN ns ELSE Level[d - 1], ImpactKinds) \ blocked
  IN  Level

ReachedFrom(g, ns, blocked) ==
  LET level == UserLevels(g, ns, blocked)
  IN  {p \in Nodes \X (1..ReachDepth) :
         p[1] \in level[p[2]] /\ \A d \in 1..(p[2] - 1) : p[1] \notin level[d]}

Reached(g, ns) == ReachedFrom(g, ns, ns)

(* _changed_owner_edge_count                                               *)
CrossEdges(g, ns) ==
  {e \in g.uses : e.source \in ns /\ e.target \in ns /\ e.source # e.target}

(* _contract_metadata, for one owner: it or its container is abstract, an  *)
(* interface or trait, or exported.                                        *)
PublicContract(g, n) ==
  \E c \in {n} \cup {k \in ContainersOf(g, n) : g.kind[k] \in ClassKinds} :
    g.kind[c] \in {"interface", "trait"} \/ c \in g.exported

(* _impact_witnesses: the nearest few, which explain and never bound.      *)
Witnesses(reached) ==
  LET Order(p, q) == p[2] <= q[2]
      sorted == SetToSortSeq(reached, Order)
  IN  SubSeq(sorted, 1, IF Len(sorted) < MaxWitnesses THEN Len(sorted) ELSE MaxWitnesses)

(* Mutant of OwnerRisk: the other changed owners count as impacted.        *)
OwnerRiskAlone(g, n, ns) ==
  LET reached == ReachedFrom(g, ModifyTargets(g, {n}), ModifyTargets(g, {n}))
  IN  [node |-> n, callers |-> Cardinality(Callers(g, ns) \cap Users(g, {n}, UseKinds)),
       impacted |-> reached, witnesses |-> Witnesses(reached), contract |-> PublicContract(g, n)]

(* _owner_risk_evidence: what one owner reaches, the changed ones apart.   *)
OwnerRisk(g, n, ns) ==
  LET reached == ReachedFrom(g, ModifyTargets(g, {n}),
                   UNION {ModifyTargets(g, {m}) : m \in ns} )
  IN  [node |-> n, callers |-> Cardinality(Callers(g, ns) \cap Users(g, {n}, UseKinds)),
       impacted |-> reached, witnesses |-> Witnesses(reached), contract |-> PublicContract(g, n)]

Unresolved(freshness) ==
  [freshness |-> freshness, method |-> "unresolved", owners |-> {}, callers |-> 0,
   impact |-> 0, reached |-> {}, risks |-> {}, cross |-> 0]

(* The evidence of resolved owners; an ambiguous name earns none.          *)
Evidence(g, r) ==
  IF r.owners = {} THEN Unresolved("fresh")
  ELSE IF r.method = "name_fallback_ambiguous"
  THEN [Unresolved("fresh") EXCEPT !.method = r.method, !.owners = r.owners]
  ELSE LET ts == ModifyTargets(g, r.owners)
       IN  [freshness |-> "fresh", method |-> r.method, owners |-> r.owners,
            callers |-> Cardinality(Callers(g, r.owners)),
            impact |-> Cardinality(Users(g, ts, ImpactKinds) \ ts),
            reached |-> Reached(g, ts),
            risks |-> {OwnerRisk(g, n, r.owners) : n \in r.owners},
            cross |-> Cardinality(CrossEdges(g, r.owners))]

-----------------------------------------------------------------------------
(* Reading an index                                                        *)

NoReading == Unresolved("unknown")

ImpactInit ==
  /\ graph \in Graphs
  /\ action \in Actions
  /\ stage = "gate"
  /\ resolved = [owners |-> {}, method |-> "unresolved"]
  /\ root \in {n \in Nodes : graph.kind[n] \in CallableKinds}
  /\ walked = {} /\ frontier = <<>> /\ targets = {} /\ buckets = {}
  /\ evidence = NoReading

(* No status, another version, no index, no database, an old schema or a   *)
(* failed query: nothing is known.  A stale index is said to be stale.     *)
Refuse ==
  /\ stage \in {"gate", "walked"}
  /\ \E freshness \in {"unknown", "stale", "fresh"} :
       /\ freshness = "stale" => stage = "gate"
       /\ evidence' = Unresolved(freshness)
  /\ stage' = "done"
  /\ UNCHANGED <<graph, action, resolved, root, walked, frontier, targets, buckets>>

ResolveOwners ==
  /\ stage = "gate"
  /\ resolved' = Resolve(graph, action)
  /\ stage' = "containers"
  /\ walked' = {root}
  /\ frontier' = <<<<root, 0>>>>
  /\ UNCHANGED <<graph, action, root, targets, buckets, evidence>>

Pairs(ns, depth) == [i \in DOMAIN SetToSeq(ns) |-> <<SetToSeq(ns)[i], depth>>]

(* Mutant of WalkContainers: everything that contains counts.              *)
WalkContainersAll ==
  /\ stage = "containers" /\ frontier # <<>>
  /\ LET node == Head(frontier)[1]
         depth == Head(frontier)[2]
         all == {n \in Nodes : <<n, node>> \in graph.contains}
         found == IF depth >= ContainDepth THEN {} ELSE all \ walked
     IN  /\ walked' = walked \cup found
         /\ frontier' = Tail(frontier) \o Pairs(found, depth + 1)
  /\ UNCHANGED <<graph, action, stage, resolved, root, targets, buckets, evidence>>

(* One turn of the loop of _container_targets.                             *)
WalkContainers ==
  /\ stage = "containers" /\ frontier # <<>>
  /\ LET node == Head(frontier)[1]
         depth == Head(frontier)[2]
         found == IF depth >= ContainDepth THEN {} ELSE ContainersOf(graph, node) \ walked
     IN  /\ walked' = walked \cup found
         /\ frontier' = Tail(frontier) \o Pairs(found, depth + 1)
  /\ UNCHANGED <<graph, action, stage, resolved, root, targets, buckets, evidence>>

(* Its result is where the second walk starts.                             *)
StartReach ==
  /\ stage = "containers" /\ frontier = <<>>
  /\ targets' = walked
  /\ frontier' = Pairs(walked, 0)
  /\ stage' = "reach"
  /\ UNCHANGED <<graph, action, resolved, root, walked, buckets, evidence>>

(* One turn of the loop of _transitive_impact_from_reverse.                *)
WalkReach ==
  /\ stage = "reach" /\ frontier # <<>>
  /\ LET node == Head(frontier)[1]
         depth == Head(frontier)[2]
         found == IF depth >= ReachDepth THEN {} ELSE Users(graph, {node}, ImpactKinds) \ walked
     IN  /\ walked' = walked \cup found
         /\ buckets' = buckets \cup {<<n, depth + 1>> : n \in found}
         /\ frontier' = Tail(frontier) \o Pairs(found, depth + 1)
  /\ UNCHANGED <<graph, action, stage, resolved, root, targets, evidence>>

EndWalk ==
  /\ stage = "reach" /\ frontier = <<>>
  /\ stage' = "walked"
  /\ UNCHANGED <<graph, action, resolved, root, walked, frontier, targets, buckets, evidence>>

Report ==
  /\ stage = "walked"
  /\ evidence' = Evidence(graph, resolved)
  /\ stage' = "done"
  /\ UNCHANGED <<graph, action, resolved, root, walked, frontier, targets, buckets>>

ImpactNext ==
  \/ Refuse \/ ResolveOwners \/ WalkContainers \/ StartReach \/ WalkReach \/ EndWalk \/ Report

ImpactSpec == ImpactInit /\ [][ImpactNext]_measuring

-----------------------------------------------------------------------------
(* The breadth-first walks of the population find, for every root, what    *)
(* the recursive SQL finds for an edit of it, at the same depths: an edit  *)
(* is ranked in a population measured the way it is measured itself.       *)
WalksAgree ==
  stage \in {"walked", "done"} /\ targets # {} =>
    targets = ModifyTargets(graph, {root}) /\ buckets = Reached(graph, targets)

(* Nothing the whole edit reaches is missing from its owners' evidence,    *)
(* nothing in it is itself changed, the nearest depth is the same, and     *)
(* what is at depth one is what modify_impact counts.                      *)
OwnersCoverTheImpact ==
  evidence.risks # {} =>
    LET all == UNION {r.impacted : r \in evidence.risks}
        Nearest(n) == {p \in all : p[1] = n /\ \A q \in all : q[1] = n => p[2] <= q[2]}
    IN  /\ UNION {Nearest(p[1]) : p \in all} = evidence.reached
        /\ \A p \in all : p[1] \notin evidence.owners
        /\ evidence.impact = Cardinality({p \in evidence.reached : p[2] = 1})
=============================================================================
