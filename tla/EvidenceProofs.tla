---------------------------- MODULE EvidenceProofs -----------------------------
(*****************************************************************************)
(* Theorems of the evidence an assessment reads. GraphImpact: for every      *)
(* graph and every bound on the depths, the walks in Python find what the    *)
(* recursive SQL finds, and the owners' evidence covers the edit's.          *)
(* ImportGraphCache: for any number of processes, files and saves torn in    *)
(* between, an answer is of the files as they are. ImportCycles: for every   *)
(* graph, the search finds just the files on a cycle. Continuity: for all    *)
(* engines and edits, continuity is reported of two graphs of one trusted    *)
(* version, and no user is lost. LearnedFacts: for any rows and however      *)
(* many, a snapshot has not drifted from those that made it, and lets no     *)
(* more harm pass than was predicted. Refinement: for any candidates and     *)
(* budget, a second look takes away no more than a proof has shown.          *)
(* GraphViews: for any indexes, syncs, requests and limits, a view joins     *)
(* what it shows and is no larger than asked for, and of one index it is     *)
(* whole or says not.                                                        *)
(*****************************************************************************)
EXTENDS GraphImpact, ImportGraphCache, ImportCycles, Continuity, LearnedFacts,
        Refinement, GraphViews, FiniteSetTheorems, SequenceTheorems, WellFoundedInduction,
        TLAPS

--------------------------------------------------------------------------------
(*****************************************************************************)
(* Least elements, and induction over a set of numbers                       *)
(*****************************************************************************)

(* Of sets that are finite there is a least.                               *)
LEMMA MinimalOf ==
  ASSUME NEW S, NEW T, T \subseteq FiniteSubsetsOf(S), T # {}
  PROVE  \E x \in T : \A y \in T : ~(y \subseteq x /\ y # x)
<1>1. \E x \in T : \A y \in T : ~ (<<y, x>> \in StrictSubsetOrdering(S))
  BY FS_StrictSubsetOrderingWellFounded, WFMin
<1> QED
  BY <1>1 DEF StrictSubsetOrdering, FiniteSubsetsOf

(* Of natural numbers there is a least.                                    *)
LEMMA LeastOf ==
  ASSUME NEW T \in SUBSET Nat, T # {}
  PROVE  \E x \in T : \A y \in T : x <= y
<1> DEFINE F == {1..n : n \in T}
<1>1. F \subseteq FiniteSubsetsOf(Int) /\ F # {}
  <2>1. \A n \in T : IsFiniteSet(1..n) /\ 1..n \subseteq Int
    BY FS_Interval
  <2> QED
    BY <2>1 DEF FiniteSubsetsOf
<1>2. PICK x \in F : \A y \in F : ~(y \subseteq x /\ y # x)
  <2> HIDE DEF F
  <2> QED
    BY <1>1, MinimalOf
<1>3. PICK n \in T : x = 1..n
  BY <1>2
<1>4. ASSUME NEW m \in T, m < n PROVE FALSE
  <2>1. 1..m \subseteq 1..n /\ n \in 1..n /\ n \notin 1..m
    BY <1>4
  <2> QED
    BY <1>2, <1>3, <2>1
<1> QED
  BY <1>4

(* Induction, for a set of numbers.                                        *)
LEMMA Induct ==
  ASSUME NEW T \in SUBSET Nat, 0 \in T, \A n \in T : n + 1 \in T
  PROVE  T = Nat
<1> SUFFICES ASSUME Nat \ T # {} PROVE FALSE
  OBVIOUS
<1>1. PICK x \in Nat \ T : \A y \in Nat \ T : x <= y
  <2> DEFINE R == Nat \ T
  <2>1. R \in SUBSET Nat /\ R # {}
    OBVIOUS
  <2> HIDE DEF R
  <2>2. \E x \in R : \A y \in R : x <= y
    BY <2>1, LeastOf
  <2> QED
    BY <2>2 DEF R
<1>2. x # 0 /\ x - 1 \in Nat
  BY <1>1
<1>3. x - 1 \in T
  BY <1>1, <1>2
<1> QED
  BY <1>1, <1>2, <1>3

--------------------------------------------------------------------------------
(*****************************************************************************)
(* GraphImpact: the levels of the recursive SQL                              *)
(*****************************************************************************)

(* The levels f of a walk that begins in start.                            *)
Repeats(f, step, start, n) == \A d \in 1..n : f[d] = step[IF d = 1 THEN start ELSE f[d - 1]]

(* A step taken again and again gives a level after each.                  *)
LEMMA Iterates ==
  ASSUME NEW S, NEW step \in [S -> S], NEW start \in S, NEW n \in Nat
  PROVE  \E f \in [1..n -> S] : Repeats(f, step, start, n)
<1> DEFINE Good(m) == \E f \in [1..m -> S] :
                        \A d \in 1..m : f[d] = step[IF d = 1 THEN start ELSE f[d - 1]]
           T == {m \in Nat : Good(m)}
<1>1. 0 \in T
  <2> DEFINE f == [d \in 1..0 |-> start]
  <2>1. f \in [1..0 -> S] /\ \A d \in 1..0 : f[d] = step[IF d = 1 THEN start ELSE f[d - 1]]
    OBVIOUS
  <2> QED
    BY <2>1
<1>2. ASSUME NEW m \in T PROVE m + 1 \in T
  <2>1. PICK f \in [1..m -> S] : \A d \in 1..m : f[d] = step[IF d = 1 THEN start ELSE f[d - 1]]
    OBVIOUS
  <2> DEFINE more == [d \in 1..(m + 1) |->
                        IF d <= m THEN f[d] ELSE step[IF d = 1 THEN start ELSE f[d - 1]]]
  <2>2. more \in [1..(m + 1) -> S]
    OBVIOUS
  <2>3. ASSUME NEW d \in 1..(m + 1)
        PROVE  more[d] = step[IF d = 1 THEN start ELSE more[d - 1]]
    <3>1. CASE d = 1
      BY <2>1, <3>1
    <3>2. CASE d # 1
      <4>1. d - 1 \in 1..m /\ d - 1 \in 1..(m + 1)
        BY <3>2
      <4>2. more[d - 1] = f[d - 1]
        BY <4>1
      <4>3. more[d] = step[f[d - 1]]
        BY <2>1, <3>2
      <4> QED
        BY <3>2, <4>2, <4>3
    <3> QED
      BY <3>1, <3>2
  <2> HIDE DEF more
  <2>4. Good(m + 1)
    BY <2>2, <2>3
  <2> QED
    BY <2>4
<1>3. T = Nat
  <2>1. T \in SUBSET Nat
    OBVIOUS
  <2> HIDE DEF T
  <2> QED
    BY <1>1, <1>2, <2>1, Induct
<1> QED
  BY <1>3 DEF Repeats

(* Where an edge leads, and whom a use comes from.                         *)
Up(g) == [n \in Nodes |-> ContainersOf(g, n)]
Against(g) == [n \in Nodes |-> Users(g, {n}, ImpactKinds)]

(* What level d of a walk is found from.                                   *)
Behind(level, start, d) == IF d = 1 THEN start ELSE level[d - 1]

LevelsFrom(level, succ, start, blocked, D) ==
  /\ level \in [1..D -> SUBSET Nodes]
  /\ \A d \in 1..D : level[d] = (UNION {succ[n] : n \in Behind(level, start, d)}) \ blocked

(* The edges stay inside the graphs looked at.                             *)
LEMMA EdgesStayInside ==
  ASSUME NEW g \in Graphs
  PROVE  /\ Up(g) \in [Nodes -> SUBSET Nodes]
         /\ Against(g) \in [Nodes -> SUBSET Nodes]
         /\ \A s \in SUBSET Nodes :
              /\ UNION {ContainersOf(g, n) : n \in s} = UNION {Up(g)[n] : n \in s}
              /\ Users(g, s, ImpactKinds) = UNION {Against(g)[n] : n \in s}
<1>1. /\ \A n : ContainersOf(g, n) \subseteq Nodes
      /\ \A ns : Users(g, ns, ImpactKinds) \subseteq Nodes
  BY GraphsAssumption DEF ContainersOf, Users
<1>2. \A s \in SUBSET Nodes : Users(g, s, ImpactKinds) = UNION {Against(g)[n] : n \in s}
  <2> SUFFICES ASSUME NEW s \in SUBSET Nodes
               PROVE  Users(g, s, ImpactKinds) = UNION {Against(g)[n] : n \in s}
    OBVIOUS
  <2>1. \A n \in s :
          Against(g)[n] = {e.source : e \in {u \in g.uses : u.target = n /\ u.kind \in ImpactKinds}}
    BY DEF Users, Against
  <2> QED
    BY <2>1 DEF Users
<1>3. \A s \in SUBSET Nodes : UNION {ContainersOf(g, n) : n \in s} = UNION {Up(g)[n] : n \in s}
  BY DEF Up
<1> QED
  BY <1>1, <1>2, <1>3 DEF Up, Against

(* The levels of a walk of containers.                                     *)
LEMMA ContainerLevelsAre ==
  ASSUME NEW g \in Graphs, NEW ns \in SUBSET Nodes
  PROVE  LevelsFrom(ContainerLevels(g, ns), Up(g), ns, {}, ContainDepth)
<1> DEFINE step == [s \in SUBSET Nodes |-> UNION {ContainersOf(g, n) : n \in s}]
           Is(f) == f = [d \in 1..ContainDepth |->
                           UNION {ContainersOf(g, n) : n \in IF d = 1 THEN ns ELSE f[d - 1]}]
           level == ContainerLevels(g, ns)
<1>1. step \in [SUBSET Nodes -> SUBSET Nodes]
  BY DEF ContainersOf
<1>2. PICK f \in [1..ContainDepth -> SUBSET Nodes] :
        \A d \in 1..ContainDepth : f[d] = step[IF d = 1 THEN ns ELSE f[d - 1]]
  <2>1. ContainDepth \in Nat
    BY DepthsAssumption
  <2> HIDE DEF step
  <2> DEFINE S == SUBSET Nodes
  <2>2. step \in [S -> S] /\ ns \in S
    BY <1>1
  <2> HIDE DEF S
  <2>3. \E f \in [1..ContainDepth -> S] : Repeats(f, step, ns, ContainDepth)
    BY <2>1, <2>2, Iterates
  <2> QED
    BY <2>3 DEF S, Repeats
<1>3. Is(f)
  <2>1. ASSUME NEW d \in 1..ContainDepth
        PROVE  f[d] = UNION {ContainersOf(g, n) : n \in IF d = 1 THEN ns ELSE f[d - 1]}
    <3>1. (IF d = 1 THEN ns ELSE f[d - 1]) \in SUBSET Nodes
      BY DepthsAssumption
    <3> QED
      BY <1>2, <3>1
  <2> QED
    BY <1>2, <2>1
<1>4. Is(level)
  BY <1>3 DEF ContainerLevels
<1>5. level \in [1..ContainDepth -> SUBSET Nodes]
  <2>1. \A n : ContainersOf(g, n) \subseteq Nodes
    BY DEF ContainersOf
  <2>2. \A d \in 1..ContainDepth : \E s : level[d] = UNION {ContainersOf(g, n) : n \in s}
    BY <1>4
  <2>3. \A d \in 1..ContainDepth : level[d] \subseteq Nodes
    <3> HIDE DEF level
    <3> QED
      BY <2>1, <2>2
  <2> QED
    BY <1>4, <2>3
<1>6. ASSUME NEW d \in 1..ContainDepth
      PROVE  level[d] = (UNION {Up(g)[n] : n \in Behind(level, ns, d)}) \ {}
  <2>1. level[d] = UNION {ContainersOf(g, n) : n \in Behind(level, ns, d)}
    BY <1>4 DEF Behind
  <2> HIDE DEF level
  <2>2. Behind(level, ns, d) \in SUBSET Nodes
    BY <1>5, DepthsAssumption DEF Behind
  <2>3. UNION {ContainersOf(g, n) : n \in Behind(level, ns, d)}
          = UNION {Up(g)[n] : n \in Behind(level, ns, d)}
    BY <2>2, EdgesStayInside
  <2> QED
    BY <2>1, <2>3
<1> HIDE DEF level
<1> QED
  BY <1>5, <1>6 DEF LevelsFrom, level

(* The levels of a walk against the uses.                                  *)
LEMMA UserLevelsAre ==
  ASSUME NEW g \in Graphs, NEW ns \in SUBSET Nodes, NEW blocked
  PROVE  LevelsFrom(UserLevels(g, ns, blocked), Against(g), ns, blocked, ReachDepth)
<1> DEFINE step == [s \in SUBSET Nodes |-> Users(g, s, ImpactKinds) \ blocked]
           Is(f) == f = [d \in 1..ReachDepth |->
                           Users(g, IF d = 1 THEN ns ELSE f[d - 1], ImpactKinds) \ blocked]
           level == UserLevels(g, ns, blocked)
<1>1. step \in [SUBSET Nodes -> SUBSET Nodes]
  BY GraphsAssumption DEF Users
<1>2. PICK f \in [1..ReachDepth -> SUBSET Nodes] :
        \A d \in 1..ReachDepth : f[d] = step[IF d = 1 THEN ns ELSE f[d - 1]]
  <2>1. ReachDepth \in Nat
    BY DepthsAssumption
  <2> HIDE DEF step
  <2> DEFINE S == SUBSET Nodes
  <2>2. step \in [S -> S] /\ ns \in S
    BY <1>1
  <2> HIDE DEF S
  <2>3. \E f \in [1..ReachDepth -> S] : Repeats(f, step, ns, ReachDepth)
    BY <2>1, <2>2, Iterates
  <2> QED
    BY <2>3 DEF S, Repeats
<1>3. Is(f)
  <2>1. ASSUME NEW d \in 1..ReachDepth
        PROVE  f[d] = Users(g, IF d = 1 THEN ns ELSE f[d - 1], ImpactKinds) \ blocked
    <3>1. (IF d = 1 THEN ns ELSE f[d - 1]) \in SUBSET Nodes
      BY DepthsAssumption
    <3> QED
      BY <1>2, <3>1
  <2> QED
    BY <1>2, <2>1
<1>4. Is(level)
  BY <1>3 DEF UserLevels
<1>5. level \in [1..ReachDepth -> SUBSET Nodes]
  <2>1. \A d \in 1..ReachDepth : level[d] \subseteq Nodes
    BY <1>4, GraphsAssumption DEF Users
  <2> QED
    BY <1>4, <2>1
<1>6. ASSUME NEW d \in 1..ReachDepth
      PROVE  level[d] = (UNION {Against(g)[n] : n \in Behind(level, ns, d)}) \ blocked
  <2>1. level[d] = Users(g, Behind(level, ns, d), ImpactKinds) \ blocked
    BY <1>4 DEF Behind
  <2> HIDE DEF level
  <2>2. Behind(level, ns, d) \in SUBSET Nodes
    BY <1>5, DepthsAssumption DEF Behind
  <2>3. Users(g, Behind(level, ns, d), ImpactKinds)
          = UNION {Against(g)[n] : n \in Behind(level, ns, d)}
    BY <2>2, EdgesStayInside
  <2> QED
    BY <2>1, <2>3
<1> HIDE DEF level
<1> QED
  BY <1>5, <1>6 DEF LevelsFrom, level

--------------------------------------------------------------------------------
(*****************************************************************************)
(* GraphImpact: breadth first                                                *)
(*****************************************************************************)

(* Breadth first.  ball[e] is what is at most e steps of succ from where   *)
(* the walk starts.                                                        *)
Growing(ball, succ, D) ==
  /\ ball \in [0..D -> SUBSET Nodes] /\ succ \in [Nodes -> SUBSET Nodes]
  /\ \A e \in 1..D : ball[e] = ball[e - 1] \cup UNION {succ[n] : n \in ball[e - 1]}

(* The queue holds nodes d steps away, k of them, and then nodes one step  *)
(* further.  The former are yet to be expanded, of all that are d steps    *)
(* away; the latter are what has been seen beyond.                         *)
Wave(ball, succ, D, seen, queue, d, k) ==
  /\ d \in 0..D /\ k \in 0..Len(queue) /\ queue \in Seq(Nodes \X Nat)
  /\ \A i \in 1..k : queue[i][1] \in ball[d] /\ queue[i][2] = d
  /\ \A i \in (k + 1)..Len(queue) : queue[i][1] \in seen \ ball[d] /\ queue[i][2] = d + 1
  /\ \A n \in seen \ ball[d] : \E i \in (k + 1)..Len(queue) : queue[i][1] = n
  /\ ball[d] \subseteq seen /\ seen \subseteq Nodes
  /\ d = D => seen = ball[d]
  /\ d < D => /\ seen \subseteq ball[d + 1]
              /\ \A n \in ball[d] : (\A i \in 1..k : queue[i][1] # n) => succ[n] \subseteq seen

(* What the walk has found, each with its distance.                        *)
Found(ball, D, seen, d) ==
  {p \in Nodes \X (1..D) : \/ p[2] <= d /\ p[1] \in ball[p[2]] \ ball[p[2] - 1]
                           \/ p[2] = d + 1 /\ p[1] \in seen \ ball[d]}

(* What a turn finds, at the depth after the one it expands.               *)
Adding(ball, D, seen, d, found, depth, e) ==
  Found(ball, D, seen \cup found, e) = Found(ball, D, seen, d) \cup {<<n, depth + 1>> : n \in found}

(* A set in any order.                                                     *)
LEMMA InSomeOrder ==
  ASSUME NEW S, IsFiniteSet(S)
  PROVE  /\ SetToSeq(S) \in Seq(S)
         /\ \A n \in S : \E i \in 1..Len(SetToSeq(S)) : SetToSeq(S)[i] = n
<1>1. PICK f \in Bijection(1..Cardinality(S), S) : TRUE
  BY FS_CardinalityType DEF ExistsBijection
<1>2. f \in [1..Cardinality(S) -> S] /\ IsInjective(f)
  BY <1>1 DEF Bijection, Injection, IsInjective
<1>3. SetToSeq(S) \in [1..Cardinality(S) -> S] /\ IsInjective(SetToSeq(S))
  BY <1>2 DEF SetToSeq
<1>4. Cardinality(S) \in Nat
  BY FS_CardinalityType
<1> DEFINE s == SetToSeq(S)
<1> HIDE DEF s
<1>5. s \in Seq(S) /\ Len(s) = Cardinality(S) /\ DOMAIN s = 1..Cardinality(S)
  BY <1>3, <1>4 DEF s
<1>6. s \in Injection(1..Cardinality(S), S)
  BY <1>3, <1>5 DEF s, Injection, IsInjective
<1>7. IsFiniteSet(1..Cardinality(S)) /\ Cardinality(1..Cardinality(S)) = Cardinality(S)
  BY <1>4, FS_Interval
<1>8. s \in Surjection(1..Cardinality(S), S)
  BY <1>6, <1>7, FS_Injection
<1> QED
  BY <1>5, <1>8 DEF Surjection, s

(* A sequence after another.                                               *)
LEMMA OneAfterTheOther ==
  ASSUME NEW S, NEW s \in Seq(S), NEW t \in Seq(S)
  PROVE  /\ s \o t \in Seq(S) /\ Len(s \o t) = Len(s) + Len(t)
         /\ \A i \in 1..Len(s) : (s \o t)[i] = s[i]
         /\ \A i \in 1..Len(t) : (s \o t)[Len(s) + i] = t[i]
OBVIOUS

(* The queue q holds the nodes of S, all at one depth.                     *)
Lined(q, S, depth) ==
  /\ q \in Seq(Nodes \X Nat)
  /\ \A i \in 1..Len(q) : q[i][1] \in S /\ q[i][2] = depth
  /\ \A n \in S : \E i \in 1..Len(q) : q[i][1] = n

(* Nodes put in the queue, at a depth.                                     *)
LEMMA PairsInOrder ==
  ASSUME NEW S, S \subseteq Nodes, NEW depth, depth \in Nat
  PROVE  Lined(Pairs(S, depth), S, depth)
<1> DEFINE s == SetToSeq(S)
<1>1. s \in Seq(S) /\ \A n \in S : \E i \in 1..Len(s) : s[i] = n
  BY InSomeOrder, FS_Subset, DepthsAssumption
<1>2. Pairs(S, depth) = [i \in DOMAIN s |-> <<s[i], depth>>]
  BY DEF Pairs
<1> HIDE DEF s
<1>3. DOMAIN s = 1..Len(s) /\ Len(s) \in Nat /\ \A i \in 1..Len(s) : s[i] \in S
  BY <1>1
<1>4. Pairs(S, depth) = [i \in 1..Len(s) |-> <<s[i], depth>>]
  BY <1>2, <1>3
<1>5. Pairs(S, depth) \in Seq(Nodes \X Nat) /\ Len(Pairs(S, depth)) = Len(s)
  BY <1>3, <1>4
<1> QED
  BY <1>1, <1>3, <1>4, <1>5 DEF Lined

(* One turn of the loop.                                                   *)
LEMMA WaveTurns ==
  ASSUME NEW ball, NEW succ, NEW D \in Nat, Growing(ball, succ, D),
         NEW seen, NEW queue, NEW d, NEW k, Wave(ball, succ, D, seen, queue, d, k), k > 0,
         NEW found, found = IF queue[1][2] >= D THEN {} ELSE succ[queue[1][1]] \ seen
  PROVE  /\ Wave(ball, succ, D, seen \cup found,
                 Tail(queue) \o Pairs(found, queue[1][2] + 1), d, k - 1)
         /\ Adding(ball, D, seen, d, found, queue[1][2], d)
<1> DEFINE m == Len(queue)
           more == Pairs(found, d + 1)
           later == Tail(queue) \o more
           node == queue[1][1]
<1>1. /\ d \in 0..D /\ k \in 1..m /\ m \in Nat /\ queue \in Seq(Nodes \X Nat) /\ queue # <<>>
      /\ node \in ball[d] /\ queue[1][2] = d /\ node \in Nodes
  BY DEF Wave
<1>2. /\ found \in SUBSET Nodes /\ found \cap seen = {} /\ found \subseteq succ[node]
      /\ found # {} => d < D
      /\ d < D => succ[node] \subseteq seen \cup found
  BY <1>1 DEF Growing
<1>3. /\ more \in Seq(Nodes \X Nat)
      /\ \A i \in 1..Len(more) : more[i][1] \in found /\ more[i][2] = d + 1
      /\ \A n \in found : \E i \in 1..Len(more) : more[i][1] = n
  <2>1. d + 1 \in Nat /\ found \subseteq Nodes
    BY <1>1, <1>2
  <2>2. Lined(Pairs(found, d + 1), found, d + 1)
    BY <2>1, PairsInOrder
  <2> QED
    BY <2>2 DEF Lined
<1> HIDE DEF more
<1>4. Len(more) \in Nat
  BY <1>3
<1>5. /\ later \in Seq(Nodes \X Nat) /\ Len(later) = (m - 1) + Len(more)
      /\ \A i \in 1..(m - 1) : later[i] = queue[i + 1]
      /\ \A i \in 1..Len(more) : later[(m - 1) + i] = more[i]
  <2>1. Tail(queue) \in Seq(Nodes \X Nat) /\ Len(Tail(queue)) = m - 1
        /\ \A i \in 1..(m - 1) : Tail(queue)[i] = queue[i + 1]
    BY <1>1
  <2> DEFINE tail == Tail(queue)
  <2>2. tail \in Seq(Nodes \X Nat) /\ Len(tail) = m - 1
    BY <2>1
  <2> HIDE DEF tail
  <2>3. /\ tail \o more \in Seq(Nodes \X Nat) /\ Len(tail \o more) = Len(tail) + Len(more)
        /\ \A i \in 1..Len(tail) : (tail \o more)[i] = tail[i]
        /\ \A i \in 1..Len(more) : (tail \o more)[Len(tail) + i] = more[i]
    <3> DEFINE S == Nodes \X Nat
    <3>1. tail \in Seq(S) /\ more \in Seq(S)
      BY <1>3, <2>2
    <3> HIDE DEF S
    <3>2. /\ tail \o more \in Seq(S) /\ Len(tail \o more) = Len(tail) + Len(more)
          /\ \A i \in 1..Len(tail) : (tail \o more)[i] = tail[i]
          /\ \A i \in 1..Len(more) : (tail \o more)[Len(tail) + i] = more[i]
      BY <3>1, OneAfterTheOther
    <3> QED
      BY <3>2 DEF S
  <2>4. later = tail \o more
    BY DEF tail
  <2>5. \A i \in 1..(m - 1) : tail[i] = queue[i + 1]
    BY <2>1 DEF tail
  <2> HIDE DEF m, later
  <2> QED
    BY <2>2, <2>3, <2>4, <2>5
<1> HIDE DEF later
<1>6. ASSUME NEW i \in 1..(k - 1) PROVE later[i][1] \in ball[d] /\ later[i][2] = d
  <2>1. i \in 1..(m - 1) /\ i + 1 \in 1..k
    BY <1>1
  <2> QED
    BY <1>5, <2>1 DEF Wave
<1>7. ASSUME NEW i \in k..Len(later)
      PROVE  later[i][1] \in (seen \cup found) \ ball[d] /\ later[i][2] = d + 1
  <2>1. CASE i <= m - 1
    <3>1. i \in 1..(m - 1) /\ i + 1 \in (k + 1)..m
      BY <1>1, <2>1
    <3>2. queue[i + 1][1] \in seen \ ball[d] /\ queue[i + 1][2] = d + 1
      BY <3>1 DEF Wave
    <3>3. later[i] = queue[i + 1]
      BY <1>5, <3>1
    <3> QED
      BY <3>2, <3>3
  <2>2. CASE i > m - 1
    <3>1. i - (m - 1) \in 1..Len(more) /\ i = (m - 1) + (i - (m - 1))
      <4>1. m \in Nat /\ Len(more) \in Nat
        BY <1>1, <1>4
      <4>2. i \in Int /\ i <= (m - 1) + Len(more)
        BY <1>1, <1>5
      <4> HIDE DEF m, later
      <4> QED
        BY <2>2, <4>1, <4>2
    <3>2. later[i] = more[i - (m - 1)]
      BY <1>5, <3>1
    <3>3. found \cap ball[d] = {}
      BY <1>2 DEF Wave
    <3>4. more[i - (m - 1)][1] \in found /\ more[i - (m - 1)][2] = d + 1
      BY <1>3, <3>1
    <3> QED
      BY <3>2, <3>3, <3>4
  <2> QED
    BY <1>1, <2>1, <2>2
<1>8. ASSUME NEW n \in (seen \cup found) \ ball[d] PROVE \E i \in k..Len(later) : later[i][1] = n
  <2>1. CASE n \in seen
    <3>1. PICK i \in (k + 1)..m : queue[i][1] = n
      BY <2>1 DEF Wave
    <3>2. i - 1 \in 1..(m - 1) /\ i - 1 \in k..Len(later) /\ (i - 1) + 1 = i
      BY <1>1, <1>4, <1>5, <3>1
    <3> QED
      BY <1>5, <3>1, <3>2
  <2>2. CASE n \in found
    <3>1. PICK i \in 1..Len(more) : more[i][1] = n
      BY <1>3, <2>2
    <3>2. (m - 1) + i \in k..Len(later)
      BY <1>1, <1>4, <1>5, <3>1
    <3> QED
      BY <1>5, <3>1, <3>2
  <2> QED
    BY <2>1, <2>2
<1>9. d < D => seen \cup found \subseteq ball[d + 1]
  <2> SUFFICES ASSUME d < D PROVE found \subseteq ball[d + 1] /\ seen \subseteq ball[d + 1]
    OBVIOUS
  <2>1. d + 1 \in 1..D /\ (d + 1) - 1 = d
    BY <1>1
  <2>2. ball[d + 1] = ball[d] \cup UNION {succ[n] : n \in ball[d]}
    BY <2>1 DEF Growing
  <2> QED
    BY <1>1, <1>2, <2>2 DEF Wave
<1>10. ASSUME d < D, NEW n \in ball[d], \A i \in 1..(k - 1) : later[i][1] # n
       PROVE  succ[n] \subseteq seen \cup found
  <2>1. CASE n = node
    BY <1>2, <1>10, <2>1
  <2>2. CASE n # node
    <3>1. ASSUME NEW i \in 1..k PROVE queue[i][1] # n
      <4>1. CASE i = 1
        BY <2>2, <4>1
      <4>2. CASE i # 1
        <5>1. i - 1 \in 1..(k - 1) /\ i - 1 \in 1..(m - 1) /\ (i - 1) + 1 = i
          BY <1>1, <4>2
        <5>2. later[i - 1] = queue[i]
          BY <1>5, <5>1
        <5>3. later[i - 1][1] # n
          BY <1>10, <5>1
        <5> QED
          BY <5>2, <5>3
      <4> QED
        BY <4>1, <4>2
    <3> QED
      BY <1>10, <3>1 DEF Wave
  <2> QED
    BY <2>1, <2>2
<1>11. Wave(ball, succ, D, seen \cup found, later, d, k - 1)
  <2>1. k - 1 \in 0..Len(later) /\ (k - 1) + 1 = k
    <3>1. Len(later) = (m - 1) + Len(more)
      BY <1>5
    <3>2. m \in Nat /\ k \in 1..m
      BY <1>1
    <3> HIDE DEF m
    <3> QED
      BY <1>4, <3>1, <3>2
  <2>2. d = D => found = {}
    BY <1>1, <1>2
  <2>3. /\ seen \cup found \subseteq Nodes /\ ball[d] \subseteq seen \cup found
        /\ d = D => seen = ball[d]
    BY <1>2 DEF Wave
  <2> HIDE DEF m, node
  <2> QED
    BY <1>1, <1>5, <1>6, <1>7, <1>8, <1>9, <1>10, <2>1, <2>2, <2>3 DEF Wave
<1>12. Found(ball, D, seen \cup found, d)
         = Found(ball, D, seen, d) \cup {<<n, d + 1>> : n \in found}
  <2>1. found \cap ball[d] = {}
    BY <1>2 DEF Wave
  <2>2. found # {} => d + 1 \in 1..D
    BY <1>1, <1>2
  <2> QED
    BY <1>2, <2>1, <2>2 DEF Found
<1> QED
  BY <1>1, <1>11, <1>12 DEF later, more, Adding

(* All that are d steps away have been expanded.                           *)
LEMMA WavePasses ==
  ASSUME NEW ball, NEW succ, NEW D \in Nat, Growing(ball, succ, D),
         NEW seen, NEW queue, NEW d, Wave(ball, succ, D, seen, queue, d, 0), queue # <<>>
  PROVE  /\ Wave(ball, succ, D, seen, queue, d + 1, Len(queue))
         /\ Found(ball, D, seen, d + 1) = Found(ball, D, seen, d)
<1>1. /\ d \in 0..D /\ queue \in Seq(Nodes \X Nat) /\ Len(queue) \in Nat \ {0} /\ 0 + 1 = 1
  BY DEF Wave
<1>2. queue[1][1] \in seen \ ball[d]
  BY <1>1 DEF Wave
<1>3. d < D /\ d + 1 \in 1..D /\ (d + 1) - 1 = d
  BY <1>1, <1>2 DEF Wave
<1>4. ball[d + 1] = ball[d] \cup UNION {succ[n] : n \in ball[d]}
  BY <1>3 DEF Growing
<1>5. \A n \in ball[d] : succ[n] \subseteq seen
  BY <1>3 DEF Wave
<1>6. seen = ball[d + 1]
  BY <1>3, <1>4, <1>5 DEF Wave
<1>7. d + 1 < D => ball[d + 1] \subseteq ball[(d + 1) + 1]
  <2>1. d + 1 < D => (d + 1) + 1 \in 1..D /\ ((d + 1) + 1) - 1 = d + 1
    BY <1>1
  <2> QED
    BY <2>1 DEF Growing
<1>8. \A n \in seen : n \in ball[d] \/ \E i \in 1..Len(queue) : queue[i][1] = n
  BY <1>1 DEF Wave
<1>9. \A i \in 1..Len(queue) : queue[i][1] \in seen /\ queue[i][2] = d + 1
  BY <1>1 DEF Wave
<1>10. (Len(queue) + 1)..Len(queue) = {}
  BY <1>1
<1>11. Wave(ball, succ, D, seen, queue, d + 1, Len(queue))
  <2>1. d + 1 \in 0..D /\ Len(queue) \in 0..Len(queue) /\ seen \subseteq Nodes
    BY <1>1, <1>3 DEF Wave
  <2> QED
    BY <1>1, <1>5, <1>6, <1>7, <1>8, <1>9, <1>10, <2>1 DEF Wave
<1>12. Found(ball, D, seen, d + 1) = Found(ball, D, seen, d)
  <2>1. \A e \in 1..D : e <= d + 1 <=> e <= d \/ e = d + 1
    BY <1>1
  <2> QED
    BY <1>3, <1>6, <2>1 DEF Found
<1> QED
  BY <1>11, <1>12

(* Nothing is left to expand: all there is has been found.                 *)
LEMMA WaveEnds ==
  ASSUME NEW ball, NEW succ, NEW D \in Nat, Growing(ball, succ, D),
         NEW seen, NEW d, NEW k, Wave(ball, succ, D, seen, <<>>, d, k)
  PROVE  /\ seen = ball[D]
         /\ Found(ball, D, seen, d) = {p \in Nodes \X (1..D) : p[1] \in ball[p[2]] \ ball[p[2] - 1]}
<1>1. d \in 0..D /\ k = 0 /\ Len(<<>>) = 0
  BY DEF Wave
<1>2. seen = ball[d]
  <2>1. \A n \in seen \ ball[d] : \E i \in (k + 1)..Len(<<>>) : <<>>[i][1] = n
    BY DEF Wave
  <2>2. (k + 1)..Len(<<>>) = {}
    BY <1>1
  <2> QED
    BY <2>1, <2>2 DEF Wave
<1>3. d < D => \A n \in ball[d] : succ[n] \subseteq ball[d]
  BY <1>1, <1>2 DEF Wave
<1> DEFINE T == {m \in Nat : d + m <= D => ball[d + m] = ball[d]}
<1>4. T = Nat
  <2>1. T \in SUBSET Nat /\ 0 \in T
    BY <1>1
  <2>2. ASSUME NEW m \in T PROVE m + 1 \in T
    <3> SUFFICES ASSUME d + (m + 1) <= D PROVE ball[d + (m + 1)] = ball[d]
      OBVIOUS
    <3>1. d + (m + 1) \in 1..D /\ (d + (m + 1)) - 1 = d + m /\ d + m <= D /\ d < D
      BY <1>1
    <3>2. ball[d + (m + 1)] = ball[d + m] \cup UNION {succ[n] : n \in ball[d + m]}
      BY <3>1 DEF Growing
    <3> QED
      BY <1>3, <3>1, <3>2
  <2> HIDE DEF T
  <2> QED
    BY <2>1, <2>2, Induct
<1>5. ASSUME NEW e \in d..D PROVE ball[e] = ball[d]
  <2>1. e - d \in Nat /\ d + (e - d) = e /\ e <= D
    BY <1>1
  <2>2. e - d \in T
    BY <1>4, <2>1
  <2> QED
    BY <2>1, <2>2
<1> HIDE DEF T
<1>6. seen = ball[D]
  BY <1>1, <1>2, <1>5
<1>7. ASSUME NEW p \in Nodes \X (1..D), p[1] \in ball[p[2]] \ ball[p[2] - 1] PROVE p[2] <= d
  <2> SUFFICES ASSUME p[2] > d PROVE FALSE
    BY <1>1
  <2>1. p[2] \in d..D /\ p[2] - 1 \in d..D
    BY <1>1
  <2> QED
    BY <1>5, <1>7, <2>1
<1> QED
  BY <1>2, <1>6, <1>7 DEF Found

--------------------------------------------------------------------------------
(*****************************************************************************)
(* GraphImpact: what the levels have found                                   *)
(*****************************************************************************)

(* What is at most so many levels away.                                    *)
BallOf(start, level, D) == [e \in 0..D |-> start \cup UNION {level[d] : d \in 1..e}]

(* Each level is added in its turn.                                        *)
Adds(ball, level, D) == \A e \in 1..D : ball[e] = ball[e - 1] \cup level[e]

(* The levels of a walk, one after the other, are a growing ball.          *)
LEMMA LevelsGrow ==
  ASSUME NEW D \in Nat, NEW succ \in [Nodes -> SUBSET Nodes], NEW start \in SUBSET Nodes,
         NEW blocked \in SUBSET start, NEW level, LevelsFrom(level, succ, start, blocked, D)
  PROVE  Growing(BallOf(start, level, D), succ, D) /\ Adds(BallOf(start, level, D), level, D)
<1> DEFINE ball == BallOf(start, level, D)
<1>0. /\ level \in [1..D -> SUBSET Nodes]
      /\ \A d \in 1..D : level[d] = (UNION {succ[n] : n \in Behind(level, start, d)}) \ blocked
  BY DEF LevelsFrom
<1>1. \A e \in 0..D : ball[e] = start \cup UNION {level[d] : d \in 1..e}
  BY DEF BallOf
<1>2. ball \in [0..D -> SUBSET Nodes]
  <2>1. \A e \in 0..D : UNION {level[d] : d \in 1..e} \subseteq Nodes
    BY <1>0
  <2> QED
    BY <2>1 DEF BallOf
<1> HIDE DEF ball
<1>3. ASSUME NEW e \in 1..D
      PROVE  /\ ball[e] = ball[e - 1] \cup level[e]
             /\ ball[e] = ball[e - 1] \cup UNION {succ[n] : n \in ball[e - 1]}
  <2>1. e - 1 \in 0..D /\ e \in 0..D
    OBVIOUS
  <2>2. 1..e = 1..(e - 1) \cup {e}
    OBVIOUS
  <2>3. UNION {level[d] : d \in 1..e} = level[e] \cup UNION {level[d] : d \in 1..(e - 1)}
    <3> DEFINE I == 1..(e - 1)
    <3>1. 1..e = I \cup {e}
      BY <2>2
    <3> HIDE DEF I
    <3>2. \A x : (\E d \in I \cup {e} : x \in level[d])
                   <=> (\E d \in I : x \in level[d]) \/ x \in level[e]
      OBVIOUS
    <3> QED
      BY <3>1, <3>2 DEF I
  <2>4. ball[e] = ball[e - 1] \cup level[e]
    BY <1>1, <2>1, <2>3
  <2>5. ball[e - 1] = start \cup UNION {level[d] : d \in 1..(e - 1)}
    BY <1>1, <2>1
  <2>6. level[e] \subseteq UNION {succ[n] : n \in ball[e - 1]}
    <3>1. Behind(level, start, e) \subseteq ball[e - 1]
      <4>1. CASE e = 1
        BY <2>5, <4>1 DEF Behind
      <4>2. CASE e # 1
        <5>1. e - 1 \in 1..(e - 1)
          BY <4>2
        <5> QED
          BY <2>5, <4>2, <5>1 DEF Behind
      <4> QED
        BY <4>1, <4>2
    <3>2. level[e] \subseteq UNION {succ[n] : n \in Behind(level, start, e)}
      BY <1>0
    <3> QED
      BY <3>1, <3>2
  <2>7. ASSUME NEW n \in ball[e - 1], NEW x \in succ[n] PROVE x \in ball[e]
    <3>1. CASE x \in blocked
      BY <1>1, <2>1, <3>1
    <3>2. CASE x \notin blocked /\ n \in start
      <4>1. 1 \in 1..D /\ 1 \in 1..e
        OBVIOUS
      <4>2. level[1] = (UNION {succ[m] : m \in start}) \ blocked
        BY <1>0, <4>1 DEF Behind
      <4>3. x \in UNION {succ[m] : m \in start}
        BY <3>2
      <4>4. x \in level[1]
        BY <3>2, <4>2, <4>3
      <4> QED
        BY <1>1, <2>1, <4>1, <4>4
    <3>3. CASE x \notin blocked /\ n \notin start
      <4>1. PICK d \in 1..(e - 1) : n \in level[d]
        BY <2>5, <3>3
      <4>2. d + 1 \in 1..D /\ d + 1 \in 1..e /\ d + 1 # 1 /\ (d + 1) - 1 = d
        OBVIOUS
      <4>3. level[d + 1] = (UNION {succ[m] : m \in level[d]}) \ blocked
        BY <1>0, <4>2 DEF Behind
      <4>4. x \in UNION {succ[m] : m \in level[d]}
        BY <4>1
      <4>5. x \in level[d + 1]
        BY <3>3, <4>3, <4>4
      <4> QED
        BY <1>1, <2>1, <4>2, <4>5
    <3> QED
      BY <3>1, <3>2, <3>3
  <2> QED
    BY <2>4, <2>6, <2>7
<1> QED
  BY <1>2, <1>3 DEF Growing, Adds, ball

(* What so many steps reach from the root, or from its containers.         *)
Climb(g, n) == BallOf({n}, ContainerLevels(g, {n}), ContainDepth)
Ripple(g, ns) == BallOf(ns, UserLevels(g, ns, ns), ReachDepth)

(* The SQL over the containers is what climbing finds.                     *)
LEMMA ClimbIsTheQuery ==
  ASSUME NEW g \in Graphs, NEW n \in Nodes
  PROVE  /\ Growing(Climb(g, n), Up(g), ContainDepth)
         /\ Climb(g, n)[0] = {n}
         /\ Climb(g, n)[ContainDepth] = ModifyTargets(g, {n})
<1> DEFINE level == ContainerLevels(g, {n})
<1>1. LevelsFrom(level, Up(g), {n}, {}, ContainDepth)
  BY ContainerLevelsAre
<1>2. ContainDepth \in Nat /\ ContainDepth > 0 /\ {n} \in SUBSET Nodes /\ {} \in SUBSET {n}
  BY DepthsAssumption
<1>3. Climb(g, n) = BallOf({n}, level, ContainDepth)
  BY DEF Climb
<1>4. ModifyTargets(g, {n}) = {n} \cup UNION {level[d] : d \in 1..ContainDepth}
  BY DEF ModifyTargets, Ancestors
<1> HIDE DEF level
<1>5. /\ BallOf({n}, level, ContainDepth)[0] = {n}
      /\ BallOf({n}, level, ContainDepth)[ContainDepth] = ModifyTargets(g, {n})
  BY <1>2, <1>4 DEF BallOf
<1>6. Up(g) \in [Nodes -> SUBSET Nodes]
  BY EdgesStayInside
<1>7. Growing(BallOf({n}, level, ContainDepth), Up(g), ContainDepth)
  BY <1>1, <1>2, <1>6, LevelsGrow
<1> QED
  BY <1>3, <1>5, <1>7

(* The SQL over the uses is what going against them finds, the nearest     *)
(* depth of each.                                                          *)
LEMMA RippleIsTheQuery ==
  ASSUME NEW g \in Graphs, NEW ns \in SUBSET Nodes
  PROVE  /\ Growing(Ripple(g, ns), Against(g), ReachDepth)
         /\ Ripple(g, ns)[0] = ns
         /\ Reached(g, ns) = {p \in Nodes \X (1..ReachDepth) :
                                p[1] \in Ripple(g, ns)[p[2]] \ Ripple(g, ns)[p[2] - 1]}
<1> DEFINE level == UserLevels(g, ns, ns)
           ball == Ripple(g, ns)
<1>1. LevelsFrom(level, Against(g), ns, ns, ReachDepth)
  BY UserLevelsAre
<1>2. Against(g) \in [Nodes -> SUBSET Nodes]
  BY EdgesStayInside
<1>3. ReachDepth \in Nat /\ ns \in SUBSET ns
  BY DepthsAssumption
<1>6. ball[0] = ns
  BY <1>3 DEF Ripple, BallOf
<1>7. \A e \in 0..ReachDepth : ball[e] = ns \cup UNION {level[d] : d \in 1..e}
  BY DEF Ripple, BallOf
<1>8. Reached(g, ns) = {p \in Nodes \X (1..ReachDepth) :
         p[1] \in level[p[2]] /\ \A d \in 1..(p[2] - 1) : p[1] \notin level[d]}
  BY DEF Reached, ReachedFrom
<1> HIDE DEF level
<1>9. /\ Growing(BallOf(ns, level, ReachDepth), Against(g), ReachDepth)
      /\ Adds(BallOf(ns, level, ReachDepth), level, ReachDepth)
  BY <1>1, <1>2, <1>3, LevelsGrow
<1>10. ball = BallOf(ns, level, ReachDepth)
  BY DEF Ripple, level
<1> HIDE DEF ball
<1>11. ASSUME NEW p \in Nodes \X (1..ReachDepth)
       PROVE  p[1] \in level[p[2]] /\ (\A d \in 1..(p[2] - 1) : p[1] \notin level[d])
                <=> p[1] \in ball[p[2]] \ ball[p[2] - 1]
  <2>1. p[2] - 1 \in 0..ReachDepth /\ p[2] \in 1..ReachDepth
    BY <1>3
  <2>2. ball[p[2]] = ball[p[2] - 1] \cup level[p[2]]
    BY <1>9, <1>10, <2>1 DEF Adds
  <2>3. ball[p[2] - 1] = ns \cup UNION {level[d] : d \in 1..(p[2] - 1)}
    BY <1>7, <2>1
  <2>4. p[1] \in level[p[2]] => p[1] \notin ns
    <3>1. level[p[2]] = (UNION {Against(g)[n] : n \in Behind(level, ns, p[2])}) \ ns
      BY <1>1, <2>1 DEF LevelsFrom
    <3> QED
      BY <3>1
  <2> QED
    BY <2>2, <2>3, <2>4
<1> QED
  BY <1>6, <1>8, <1>9, <1>10, <1>11 DEF ball

--------------------------------------------------------------------------------
(*****************************************************************************)
(* GraphImpact: the walks in Python                                          *)
(*****************************************************************************)

(* Where the walks of the population are.                                  *)
Climbing ==
  \E d, k : Wave(Climb(graph, root), Up(graph), ContainDepth, walked, frontier, d, k)

Rippling ==
  \E d, k : /\ Wave(Ripple(graph, targets), Against(graph), ReachDepth, walked, frontier, d, k)
            /\ buckets = Found(Ripple(graph, targets), ReachDepth, walked, d)

WalkedAsQueried ==
  targets = ModifyTargets(graph, {root}) /\ buckets = Reached(graph, targets)

(* The first walk is a wave from the root over the containers, the second  *)
(* one from all it found against the uses.                                 *)
ImpactInv ==
  /\ graph \in Graphs /\ root \in Nodes /\ targets \subseteq Nodes
  /\ stage \in {"gate", "containers"} => targets = {} /\ buckets = {}
  /\ stage = "containers" => Climbing
  /\ stage = "reach" => targets = ModifyTargets(graph, {root}) /\ Rippling
  /\ stage \in {"walked", "done"} => targets = {} \/ WalkedAsQueried

(* A walk begins with what it starts from, all of it in the queue.         *)
LEMMA WaveBegins ==
  ASSUME NEW ball, NEW succ, NEW D \in Nat, Growing(ball, succ, D), NEW queue,
         Lined(queue, ball[0], 0)
  PROVE  /\ Wave(ball, succ, D, ball[0], queue, 0, Len(queue))
         /\ Found(ball, D, ball[0], 0) = {}
<1>1. queue \in Seq(Nodes \X Nat) /\ Len(queue) \in Nat /\ (Len(queue) + 1)..Len(queue) = {}
  BY DEF Lined
<1>2. /\ \A i \in 1..Len(queue) : queue[i][1] \in ball[0] /\ queue[i][2] = 0
      /\ \A n \in ball[0] : \E i \in 1..Len(queue) : queue[i][1] = n
  BY DEF Lined
<1>3. 0 \in 0..D /\ 0 + 1 = 1 /\ Len(queue) \in 0..Len(queue) /\ ball[0] \subseteq Nodes
  BY <1>1 DEF Growing
<1>4. 0 < D => ball[0] \subseteq ball[1]
  <2>1. 0 < D => 1 \in 1..D /\ 1 - 1 = 0
    OBVIOUS
  <2> QED
    BY <2>1 DEF Growing
<1>5. Wave(ball, succ, D, ball[0], queue, 0, Len(queue))
  BY <1>1, <1>2, <1>3, <1>4 DEF Wave
<1>6. Found(ball, D, ball[0], 0) = {}
  BY DEF Found
<1> QED
  BY <1>5, <1>6

(* Where a reading starts.                                                 *)
LEMMA ImpactStarts == ImpactInit => ImpactInv
BY DEF ImpactInit, ImpactInv

(* A wave that has expanded all that is so far away goes on with the next. *)
LEMMA WaveHasMore ==
  ASSUME NEW ball, NEW succ, NEW D \in Nat, Growing(ball, succ, D),
         NEW seen, NEW queue, NEW d, NEW k, Wave(ball, succ, D, seen, queue, d, k), queue # <<>>
  PROVE  \E e, l : /\ Wave(ball, succ, D, seen, queue, e, l) /\ l > 0
                   /\ Found(ball, D, seen, e) = Found(ball, D, seen, d)
<1>1. k \in Nat /\ queue \in Seq(Nodes \X Nat)
  BY DEF Wave
<1>2. Len(queue) > 0
  BY <1>1
<1>3. CASE k > 0
  BY <1>3
<1>4. CASE k = 0
  <2>1. /\ Wave(ball, succ, D, seen, queue, d + 1, Len(queue))
        /\ Found(ball, D, seen, d + 1) = Found(ball, D, seen, d)
    BY <1>4, WavePasses
  <2> QED
    BY <1>2, <2>1
<1> QED
  BY <1>1, <1>3, <1>4

(* One turn of a loop, wherever its wave is.                               *)
LEMMA WaveGoesOn ==
  ASSUME NEW ball, NEW succ, NEW D \in Nat, Growing(ball, succ, D),
         NEW seen, NEW queue, NEW d, NEW k, Wave(ball, succ, D, seen, queue, d, k), queue # <<>>,
         NEW found, found = IF queue[1][2] >= D THEN {} ELSE succ[queue[1][1]] \ seen
  PROVE  \E e, l :
           /\ Wave(ball, succ, D, seen \cup found,
                   Tail(queue) \o Pairs(found, queue[1][2] + 1), e, l)
           /\ Adding(ball, D, seen, d, found, queue[1][2], e)
<1>1. PICK e, l : /\ Wave(ball, succ, D, seen, queue, e, l) /\ l > 0
                  /\ Found(ball, D, seen, e) = Found(ball, D, seen, d)
  BY WaveHasMore
<1>2. /\ Wave(ball, succ, D, seen \cup found,
              Tail(queue) \o Pairs(found, queue[1][2] + 1), e, l - 1)
      /\ Adding(ball, D, seen, e, found, queue[1][2], e)
  BY <1>1, WaveTurns
<1> QED
  BY <1>1, <1>2 DEF Adding

(* Every step keeps it so.                                                 *)
LEMMA ImpactKept == ImpactInv /\ [ImpactNext]_measuring => ImpactInv'
<1> SUFFICES ASSUME ImpactInv, [ImpactNext]_measuring PROVE ImpactInv'
  OBVIOUS
<1>0. /\ Growing(Climb(graph, root), Up(graph), ContainDepth) /\ Climb(graph, root)[0] = {root}
      /\ Climb(graph, root)[ContainDepth] = ModifyTargets(graph, {root})
      /\ ContainDepth \in Nat /\ ReachDepth \in Nat
      /\ Growing(Ripple(graph, targets), Against(graph), ReachDepth)
  BY ClimbIsTheQuery, RippleIsTheQuery, DepthsAssumption DEF ImpactInv
<1>1. CASE Refuse
  BY <1>1 DEF Refuse, ImpactInv, WalkedAsQueried
<1>2. CASE ResolveOwners
  <2>1. /\ walked' = {root} /\ frontier' = <<<<root, 0>>>> /\ graph' = graph /\ root' = root
        /\ targets' = {} /\ buckets' = {} /\ stage' = "containers" /\ root \in Nodes
    BY <1>2 DEF ResolveOwners, ImpactInv
  <2>2. Lined(frontier', {root}, 0)
    BY <2>1 DEF Lined
  <2>3. Wave(Climb(graph, root), Up(graph), ContainDepth, {root}, frontier', 0, Len(frontier'))
    BY <1>0, <2>2, WaveBegins
  <2>4. Climbing'
    BY <2>1, <2>3 DEF Climbing
  <2> QED
    BY <2>1, <2>4 DEF ImpactInv
<1>3. CASE WalkContainers
  <2>1. /\ stage = "containers" /\ stage' = stage /\ frontier # <<>>
        /\ UNCHANGED <<graph, root, targets, buckets>>
    BY <1>3 DEF WalkContainers
  <2>2. PICK found :
          /\ found = IF frontier[1][2] >= ContainDepth THEN {}
                     ELSE ContainersOf(graph, frontier[1][1]) \ walked
          /\ walked' = walked \cup found
          /\ frontier' = Tail(frontier) \o Pairs(found, frontier[1][2] + 1)
    <3> DEFINE found == IF frontier[1][2] >= ContainDepth THEN {}
                        ELSE ContainersOf(graph, frontier[1][1]) \ walked
    <3>1. Head(frontier) = frontier[1]
      OBVIOUS
    <3>2. /\ walked' = walked \cup found
          /\ frontier' = Tail(frontier) \o Pairs(found, frontier[1][2] + 1)
      BY <1>3, <3>1 DEF WalkContainers
    <3> QED
      BY <3>2
  <2>3. PICK d, k : Wave(Climb(graph, root), Up(graph), ContainDepth, walked, frontier, d, k)
    BY <2>1 DEF ImpactInv, Climbing
  <2>4. frontier[1][1] \in Nodes
    <3>1. frontier \in Seq(Nodes \X Nat)
      BY <2>3 DEF Wave
    <3> QED
      BY <2>1, <3>1
  <2>5. found = IF frontier[1][2] >= ContainDepth THEN {} ELSE Up(graph)[frontier[1][1]] \ walked
    BY <2>2, <2>4 DEF Up
  <2>6. \E e, l : Wave(Climb(graph, root), Up(graph), ContainDepth, walked', frontier', e, l)
    BY <1>0, <2>1, <2>2, <2>3, <2>5, WaveGoesOn
  <2>7. Climbing'
    BY <2>1, <2>6 DEF Climbing
  <2> QED
    BY <2>1, <2>7 DEF ImpactInv
<1>4. CASE StartReach
  <2>1. /\ stage = "containers" /\ stage' = "reach" /\ frontier = <<>>
        /\ targets' = walked /\ frontier' = Pairs(walked, 0) /\ walked' = walked
        /\ UNCHANGED <<graph, root, buckets>> /\ buckets = {}
    BY <1>4 DEF StartReach, ImpactInv
  <2>2. PICK d, k : Wave(Climb(graph, root), Up(graph), ContainDepth, walked, <<>>, d, k)
    BY <2>1 DEF ImpactInv, Climbing
  <2>3. walked = ModifyTargets(graph, {root}) /\ walked \subseteq Nodes
    <3>1. walked = Climb(graph, root)[ContainDepth]
      BY <1>0, <2>2, WaveEnds
    <3> QED
      BY <1>0, <2>2, <3>1 DEF Wave
  <2>4. /\ Growing(Ripple(graph, walked), Against(graph), ReachDepth)
        /\ Ripple(graph, walked)[0] = walked
    BY <2>3, RippleIsTheQuery DEF ImpactInv
  <2>5. Lined(frontier', walked, 0)
    BY <2>1, <2>3, PairsInOrder
  <2>6. /\ Wave(Ripple(graph, walked), Against(graph), ReachDepth, walked,
                frontier', 0, Len(frontier'))
        /\ Found(Ripple(graph, walked), ReachDepth, walked, 0) = {}
    BY <1>0, <2>4, <2>5, WaveBegins
  <2>7. Rippling'
    BY <2>1, <2>6 DEF Rippling
  <2> QED
    BY <2>1, <2>3, <2>7 DEF ImpactInv
<1>5. CASE WalkReach
  <2>1. /\ stage = "reach" /\ stage' = stage /\ frontier # <<>>
        /\ UNCHANGED <<graph, root, targets>>
    BY <1>5 DEF WalkReach
  <2>2. PICK found :
          /\ found = IF frontier[1][2] >= ReachDepth THEN {}
                     ELSE Users(graph, {frontier[1][1]}, ImpactKinds) \ walked
          /\ walked' = walked \cup found
          /\ buckets' = buckets \cup {<<n, frontier[1][2] + 1>> : n \in found}
          /\ frontier' = Tail(frontier) \o Pairs(found, frontier[1][2] + 1)
    <3> DEFINE found == IF frontier[1][2] >= ReachDepth THEN {}
                        ELSE Users(graph, {frontier[1][1]}, ImpactKinds) \ walked
    <3>1. Head(frontier) = frontier[1]
      OBVIOUS
    <3>2. /\ walked' = walked \cup found
          /\ frontier' = Tail(frontier) \o Pairs(found, frontier[1][2] + 1)
          /\ buckets' = buckets \cup {<<n, frontier[1][2] + 1>> : n \in found}
      BY <1>5, <3>1 DEF WalkReach
    <3> QED
      BY <3>2
  <2>3. PICK d, k :
          /\ Wave(Ripple(graph, targets), Against(graph), ReachDepth, walked, frontier, d, k)
          /\ buckets = Found(Ripple(graph, targets), ReachDepth, walked, d)
    BY <2>1 DEF ImpactInv, Rippling
  <2>4. frontier[1][1] \in Nodes
    <3>1. frontier \in Seq(Nodes \X Nat)
      BY <2>3 DEF Wave
    <3> QED
      BY <2>1, <3>1
  <2>5. found = IF frontier[1][2] >= ReachDepth THEN {} ELSE Against(graph)[frontier[1][1]] \ walked
    BY <2>2, <2>4 DEF Against
  <2>6. \E e, l :
          /\ Wave(Ripple(graph, targets), Against(graph), ReachDepth, walked \cup found,
                  Tail(frontier) \o Pairs(found, frontier[1][2] + 1), e, l)
          /\ Adding(Ripple(graph, targets), ReachDepth, walked, d, found, frontier[1][2], e)
    BY <1>0, <2>1, <2>3, <2>5, WaveGoesOn
  <2>7. Rippling'
    BY <2>1, <2>2, <2>3, <2>6 DEF Rippling, Adding
  <2> QED
    BY <2>1, <2>7 DEF ImpactInv
<1>6. CASE EndWalk
  <2>1. /\ stage = "reach" /\ stage' = "walked" /\ frontier = <<>>
        /\ UNCHANGED <<graph, root, targets, buckets>>
    BY <1>6 DEF EndWalk
  <2>2. PICK d, k :
          /\ Wave(Ripple(graph, targets), Against(graph), ReachDepth, walked, <<>>, d, k)
          /\ buckets = Found(Ripple(graph, targets), ReachDepth, walked, d)
    BY <2>1 DEF ImpactInv, Rippling
  <2>3. buckets = {p \in Nodes \X (1..ReachDepth) :
                     p[1] \in Ripple(graph, targets)[p[2]] \ Ripple(graph, targets)[p[2] - 1]}
    BY <1>0, <2>2, WaveEnds
  <2>4. buckets = Reached(graph, targets)
    BY <2>3, RippleIsTheQuery DEF ImpactInv
  <2> QED
    BY <2>1, <2>4 DEF ImpactInv, WalkedAsQueried
<1>7. CASE Report
  BY <1>7 DEF Report, ImpactInv, WalkedAsQueried
<1>8. CASE UNCHANGED measuring
  BY <1>8 DEF measuring, ImpactInv, Climbing, Rippling, WalkedAsQueried
<1> QED
  BY <1>1, <1>2, <1>3, <1>4, <1>5, <1>6, <1>7, <1>8 DEF ImpactNext

(* The walks in Python of a root find what the recursive SQL finds for an  *)
(* edit of it, whatever the graph and in whatever order they find it.      *)
THEOREM WalksFindTheSame == ImpactSpec => []WalksAgree
<1>1. ImpactInv => WalksAgree
  BY DEF ImpactInv, WalkedAsQueried, WalksAgree
<1> QED
  BY <1>1, ImpactStarts, ImpactKept, PTL DEF ImpactSpec

--------------------------------------------------------------------------------
(*****************************************************************************)
(* GraphImpact: the owners and the edit                                      *)
(*****************************************************************************)

(* Each level is what the walks n have at it.                              *)
Together(level, levels, N, D) == \A d \in 1..D : level[d] = UNION {levels[n][d] : n \in N}

(* A walk from several places is the walks from each of them together.     *)
LEMMA LevelsTogether ==
  ASSUME NEW D \in Nat, NEW succ, NEW blocked, NEW N, NEW starts, NEW levels,
         \A n \in N : LevelsFrom(levels[n], succ, starts[n], blocked, D),
         NEW level, NEW start, start = UNION {starts[n] : n \in N},
         LevelsFrom(level, succ, start, blocked, D)
  PROVE  Together(level, levels, N, D)
<1> DEFINE T == {m \in Nat : m + 1 <= D => level[m + 1] = UNION {levels[n][m + 1] : n \in N}}
<1>1. /\ \A d \in 1..D : level[d] = (UNION {succ[x] : x \in Behind(level, start, d)}) \ blocked
      /\ \A n \in N : \A d \in 1..D :
           levels[n][d] = (UNION {succ[x] : x \in Behind(levels[n], starts[n], d)}) \ blocked
  BY DEF LevelsFrom
<1>2. ASSUME NEW d \in 1..D,
             Behind(level, start, d) = UNION {Behind(levels[n], starts[n], d) : n \in N}
      PROVE  level[d] = UNION {levels[n][d] : n \in N}
  <2>1. ASSUME NEW y
        PROVE  (\E x \in Behind(level, start, d) : y \in succ[x])
                 <=> \E n \in N : \E x \in Behind(levels[n], starts[n], d) : y \in succ[x]
    BY <1>2
  <2>2. ASSUME NEW y
        PROVE  y \in level[d]
                 <=> y \notin blocked /\ \E x \in Behind(level, start, d) : y \in succ[x]
    BY <1>1
  <2>3. ASSUME NEW y, NEW n \in N
        PROVE  y \in levels[n][d]
                 <=> y \notin blocked /\ \E x \in Behind(levels[n], starts[n], d) : y \in succ[x]
    BY <1>1
  <2>4. \A y : y \in level[d] <=> \E n \in N : y \in levels[n][d]
    BY <2>1, <2>2, <2>3
  <2> QED
    BY <2>4
<1>3. T = Nat
  <2>1. T \in SUBSET Nat
    OBVIOUS
  <2>2. 0 \in T
    <3> SUFFICES ASSUME 0 + 1 <= D PROVE level[0 + 1] = UNION {levels[n][0 + 1] : n \in N}
      OBVIOUS
    <3>1. 1 \in 1..D /\ 0 + 1 = 1
      OBVIOUS
    <3>2. Behind(level, start, 1) = UNION {Behind(levels[n], starts[n], 1) : n \in N}
      BY DEF Behind
    <3> QED
      BY <1>2, <3>1, <3>2
  <2>3. ASSUME NEW m \in T PROVE m + 1 \in T
    <3> SUFFICES ASSUME (m + 1) + 1 <= D
                 PROVE  level[(m + 1) + 1] = UNION {levels[n][(m + 1) + 1] : n \in N}
      OBVIOUS
    <3>1. (m + 1) + 1 \in 1..D /\ (m + 1) + 1 # 1 /\ ((m + 1) + 1) - 1 = m + 1 /\ m + 1 <= D
      OBVIOUS
    <3>2. level[m + 1] = UNION {levels[n][m + 1] : n \in N}
      BY <3>1
    <3>3. /\ Behind(level, start, (m + 1) + 1) = level[m + 1]
          /\ \A n \in N : Behind(levels[n], starts[n], (m + 1) + 1) = levels[n][m + 1]
      BY <3>1 DEF Behind
    <3>4. Behind(level, start, (m + 1) + 1)
            = UNION {Behind(levels[n], starts[n], (m + 1) + 1) : n \in N}
      BY <3>2, <3>3
    <3> QED
      BY <1>2, <3>1, <3>4
  <2> HIDE DEF T
  <2> QED
    BY <2>1, <2>2, <2>3, Induct
<1>4. ASSUME NEW d \in 1..D PROVE level[d] = UNION {levels[n][d] : n \in N}
  <2>1. d - 1 \in Nat /\ (d - 1) + 1 = d /\ d <= D
    OBVIOUS
  <2>2. d - 1 \in T
    BY <1>3, <2>1
  <2> QED
    BY <2>1, <2>2
<1> QED
  BY <1>4 DEF Together

(* What contains any of the owners is what contains one or another.        *)
LEMMA TargetsTogether ==
  ASSUME NEW g \in Graphs, NEW ns \in SUBSET Nodes
  PROVE  /\ ModifyTargets(g, ns) = UNION {ModifyTargets(g, {m}) : m \in ns}
         /\ \A n \in ns : ModifyTargets(g, {n}) \in SUBSET Nodes
         /\ ModifyTargets(g, ns) \in SUBSET Nodes /\ ns \subseteq ModifyTargets(g, ns)
<1> DEFINE starts == [n \in ns |-> {n}]
           levels == [n \in ns |-> ContainerLevels(g, {n})]
           level == ContainerLevels(g, ns)
<1>1. ContainDepth \in Nat /\ ns = UNION {starts[n] : n \in ns}
  BY DepthsAssumption
<1>2. /\ LevelsFrom(level, Up(g), ns, {}, ContainDepth)
      /\ \A n \in ns : LevelsFrom(ContainerLevels(g, {n}), Up(g), {n}, {}, ContainDepth)
  BY ContainerLevelsAre
<1>3. \A n \in ns : LevelsFrom(levels[n], Up(g), starts[n], {}, ContainDepth)
  BY <1>2
<1>4. /\ ModifyTargets(g, ns) = ns \cup UNION {level[d] : d \in 1..ContainDepth}
      /\ \A n \in ns : ModifyTargets(g, {n}) = {n} \cup UNION {levels[n][d] : d \in 1..ContainDepth}
  BY DEF ModifyTargets, Ancestors
<1>5. /\ level \in [1..ContainDepth -> SUBSET Nodes]
      /\ \A n \in ns : levels[n] \in [1..ContainDepth -> SUBSET Nodes]
  BY <1>2, <1>3 DEF LevelsFrom
<1> HIDE DEF level, levels, starts
<1>6. Together(level, levels, ns, ContainDepth)
  BY <1>1, <1>2, <1>3, LevelsTogether
<1>7. ModifyTargets(g, ns) = UNION {ModifyTargets(g, {m}) : m \in ns}
  <2>1. ASSUME NEW x
        PROVE  (\E d \in 1..ContainDepth : x \in level[d])
                 <=> \E n \in ns : \E d \in 1..ContainDepth : x \in levels[n][d]
    BY <1>6 DEF Together
  <2>2. \A x : x \in ModifyTargets(g, ns) <=> x \in ns \/ \E d \in 1..ContainDepth : x \in level[d]
    BY <1>4
  <2>3. \A n \in ns : \A x :
          x \in ModifyTargets(g, {n}) <=> x = n \/ \E d \in 1..ContainDepth : x \in levels[n][d]
    BY <1>4
  <2>4. \A x : x \in ModifyTargets(g, ns) <=> \E n \in ns : x \in ModifyTargets(g, {n})
    BY <2>1, <2>2, <2>3
  <2> QED
    BY <2>4
<1>8. ASSUME NEW n \in ns PROVE ModifyTargets(g, {n}) \in SUBSET Nodes
  <2>1. \A d \in 1..ContainDepth : levels[n][d] \subseteq Nodes
    BY <1>5
  <2> QED
    BY <1>4, <2>1
<1>9. ModifyTargets(g, ns) \in SUBSET Nodes
  <2>1. \A d \in 1..ContainDepth : level[d] \subseteq Nodes
    BY <1>5
  <2> QED
    BY <1>4, <2>1
<1>10. ns \subseteq ModifyTargets(g, ns)
  BY <1>4
<1> QED
  BY <1>7, <1>8, <1>9, <1>10

(* What is in a level and in none before, of one walk or of any of several.*)
FirstIn(level, D) ==
  {p \in Nodes \X (1..D) : p[1] \in level[p[2]] /\ \A d \in 1..(p[2] - 1) : p[1] \notin level[d]}

FirstInAny(levels, N, D) ==
  {p \in Nodes \X (1..D) :
     \E n \in N : p[1] \in levels[n][p[2]] /\ \A d \in 1..(p[2] - 1) : p[1] \notin levels[n][d]}

(* Each node of all with the least of its depths.                          *)
Soonest(all) == {p \in all : \A q \in all : q[1] = p[1] => p[2] <= q[2]}

(* The nearest depth among several walks is that of the walk together.     *)
LEMMA NearestTogether ==
  ASSUME NEW D \in Nat, NEW N, NEW levels, NEW level \in [1..D -> SUBSET Nodes],
         Together(level, levels, N, D)
  PROVE  Soonest(FirstInAny(levels, N, D)) = FirstIn(level, D)
<1> DEFINE all == FirstInAny(levels, N, D)
<1> USE DEF Together, FirstInAny
<1>1. ASSUME NEW x \in Nodes, NEW d \in 1..D, x \in level[d]
      PROVE  \E q \in all : q[1] = x /\ q[2] <= d
  <2>1. PICK n \in N : x \in levels[n][d]
    BY <1>1
  <2> DEFINE T == {e \in 1..D : x \in levels[n][e]}
  <2>2. T \in SUBSET Nat /\ d \in T
    BY <2>1
  <2>3. PICK e \in T : \A f \in T : e <= f
    <3> HIDE DEF T
    <3> QED
      BY <2>2, LeastOf
  <2>4. e \in 1..D /\ x \in levels[n][e] /\ e <= d /\ \A f \in 1..(e - 1) : x \notin levels[n][f]
    BY <2>2, <2>3
  <2>5. <<x, e>> \in all
    BY <2>4
  <2> QED
    BY <2>4, <2>5
<1>2. ASSUME NEW q \in all PROVE q[1] \in Nodes /\ q[2] \in 1..D /\ q[1] \in level[q[2]]
  OBVIOUS
<1>3. ASSUME NEW p \in all, \A q \in all : q[1] = p[1] => p[2] <= q[2], NEW d \in 1..(p[2] - 1)
      PROVE  p[1] \notin level[d]
  <2> SUFFICES ASSUME p[1] \in level[d] PROVE FALSE
    OBVIOUS
  <2>1. p[1] \in Nodes /\ p[2] \in 1..D /\ d \in 1..D /\ d < p[2]
    BY <1>2
  <2>2. PICK q \in all : q[1] = p[1] /\ q[2] <= d
    BY <1>1, <2>1
  <2>3. p[2] <= q[2]
    BY <1>3, <2>2
  <2>4. q[2] \in 1..D
    BY <1>2, <2>2
  <2> HIDE DEF all
  <2> QED
    BY <2>1, <2>2, <2>3, <2>4
<1>4. ASSUME NEW p \in Nodes \X (1..D), p[1] \in level[p[2]],
             \A d \in 1..(p[2] - 1) : p[1] \notin level[d]
      PROVE  p \in all /\ \A q \in all : q[1] = p[1] => p[2] <= q[2]
  <2>1. PICK n \in N : p[1] \in levels[n][p[2]]
    BY <1>4
  <2>2. \A d \in 1..(p[2] - 1) : p[1] \notin levels[n][d]
    BY <1>4
  <2>3. p \in all
    BY <2>1, <2>2
  <2>4. ASSUME NEW q \in all, q[1] = p[1] PROVE p[2] <= q[2]
    <3>1. q[2] \in 1..D /\ q[1] \in level[q[2]] /\ p[2] \in 1..D
      BY <1>2
    <3>2. q[2] \notin 1..(p[2] - 1)
      BY <1>4, <2>4, <3>1
    <3> QED
      BY <3>1, <3>2
  <2> QED
    BY <2>3, <2>4
<1> HIDE DEF all
<1> QED
  BY <1>2, <1>3, <1>4 DEF Soonest, FirstIn, all

(* What is found of the owners covers what is found of the edit.           *)
Covers(all, g, ns, ts) ==
  /\ Soonest(all) = Reached(g, ts)
  /\ \A p \in all : p[1] \notin ns
  /\ Cardinality(Users(g, ts, ImpactKinds) \ ts) = Cardinality({p \in Reached(g, ts) : p[2] = 1})

(* The evidence of the owners, each by itself, covers that of the edit.    *)
LEMMA OwnersCover ==
  ASSUME NEW g \in Graphs, NEW ns \in SUBSET Nodes,
         NEW all, all = UNION {r.impacted : r \in {OwnerRisk(g, n, ns) : n \in ns}}
  PROVE  Covers(all, g, ns, ModifyTargets(g, ns))
<1> DEFINE ts == ModifyTargets(g, ns)
           starts == [n \in ns |-> ModifyTargets(g, {n})]
           levels == [n \in ns |-> UserLevels(g, ModifyTargets(g, {n}), ts)]
           level == UserLevels(g, ts, ts)
<1>1. /\ ts = UNION {ModifyTargets(g, {m}) : m \in ns}
      /\ \A n \in ns : ModifyTargets(g, {n}) \in SUBSET Nodes
      /\ ts \in SUBSET Nodes /\ ns \subseteq ts
  BY TargetsTogether
<1>2. ReachDepth \in Nat /\ ReachDepth > 0 /\ ts = UNION {starts[n] : n \in ns}
  BY <1>1, DepthsAssumption
<1>3. /\ LevelsFrom(level, Against(g), ts, ts, ReachDepth)
      /\ \A n \in ns : LevelsFrom(levels[n], Against(g), starts[n], ts, ReachDepth)
  <2> HIDE DEF ts
  <2> QED
    BY <1>1, UserLevelsAre
<1>4. all = UNION {ReachedFrom(g, ModifyTargets(g, {n}), ts) : n \in ns}
  <2>1. \A n \in ns : OwnerRisk(g, n, ns).impacted = ReachedFrom(g, ModifyTargets(g, {n}), ts)
    <3> HIDE DEF ts
    <3> QED
      BY <1>1 DEF OwnerRisk
  <2> HIDE DEF ts
  <2> QED
    BY <2>1
<1>5. all = FirstInAny(levels, ns, ReachDepth)
  <2>1. \A n \in ns : ReachedFrom(g, ModifyTargets(g, {n}), ts) = FirstIn(levels[n], ReachDepth)
    BY DEF ReachedFrom, FirstIn
  <2> HIDE DEF levels, ts
  <2>2. all = UNION {FirstIn(levels[n], ReachDepth) : n \in ns}
    BY <1>4, <2>1
  <2> QED
    BY <2>2 DEF FirstIn, FirstInAny
<1>6. Reached(g, ts) = FirstIn(level, ReachDepth)
  BY DEF Reached, ReachedFrom, FirstIn
<1> HIDE DEF level, levels, starts, ts
<1>7. Together(level, levels, ns, ReachDepth)
  BY <1>2, <1>3, LevelsTogether
<1>8. level \in [1..ReachDepth -> SUBSET Nodes]
  BY <1>3 DEF LevelsFrom
<1>9. Soonest(all) = Reached(g, ts)
  BY <1>2, <1>5, <1>6, <1>7, <1>8, NearestTogether
<1>11. ASSUME NEW p \in all PROVE p[1] \notin ns
  <2>1. PICK n \in ns : p[1] \in levels[n][p[2]] /\ p[2] \in 1..ReachDepth
    BY <1>5 DEF FirstInAny
  <2>2. levels[n][p[2]] = (UNION {Against(g)[x] : x \in Behind(levels[n], starts[n], p[2])}) \ ts
    BY <1>3, <2>1 DEF LevelsFrom
  <2> QED
    BY <1>1, <2>1, <2>2
<1> DEFINE near == Users(g, ts, ImpactKinds) \ ts
           pairs == {p \in Reached(g, ts) : p[2] = 1}
<1>12. near = level[1]
  <2>1. 1 \in 1..ReachDepth /\ Behind(level, ts, 1) = ts
    BY <1>2 DEF Behind
  <2>2. level[1] = (UNION {Against(g)[x] : x \in ts}) \ ts
    BY <1>3, <2>1 DEF LevelsFrom
  <2>3. Users(g, ts, ImpactKinds) = UNION {Against(g)[x] : x \in ts}
    BY <1>1, EdgesStayInside
  <2> QED
    BY <2>2, <2>3
<1>13. near \subseteq Nodes /\ 1 \in 1..ReachDepth
  BY <1>2, <1>8, <1>12
<1>14. pairs = {<<n, 1>> : n \in near}
  <2>1. 1..(1 - 1) = {}
    OBVIOUS
  <2> HIDE DEF near
  <2> QED
    BY <1>6, <1>12, <1>13, <2>1 DEF FirstIn
<1> HIDE DEF near, pairs
<1>15. IsFiniteSet(near)
  BY <1>13, DepthsAssumption, FS_Subset
<1>16. ExistsBijection(near, pairs)
  <2> DEFINE f == [n \in near |-> <<n, 1>>]
  <2>1. f \in Bijection(near, pairs)
    BY <1>14 DEF Bijection, Injection, Surjection, IsInjective
  <2> QED
    BY <2>1 DEF ExistsBijection
<1>17. Cardinality(near) = Cardinality(pairs)
  BY <1>15, <1>16, FS_Bijection
<1> QED
  BY <1>9, <1>11, <1>17 DEF Covers, near, pairs, ts

(* The owners of an edit are nodes of the graph.                           *)
LEMMA OwnersAreNodes == ASSUME NEW g, NEW a PROVE Resolve(g, a).owners \subseteq Nodes
<1>1. LocatedOwners(g, a) \subseteq Nodes
  <2>1. \A file, r : OwnersAt(g, file, r) \subseteq Nodes
    BY DEF OwnersAt, Overlapping
  <2> QED
    BY <2>1 DEF LocatedOwners
<1>2. \A s : ResolveNamed(g, s) \subseteq Nodes
  BY DEF ResolveNamed
<1>3. NamedOwners(g, a) \subseteq Nodes /\ FallbackOwners(g, a) \subseteq Nodes
  BY <1>2 DEF NamedOwners, FallbackOwners
<1> QED
  BY <1>1, <1>3 DEF Resolve

(* What is reported is the evidence of owners that are nodes, or nothing.  *)
ReportInv ==
  /\ graph \in Graphs /\ resolved.owners \subseteq Nodes
  /\ evidence.risks # {} =>
       \E ns \in SUBSET Nodes :
         /\ evidence.owners = ns
         /\ evidence.risks = {OwnerRisk(graph, n, ns) : n \in ns}
         /\ evidence.reached = Reached(graph, ModifyTargets(graph, ns))
         /\ evidence.impact = Cardinality(Users(graph, ModifyTargets(graph, ns), ImpactKinds)
                                            \ ModifyTargets(graph, ns))

(* Where a reading starts.                                                 *)
LEMMA ReportStarts == ImpactInit => ReportInv
BY DEF ImpactInit, ReportInv, NoReading, Unresolved

(* Every step keeps it so.                                                 *)
LEMMA ReportKept == ReportInv /\ [ImpactNext]_measuring => ReportInv'
<1> SUFFICES ASSUME ReportInv, [ImpactNext]_measuring PROVE ReportInv'
  OBVIOUS
<1>1. CASE Refuse
  BY <1>1 DEF Refuse, ReportInv, Unresolved
<1>2. CASE ResolveOwners
  BY <1>2, OwnersAreNodes DEF ResolveOwners, ReportInv
<1>3. CASE WalkContainers \/ StartReach \/ WalkReach \/ EndWalk \/ UNCHANGED measuring
  BY <1>3 DEF WalkContainers, StartReach, WalkReach, EndWalk, measuring, ReportInv
<1>4. CASE Report
  <2>1. /\ evidence' = Evidence(graph, resolved) /\ graph' = graph /\ resolved' = resolved
    BY <1>4 DEF Report
  <2> QED
    BY <2>1 DEF ReportInv, Evidence, Unresolved
<1> QED
  BY <1>1, <1>2, <1>3, <1>4 DEF ImpactNext

(* The owners' evidence of an edit leaves out nothing that the edit        *)
(* reaches, and keeps the nearest depth, whatever the graph.               *)
THEOREM NothingReachedIsLost == ImpactSpec => []OwnersCoverTheImpact
<1>1. ReportInv => OwnersCoverTheImpact
  <2> SUFFICES ASSUME ReportInv, evidence.risks # {}
               PROVE  OwnersCoverTheImpact
    BY DEF OwnersCoverTheImpact
  <2>1. PICK ns \in SUBSET Nodes :
          /\ evidence.owners = ns
          /\ evidence.risks = {OwnerRisk(graph, n, ns) : n \in ns}
          /\ evidence.reached = Reached(graph, ModifyTargets(graph, ns))
          /\ evidence.impact = Cardinality(Users(graph, ModifyTargets(graph, ns), ImpactKinds)
                                             \ ModifyTargets(graph, ns))
    BY DEF ReportInv
  <2> DEFINE all == UNION {r.impacted : r \in evidence.risks}
  <2>2. all = UNION {r.impacted : r \in {OwnerRisk(graph, n, ns) : n \in ns}} /\ graph \in Graphs
    BY <2>1 DEF ReportInv
  <2> HIDE DEF all
  <2>3. Covers(all, graph, ns, ModifyTargets(graph, ns))
    BY <2>2, OwnersCover
  <2> DEFINE Nearest(n) == {p \in all : p[1] = n /\ \A q \in all : q[1] = n => p[2] <= q[2]}
  <2>4. UNION {Nearest(p[1]) : p \in all} = Soonest(all)
    BY DEF Soonest
  <2> QED
    BY <2>1, <2>3, <2>4 DEF OwnersCoverTheImpact, Covers, all
<1> QED
  BY <1>1, ReportStarts, ReportKept, PTL DEF ImpactSpec

--------------------------------------------------------------------------------
(*****************************************************************************)
(* ImportGraphCache                                                          *)
(*****************************************************************************)

(* What a call keeps of its own.                                           *)
CallFields ==
  {"at", "prev", "files", "hashes", "todo", "edges", "raced", "answer", "graph", "inode", "touched"}

(* A graph that may be built on: it has the edges of every file it has the *)
(* hash of, those the hashed content has among its files.                  *)
TrueOf(hashes, edges, raced, fs) ==
  \A f \in fs \ raced : edges[f] = Edges(f, hashes[f], DOMAIN hashes)

Good(g) ==
  /\ DOMAIN g.edges = DOMAIN g.hashes
  /\ TrueOf(g.hashes, g.edges, g.raced, DOMAIN g.hashes)

(* What has been hashed under an untouched call is what is there.          *)
Current(c) ==
  ~c.touched => c.files = Present /\ \A f \in DOMAIN c.hashes : c.hashes[f] = disk[f]

Hashing(c) ==
  /\ c.todo \subseteq c.files
  /\ DOMAIN c.hashes = c.files \ c.todo
  /\ c.hashes = [f \in DOMAIN c.hashes |-> c.hashes[f]]
  /\ Current(c)

(* What was parsed or carried over is true, and the rest is to be parsed.  *)
Parsing(c) ==
  /\ DOMAIN c.hashes = c.files
  /\ c.hashes = [f \in c.files |-> c.hashes[f]]
  /\ Current(c)
  /\ c.todo \subseteq c.files
  /\ DOMAIN c.edges = c.files \ c.todo
  /\ TrueOf(c.hashes, c.edges, c.raced, c.files \ c.todo)

(* The answer of an untouched call is of the files of now.                 *)
Now(c) ==
  c.answer \in {"FRESH", "REBUILT"} /\ ~c.touched => c.graph.hashes = [f \in Present |-> disk[f]]

CallInv(c) ==
  /\ DOMAIN c = CallFields
  /\ c.prev # Absent => Good(c.prev)
  /\ c.at \in {"idle", "list", "hash", "parse", "open", "write", "replace", "answered"}
  /\ c.at \in {"idle", "list", "hash"} => c.answer = "none"
  /\ c.at = "list" => c.hashes = <<>>
  /\ c.at \in {"list", "hash"} => c.graph = Absent
  /\ c.at = "hash" => Hashing(c)
  /\ c.at = "parse" => c.graph = Absent /\ Parsing(c)
  /\ c.at \in {"open", "write", "replace", "answered"} => Good(c.graph) /\ Now(c)
  /\ c.inode \in IF c.at = "write" THEN Inodes ELSE {Absent}

(* Whatever a save left under the name of the cache is good, or is refused.*)
FilesInv ==
  /\ cache \in Inodes \cup {Absent} /\ temp \in Inodes \cup {Absent}
  /\ DOMAIN bytes = Inodes
  /\ \A i \in Inodes : bytes[i] # Garbage => Good(bytes[i])

CacheInv ==
  /\ DOMAIN build = Procs
  /\ \A p \in Procs : CallInv(build[p])
  /\ FilesInv

--------------------------------------------------------------------------------
(* The next file is one of those left.                                     *)
LEMMA FirstIsOne ==
  ASSUME NEW fs, fs # {}
  PROVE  First(fs) \in fs
BY DEF First

(* A graph without files may be built on.                                  *)
LEMMA EmptyIsGood == Good(EmptyGraph)
BY DEF Good, EmptyGraph, Graph, TrueOf

(* A call at rest, or about to list, keeps nothing that could be wrong.    *)
LEMMA RestingHolds ==
  /\ CallInv(Resting)
  /\ \A prev : (prev # Absent => Good(prev))
                 => CallInv([Resting EXCEPT !.at = "list", !.prev = prev])
BY DEF CallInv, Resting, CallFields

(* A call that answers with a graph that may be built on.                  *)
LEMMA AnsweredHolds ==
  ASSUME NEW p, NEW answer, NEW assembled, Good(assembled), answer \in {"UNKNOWN", "STALE"}
  PROVE  CallInv(Answered(p, answer, assembled))
BY DEF CallInv, Answered, Resting, CallFields, Now

(* What is loaded is good: a torn file is refused.                         *)
LEMMA LoadedIsGood ==
  ASSUME FilesInv, Loaded # Absent
  PROVE  Good(Loaded)
BY DEF FilesInv, Loaded

--------------------------------------------------------------------------------
(* The steps of a call, one by one, on what it keeps.                      *)

(* A listed call has hashed nothing.                                       *)
LEMMA ListedHolds ==
  ASSUME NEW c, CallInv(c), c.at = "list", Present # {}
  PROVE  CallInv([c EXCEPT !.at = "hash", !.files = Present, !.todo = Present])
<1> DEFINE d == [c EXCEPT !.at = "hash", !.files = Present, !.todo = Present]
<1>1. DOMAIN d = CallFields /\ d.at = "hash" /\ d.files = Present /\ d.todo = Present
      /\ d.hashes = <<>> /\ d.prev = c.prev /\ d.answer = c.answer /\ d.inode = c.inode
      /\ d.graph = c.graph
  BY DEF CallInv, CallFields
<1>2. DOMAIN <<>> = {} /\ <<>> = [f \in {} |-> <<>>[f]]
  OBVIOUS
<1>3. Hashing(d)
  BY <1>1, <1>2 DEF Hashing, Current
<1>4. (c.prev # Absent => Good(c.prev)) /\ c.answer = "none" /\ c.graph = Absent /\ c.inode = Absent
  BY DEF CallInv
<1> HIDE DEF d
<1>5. CallInv(d)
  BY <1>1, <1>3, <1>4 DEF CallInv
<1> QED
  BY <1>5 DEF d

(* One more file is hashed.                                                *)
LEMMA HashedHolds ==
  ASSUME NEW c, CallInv(c), c.at = "hash", NEW f \in c.todo, disk[f] # Absent
  PROVE  CallInv([c EXCEPT !.hashes = With(@, f, disk[f]), !.todo = @ \ {f}])
<1> DEFINE d == [c EXCEPT !.hashes = With(@, f, disk[f]), !.todo = @ \ {f}]
<1>1. DOMAIN d = CallFields /\ d.at = "hash" /\ d.files = c.files /\ d.todo = c.todo \ {f}
      /\ d.hashes = With(c.hashes, f, disk[f]) /\ d.prev = c.prev /\ d.answer = c.answer
      /\ d.inode = c.inode /\ d.touched = c.touched /\ d.graph = c.graph
  BY DEF CallInv, CallFields
<1>2. Hashing(c)
  BY DEF CallInv
<1>7. /\ DOMAIN d.hashes = (DOMAIN c.hashes) \cup {f}
      /\ d.hashes[f] = disk[f]
      /\ \A g \in DOMAIN c.hashes : g # f => d.hashes[g] = c.hashes[g]
      /\ d.hashes = [g \in DOMAIN d.hashes |-> d.hashes[g]]
  <2> HIDE DEF d
  <2> QED
    BY <1>1 DEF With
<1>3. Hashing(d)
  <2> HIDE DEF d
  <2> QED
    BY <1>1, <1>2, <1>7 DEF Hashing, Current
<1>4. (c.prev # Absent => Good(c.prev)) /\ c.answer = "none" /\ c.graph = Absent /\ c.inode = Absent
  BY DEF CallInv
<1> HIDE DEF d
<1>5. CallInv(d)
  BY <1>1, <1>3, <1>4 DEF CallInv
<1> QED
  BY <1>5 DEF d

(* What is carried over is true of the files as they were hashed: it is    *)
(* taken only when the same files resolve, and of those that did not       *)
(* change.                                                                 *)
LEMMA CarriedHolds ==
  ASSUME NEW c, CallInv(c), c.at = "hash", c.todo = {}, NEW answer \in {"FRESH", "REBUILT"},
         NEW carried, carried = c.files \ ToParse(c), c.graph = Absent
  PROVE  CallInv([c EXCEPT !.at = "parse", !.todo = ToParse(c), !.answer = answer,
                    !.edges = IF c.prev = Absent THEN <<>> ELSE Only(c.prev.edges, carried),
                    !.raced = IF c.prev = Absent THEN {} ELSE c.prev.raced \cap carried])
<1> DEFINE edges == IF c.prev = Absent THEN <<>> ELSE Only(c.prev.edges, carried)
           raced == IF c.prev = Absent THEN {} ELSE c.prev.raced \cap carried
           d == [c EXCEPT !.at = "parse", !.todo = ToParse(c), !.answer = answer,
                          !.edges = edges, !.raced = raced]
<1>1. DOMAIN d = CallFields /\ d.at = "parse" /\ d.files = c.files /\ d.todo = ToParse(c)
      /\ d.hashes = c.hashes /\ d.prev = c.prev /\ d.answer = answer /\ d.graph = Absent
      /\ d.inode = c.inode /\ d.touched = c.touched /\ d.edges = edges /\ d.raced = raced
  BY DEF CallInv, CallFields
<1>2. Hashing(c) /\ (c.prev # Absent => Good(c.prev))
  BY DEF CallInv
<1>3. ToParse(c) \subseteq c.files
  BY DEF ToParse, Modified
<1>4. DOMAIN edges = carried /\ TrueOf(c.hashes, edges, raced, carried)
  <2>1. CASE carried = {}
    <3>1. DOMAIN <<>> = {}
      OBVIOUS
    <3> QED
      BY <2>1, <3>1 DEF TrueOf, Only
  <2>2. CASE carried # {}
    <3>1. c.prev # Absent /\ DOMAIN c.prev.hashes = c.files /\ DOMAIN c.hashes = c.files
      BY <1>2, <2>2 DEF ToParse, Hashing
    <3>2. \A f \in carried : c.prev.hashes[f] = c.hashes[f]
      BY <3>1 DEF ToParse, Modified
    <3>3. DOMAIN c.prev.edges = c.files
          /\ \A f \in c.files \ c.prev.raced : c.prev.edges[f] = Edges(f, c.prev.hashes[f], c.files)
      BY <1>2, <3>1 DEF Good, TrueOf
    <3>4. edges = [f \in carried |-> c.prev.edges[f]] /\ raced = c.prev.raced \cap carried
      BY <3>1, <3>3 DEF Only
    <3> HIDE DEF edges, raced
    <3> QED
      BY <3>1, <3>2, <3>3, <3>4 DEF TrueOf
  <2> QED
    BY <2>1, <2>2
<1>5. Parsing(d)
  <2>1. DOMAIN c.hashes = c.files /\ c.files \ ToParse(c) = carried
    BY <1>2 DEF Hashing
  <2> HIDE DEF d, edges, raced
  <2> QED
    BY <1>1, <1>2, <1>3, <1>4, <2>1 DEF Parsing, Hashing, Current
<1> HIDE DEF d, edges, raced
<1> QED
  BY <1>1, <1>2, <1>5 DEF CallInv, d, edges, raced

(* One more file is parsed.                                                *)
LEMMA ParsedHolds ==
  ASSUME NEW c, CallInv(c), c.at = "parse", NEW f \in c.todo, disk[f] # Absent
  PROVE  CallInv([c EXCEPT !.edges = With(c.edges, f, Edges(f, disk[f], c.files)),
                           !.raced = IF disk[f] = c.hashes[f] THEN @ ELSE @ \cup {f},
                           !.todo = @ \ {f}])
<1> DEFINE edges == With(c.edges, f, Edges(f, disk[f], c.files))
           raced == IF disk[f] = c.hashes[f] THEN c.raced ELSE c.raced \cup {f}
           d == [c EXCEPT !.edges = edges, !.raced = raced, !.todo = @ \ {f}]
<1>1. DOMAIN d = CallFields /\ d.at = "parse" /\ d.files = c.files /\ d.todo = c.todo \ {f}
      /\ d.hashes = c.hashes /\ d.prev = c.prev /\ d.answer = c.answer /\ d.graph = c.graph
      /\ d.inode = c.inode /\ d.touched = c.touched /\ d.edges = edges /\ d.raced = raced
  BY DEF CallInv, CallFields
<1>2. Parsing(c)
  BY DEF CallInv
<1>7. /\ DOMAIN edges = (DOMAIN c.edges) \cup {f}
      /\ edges[f] = Edges(f, disk[f], c.files)
      /\ \A g \in DOMAIN c.edges : g # f => edges[g] = c.edges[g]
  BY DEF With
<1>3. DOMAIN edges = c.files \ (c.todo \ {f})
      /\ edges[f] = Edges(f, disk[f], c.files)
      /\ \A g \in DOMAIN c.edges : g # f => edges[g] = c.edges[g]
  <2> HIDE DEF edges
  <2> QED
    BY <1>2, <1>7 DEF Parsing
<1>4. TrueOf(c.hashes, edges, raced, c.files \ (c.todo \ {f}))
  <2> HIDE DEF edges
  <2> QED
    BY <1>2, <1>3 DEF Parsing, TrueOf
<1>5. Parsing(d)
  <2> HIDE DEF d, edges, raced
  <2> QED
    BY <1>1, <1>2, <1>3, <1>4 DEF Parsing, Current
<1> HIDE DEF d
<1>6. CallInv(d)
  BY <1>1, <1>5 DEF CallInv
<1> QED
  BY <1>6 DEF d

(* The graph that is assembled.                                            *)
LEMMA AssembledHolds ==
  ASSUME NEW p, NEW c, c = build[p], CallInv(c), c.at = "parse", c.todo = {},
         NEW assembled, assembled = Graph(c.hashes, c.edges, c.raced)
  PROVE  /\ CallInv(Answered(p, c.answer, assembled))
         /\ CallInv([Answered(p, c.answer, assembled) EXCEPT !.at = "open"])
<1>1. Parsing(c)
  BY DEF CallInv
<1>2. assembled.hashes = c.hashes /\ assembled.edges = c.edges /\ assembled.raced = c.raced
  BY DEF Graph
<1>3. Good(assembled)
  BY <1>1, <1>2 DEF Good, Parsing
<1>4. ~c.touched => assembled.hashes = [f \in Present |-> disk[f]]
  BY <1>1, <1>2 DEF Parsing, Current
<1> QED
  BY <1>3, <1>4 DEF CallInv, Answered, Resting, CallFields, Now

(* The steps of a save.                                                    *)
LEMMA SavedHolds ==
  ASSUME NEW c, CallInv(c), c.at \in {"open", "write", "replace"}
  PROVE  /\ \A i \in Inodes : CallInv([c EXCEPT !.at = "write", !.inode = i])
         /\ CallInv([c EXCEPT !.at = "replace", !.inode = Absent])
         /\ CallInv([c EXCEPT !.at = "answered", !.inode = Absent])
         /\ c.at # "write" => CallInv([c EXCEPT !.at = "answered"])
BY DEF CallInv, CallFields, Now

--------------------------------------------------------------------------------
(* Where it all starts.                                                    *)
LEMMA CacheStarts == CacheInit => CacheInv
BY RestingHolds DEF CacheInit, CacheInv, FilesInv

(* What a call keeps is judged by the files alone.                         *)
LEMMA SameDisk ==
  ASSUME disk' = disk, NEW c, CallInv(c)
  PROVE  CallInv(c)'
<1>1. Present' = Present
  BY DEF Present
<1>2. Current(c)' <=> Current(c)
  BY <1>1 DEF Current
<1>3. (Hashing(c)' <=> Hashing(c)) /\ (Parsing(c)' <=> Parsing(c))
  BY <1>2 DEF Hashing, Parsing
<1>4. Now(c)' <=> Now(c)
  BY <1>1 DEF Now
<1> QED
  BY <1>3, <1>4 DEF CallInv

(* A step of one call leaves what the others keep as it was.               *)
LEMMA OneCall ==
  ASSUME CacheInv, NEW p \in Procs, NEW d, build' = [build EXCEPT ![p] = d], disk' = disk,
         CallInv(d)
  PROVE  DOMAIN build' = Procs /\ \A q \in Procs : CallInv(build[q])'
<1>1. DOMAIN build' = Procs /\ \A q \in Procs : build'[q] = IF q = p THEN d ELSE build[q]
  BY DEF CacheInv
<1>2. \A q \in Procs : CallInv(build'[q])
  BY <1>1 DEF CacheInv
<1>3. ASSUME NEW q \in Procs PROVE CallInv(build[q])'
  <2>1. PICK c : c = build'[q]
    OBVIOUS
  <2>2. CallInv(c)'
    BY <1>2, <2>1, SameDisk
  <2> QED
    BY <2>1, <2>2
<1> QED
  BY <1>1, <1>3

(* Steps that leave the files of the cache alone.                          *)
LEMMA SameFiles ==
  ASSUME FilesInv, UNCHANGED <<cache, temp, bytes>>
  PROVE  FilesInv'
BY DEF FilesInv

(* There is a file that nobody uses.                                       *)
LEMMA AFreeInode ==
  ASSUME CacheInv, NEW p \in Procs, build[p].inode = Absent, temp = Absent
  PROVE  (CHOOSE j \in Inodes : j \notin InUse) \in Inodes
<1> DEFINE others == Procs \ {p}
           f == [q \in others |-> build[q].inode]
           used == {build[q].inode : q \in others}
<1>1. IsFiniteSet(others) /\ Cardinality(others) = Cardinality(Procs) - 1
  BY InodesAssumption, FS_RemoveElement
<1>2. f \in Surjection(others, used)
  BY DEF Surjection
<1>3. IsFiniteSet(used) /\ Cardinality(used) <= Cardinality(others)
  <2> HIDE DEF others, f, used
  <2> QED
    BY <1>1, <1>2, FS_Surjection
<1>4. IsFiniteSet(used \cup {cache}) /\ Cardinality(used \cup {cache}) <= Cardinality(used) + 1
  <2> HIDE DEF used
  <2>1. Cardinality(used) \in Nat
    BY <1>3, FS_CardinalityType
  <2> QED
    BY <1>3, <2>1, FS_AddElement
<1>5. Cardinality(Procs) \in Nat /\ Cardinality(Inodes) \in Nat /\ Cardinality(used) \in Nat
      /\ Cardinality(used \cup {cache}) \in Nat
  BY <1>3, <1>4, InodesAssumption, FS_CardinalityType
<1>6. ~(Inodes \subseteq used \cup {cache})
  <2> SUFFICES ASSUME Inodes \subseteq used \cup {cache} PROVE FALSE
    OBVIOUS
  <2> HIDE DEF used, others, f
  <2>1. Cardinality(Inodes) <= Cardinality(used \cup {cache})
    BY <1>4, FS_Subset
  <2> QED
    BY <1>1, <1>3, <1>4, <1>5, <2>1, InodesAssumption
<1>7. \A i \in InUse : i \in used \cup {cache} \/ i = Absent
  BY DEF InUse
<1>8. \E j \in Inodes : j \notin InUse
  BY <1>6, <1>7, InodesAssumption
<1> QED
  BY <1>8

(* Every step keeps it so.                                                 *)
LEMMA CacheKept == CacheInv /\ [CacheNext]_building => CacheInv'
<1> SUFFICES ASSUME CacheInv, [CacheNext]_building PROVE CacheInv'
  OBVIOUS
<1>1. ASSUME NEW f \in Files, Edit(f) PROVE CacheInv'
  <2>1. FilesInv'
    BY <1>1, SameFiles DEF Edit, CacheInv
  <2>2. ASSUME NEW q \in Procs PROVE CallInv(build[q])'
    <3>1. CASE At(q, "idle")
      <4>1. build'[q] = Resting
        BY <1>1, <3>1 DEF Edit
      <4>2. CallInv(Resting)'
        BY RestingHolds DEF CallInv, Resting, CallFields
      <4> QED
        BY <4>1, <4>2
    <3>2. CASE ~At(q, "idle")
      <4>1. build'[q] = [build[q] EXCEPT !.touched = TRUE]
        BY <1>1, <3>2 DEF Edit
      <4>2. CallInv(build[q])
        BY DEF CacheInv
      <4>5. PICK c, d : c = build[q] /\ d = build'[q]
        OBVIOUS
      <4>3. DOMAIN d = CallFields /\ d.touched = TRUE
            /\ d.at = c.at /\ d.prev = c.prev /\ d.files = c.files /\ d.hashes = c.hashes
            /\ d.todo = c.todo /\ d.edges = c.edges /\ d.raced = c.raced /\ d.answer = c.answer
            /\ d.graph = c.graph /\ d.inode = c.inode
        BY <4>1, <4>2, <4>5 DEF CallInv, CallFields
      <4>6. CallInv(c)
        BY <4>2, <4>5
      <4>7. (Hashing(c) => Hashing(d)') /\ (Parsing(c) => Parsing(d)') /\ Now(d)'
        BY <4>3 DEF Hashing, Parsing, Current, Now
      <4>4. CallInv(d)'
        BY <4>3, <4>6, <4>7 DEF CallInv
      <4> QED
        BY <4>4, <4>5
    <3> QED
      BY <3>1, <3>2
  <2>3. DOMAIN build' = Procs
    BY <1>1 DEF Edit
  <2> QED
    BY <2>1, <2>2, <2>3 DEF CacheInv
<1>2. ASSUME NEW p \in Procs,
             \/ Load(p) \/ List(p) \/ HashFile(p) \/ Decide(p) \/ ParseFile(p) \/ Assemble(p)
             \/ SaveFails(p) \/ EndBuild(p)
      PROVE CacheInv'
  <2>1. CallInv(build[p]) /\ FilesInv
    BY DEF CacheInv
  <2>2. FilesInv' /\ disk' = disk
    BY <1>2, <2>1, SameFiles
    DEF Load, List, HashFile, Decide, ParseFile, Assemble, SaveFails, EndBuild, UNCHANGEDFiles
  <2>3. CallInv(Stale(p))
    BY <2>1, AnsweredHolds, EmptyIsGood DEF Stale, CallInv
  <2>4. PICK d : build' = [build EXCEPT ![p] = d] /\ CallInv(d)
    <3>1. CASE Load(p)
      BY <3>1, <2>1, LoadedIsGood, RestingHolds DEF Load
    <3>2. CASE List(p)
      BY <3>2, <2>1, ListedHolds, AnsweredHolds, EmptyIsGood DEF List, At, CacheInv
    <3>3. CASE HashFile(p)
      <4>1. First(build[p].todo) \in build[p].todo /\ build[p].at = "hash"
        BY <3>3, FirstIsOne DEF HashFile, At
      <4> QED
        BY <3>3, <2>1, <2>3, <4>1, HashedHolds DEF HashFile
    <3>4. CASE Decide(p)
      <4>1. build[p].graph = Absent
        BY <3>4, <2>1 DEF Decide, At, CallInv
      <4> QED
        BY <3>4, <2>1, <4>1, CarriedHolds DEF Decide, At
    <3>5. CASE ParseFile(p)
      BY <3>5, <2>1, <2>3, FirstIsOne, ParsedHolds DEF ParseFile, At
    <3>6. CASE Assemble(p)
      BY <3>6, <2>1, AssembledHolds DEF Assemble, At
    <3>7. CASE SaveFails(p)
      BY <3>7, <2>1, SavedHolds DEF SaveFails, CacheInv
    <3>8. CASE EndBuild(p)
      BY <3>8, RestingHolds DEF EndBuild
    <3> QED
      BY <1>2, <3>1, <3>2, <3>3, <3>4, <3>5, <3>6, <3>7, <3>8
  <2> QED
    BY <2>2, <2>4, OneCall DEF CacheInv
<1>3. ASSUME NEW p \in Procs, OpenTemp(p) PROVE CacheInv'
  <2>1. PICK i \in IF temp # Absent THEN {temp} ELSE {CHOOSE j \in Inodes : j \notin InUse} :
          /\ temp' = i
          /\ bytes' = [bytes EXCEPT ![i] = Garbage]
          /\ build' = [build EXCEPT ![p] = [@ EXCEPT !.at = "write", !.inode = i]]
    BY <1>3 DEF OpenTemp
  <2>2. CallInv(build[p]) /\ build[p].at = "open" /\ build[p].inode = Absent
    BY <1>3 DEF OpenTemp, At, CacheInv, CallInv
  <2>3. i \in Inodes
    BY <2>1, <2>2, AFreeInode DEF CacheInv, FilesInv
  <2>4. CallInv([build[p] EXCEPT !.at = "write", !.inode = i])
    BY <2>2, <2>3, SavedHolds
  <2>5. cache' = cache /\ disk' = disk
    BY <1>3 DEF OpenTemp
  <2>6. FilesInv'
    BY <2>1, <2>3, <2>5 DEF CacheInv, FilesInv
  <2> QED
    BY <2>1, <2>4, <2>5, <2>6, OneCall DEF CacheInv
<1>4. ASSUME NEW p \in Procs, WriteTemp(p) PROVE CacheInv'
  <2>1. /\ CallInv(build[p]) /\ build[p].at = "write"
        /\ build[p].inode \in Inodes /\ Good(build[p].graph)
    BY <1>4 DEF WriteTemp, At, CacheInv, CallInv
  <2>2. PICK left : /\ left # Garbage => left = build[p].graph
                    /\ bytes' = [bytes EXCEPT ![build[p].inode] = left]
    BY <1>4 DEF WriteTemp
  <2>3. cache' = cache /\ temp' = temp /\ disk' = disk
        /\ build' = [build EXCEPT ![p] = [@ EXCEPT !.at = "replace", !.inode = Absent]]
    BY <1>4 DEF WriteTemp
  <2>4. FilesInv'
    BY <2>1, <2>2, <2>3 DEF CacheInv, FilesInv
  <2>5. CallInv([build[p] EXCEPT !.at = "replace", !.inode = Absent])
    BY <2>1, SavedHolds
  <2> QED
    BY <2>3, <2>4, <2>5, OneCall DEF CacheInv
<1>5. ASSUME NEW p \in Procs, ReplaceCache(p) PROVE CacheInv'
  <2>1. CallInv(build[p]) /\ build[p].at = "replace"
    BY <1>5 DEF ReplaceCache, At, CacheInv
  <2>2. CallInv([build[p] EXCEPT !.at = "answered"])
    BY <2>1, SavedHolds
  <2>3. disk' = disk /\ build' = [build EXCEPT ![p] = [@ EXCEPT !.at = "answered"]]
    BY <1>5 DEF ReplaceCache
  <2>4. FilesInv'
    BY <1>5 DEF ReplaceCache, CacheInv, FilesInv
  <2> QED
    BY <2>2, <2>3, <2>4, OneCall DEF CacheInv
<1>6. CASE UNCHANGED building
  <2>1. disk' = disk /\ build' = build /\ UNCHANGED <<cache, temp, bytes>>
    BY <1>6 DEF building
  <2>2. ASSUME NEW q \in Procs PROVE CallInv(build[q])'
    <3>1. PICK c : c = build[q]
      OBVIOUS
    <3>2. CallInv(c)'
      BY <2>1, <3>1, SameDisk DEF CacheInv
    <3> QED
      BY <2>1, <3>1, <3>2
  <2> QED
    BY <2>1, <2>2, SameFiles DEF CacheInv
<1> QED
  BY <1>1, <1>2, <1>3, <1>4, <1>5, <1>6 DEF CacheNext

(* What is answered of files that did not change is what they say now,     *)
(* however the cache was left by whoever saved it.                         *)
LEMMA CacheInvAnswers == CacheInv => AnswersAreTrue
<1> SUFFICES ASSUME CacheInv, NEW p \in Procs,
                    build[p].answer \in {"FRESH", "REBUILT"},
                    build[p].graph # Absent, ~build[p].touched
             PROVE  LET g == build[p].graph
                    IN  /\ g.hashes = [f \in Present |-> disk[f]]
                        /\ \A f \in Present \ g.raced : g.edges[f] = Edges(f, disk[f], Present)
  BY DEF AnswersAreTrue
<1>1. Good(build[p].graph) /\ Now(build[p])
  BY DEF CacheInv, CallInv
<1>2. build[p].graph.hashes = [f \in Present |-> disk[f]]
  BY <1>1 DEF Now
<1> QED
  BY <1>1, <1>2 DEF Good, TrueOf

(* get_import_graph answers for the files as they are, whatever the cache  *)
(* it carried edges over from went through, and whoever saved it.          *)
THEOREM GraphAnswersAreTrue == CacheSpec => []AnswersAreTrue
<1> QED
  BY CacheStarts, CacheKept, CacheInvAnswers, PTL DEF CacheSpec

--------------------------------------------------------------------------------
(*****************************************************************************)
(* ImportCycles                                                              *)
(* The invariant is that of Tarjan's algorithm, with the recursion as a way. *)
(*****************************************************************************)

(* The files, where their edges lead, and sets they do not lead out of.    *)
Vertices == 1..NodeCount
Ahead(v) == Range(adj[v])
Shut(C) == \A v \in C : Ahead(v) \subseteq C
Leads(u, w) == \A C \in SUBSET Vertices : Shut(C) /\ u \in C => w \in C
Loops(v) == \A C \in SUBSET Vertices : Shut(C) /\ Ahead(v) \subseteq C => v \in C

(* The files met, those of open components, those on the way, those that   *)
(* are open and off it, and those of closed components.                    *)
Met == DOMAIN index
Opened == Range(stack)
OnTheWay == {work[i][1] : i \in DOMAIN work}
Left == Opened \ OnTheWay
Gone == Met \ Opened

CyclesShape ==
  /\ adj \in Adjacencies
  /\ Met \subseteq Vertices
  /\ index \in [Met -> Nat] /\ low \in [Met -> Nat]
  /\ stack \in Seq(Met)
  /\ work \in Seq(Vertices \X (Nat \ {0}))
  /\ cyclic \subseteq Vertices

(* The files met are numbered apart, and no link is above its number.      *)
Numbered ==
  /\ \A v \in Met : index[v] < Cardinality(Met) /\ low[v] <= index[v]
  /\ \A u, v \in Met : index[u] = index[v] => u = v

(* The stack is in the order of the numbers.                               *)
StackInOrder == \A i, j \in DOMAIN stack : i < j => index[stack[i]] < index[stack[j]]

(* So is the way, along edges; only its last file may not be met yet.      *)
WayInOrder ==
  /\ \A i \in DOMAIN work : i < Len(work) => work[i + 1][1] \in Ahead(work[i][1])
  /\ \A i \in DOMAIN work : \/ work[i][1] \in Opened
                            \/ i = Len(work) /\ work[i][2] = 1 /\ work[i][1] \notin Met
  /\ \A i, j \in DOMAIN work : i < j /\ work[j][1] \in Met => index[work[i][1]] < index[work[j][1]]

(* Neighbours scanned are met, or next on the way.                         *)
ScannedAreMet ==
  /\ \A v \in Left : Ahead(v) \subseteq Met
  /\ \A i \in DOMAIN work :
       /\ work[i][2] - 1 <= Len(adj[work[i][1]])
       /\ \A j \in 1..(work[i][2] - 1) : adj[work[i][1]][j] \in Met \cup {work[Len(work)][1]}

(* Closed components lead nowhere else, and the cycles in them are found.  *)
GoneForGood ==
  /\ Shut(Gone)
  /\ cyclic = {v \in Gone : Loops(v)}

(* A file on the way leads to what was opened after it.                    *)
WayLeads ==
  \A i \in DOMAIN work : \A w \in Opened :
    work[i][1] \in Met /\ index[work[i][1]] <= index[w] => Leads(work[i][1], w)

(* A link is the number of an open file that is led to, an earlier one     *)
(* for a file that was left, and none of its scanned neighbours that are   *)
(* open has a smaller number.                                              *)
LinksReach == \A v \in Opened : \E x \in Opened : low[v] = index[x] /\ Leads(v, x)
LinksLeave == \A v \in Left : low[v] < index[v]
LinksBound ==
  /\ \A v \in Left : \A y \in Ahead(v) \cap Opened : low[v] <= index[y]
  /\ \A i \in DOMAIN work : \A j \in 1..(work[i][2] - 1) :
       adj[work[i][1]][j] \in Opened => low[work[i][1]] <= index[adj[work[i][1]][j]]

(* A file that was left has below it the last file on the way that is      *)
(* earlier, with a link no greater.                                        *)
Above(i, w) ==
  /\ work[i][1] \in Met
  /\ index[work[i][1]] < index[w]
  /\ low[work[i][1]] <= low[w]
  /\ \A j \in DOMAIN work : j > i /\ work[j][1] \in Met => index[w] < index[work[j][1]]
LeftBelow == \A w \in Left : \E i \in DOMAIN work : Above(i, w)

CyclesInv ==
  /\ CyclesShape /\ Numbered /\ StackInOrder /\ WayInOrder /\ ScannedAreMet /\ GoneForGood
  /\ WayLeads /\ LinksReach /\ LinksLeave /\ LinksBound /\ LeftBelow

(* The edges of a graph stay in it, and no file leads to itself.           *)
LEMMA AheadInside ==
  ASSUME adj \in Adjacencies
  PROVE  /\ adj \in [Vertices -> Seq(Vertices)]
         /\ \A v \in Vertices : Ahead(v) \subseteq Vertices /\ v \notin Ahead(v)
         /\ \A v \in Vertices : \A i \in 1..Len(adj[v]) :
              adj[v][i] \in Vertices /\ adj[v][i] \in Ahead(v)
         /\ \A v \in Vertices : \A w \in Ahead(v) : \E i \in 1..Len(adj[v]) : adj[v][i] = w
<1>1. adj \in [Vertices -> Seq(Vertices)] /\ \A v \in Vertices : v \notin Range(adj[v])
  BY AdjacenciesAssumption DEF Vertices
<1>2. ASSUME NEW v \in Vertices
      PROVE  /\ \A i \in 1..Len(adj[v]) : adj[v][i] \in Vertices
             /\ Range(adj[v]) = {adj[v][i] : i \in 1..Len(adj[v])}
  <2>1. adj[v] \in Seq(Vertices)
    BY <1>1
  <2> QED
    BY <2>1 DEF Range
<1>3. \A v \in Vertices : Ahead(v) \subseteq Vertices /\ v \notin Ahead(v)
  BY <1>1, <1>2 DEF Ahead
<1>4. /\ \A v \in Vertices : \A i \in 1..Len(adj[v]) :
           adj[v][i] \in Vertices /\ adj[v][i] \in Ahead(v)
      /\ \A v \in Vertices : \A w \in Ahead(v) : \E i \in 1..Len(adj[v]) : adj[v][i] = w
  BY <1>2 DEF Ahead
<1> QED
  BY <1>1, <1>3, <1>4

(* Leading is reflexive and transitive, and so do edges lead.              *)
LEMMA LeadingOn ==
  /\ \A u : Leads(u, u)
  /\ \A u, v, w : Leads(u, v) /\ Leads(v, w) => Leads(u, w)
  /\ \A u, v : v \in Ahead(u) => Leads(u, v)
BY DEF Leads, Shut

(* The balls around a file, one step larger each.                          *)
LEMMA BallsAre ==
  ASSUME adj \in Adjacencies, NEW v \in Vertices
  PROVE  /\ ReachesIn(v) \in [1..NodeCount -> SUBSET Vertices]
         /\ ReachesIn(v)[1] = Ahead(v)
         /\ \A n \in 1..NodeCount : n + 1 \in 1..NodeCount =>
              ReachesIn(v)[n + 1] = ReachesIn(v)[n] \cup UNION {Ahead(u) : u \in ReachesIn(v)[n]}
<1> DEFINE S == SUBSET Vertices
           step == [s \in S |-> s \cup UNION {Ahead(u) : u \in s}]
           Is(f) == f = [n \in 1..NodeCount |->
                           IF n = 1 THEN Range(adj[v])
                           ELSE f[n - 1] \cup UNION {Range(adj[u]) : u \in f[n - 1]}]
<1>1. NodeCount \in Nat /\ 1 \in 1..NodeCount
  BY AdjacenciesAssumption DEF Vertices
<1>2. Ahead(v) \in S /\ step \in [S -> S]
  BY AheadInside
<1>3. PICK g \in [1..NodeCount -> S] : Repeats(g, step, Ahead(v), NodeCount)
  <2> HIDE DEF S, step
  <2> QED
    BY <1>1, <1>2, Iterates
<1> DEFINE f == [n \in 1..NodeCount |-> IF n = 1 THEN Ahead(v) ELSE g[n - 1]]
<1>4. f \in [1..NodeCount -> S]
  BY <1>1, <1>2
<1>5. ASSUME NEW n \in 1..NodeCount, n # 1
      PROVE  f[n] = f[n - 1] \cup UNION {Ahead(u) : u \in f[n - 1]}
  <2>1. n - 1 \in 1..NodeCount /\ f[n] = g[n - 1]
    BY <1>1, <1>5
  <2>2. g[n - 1] = step[IF n - 1 = 1 THEN Ahead(v) ELSE g[n - 1 - 1]]
    BY <1>3, <2>1 DEF Repeats
  <2>3. g[n - 1] = step[f[n - 1]]
    BY <2>1, <2>2
  <2>4. f[n - 1] \in S
    BY <1>4, <2>1
  <2> QED
    BY <2>1, <2>3, <2>4
<1>6. Is(f)
  <2> HIDE DEF S, step
  <2>1. \A n \in 1..NodeCount :
          f[n] = IF n = 1 THEN Range(adj[v])
                 ELSE f[n - 1] \cup UNION {Range(adj[u]) : u \in f[n - 1]}
    <3>1. f[1] = Ahead(v)
      BY <1>1
    <3> HIDE DEF f
    <3> QED
      BY <3>1, <1>5 DEF Ahead
  <2>2. f = [n \in 1..NodeCount |-> f[n]]
    BY <1>4
  <2> HIDE DEF f
  <2> QED
    BY <2>1, <2>2
<1> HIDE DEF f
<1>7. Is(ReachesIn(v))
  <2>1. ReachesIn(v) = CHOOSE h : Is(h)
    BY DEF ReachesIn
  <2>2. Is(CHOOSE h : Is(h))
    BY <1>6
  <2> QED
    BY <2>1, <2>2
<1>8. \A h : Is(h) => \A n \in 1..NodeCount : n \in 1..NodeCount /\
         h[n] = IF n = 1 THEN Range(adj[v])
                ELSE h[n - 1] \cup UNION {Range(adj[u]) : u \in h[n - 1]}
  OBVIOUS
<1> DEFINE r == ReachesIn(v)
<1>9. /\ DOMAIN r = 1..NodeCount /\ r = [n \in 1..NodeCount |-> r[n]]
      /\ r[1] = Ahead(v)
      /\ \A n \in 1..NodeCount : n + 1 \in 1..NodeCount =>
           r[n + 1] = r[n] \cup UNION {Ahead(u) : u \in r[n]}
  <2>1. DOMAIN r = 1..NodeCount /\ r = [n \in 1..NodeCount |-> r[n]]
    BY <1>7
  <2>2. \A n \in 1..NodeCount :
          r[n] = IF n = 1 THEN Range(adj[v])
                 ELSE r[n - 1] \cup UNION {Range(adj[u]) : u \in r[n - 1]}
    BY <1>7, <1>8
  <2> HIDE DEF r
  <2>3. r[1] = Ahead(v)
    BY <1>1, <2>2 DEF Ahead
  <2>4. ASSUME NEW n \in 1..NodeCount, n + 1 \in 1..NodeCount
        PROVE  r[n + 1] = r[n] \cup UNION {Ahead(u) : u \in r[n]}
    <3>1. n + 1 # 1 /\ (n + 1) - 1 = n
      BY <1>1
    <3> QED
      BY <2>2, <2>4, <3>1 DEF Ahead
  <2> QED
    BY <2>1, <2>3, <2>4
<1>10. ASSUME NEW n \in 1..NodeCount PROVE r[n] \subseteq Vertices
  <2> DEFINE T == {m \in Nat : m + 1 \in 1..NodeCount => r[m + 1] \subseteq Vertices}
  <2>1. 0 \in T
    BY <1>1, <1>2, <1>9
  <2>2. ASSUME NEW m \in T PROVE m + 1 \in T
    <3>1. CASE m + 1 + 1 \in 1..NodeCount
      <4>1. m + 1 \in 1..NodeCount
        BY <1>1, <3>1
      <4>2. r[m + 1] \subseteq Vertices
        BY <4>1
      <4>3. r[m + 1 + 1] = r[m + 1] \cup UNION {Ahead(u) : u \in r[m + 1]}
        BY <1>9, <3>1, <4>1
      <4>4. r[m + 1 + 1] \subseteq Vertices
        <5> HIDE DEF r
        <5> QED
          BY <4>2, <4>3, AheadInside
      <4> QED
        BY <4>4
    <3>2. CASE m + 1 + 1 \notin 1..NodeCount
      BY <3>2
    <3> QED
      BY <3>1, <3>2
  <2>3. T = Nat
    <3>1. T \in SUBSET Nat
      OBVIOUS
    <3> HIDE DEF T
    <3> QED
      BY <2>1, <2>2, <3>1, Induct
  <2>4. n - 1 \in Nat /\ n - 1 + 1 = n
    BY <1>1
  <2>5. n - 1 \in T
    BY <2>3, <2>4
  <2> QED
    BY <2>4, <2>5
<1> QED
  BY <1>9, <1>10

(* What a file reaches is what no set that holds its neighbours and that   *)
(* no edge leads out of can leave out: a ball that does not grow leads     *)
(* nowhere else, and one that always grows has all files in it.            *)
LEMMA LoopsAreReached ==
  ASSUME adj \in Adjacencies, NEW v \in Vertices
  PROVE  v \in Reaches(v) <=> Loops(v)
<1> DEFINE r == ReachesIn(v)
<1>1. NodeCount \in Nat /\ 1 \in 1..NodeCount /\ NodeCount \in 1..NodeCount
  BY AdjacenciesAssumption DEF Vertices
<1>2. /\ r \in [1..NodeCount -> SUBSET Vertices]
      /\ r[1] = Ahead(v)
      /\ \A n \in 1..NodeCount : n + 1 \in 1..NodeCount =>
           r[n + 1] = r[n] \cup UNION {Ahead(u) : u \in r[n]}
  BY BallsAre
<1> HIDE DEF r
<1>3. IsFiniteSet(Vertices) /\ Cardinality(Vertices) = NodeCount
  BY <1>1, FS_Interval DEF Vertices
<1>4. \A n \in 1..NodeCount : IsFiniteSet(r[n]) /\ Cardinality(r[n]) \in Nat
  BY <1>2, <1>3, FS_Subset, FS_CardinalityType
<1>5. ASSUME NEW C \in SUBSET Vertices, Shut(C), Ahead(v) \subseteq C, NEW n \in 1..NodeCount
      PROVE  r[n] \subseteq C
  <2> DEFINE T == {m \in Nat : m + 1 \in 1..NodeCount => r[m + 1] \subseteq C}
  <2>1. 0 \in T
    BY <1>2, <1>5
  <2>2. ASSUME NEW m \in T PROVE m + 1 \in T
    <3>1. CASE m + 1 + 1 \in 1..NodeCount
      <4>1. m + 1 \in 1..NodeCount
        BY <1>1, <3>1
      <4>2. r[m + 1] \subseteq C
        BY <4>1
      <4>3. r[m + 1 + 1] = r[m + 1] \cup UNION {Ahead(u) : u \in r[m + 1]}
        BY <1>2, <3>1, <4>1
      <4>4. r[m + 1 + 1] \subseteq C
        BY <1>5, <4>2, <4>3 DEF Shut
      <4> QED
        BY <4>4
    <3>2. CASE m + 1 + 1 \notin 1..NodeCount
      BY <3>2
    <3> QED
      BY <3>1, <3>2
  <2>3. T = Nat
    <3>1. T \in SUBSET Nat
      OBVIOUS
    <3> HIDE DEF T
    <3> QED
      BY <2>1, <2>2, <3>1, Induct
  <2>4. n - 1 \in Nat /\ n - 1 + 1 = n
    BY <1>1
  <2>5. n - 1 \in T
    BY <2>3, <2>4
  <2> QED
    BY <2>4, <2>5
<1>6. ASSUME NEW n \in 1..NodeCount PROVE Shut(r[n]) \/ Cardinality(r[n]) >= n
  <2> DEFINE Fine(m) == Shut(r[m]) \/ Cardinality(r[m]) >= m
             T == {m \in Nat : m + 1 \in 1..NodeCount => Fine(m + 1)}
  <2>1. 0 \in T
    <3>1. Fine(1)
      <4>1. CASE r[1] = {}
        BY <4>1 DEF Shut
      <4>2. CASE r[1] # {}
        <5>1. Cardinality(r[1]) # 0
          BY <1>1, <1>4, <4>2, FS_EmptySet
        <5> QED
          BY <1>1, <1>4, <5>1
      <4> QED
        BY <4>1, <4>2
    <3> QED
      BY <3>1
  <2>2. ASSUME NEW m \in T PROVE m + 1 \in T
    <3>1. CASE m + 1 + 1 \in 1..NodeCount
      <4> DEFINE k == m + 1
      <4>1. k \in 1..NodeCount
        BY <1>1, <3>1
      <4>2. Fine(k)
        BY <4>1
      <4>3. r[k + 1] = r[k] \cup UNION {Ahead(u) : u \in r[k]}
        BY <1>2, <3>1, <4>1
      <4> HIDE DEF k
      <4>4. CASE Shut(r[k])
        <5>1. r[k + 1] = r[k]
          BY <4>3, <4>4 DEF Shut
        <5> QED
          BY <4>4, <5>1 DEF k
      <4>5. CASE ~Shut(r[k])
        <5>1. r[k] \subseteq r[k + 1] /\ r[k] # r[k + 1]
          BY <4>3, <4>5 DEF Shut
        <5>2. Cardinality(r[k]) <= Cardinality(r[k + 1])
              /\ Cardinality(r[k]) # Cardinality(r[k + 1])
          <6>1. IsFiniteSet(r[k + 1])
            BY <1>4, <3>1 DEF k
          <6> QED
            BY <5>1, <6>1, FS_Subset
        <5>3. Cardinality(r[k]) >= k
          BY <4>2, <4>5
        <5>4. Cardinality(r[k]) \in Nat /\ Cardinality(r[k + 1]) \in Nat
          BY <1>4, <3>1, <4>1 DEF k
        <5>5. Cardinality(r[k + 1]) >= k + 1
          BY <5>2, <5>3, <5>4, <4>1
        <5> QED
          BY <5>5 DEF k
      <4> QED
        BY <4>4, <4>5
    <3>2. CASE m + 1 + 1 \notin 1..NodeCount
      BY <3>2
    <3> QED
      BY <3>1, <3>2
  <2>3. T = Nat
    <3>1. T \in SUBSET Nat
      OBVIOUS
    <3> HIDE DEF T
    <3> QED
      BY <2>1, <2>2, <3>1, Induct
  <2>4. n - 1 \in Nat /\ n - 1 + 1 = n
    BY <1>1
  <2>5. n - 1 \in T
    BY <2>3, <2>4
  <2> QED
    BY <2>4, <2>5
<1>7. Shut(r[NodeCount])
  <2>1. CASE Cardinality(r[NodeCount]) >= NodeCount
    <3>1. r[NodeCount] \subseteq Vertices /\ Cardinality(r[NodeCount]) <= Cardinality(Vertices)
      BY <1>1, <1>2, <1>3, FS_Subset
    <3>2. Cardinality(r[NodeCount]) = Cardinality(Vertices)
      BY <1>1, <1>3, <1>4, <2>1, <3>1
    <3>3. r[NodeCount] = Vertices
      BY <1>3, <3>1, <3>2, FS_Subset
    <3> QED
      BY <3>3, AheadInside DEF Shut
  <2> QED
    BY <1>1, <1>6, <2>1
<1>8. Ahead(v) \subseteq r[NodeCount]
  <2> DEFINE T == {m \in Nat : m + 1 \in 1..NodeCount => Ahead(v) \subseteq r[m + 1]}
  <2>1. 0 \in T
    BY <1>2
  <2>2. ASSUME NEW m \in T PROVE m + 1 \in T
    <3>1. CASE m + 1 + 1 \in 1..NodeCount
      <4>1. m + 1 \in 1..NodeCount
        BY <1>1, <3>1
      <4>2. Ahead(v) \subseteq r[m + 1 + 1]
        BY <1>2, <3>1, <4>1
      <4> QED
        BY <4>2
    <3>2. CASE m + 1 + 1 \notin 1..NodeCount
      BY <3>2
    <3> QED
      BY <3>1, <3>2
  <2>3. T = Nat
    <3>1. T \in SUBSET Nat
      OBVIOUS
    <3> HIDE DEF T
    <3> QED
      BY <2>1, <2>2, <3>1, Induct
  <2>4. NodeCount - 1 \in Nat /\ NodeCount - 1 + 1 = NodeCount
    BY <1>1
  <2>5. NodeCount - 1 \in T
    BY <2>3, <2>4
  <2> QED
    BY <1>1, <2>4, <2>5
<1>9. Reaches(v) = r[NodeCount]
  BY DEF Reaches, r
<1> QED
  BY <1>1, <1>2, <1>5, <1>7, <1>8, <1>9 DEF Loops
(* The least of a set of numbers.                                          *)
LEMMA MinIs ==
  ASSUME NEW S \in SUBSET Nat, S # {}
  PROVE  Min(S) \in S /\ \A x \in S : Min(S) <= x
<1>1. \E x \in S : \A y \in S : x <= y
  BY LeastOf
<1> QED
  BY <1>1 DEF Min

(* The invariant opened up.                                                *)
LEMMA OnTheStack ==
  ASSUME CyclesShape
  PROVE  /\ Opened \subseteq Met /\ Left \subseteq Opened
         /\ \A i \in DOMAIN stack : stack[i] \in Opened
         /\ \A v \in Opened : \E i \in DOMAIN stack : stack[i] = v
         /\ DOMAIN stack = 1..Len(stack) /\ Len(stack) \in Nat
         /\ DOMAIN work = 1..Len(work) /\ Len(work) \in Nat
         /\ \A i \in DOMAIN work : work[i][1] \in Vertices /\ work[i][2] \in Nat \ {0}
         /\ \A i \in DOMAIN work : work[i][1] \in OnTheWay
         /\ \A v \in OnTheWay : \E i \in DOMAIN work : work[i][1] = v
<1>1. stack \in Seq(Met) /\ work \in Seq(Vertices \X (Nat \ {0}))
  BY DEF CyclesShape
<1>2. Opened = {stack[i] : i \in DOMAIN stack}
  BY DEF Opened, Range
<1>3. OnTheWay = {work[i][1] : i \in DOMAIN work}
  BY DEF OnTheWay
<1>4. Opened \subseteq Met
  BY <1>1, <1>2
<1>5. Left \subseteq Opened
  BY DEF Left
<1>6. \A i \in DOMAIN work : work[i][1] \in Vertices /\ work[i][2] \in Nat \ {0}
  BY <1>1
<1>7. /\ DOMAIN stack = 1..Len(stack) /\ Len(stack) \in Nat
      /\ DOMAIN work = 1..Len(work) /\ Len(work) \in Nat
  BY <1>1
<1> QED
  BY <1>2, <1>3, <1>4, <1>5, <1>6, <1>7

(* A scan of the last file on the way, up to its neighbour at to: all of   *)
(* them are met, and the link is the number of an open file it leads to,   *)
(* none above those scanned that are open.                                 *)
Scan(v, to, link) ==
  /\ Len(work) \in Nat \ {0} /\ v = work[Len(work)][1]
  /\ v \in Opened
  /\ to \in Nat /\ to <= Len(adj[v])
  /\ link \in Nat /\ link <= low[v]
  /\ \A j \in 1..to : adj[v][j] \in Met /\ (adj[v][j] \in Opened => link <= index[adj[v][j]])
  /\ \E x \in Opened : link = index[x] /\ Leads(v, x)

(* The scan stops at a neighbour not met, or goes through them all.        *)
LEMMA Scanning ==
  ASSUME CyclesInv, work # <<>>, Top[1] \in Met
  PROVE  /\ Scan(Top[1], ScannedTo, Lowered)
         /\ Unmet = {} => ScannedTo = Len(adj[Top[1]])
         /\ Unmet # {} => /\ Min(Unmet) = ScannedTo + 1
                          /\ ScannedTo + 1 <= Len(adj[Top[1]])
                          /\ adj[Top[1]][ScannedTo + 1] \notin Met
<1> DEFINE k == Len(work)
           v == Top[1]
           p == Top[2]
           to == ScannedTo
           n == Len(adj[v])
<1>1. /\ k \in Nat \ {0} /\ k \in DOMAIN work /\ v = work[k][1] /\ p = work[k][2]
      /\ v \in Vertices /\ p \in Nat \ {0} /\ v \in Opened
  <2>1. CyclesShape /\ WayInOrder
    BY DEF CyclesInv
  <2>2. work \in Seq(Vertices \X (Nat \ {0}))
    BY <2>1 DEF CyclesShape
  <2>3. k \in Nat \ {0} /\ k \in DOMAIN work
    BY <2>2
  <2>4. v = work[k][1] /\ p = work[k][2]
    BY DEF Top, Last
  <2>5. v \in Vertices /\ p \in Nat \ {0}
    BY <2>1, <2>3, <2>4, OnTheStack
  <2>6. v \in Opened
    BY <2>1, <2>3, <2>4 DEF WayInOrder
  <2> QED
    BY <2>3, <2>4, <2>5, <2>6
<1>2. /\ n \in Nat /\ adj[v] \in Seq(Vertices)
      /\ \A j \in 1..n : adj[v][j] \in Vertices /\ adj[v][j] \in Ahead(v)
  <2>1. adj \in Adjacencies
    BY DEF CyclesInv, CyclesShape
  <2>2. adj \in [Vertices -> Seq(Vertices)]
    BY <2>1, AheadInside
  <2> QED
    BY <1>1, <2>1, <2>2, AheadInside
<1>3. p - 1 <= n /\ \A j \in 1..(p - 1) : adj[v][j] \in Met
  <2>1. ScannedAreMet
    BY DEF CyclesInv
  <2> QED
    BY <1>1, <2>1 DEF ScannedAreMet
<1>4. Unmet = {i \in p..n : adj[v][i] \notin Met}
  BY DEF Unmet, Neighbours, Met
<1>5. Unmet # {} => /\ Min(Unmet) \in Unmet /\ \A i \in Unmet : Min(Unmet) <= i
                    /\ to = Min(Unmet) - 1
  <2>1. Unmet \in SUBSET Nat
    BY <1>1, <1>2, <1>4
  <2>2. Unmet # {} => Min(Unmet) \in Unmet /\ \A i \in Unmet : Min(Unmet) <= i
    BY <2>1, MinIs
  <2> QED
    BY <2>2 DEF ScannedTo
<1>6. Unmet = {} => to = n
  BY DEF ScannedTo, Neighbours
<1> HIDE DEF k, v, p, n, to
<1>7. to \in Nat /\ to <= n /\ p <= to + 1 /\ \A j \in 1..to : adj[v][j] \in Met
  <2>1. CASE Unmet = {}
    <3>1. \A j \in p..n : adj[v][j] \in Met
      BY <1>4, <2>1
    <3>2. \A j \in 1..n : adj[v][j] \in Met
      BY <1>1, <1>2, <1>3, <3>1
    <3> QED
      BY <1>1, <1>2, <1>3, <1>6, <2>1, <3>2
  <2>2. CASE Unmet # {}
    <3>1. to + 1 \in p..n /\ to = Min(Unmet) - 1 /\ Min(Unmet) \in Nat
      BY <1>1, <1>2, <1>4, <1>5, <2>2
    <3>2. ASSUME NEW j \in p..to PROVE adj[v][j] \in Met
      <4>1. j \in p..n /\ ~(Min(Unmet) <= j)
        BY <1>1, <1>2, <3>1
      <4> QED
        BY <1>4, <1>5, <2>2, <4>1
    <3>3. \A j \in 1..to : adj[v][j] \in Met
      BY <1>1, <1>2, <1>3, <3>1, <3>2
    <3> QED
      BY <1>1, <1>2, <3>1, <3>3
  <2> QED
    BY <2>1, <2>2
<1>8. Unmet # {} => /\ Min(Unmet) = to + 1 /\ to + 1 <= n /\ adj[v][to + 1] \notin Met
  <2> SUFFICES ASSUME Unmet # {}
               PROVE  Min(Unmet) = to + 1 /\ to + 1 <= n /\ adj[v][to + 1] \notin Met
    OBVIOUS
  <2>1. Min(Unmet) \in p..n /\ adj[v][Min(Unmet)] \notin Met /\ to = Min(Unmet) - 1
    BY <1>4, <1>5
  <2>2. PICK m \in p..n : m = Min(Unmet) /\ adj[v][m] \notin Met /\ to = m - 1
    BY <2>1
  <2>3. p \in Nat /\ n \in Nat
    BY <1>1, <1>2
  <2> HIDE DEF p, n, to, v
  <2>4. m = to + 1 /\ to + 1 <= n
    BY <2>2, <2>3
  <2> QED
    BY <2>2, <2>4
<1> DEFINE J == {j \in p..to : adj[v][j] \in Opened}
           L == {low[v]} \cup {index[adj[v][i]] : i \in J}
<1>9. Lowered = Min(L)
  BY DEF Lowered, Opened, Neighbours, v, p, to
<1>10. L \in SUBSET Nat /\ L # {}
  <2>1. index \in [Met -> Nat] /\ low \in [Met -> Nat] /\ Opened \subseteq Met
    BY OnTheStack DEF CyclesInv, CyclesShape
  <2> QED
    BY <1>1, <2>1, SMTT(30)
<1>11. Lowered \in L /\ \A x \in L : Lowered <= x
  <2> HIDE DEF L
  <2> QED
    BY <1>9, <1>10, MinIs
<1>12. Lowered \in Nat /\ Lowered <= low[v]
  BY <1>10, <1>11
<1>13. ASSUME NEW j \in 1..to, adj[v][j] \in Opened PROVE Lowered <= index[adj[v][j]]
  <2>1. CASE j < p
    <3>1. low[v] <= index[adj[v][j]]
      <4>1. LinksBound
        BY DEF CyclesInv
      <4>2. j \in 1..(p - 1)
        BY <1>1, <1>7, <2>1
      <4> QED
        BY <1>1, <1>13, <4>1, <4>2 DEF LinksBound
    <3>2. index[adj[v][j]] \in Nat /\ low[v] \in Nat
      BY <1>1, <1>13, OnTheStack DEF CyclesInv, CyclesShape
    <3> QED
      BY <1>12, <3>1, <3>2
  <2>2. CASE j >= p
    <3>1. j \in J
      BY <1>1, <1>7, <1>13, <2>2
    <3> QED
      BY <1>11, <3>1
  <2> QED
    BY <1>1, <1>7, <2>1, <2>2
<1>14. \E x \in Opened : Lowered = index[x] /\ Leads(v, x)
  <2>1. CASE Lowered = low[v]
    BY <1>1, <2>1 DEF CyclesInv, LinksReach
  <2>2. CASE \E j \in J : Lowered = index[adj[v][j]]
    <3>1. PICK j \in J : Lowered = index[adj[v][j]]
      BY <2>2
    <3>2. adj[v][j] \in Opened /\ adj[v][j] \in Ahead(v)
      BY <1>1, <1>2, <1>7
    <3> QED
      BY <3>1, <3>2, LeadingOn
  <2> QED
    BY <1>11, <2>1, <2>2
<1>15. Scan(v, to, Lowered)
  BY <1>1, <1>7, <1>12, <1>13, <1>14 DEF Scan, k, n
<1> QED
  BY <1>6, <1>8, <1>15 DEF v, to, n

(* While the edges stay, so does what follows from them.                   *)
LEMMA EdgesStay ==
  ASSUME adj' = adj
  PROVE  /\ \A v : Ahead(v)' = Ahead(v)
         /\ \A C : Shut(C)' <=> Shut(C)
         /\ \A u, w : Leads(u, w)' <=> Leads(u, w)
         /\ \A v : Loops(v)' <=> Loops(v)
BY DEF Ahead, Shut, Leads, Loops, Vertices

(* When nothing is on the way, nothing is open.                            *)
LEMMA NothingOpen == ASSUME CyclesInv, work = <<>> PROVE Opened = {} /\ Gone = Met /\ stack = <<>>
<1>1. OnTheWay = {} /\ DOMAIN work = {}
  BY DEF OnTheWay
<1>2. Left = {}
  BY <1>1 DEF CyclesInv, LeftBelow
<1>3. Opened = {}
  BY <1>1, <1>2 DEF Left
<1>4. stack \in Seq(Met) /\ DOMAIN stack = 1..Len(stack) /\ Len(stack) \in Nat
  BY DEF CyclesInv, CyclesShape
<1>5. DOMAIN stack = {}
  BY <1>3 DEF Opened, Range
<1>6. Len(stack) = 0
  BY <1>4, <1>5
<1> QED
  BY <1>3, <1>4, <1>6 DEF Gone

(* At first nothing is met.                                                *)
LEMMA CyclesStart == CyclesInit => CyclesInv
<1> SUFFICES ASSUME CyclesInit PROVE CyclesInv
  OBVIOUS
<1>1. /\ adj \in Adjacencies /\ Met = {} /\ Opened = {} /\ OnTheWay = {} /\ Left = {} /\ Gone = {}
      /\ DOMAIN work = {} /\ DOMAIN stack = {}
  BY DEF CyclesInit, Met, Opened, OnTheWay, Left, Gone, Range
<1>2. CyclesShape
  BY <1>1 DEF CyclesInit, CyclesShape, Met
<1>3. Numbered /\ StackInOrder /\ WayInOrder /\ ScannedAreMet
  BY <1>1 DEF Numbered, StackInOrder, WayInOrder, ScannedAreMet
<1>4. GoneForGood
  BY <1>1 DEF GoneForGood, Shut, CyclesInit
<1>5. WayLeads /\ LinksReach /\ LinksLeave /\ LinksBound /\ LeftBelow
  BY <1>1 DEF WayLeads, LinksReach, LinksLeave, LinksBound, LeftBelow
<1> QED
  BY <1>2, <1>3, <1>4, <1>5 DEF CyclesInv

(* The outer loop sets out from a file not met.                            *)
LEMMA StartKept == ASSUME CyclesInv, Start PROVE CyclesInv'
<1>1. /\ adj' = adj /\ index' = index /\ low' = low /\ stack' = stack /\ cyclic' = cyclic
      /\ work = <<>>
  BY DEF Start
<1>2. PICK m \in Vertices \ Met : work' = <<<<m, 1>>>>
  <2> DEFINE T == Linked \ Met
  <2>1. T \in SUBSET Nat /\ T # {} /\ T \subseteq Vertices \ Met
    BY AdjacenciesAssumption DEF Start, Linked, Vertices, Met
  <2>2. Min(T) \in T
    <3> HIDE DEF T
    <3> QED
      BY <2>1, MinIs
  <2>3. work' = <<<<Min(T), 1>>>>
    BY DEF Start, Met
  <2> QED
    BY <2>1, <2>2, <2>3
<1>3. /\ Met' = Met /\ Opened' = {} /\ Left' = {} /\ Gone' = Met /\ stack' = <<>>
      /\ DOMAIN work' = {1} /\ work'[1] = <<m, 1>> /\ Len(work') = 1
  <2>1. Opened = {} /\ stack = <<>>
    BY <1>1, NothingOpen
  <2>2. Met' = Met /\ Opened' = Opened
    BY <1>1 DEF Met, Opened, Range
  <2>3. Left' = {} /\ Gone' = Met
    BY <2>1, <2>2 DEF Left, Gone
  <2> QED
    BY <1>1, <1>2, <2>1, <2>2, <2>3
<1>4. CyclesShape'
  <2>1. CyclesShape /\ Met' = Met
    BY <1>3 DEF CyclesInv
  <2>2. work' \in Seq(Vertices \X (Nat \ {0}))
    BY <1>2
  <2>3. Vertices' = Vertices
    BY DEF Vertices
  <2> QED
    BY <1>1, <2>1, <2>2, <2>3 DEF CyclesShape
<1>5. Numbered'
  BY <1>1, <1>3 DEF CyclesInv, Numbered
<1>6. StackInOrder'
  BY <1>3 DEF StackInOrder
<1>7. WayInOrder'
  BY <1>2, <1>3 DEF WayInOrder
<1>8. ScannedAreMet'
  <2>1. adj[m] \in Seq(Vertices)
    BY <1>2, AheadInside DEF CyclesInv, CyclesShape
  <2>2. Len(adj[m]) \in Nat /\ 1 - 1 <= Len(adj[m])
    BY <2>1
  <2> QED
    BY <1>1, <1>3, <2>2 DEF ScannedAreMet
<1>9. GoneForGood'
  <2>1. Gone = Met
    BY <1>1, NothingOpen
  <2> QED
    BY <1>1, <1>3, <2>1, EdgesStay DEF CyclesInv, GoneForGood
<1>10. WayLeads' /\ LinksReach' /\ LinksLeave' /\ LinksBound' /\ LeftBelow'
  BY <1>3 DEF WayLeads, LinksReach, LinksLeave, LinksBound, LeftBelow
<1> QED
  BY <1>4, <1>5, <1>6, <1>7, <1>8, <1>9, <1>10 DEF CyclesInv

(* A file that is met is numbered last, and the way leads to it.           *)
LEMMA MeetKept == ASSUME CyclesInv, Meet PROVE CyclesInv'
<1> DEFINE k == Len(work)
           x == Top[1]
           n == Cardinality(Met)
<1>1. adj' = adj /\ work' = work /\ cyclic' = cyclic
  BY DEF Meet
<1>2. CyclesShape /\ Numbered /\ StackInOrder /\ WayInOrder /\ ScannedAreMet /\ GoneForGood
  BY DEF CyclesInv
<1>3. /\ k \in Nat \ {0} /\ k \in DOMAIN work /\ DOMAIN work = 1..k
      /\ work[k][1] = x /\ x \in Vertices /\ x \notin Met /\ x \in OnTheWay
  <2>1. work # <<>> /\ work \in Seq(Vertices \X (Nat \ {0}))
    BY <1>2 DEF CyclesShape, Meet
  <2>2. k \in Nat \ {0} /\ k \in DOMAIN work
    BY <2>1
  <2>3. work[k][1] = x
    BY DEF Top, Last
  <2> QED
    BY <1>2, <2>2, <2>3, OnTheStack DEF Meet, Met
<1>4. IsFiniteSet(Met) /\ n \in Nat
  <2>1. Met \subseteq Vertices /\ IsFiniteSet(Vertices)
    BY <1>2, AdjacenciesAssumption, FS_Interval DEF CyclesShape, Vertices
  <2> QED
    BY <2>1, FS_Subset, FS_CardinalityType
<1>5. /\ Met' = Met \cup {x}
      /\ index' \in [Met' -> Nat] /\ low' \in [Met' -> Nat]
      /\ index'[x] = n /\ low'[x] = n
      /\ \A u \in Met : index'[u] = index[u] /\ low'[u] = low[u]
  <2>1. index' = Put(index, x, n) /\ low' = Put(low, x, n)
    BY DEF Meet, Met
  <2>2. index \in [Met -> Nat] /\ low \in [Met -> Nat]
    BY <1>2 DEF CyclesShape
  <2>3. DOMAIN index = Met /\ DOMAIN low = Met
    BY <2>2
  <2>4. /\ index' = [u \in Met \cup {x} |-> IF u = x THEN n ELSE index[u]]
        /\ low' = [u \in Met \cup {x} |-> IF u = x THEN n ELSE low[u]]
    BY <2>1, <2>3 DEF Put
  <2>5. Met' = Met \cup {x}
    BY <2>4 DEF Met
  <2> QED
    BY <1>3, <1>4, <2>2, <2>4, <2>5
<1>6. Cardinality(Met') = n + 1
  BY <1>3, <1>4, <1>5, FS_AddElement
<1> HIDE DEF k, x, n
<1>7. /\ stack' \in Seq(Met') /\ Len(stack') = Len(stack) + 1 /\ Len(stack) \in Nat
      /\ stack'[Len(stack) + 1] = x /\ \A i \in 1..Len(stack) : stack'[i] = stack[i]
      /\ DOMAIN stack' = 1..(Len(stack) + 1)
  <2>1. stack' = Append(stack, x) /\ stack \in Seq(Met)
    BY <1>2 DEF Meet, CyclesShape, x
  <2> QED
    BY <1>5, <2>1
<1>8. /\ Opened' = Opened \cup {x} /\ Left' = Left /\ Gone' = Gone
      /\ OnTheWay' = OnTheWay /\ Opened \subseteq Met /\ Left \subseteq Opened
  <2>1. /\ Opened' = {stack'[i] : i \in DOMAIN stack'}
        /\ Opened = {stack[i] : i \in 1..Len(stack)}
    BY <1>2, OnTheStack DEF Opened, Range
  <2>2. Opened' = Opened \cup {x}
    <3>1. \A i \in 1..(Len(stack) + 1) : i \in 1..Len(stack) \/ i = Len(stack) + 1
      BY <1>7
    <3>2. \A i \in 1..Len(stack) : i \in 1..(Len(stack) + 1)
      BY <1>7
    <3>3. Len(stack) + 1 \in 1..(Len(stack) + 1)
      BY <1>7
    <3> QED
      BY <1>7, <2>1, <3>1, <3>2, <3>3
  <2>3. OnTheWay' = OnTheWay
    BY <1>1 DEF OnTheWay
  <2>4. Opened \subseteq Met /\ Left \subseteq Opened
    BY <1>2, OnTheStack
  <2> QED
    BY <1>3, <1>5, <2>2, <2>3, <2>4 DEF Left, Gone
<1>9. \A u \in Met : index'[u] = index[u] /\ index[u] < n /\ index[u] \in Nat /\ low[u] \in Nat
  BY <1>2, <1>5 DEF Numbered, CyclesShape, n
<1>10. CyclesShape'
  <2>1. Vertices' = Vertices
    BY DEF Vertices
  <2> QED
    BY <1>1, <1>2, <1>3, <1>5, <1>7, <2>1 DEF CyclesShape
<1>11. Numbered'
  <2>1. \A v \in Met' : index'[v] < Cardinality(Met') /\ low'[v] <= index'[v]
    BY <1>2, <1>4, <1>5, <1>6, <1>9 DEF Numbered
  <2>2. \A u, v \in Met' : index'[u] = index'[v] => u = v
    BY <1>2, <1>4, <1>5, <1>9 DEF Numbered
  <2> QED
    BY <2>1, <2>2 DEF Numbered
<1>12. StackInOrder'
  <2>1. ASSUME NEW i \in 1..(Len(stack) + 1), NEW j \in 1..(Len(stack) + 1), i < j
        PROVE  index'[stack'[i]] < index'[stack'[j]]
    <3>1. i \in 1..Len(stack) /\ i \in DOMAIN stack /\ stack'[i] = stack[i] /\ stack[i] \in Met
      BY <1>2, <1>7, <1>8, <2>1, OnTheStack
    <3>2. CASE j \in 1..Len(stack)
      <4>1. j \in DOMAIN stack /\ stack'[j] = stack[j] /\ stack[j] \in Met
        BY <1>2, <1>7, <1>8, <3>2, OnTheStack
      <4> QED
        BY <1>2, <1>5, <2>1, <3>1, <4>1 DEF StackInOrder
    <3>3. CASE j = Len(stack) + 1
      BY <1>5, <1>7, <1>9, <3>1, <3>3
    <3> QED
      BY <1>7, <3>2, <3>3
  <2> QED
    BY <1>7, <2>1 DEF StackInOrder
<1>13. \A i \in DOMAIN work : i < k => work[i][1] \in Opened /\ work[i][1] \in Met
  BY <1>2, <1>8 DEF WayInOrder, k
<1>14. WayInOrder'
  <2>1. \A i \in DOMAIN work : work[i][1] \in Opened'
    BY <1>3, <1>8, <1>13
  <2>2. ASSUME NEW i \in DOMAIN work, NEW j \in DOMAIN work, i < j
        PROVE  index'[work[i][1]] < index'[work[j][1]]
    <3>1. i < k /\ work[i][1] \in Met
      BY <1>3, <1>13, <2>2
    <3>2. CASE j < k
      BY <1>2, <1>5, <1>13, <2>2, <3>1, <3>2 DEF WayInOrder
    <3>3. CASE j = k
      BY <1>3, <1>5, <1>9, <3>1, <3>3
    <3> QED
      BY <1>3, <3>2, <3>3
  <2> QED
    BY <1>1, <1>2, <2>1, <2>2, EdgesStay DEF WayInOrder
<1>15. ScannedAreMet'
  <2>1. Met \cup {work[Len(work)][1]} = Met'
    BY <1>3, <1>5 DEF k
  <2> QED
    BY <1>1, <1>2, <1>5, <1>8, <2>1, EdgesStay DEF ScannedAreMet
<1>16. GoneForGood'
  BY <1>1, <1>2, <1>8, EdgesStay DEF GoneForGood
<1>17. WayLeads'
  <2> SUFFICES ASSUME NEW i \in DOMAIN work, NEW w \in Opened', index'[work[i][1]] <= index'[w]
               PROVE  Leads(work[i][1], w)
    BY <1>1, EdgesStay DEF WayLeads
  <2>1. CASE i = k
    <3>1. work[i][1] = x
      BY <1>3, <2>1
    <3>2. w = x
      BY <1>4, <1>5, <1>8, <1>9, <3>1
    <3> QED
      BY <3>1, <3>2, LeadingOn
  <2>2. CASE i < k
    <3>1. work[i][1] \in Met
      BY <1>13, <2>2
    <3>2. CASE w \in Opened
      BY <1>5, <1>8, <3>1, <3>2 DEF CyclesInv, WayLeads
    <3>3. CASE w = x
      <4>1. k - 1 \in DOMAIN work /\ k - 1 < k /\ work[k - 1][1] \in Opened
            /\ work[k - 1][1] \in Met
        BY <1>3, <1>13, <2>2
      <4>2. x \in Ahead(work[k - 1][1])
        <5>1. (k - 1) + 1 = k
          BY <1>3
        <5> QED
          BY <1>2, <1>3, <4>1, <5>1 DEF WayInOrder, k
      <4>3. Leads(work[i][1], work[k - 1][1])
        <5>1. index[work[i][1]] <= index[work[k - 1][1]]
          <6>1. CASE i = k - 1
            BY <1>9, <3>1, <6>1
          <6>2. CASE i < k - 1
            BY <1>2, <1>9, <3>1, <4>1, <6>2 DEF WayInOrder
          <6> QED
            BY <1>3, <2>2, <6>1, <6>2
        <5> QED
          BY <3>1, <4>1, <5>1 DEF CyclesInv, WayLeads
      <4> QED
        BY <3>3, <4>2, <4>3, LeadingOn
    <3> QED
      BY <1>8, <3>2, <3>3
  <2> QED
    BY <1>3, <2>1, <2>2
<1>18. LinksReach'
  <2> SUFFICES ASSUME NEW v \in Opened' PROVE \E y \in Opened' : low'[v] = index'[y] /\ Leads(v, y)
    BY <1>1, EdgesStay DEF LinksReach
  <2>1. CASE v \in Opened
    <3>1. PICK y \in Opened : low[v] = index[y] /\ Leads(v, y)
      BY <2>1 DEF CyclesInv, LinksReach
    <3> QED
      BY <1>5, <1>8, <2>1, <3>1
  <2>2. CASE v = x
    BY <1>5, <2>2, LeadingOn
  <2> QED
    BY <1>8, <2>1, <2>2
<1>19. LinksLeave'
  BY <1>5, <1>8 DEF CyclesInv, LinksLeave
<1>20. LinksBound'
  <2>1. ASSUME NEW v \in Left, NEW y \in Ahead(v), y \in Opened' PROVE low'[v] <= index'[y]
    <3>1. v \in Met /\ y \in Met
      BY <1>2, <1>8, <2>1 DEF ScannedAreMet
    <3>2. y \in Opened
      BY <1>3, <1>8, <2>1, <3>1
    <3> QED
      BY <1>5, <2>1, <3>1, <3>2 DEF CyclesInv, LinksBound
  <2>2. ASSUME NEW i \in DOMAIN work, NEW j \in 1..(work[i][2] - 1), adj[work[i][1]][j] \in Opened'
        PROVE  low'[work[i][1]] <= index'[adj[work[i][1]][j]]
    <3> DEFINE y == adj[work[i][1]][j]
    <3>1. CASE i < k
      <4>1. work[i][1] \in Met
        BY <1>13, <3>1
      <4>2. CASE y \in Opened
        BY <1>5, <1>8, <4>1, <4>2 DEF CyclesInv, LinksBound
      <4>3. CASE y = x
        <5>1. low[work[i][1]] <= index[work[i][1]] /\ index[work[i][1]] < n
          BY <1>2, <4>1 DEF Numbered, n
        <5> QED
          BY <1>4, <1>5, <1>9, <4>1, <4>3, <5>1
      <4> QED
        BY <1>8, <2>2, <4>2, <4>3
    <3>2. CASE i = k
      <4>1. work[k][2] = 1
        BY DEF Meet, Top, Last, k
      <4> QED
        BY <2>2, <3>2, <4>1
    <3> QED
      BY <1>3, <3>1, <3>2
  <2> QED
    BY <1>1, <1>8, <2>1, <2>2, EdgesStay DEF LinksBound
<1>21. LeftBelow'
  <2> SUFFICES ASSUME NEW w \in Left PROVE \E i \in DOMAIN work : Above(i, w)'
    BY <1>1, <1>8 DEF LeftBelow
  <2>1. PICK i \in DOMAIN work : Above(i, w)
    BY DEF CyclesInv, LeftBelow
  <2>2. w \in Met
    BY <1>8
  <2>3. ASSUME NEW j \in DOMAIN work, j > i PROVE index'[w] < index'[work[j][1]]
    <3>1. CASE j < k
      BY <1>5, <1>13, <2>1, <2>2, <2>3, <3>1 DEF Above
    <3>2. CASE j = k
      BY <1>3, <1>5, <1>9, <2>2, <3>2
    <3> QED
      BY <1>3, <3>1, <3>2
  <2>4. Above(i, w)'
    BY <1>1, <1>5, <2>1, <2>2, <2>3 DEF Above
  <2> QED
    BY <2>4
<1> QED
  BY <1>10, <1>11, <1>12, <1>14, <1>15, <1>16, <1>17, <1>18, <1>19, <1>20, <1>21 DEF CyclesInv

(* The way, when its last file is met.                                     *)
LEMMA TheWay ==
  ASSUME CyclesInv, NEW v, NEW to, NEW link, Scan(v, to, link)
  PROVE  /\ Len(work) \in DOMAIN work /\ v \in Vertices /\ v \in Met /\ v \in OnTheWay
         /\ \A i \in DOMAIN work :
              /\ work[i][1] \in Opened /\ work[i][1] \in Met
              /\ i < Len(work) => index[work[i][1]] < index[v] /\ work[i][1] # v
         /\ \A u \in Met : index[u] \in Nat /\ low[u] \in Nat /\ low[u] <= index[u]
<1>1. CyclesShape /\ WayInOrder /\ Numbered
  BY DEF CyclesInv
<1>2. /\ Len(work) \in Nat \ {0} /\ v = work[Len(work)][1] /\ v \in Opened
      /\ DOMAIN work = 1..Len(work)
  BY <1>1, OnTheStack DEF Scan
<1>3. Len(work) \in DOMAIN work /\ v \in Vertices /\ v \in Met /\ v \in OnTheWay
      /\ Opened \subseteq Met
  BY <1>1, <1>2, OnTheStack
<1>4. \A u \in Met : index[u] \in Nat /\ low[u] \in Nat /\ low[u] <= index[u]
  BY <1>1 DEF CyclesShape, Numbered
<1>5. ASSUME NEW i \in DOMAIN work
      PROVE  /\ work[i][1] \in Opened /\ work[i][1] \in Met
             /\ i < Len(work) => index[work[i][1]] < index[v] /\ work[i][1] # v
  <2>1. work[i][1] \in Opened
    BY <1>1, <1>2 DEF WayInOrder
  <2>2. i < Len(work) => index[work[i][1]] < index[v]
    BY <1>1, <1>2, <1>3 DEF WayInOrder
  <2> QED
    BY <1>3, <1>4, <2>1, <2>2
<1> QED
  BY <1>3, <1>4, <1>5

(* A sequence without its last element.                                    *)
LEMMA FrontOf ==
  ASSUME NEW S, NEW s \in Seq(S), s # <<>>
  PROVE  /\ Len(s) \in Nat \ {0}
         /\ SubSeq(s, 1, Len(s) - 1) \in Seq(S)
         /\ Len(SubSeq(s, 1, Len(s) - 1)) = Len(s) - 1
         /\ \A i \in 1..(Len(s) - 1) : SubSeq(s, 1, Len(s) - 1)[i] = s[i]
<1> DEFINE n == Len(s) - 1
           f == SubSeq(s, 1, n)
<1>1. Len(s) \in Nat \ {0} /\ n \in Int /\ 1 \in Int
  OBVIOUS
<1>2. \A i \in 1..n : s[i] \in S
  OBVIOUS
<1> HIDE DEF n
<1>3. /\ f \in Seq(S)
      /\ Len(f) = IF 1 <= n THEN n - 1 + 1 ELSE 0
      /\ \A i \in 1..(n - 1 + 1) : f[i] = s[1 + i - 1]
  BY <1>1, <1>2, SubSeqProperties
<1> HIDE DEF f
<1>4. n \in Nat
  BY <1>1 DEF n
<1>5. (IF 1 <= n THEN n - 1 + 1 ELSE 0) = n /\ n - 1 + 1 = n
  BY <1>4
<1>6. \A i \in 1..n : f[i] = s[i]
  <2> SUFFICES ASSUME NEW i \in 1..n PROVE f[i] = s[i]
    OBVIOUS
  <2>1. 1 + i - 1 = i
    BY <1>4
  <2> QED
    BY <1>3, <1>5, <2>1
<1> QED
  BY <1>1, <1>3, <1>5, <1>6 DEF f, n

(* Two elements instead of the last of a sequence.                         *)
Instead(s, a, b) == Append(SubSeq(s, 1, Len(s) - 1) \o <<a>>, b)
EndsWith(t, S, s, a, b) ==
  /\ t \in Seq(S) /\ Len(t) = Len(s) + 1
  /\ \A i \in 1..(Len(s) - 1) : t[i] = s[i]
  /\ t[Len(s)] = a /\ t[Len(s) + 1] = b

(* They are its last ones then.                                            *)
LEMMA InsteadOfTheLast ==
  ASSUME NEW S, NEW s \in Seq(S), s # <<>>, NEW a \in S, NEW b \in S
  PROVE  EndsWith(Instead(s, a, b), S, s, a, b)
<1> DEFINE t == Instead(s, a, b)
           f == SubSeq(s, 1, Len(s) - 1)
           g == f \o <<a>>
<1>1. Len(s) \in Nat \ {0}
  BY FrontOf
<1>2. f \in Seq(S) /\ Len(f) = Len(s) - 1 /\ \A i \in 1..(Len(s) - 1) : f[i] = s[i]
  BY FrontOf
<1> HIDE DEF f
<1>3. g \in Seq(S) /\ Len(g) = Len(s) /\ g[Len(s)] = a /\ \A i \in 1..(Len(s) - 1) : g[i] = s[i]
  BY <1>1, <1>2
<1>4. t = Append(g, b)
  BY DEF Instead, f, g
<1> HIDE DEF g, t
<1>5. t \in Seq(S) /\ Len(t) = Len(s) + 1 /\ \A i \in 1..Len(s) : t[i] = g[i]
  BY <1>1, <1>3, <1>4
<1>6. t[Len(s) + 1] = b
  <2>1. Append(g, b)[Len(g) + 1] = b
    BY <1>3
  <2> QED
    BY <1>3, <1>4, <2>1
<1>7. Len(s) \in 1..Len(s) /\ \A i \in 1..(Len(s) - 1) : i \in 1..Len(s)
  BY <1>1
<1> QED
  BY <1>3, <1>5, <1>6, <1>7 DEF t, EndsWith

(* A neighbour not met is gone into.                                       *)
LEMMA DescendKept == ASSUME CyclesInv, Descend PROVE CyclesInv'
<1>1. PICK v, to, link :
        /\ Scan(v, to, link)
        /\ to + 1 <= Len(adj[v]) /\ adj[v][to + 1] \notin Met
        /\ low' = [low EXCEPT ![v] = link]
        /\ work' = Append(Front(work) \o <<<<v, to + 2>>>>, <<adj[v][to + 1], 1>>)
  <2>1. work # <<>> /\ Top[1] \in Met /\ Unmet # {}
    BY DEF Descend, Met
  <2>2. /\ Scan(Top[1], ScannedTo, Lowered)
        /\ Min(Unmet) = ScannedTo + 1
        /\ ScannedTo + 1 <= Len(adj[Top[1]]) /\ adj[Top[1]][ScannedTo + 1] \notin Met
    BY <2>1, Scanning
  <2>3. ScannedTo + 1 + 1 = ScannedTo + 2
    BY <2>2 DEF Scan
  <2>4. work' = Append(Front(work) \o <<<<Top[1], ScannedTo + 2>>>>,
                       <<adj[Top[1]][ScannedTo + 1], 1>>)
    BY <2>2, <2>3 DEF Descend, Neighbours
  <2> QED
    BY <2>2, <2>4 DEF Descend
<1> DEFINE k == Len(work)
           w == adj[v][to + 1]
<1>2. adj' = adj /\ index' = index /\ stack' = stack /\ cyclic' = cyclic
  BY DEF Descend
<1>3. CyclesShape /\ Numbered /\ StackInOrder /\ WayInOrder /\ ScannedAreMet /\ GoneForGood
  BY DEF CyclesInv
<1>4. /\ k \in Nat \ {0} /\ DOMAIN work = 1..k /\ k \in DOMAIN work /\ v = work[k][1]
      /\ to \in Nat /\ link \in Nat /\ link <= low[v]
      /\ v \in Opened /\ v \in Vertices /\ v \in Met /\ v \in OnTheWay
      /\ \A i \in DOMAIN work : work[i][1] \in Opened /\ work[i][1] \in Met
      /\ \A u \in Met : index[u] \in Nat /\ low[u] \in Nat /\ low[u] <= index[u]
      /\ Opened \subseteq Met /\ Left \subseteq Opened
  <2>1. CyclesInv
    OBVIOUS
  <2>2. k \in Nat \ {0} /\ v = work[k][1] /\ to \in Nat /\ link \in Nat /\ link <= low[v]
        /\ v \in Opened
    BY <1>1 DEF Scan
  <2>3. DOMAIN work = 1..k /\ Opened \subseteq Met /\ Left \subseteq Opened
    BY <1>3, OnTheStack
  <2>4. /\ k \in DOMAIN work /\ v \in Vertices /\ v \in Met /\ v \in OnTheWay
        /\ \A i \in DOMAIN work : work[i][1] \in Opened /\ work[i][1] \in Met
        /\ \A u \in Met : index[u] \in Nat /\ low[u] \in Nat /\ low[u] <= index[u]
    BY <1>1, <2>1, TheWay
  <2> QED
    BY <2>2, <2>3, <2>4
<1>5. w \in Vertices /\ w \in Ahead(v) /\ w \notin Met /\ w \notin Opened
  <2>1. adj \in Adjacencies /\ to + 1 \in 1..Len(adj[v])
    <3>1. adj \in Adjacencies
      BY <1>3 DEF CyclesShape
    <3>2. adj[v] \in Seq(Vertices)
      BY <1>4, <3>1, AheadInside
    <3> QED
      BY <1>1, <1>4, <3>1, <3>2
  <2> QED
    BY <1>1, <1>4, <2>1, AheadInside
<1> HIDE DEF w, k
<1>6. /\ work' \in Seq(Vertices \X (Nat \ {0})) /\ Len(work') = k + 1 /\ DOMAIN work' = 1..(k + 1)
      /\ \A i \in 1..k : i # k => work'[i] = work[i]
      /\ work'[k] = <<v, to + 2>> /\ work'[k + 1] = <<w, 1>>
  <2> DEFINE S == Vertices \X (Nat \ {0})
  <2>1. work \in Seq(S) /\ work # <<>>
    BY <1>3, <1>4 DEF CyclesShape, k
  <2>2. <<v, to + 2>> \in S /\ <<w, 1>> \in S
    BY <1>4, <1>5
  <2>3. PICK a \in S, b \in S : a = <<v, to + 2>> /\ b = <<w, 1>>
    BY <2>2
  <2> HIDE DEF S
  <2>4. work' = Instead(work, a, b)
    BY <1>1, <2>3 DEF Front, Instead, w
  <2>5. /\ work' \in Seq(S) /\ Len(work') = Len(work) + 1
        /\ \A i \in 1..(Len(work) - 1) : work'[i] = work[i]
        /\ work'[Len(work)] = a /\ work'[Len(work) + 1] = b
    <3>1. EndsWith(work', S, work, a, b)
      BY <2>1, <2>3, <2>4, InsteadOfTheLast
    <3> QED
      BY <3>1 DEF EndsWith
  <2>6. \A i \in 1..k : i # k => i \in 1..(k - 1)
    BY <1>4
  <2>7. DOMAIN work' = 1..(k + 1)
    BY <2>5 DEF k
  <2> QED
    BY <2>3, <2>5, <2>6, <2>7 DEF S, k
<1>7. /\ Met' = Met /\ Opened' = Opened /\ Left' = Left /\ Gone' = Gone
      /\ \A i \in 1..k : work'[i][1] = work[i][1]
      /\ work'[k + 1][1] = w
  <2>1. Met' = Met /\ Opened' = Opened
    BY <1>2 DEF Met, Opened
  <2>2. \A i \in 1..k : work'[i][1] = work[i][1]
    BY <1>4, <1>6
  <2>3. work'[k + 1][1] = w
    BY <1>6
  <2>4. OnTheWay' = OnTheWay \cup {w}
    <3>1. \A i \in 1..(k + 1) : i \in 1..k \/ i = k + 1
      BY <1>4
    <3>2. \A i \in 1..k : i \in 1..(k + 1)
      BY <1>4
    <3>3. k + 1 \in 1..(k + 1)
      BY <1>4
    <3>4. /\ OnTheWay = {work[i][1] : i \in 1..k}
          /\ OnTheWay' = {work'[i][1] : i \in 1..(k + 1)}
      BY <1>4, <1>6 DEF OnTheWay
    <3>5. OnTheWay' \subseteq OnTheWay \cup {w}
      BY <2>2, <2>3, <3>1, <3>4
    <3>6. OnTheWay \cup {w} \subseteq OnTheWay'
      BY <2>2, <2>3, <3>2, <3>3, <3>4
    <3> QED
      BY <3>5, <3>6
  <2> QED
    BY <1>5, <2>1, <2>2, <2>3, <2>4 DEF Left, Gone
<1>8. /\ low' \in [Met -> Nat] /\ low'[v] = link
      /\ \A u \in Met : low'[u] <= low[u] /\ (u # v => low'[u] = low[u])
      /\ \A u \in Left : u # v
  <2>1. low \in [Met -> Nat]
    BY <1>3 DEF CyclesShape
  <2> QED
    BY <1>1, <1>4, <2>1 DEF Left
<1>9. CyclesShape'
  <2>1. Vertices' = Vertices
    BY DEF Vertices
  <2> QED
    BY <1>2, <1>3, <1>6, <1>7, <1>8, <2>1 DEF CyclesShape
<1>10. Numbered'
  <2>1. \A u \in Met : low'[u] <= index[u]
    BY <1>4, <1>8
  <2> QED
    BY <1>2, <1>3, <1>7, <2>1 DEF Numbered
<1>11. StackInOrder'
  BY <1>2, <1>3 DEF StackInOrder
<1>12. WayInOrder'
  <2>1. ASSUME NEW i \in 1..(k + 1), i < k + 1
        PROVE  work'[i + 1][1] \in Ahead(work'[i][1])
    <3>1. CASE i < k
      <4>1. i \in 1..k /\ i + 1 \in 1..k
        BY <1>4, <3>1
      <4> QED
        BY <1>3, <1>4, <1>7, <3>1, <4>1 DEF WayInOrder, k
    <3>2. CASE i = k
      BY <1>4, <1>5, <1>7, <3>2
    <3> QED
      BY <1>4, <2>1, <3>1, <3>2
  <2>2. ASSUME NEW i \in 1..(k + 1)
        PROVE  \/ work'[i][1] \in Opened
               \/ i = k + 1 /\ work'[i][2] = 1 /\ work'[i][1] \notin Met
    <3>1. CASE i \in 1..k
      BY <1>4, <1>7, <3>1
    <3>2. CASE i = k + 1
      BY <1>5, <1>6, <3>2
    <3> QED
      BY <1>4, <3>1, <3>2
  <2>3. ASSUME NEW i \in 1..(k + 1), NEW j \in 1..(k + 1), i < j, work'[j][1] \in Met
        PROVE  index[work'[i][1]] < index[work'[j][1]]
    <3>1. j # k + 1
      BY <1>5, <1>7, <2>3
    <3>2. i \in 1..k /\ j \in 1..k
      BY <1>4, <2>3, <3>1
    <3> QED
      BY <1>3, <1>4, <1>7, <2>3, <3>2 DEF WayInOrder
  <2> QED
    BY <1>2, <1>6, <1>7, <2>1, <2>2, <2>3, EdgesStay DEF WayInOrder
<1>13. ASSUME NEW i \in 1..(k + 1), NEW j \in 1..(work'[i][2] - 1)
       PROVE  \/ /\ i \in 1..k /\ i # k /\ j \in 1..(work[i][2] - 1) /\ work'[i] = work[i]
              \/ i = k /\ j \in 1..to
              \/ i = k /\ j = to + 1
  <2>1. CASE i \in 1..k /\ i # k
    BY <1>6, <1>13, <2>1
  <2>2. CASE i = k
    BY <1>4, <1>6, <1>13, <2>2
  <2>3. CASE i = k + 1
    BY <1>6, <1>13, <2>3
  <2> QED
    BY <1>4, <2>1, <2>2, <2>3
<1>14. ScannedAreMet'
  <2>1. ASSUME NEW i \in 1..(k + 1) PROVE work'[i][2] - 1 <= Len(adj[work'[i][1]])
    <3>1. CASE i \in 1..k /\ i # k
      BY <1>3, <1>4, <1>6, <3>1 DEF ScannedAreMet
    <3>2. CASE i = k
      BY <1>1, <1>4, <1>6, <3>2
    <3>3. CASE i = k + 1
      <4>1. adj[w] \in Seq(Vertices)
        BY <1>3, <1>5, AheadInside DEF CyclesShape
      <4>2. Len(adj[w]) \in Nat
        BY <4>1
      <4>3. work'[i][2] = 1 /\ work'[i][1] = w
        BY <1>6, <3>3
      <4> QED
        BY <4>2, <4>3
    <3> QED
      BY <1>4, <3>1, <3>2, <3>3
  <2>2. ASSUME NEW i \in 1..(k + 1), NEW j \in 1..(work'[i][2] - 1)
        PROVE  adj[work'[i][1]][j] \in Met \cup {w}
    <3>1. CASE i \in 1..k /\ i # k /\ j \in 1..(work[i][2] - 1) /\ work'[i] = work[i]
      BY <1>3, <1>4, <3>1 DEF ScannedAreMet, k
    <3>2. CASE i = k /\ j \in 1..to
      <4>1. \A h \in 1..to : adj[v][h] \in Met
        BY <1>1 DEF Scan
      <4>2. work'[k][1] = v
        BY <1>6
      <4> QED
        BY <3>2, <4>1, <4>2
    <3>3. CASE i = k /\ j = to + 1
      BY <1>6, <3>3 DEF w
    <3> QED
      BY <1>13, <3>1, <3>2, <3>3
  <2> QED
    BY <1>2, <1>3, <1>6, <1>7, <2>1, <2>2, EdgesStay DEF ScannedAreMet
<1>15. GoneForGood'
  BY <1>2, <1>3, <1>7, EdgesStay DEF GoneForGood
<1>16. WayLeads'
  <2> SUFFICES ASSUME NEW i \in 1..(k + 1), NEW u \in Opened, work'[i][1] \in Met,
                      index[work'[i][1]] <= index[u]
               PROVE  Leads(work'[i][1], u)
    BY <1>2, <1>6, <1>7, EdgesStay DEF WayLeads
  <2>1. i \in 1..k
    BY <1>4, <1>5, <1>7
  <2> QED
    BY <1>4, <1>7, <2>1 DEF CyclesInv, WayLeads
<1>17. LinksReach'
  <2> SUFFICES ASSUME NEW u \in Opened PROVE \E y \in Opened : low'[u] = index[y] /\ Leads(u, y)
    BY <1>2, <1>7, EdgesStay DEF LinksReach
  <2>1. CASE u = v
    BY <1>1, <1>8, <2>1 DEF Scan
  <2>2. CASE u # v
    BY <1>4, <1>8, <2>2 DEF CyclesInv, LinksReach
  <2> QED
    BY <2>1, <2>2
<1>18. LinksLeave'
  BY <1>2, <1>4, <1>7, <1>8 DEF CyclesInv, LinksLeave
<1>19. LinksBound'
  <2>1. \A u \in Left : \A y \in Ahead(u) \cap Opened : low'[u] <= index[y]
    BY <1>4, <1>8 DEF CyclesInv, LinksBound
  <2>2. ASSUME NEW i \in 1..(k + 1), NEW j \in 1..(work'[i][2] - 1), adj[work'[i][1]][j] \in Opened
        PROVE  low'[work'[i][1]] <= index[adj[work'[i][1]][j]]
    <3>1. CASE i \in 1..k /\ i # k /\ j \in 1..(work[i][2] - 1) /\ work'[i] = work[i]
      <4> DEFINE u == work[i][1]
                 y == adj[u][j]
      <4>1. u \in Met /\ y \in Opened /\ low[u] <= index[y]
        BY <1>4, <2>2, <3>1 DEF CyclesInv, LinksBound
      <4>2. low'[u] \in Nat /\ low[u] \in Nat /\ index[y] \in Nat /\ low'[u] <= low[u]
        BY <1>4, <1>8, <4>1
      <4> HIDE DEF u, y
      <4>3. low'[u] <= index[y]
        BY <4>1, <4>2
      <4> QED
        BY <3>1, <4>3 DEF u, y
    <3>2. CASE i = k /\ j \in 1..to
      <4>1. \A h \in 1..to : adj[v][h] \in Opened => link <= index[adj[v][h]]
        BY <1>1 DEF Scan
      <4>2. work'[k][1] = v /\ low'[v] = link
        BY <1>6, <1>8
      <4> QED
        BY <2>2, <3>2, <4>1, <4>2
    <3>3. CASE i = k /\ j = to + 1
      BY <1>5, <1>6, <2>2, <3>3 DEF w
    <3> QED
      BY <1>13, <3>1, <3>2, <3>3
  <2> QED
    BY <1>2, <1>6, <1>7, <2>1, <2>2, EdgesStay DEF LinksBound
<1>20. LeftBelow'
  <2> SUFFICES ASSUME NEW u \in Left PROVE \E i \in 1..(k + 1) : Above(i, u)'
    BY <1>6, <1>7 DEF LeftBelow
  <2>1. PICK i \in 1..k : Above(i, u)
    BY <1>4 DEF CyclesInv, LeftBelow
  <2>2. u \in Met /\ low'[u] = low[u]
    BY <1>4, <1>8
  <2>3. work'[i][1] = work[i][1] /\ work[i][1] \in Met
    BY <1>4, <1>7
  <2>4. low'[work[i][1]] <= low[u]
    <3>1. low[work[i][1]] <= low[u]
      BY <2>1 DEF Above
    <3>2. low'[work[i][1]] \in Nat /\ low[work[i][1]] \in Nat /\ low[u] \in Nat
          /\ low'[work[i][1]] <= low[work[i][1]]
      BY <1>4, <1>8, <2>2, <2>3
    <3> QED
      BY <3>1, <3>2
  <2>5. \A j \in 1..(k + 1) : j > i /\ work'[j][1] \in Met => index[u] < index[work'[j][1]]
    <3> SUFFICES ASSUME NEW j \in 1..(k + 1), j > i, work'[j][1] \in Met
                 PROVE  index[u] < index[work'[j][1]]
      OBVIOUS
    <3>1. j \in 1..k
      BY <1>4, <1>5, <1>7
    <3> QED
      BY <1>4, <1>7, <2>1, <3>1 DEF Above
  <2>6. Above(i, u)'
    BY <1>2, <1>6, <1>7, <2>1, <2>2, <2>3, <2>4, <2>5 DEF Above
  <2>7. i \in 1..(k + 1)
    BY <1>4
  <2> QED
    BY <2>6, <2>7
<1> QED
  BY <1>9, <1>10, <1>11, <1>12, <1>14, <1>15, <1>16, <1>17, <1>18, <1>19, <1>20 DEF CyclesInv

(* A root and what is open from it on: they lead to each other, and        *)
(* nowhere but to what is gone.                                            *)
OpenFrom(v) == {w \in Opened : index[v] <= index[w]}

(* What is gone stays closed when a root takes these with it, and they are *)
(* on a cycle just when they are several.                                  *)
LEMMA Rooted ==
  ASSUME CyclesInv, NEW v, Scan(v, Len(adj[v]), index[v])
  PROVE  /\ Shut(Gone \cup OpenFrom(v))
         /\ OpenFrom(v) \ {v} \subseteq Left
         /\ Cardinality(OpenFrom(v)) > 1 => \A w \in OpenFrom(v) : Loops(w)
         /\ ~(Cardinality(OpenFrom(v)) > 1) => \A w \in OpenFrom(v) : ~Loops(w)
<1> DEFINE k == Len(work)
           C == OpenFrom(v)
<1>1. CyclesShape /\ ScannedAreMet /\ GoneForGood
  BY DEF CyclesInv
<1>2. /\ k \in DOMAIN work /\ v = work[k][1] /\ v \in Opened /\ v \in Vertices /\ v \in Met
      /\ v \in OnTheWay /\ v \in C
      /\ \A i \in DOMAIN work : i < k => index[work[i][1]] < index[v]
      /\ \A u \in Met : index[u] \in Nat /\ low[u] \in Nat
      /\ DOMAIN work = 1..k /\ k \in Nat
      /\ Opened \subseteq Met /\ Left \subseteq Opened
  <2>1. v = work[k][1] /\ v \in Opened
    BY DEF Scan
  <2>2. DOMAIN work = 1..k /\ k \in Nat /\ Opened \subseteq Met /\ Left \subseteq Opened
    BY <1>1, OnTheStack
  <2>3. /\ k \in DOMAIN work /\ v \in Vertices /\ v \in Met /\ v \in OnTheWay
        /\ \A i \in DOMAIN work : i < k => index[work[i][1]] < index[v]
        /\ \A u \in Met : index[u] \in Nat /\ low[u] \in Nat
    BY TheWay
  <2>4. v \in C
    BY <2>1, <2>3 DEF OpenFrom
  <2> QED
    BY <2>1, <2>2, <2>3, <2>4
<1>3. /\ Ahead(v) \subseteq Vertices /\ v \notin Ahead(v)
      /\ \A y \in Ahead(v) : \E j \in 1..Len(adj[v]) : adj[v][j] = y
  BY <1>1, <1>2, AheadInside DEF CyclesShape
<1>4. C \subseteq Opened /\ Gone \subseteq Met /\ Met \subseteq Vertices /\ C \subseteq Vertices
  BY <1>1, <1>2 DEF CyclesShape, OpenFrom, Gone
<1>5. \A w \in C : /\ w \in Opened /\ w \in Met /\ index[v] <= index[w]
                    /\ index[w] \in Nat /\ low[w] \in Nat
  BY <1>2 DEF OpenFrom
<1>6. \A w \in Opened : index[v] <= index[w] => w \in C
  BY DEF OpenFrom
<1> HIDE DEF C, k
<1>7. ASSUME NEW w \in C, w # v PROVE w \in Left
  <2>1. \A i \in DOMAIN work : work[i][1] # w
    <3> SUFFICES ASSUME NEW i \in DOMAIN work, work[i][1] = w PROVE FALSE
      OBVIOUS
    <3>1. i < k
      BY <1>2, <1>7
    <3>2. index[w] < index[v]
      BY <1>2, <3>1
    <3> QED
      BY <1>2, <1>5, <3>2
  <2>2. w \notin OnTheWay
    BY <2>1 DEF OnTheWay
  <2> QED
    BY <1>5, <2>2 DEF Left
<1>8. ASSUME NEW w \in C, w # v PROVE index[v] <= low[w] /\ low[w] < index[w]
  <2>1. w \in Left
    BY <1>7, <1>8
  <2>2. PICK i \in DOMAIN work : Above(i, w)
    BY <2>1 DEF CyclesInv, LeftBelow
  <2>3. i = k
    <3> SUFFICES ASSUME i < k PROVE FALSE
      BY <1>2
    <3>1. index[w] < index[v]
      BY <1>2, <2>2 DEF Above
    <3> QED
      BY <1>2, <1>5, <3>1
  <2>4. low[v] <= low[w]
    BY <1>2, <2>2, <2>3 DEF Above
  <2>5. index[v] <= low[v]
    BY DEF Scan
  <2>6. low[w] < index[w]
    BY <2>1 DEF CyclesInv, LinksLeave
  <2> QED
    BY <1>2, <1>5, <2>4, <2>5, <2>6
<1>9. Shut(Gone \cup C)
  <2> SUFFICES ASSUME NEW u \in Gone \cup C, NEW y \in Ahead(u) PROVE y \in Gone \cup C
    BY DEF Shut
  <2>1. CASE u \in Gone
    BY <1>1, <2>1 DEF GoneForGood, Shut
  <2>2. CASE u = v
    <3>1. PICK j \in 1..Len(adj[v]) : adj[v][j] = y
      BY <1>3, <2>2
    <3>2. y \in Met /\ (y \in Opened => index[v] <= index[y])
      BY <3>1 DEF Scan
    <3> QED
      BY <1>6, <3>2 DEF Gone
  <2>3. CASE u \in C /\ u # v
    <3>1. u \in Left /\ index[v] <= low[u] /\ low[u] \in Nat
      BY <1>5, <1>7, <1>8, <2>3
    <3>2. y \in Met
      BY <1>1, <3>1 DEF ScannedAreMet
    <3>3. y \in Opened => low[u] <= index[y]
      BY <3>1 DEF CyclesInv, LinksBound
    <3>4. y \in Opened => index[v] <= index[y]
      BY <1>2, <3>1, <3>2, <3>3
    <3> QED
      BY <1>6, <3>2, <3>4 DEF Gone
  <2> QED
    BY <2>1, <2>2, <2>3
<1>10. \A w \in C : Leads(v, w)
  BY <1>2, <1>5 DEF CyclesInv, WayLeads
<1>11. ASSUME NEW w \in C PROVE Leads(w, v)
  <2> SUFFICES ASSUME NEW D \in SUBSET Vertices, Shut(D), w \in D, v \notin D PROVE FALSE
    BY DEF Leads
  <2> DEFINE T == {index[u] : u \in C \cap D}
  <2>1. T \in SUBSET Nat /\ T # {}
    BY <1>5, <1>11
  <2>2. PICK n \in T : \A m \in T : n <= m
    <3> HIDE DEF T
    <3> QED
      BY <2>1, LeastOf
  <2>3. PICK u \in C \cap D : index[u] = n
    BY <2>2
  <2>4. u # v /\ index[v] <= low[u] /\ low[u] < index[u]
    BY <1>8, <2>3
  <2>5. PICK x \in Opened : low[u] = index[x] /\ Leads(u, x)
    BY <1>5, <2>3 DEF CyclesInv, LinksReach
  <2>6. x \in C
    BY <1>6, <2>4, <2>5
  <2>7. x \in D
    BY <2>3, <2>5 DEF Leads
  <2>8. index[x] \in T
    BY <2>6, <2>7
  <2>9. n <= index[x] /\ index[x] < n
    BY <2>2, <2>3, <2>4, <2>5, <2>8
  <2> QED
    BY <1>5, <2>3, <2>6, <2>9
<1>12. ASSUME NEW w \in C, NEW z \in C, z # w PROVE Loops(w)
  <2> SUFFICES ASSUME NEW D \in SUBSET Vertices, Shut(D), Ahead(w) \subseteq D PROVE w \in D
    BY DEF Loops
  <2>1. Leads(w, z) /\ Leads(z, w)
    BY <1>10, <1>11, LeadingOn
  <2>2. Shut(D \cup {w}) /\ D \cup {w} \in SUBSET Vertices
    BY <1>4 DEF Shut
  <2>3. z \in D \cup {w}
    BY <2>1, <2>2 DEF Leads
  <2>4. z \in D
    BY <1>12, <2>3
  <2> QED
    BY <2>1, <2>4 DEF Leads
<1>13. ASSUME C = {v} PROVE ~Loops(v)
  <2>1. Ahead(v) \subseteq Gone
    <3>1. Ahead(v) \subseteq Gone \cup {v}
      BY <1>9, <1>13 DEF Shut
    <3> QED
      BY <1>3, <3>1
  <2>2. Shut(Gone) /\ Gone \in SUBSET Vertices /\ v \notin Gone
    BY <1>1, <1>2, <1>4 DEF GoneForGood, Gone
  <2> QED
    BY <2>1, <2>2 DEF Loops
<1>14. IsFiniteSet(C) /\ Cardinality(C) \in Nat /\ (C # {v} => Cardinality(C) > 1)
       /\ (C = {v} => Cardinality(C) = 1)
  <2>1. IsFiniteSet(Vertices)
    BY AdjacenciesAssumption, FS_Interval DEF Vertices
  <2>2. IsFiniteSet(C) /\ Cardinality(C) \in Nat
    BY <1>4, <2>1, FS_Subset, FS_CardinalityType
  <2>3. Cardinality(C) # 0
    BY <1>2, <2>2, FS_EmptySet
  <2>4. Cardinality(C) = 1 => C = {v}
    BY <1>2, <2>2, FS_Singleton
  <2>5. C = {v} => Cardinality(C) = 1
    BY FS_Singleton
  <2> QED
    BY <2>2, <2>3, <2>4, <2>5
<1>15. Cardinality(C) > 1 => \A w \in C : Loops(w)
  <2> SUFFICES ASSUME Cardinality(C) > 1, NEW w \in C PROVE Loops(w)
    OBVIOUS
  <2>1. C # {v}
    BY <1>14
  <2>2. \E z \in C : z # w
    BY <1>2, <2>1
  <2> QED
    BY <1>12, <2>2
<1>16. ~(Cardinality(C) > 1) => \A w \in C : ~Loops(w)
  BY <1>13, <1>14
<1> QED
  BY <1>7, <1>9, <1>15, <1>16 DEF C

(* What the end of a file's neighbours changes.                            *)
Finished(v, link) ==
  /\ adj' = adj /\ index' = index
  /\ work' \in Seq(Vertices \X (Nat \ {0}))
  /\ DOMAIN work' = 1..(Len(work) - 1) /\ Len(work') = Len(work) - 1
  /\ \A i \in 1..(Len(work) - 1) : work'[i] = work[i]
  /\ low' \in [Met -> Nat] /\ low'[v] = link
  /\ \A u \in Met : low'[u] <= low[u]
  /\ \A u \in Met : u # v /\ (\A i \in 1..(Len(work) - 1) : i = Len(work) - 1 => u # work[i][1]) =>
       low'[u] = low[u]
  /\ \A i \in 1..(Len(work) - 1) : i = Len(work) - 1 =>
       low'[work[i][1]] <= link /\ low'[work[i][1]] \in {low[work[i][1]], link}

(* A root takes its component off the stack; any other file leaves it.     *)
LEMMA Finishing ==
  ASSUME CyclesInv, Finish
  PROVE  \E v, link :
           /\ Scan(v, Len(adj[v]), link) /\ Finished(v, link)
           /\ link # index[v] => stack' = stack /\ cyclic' = cyclic
           /\ link = index[v] =>
                \E from \in DOMAIN stack :
                  /\ stack[from] = v
                  /\ stack' = SubSeq(stack, 1, from - 1)
                  /\ cyclic' = IF Cardinality({stack[i] : i \in from..Len(stack)}) > 1
                               THEN cyclic \cup {stack[i] : i \in from..Len(stack)} ELSE cyclic
<1> DEFINE v == Top[1]
           link == Lowered
           k == Len(work)
           from == CHOOSE i \in DOMAIN stack : stack[i] = v
           p == work[k - 1][1]
<1>1. CyclesShape /\ work # <<>> /\ v \in Met /\ Unmet = {}
  BY DEF CyclesInv, Finish, Met
<1>2. Scan(v, Len(adj[v]), link)
  BY <1>1, Scanning
<1>3. /\ adj' = adj /\ index' = index /\ work' = Front(work)
      /\ stack' = IF link = index[v] THEN SubSeq(stack, 1, from - 1) ELSE stack
      /\ cyclic' = IF link = index[v] /\ Cardinality({stack[i] : i \in from..Len(stack)}) > 1
                   THEN cyclic \cup {stack[i] : i \in from..Len(stack)} ELSE cyclic
      /\ low' = IF k = 1 THEN [low EXCEPT ![v] = link]
                ELSE [low EXCEPT ![v] = link, ![p] = Least(@, link)]
  BY DEF Finish
<1>4. from \in DOMAIN stack /\ stack[from] = v
  <2>1. \E i \in DOMAIN stack : stack[i] = v
    BY <1>1, <1>2, OnTheStack DEF Scan
  <2> QED
    BY <2>1
<1>5. /\ k \in Nat \ {0} /\ v = work[k][1] /\ v \in Met /\ link \in Nat /\ link <= low[v]
      /\ \A i \in 1..k : work[i][1] \in Met /\ (i < k => work[i][1] # v)
      /\ \A u \in Met : low[u] \in Nat
  <2>1. k \in Nat \ {0} /\ v = work[k][1] /\ link \in Nat /\ link <= low[v]
    BY <1>2 DEF Scan
  <2>2. DOMAIN work = 1..k
    BY <1>1, OnTheStack
  <2> HIDE DEF v, link, k
  <2>3. v \in Met /\ \A i \in 1..k : work[i][1] \in Met /\ (i < k => work[i][1] # v)
    BY <1>2, <2>2, TheWay DEF k
  <2>4. \A u \in Met : low[u] \in Nat
    BY <1>2, TheWay
  <2> QED
    BY <2>1, <2>3, <2>4
<1>6. work \in Seq(Vertices \X (Nat \ {0})) /\ low \in [Met -> Nat]
  BY <1>1 DEF CyclesShape
<1> HIDE DEF v, link, from
<1>7. /\ work' \in Seq(Vertices \X (Nat \ {0}))
      /\ DOMAIN work' = 1..(k - 1) /\ Len(work') = k - 1
      /\ \A i \in 1..(k - 1) : work'[i] = work[i]
  <2>1. work' = SubSeq(work, 1, k - 1)
    BY <1>3 DEF Front
  <2> HIDE DEF k
  <2>2. k - 1 \in Nat /\ k = Len(work)
    BY <1>5 DEF k
  <2>3. /\ SubSeq(work, 1, k - 1) \in Seq(Vertices \X (Nat \ {0}))
        /\ Len(SubSeq(work, 1, k - 1)) = k - 1
        /\ \A i \in 1..(k - 1) : SubSeq(work, 1, k - 1)[i] = work[i]
    BY <1>6, <2>2
  <2> QED
    BY <2>1, <2>3
<1> HIDE DEF k
<1>8. /\ low' \in [Met -> Nat] /\ low'[v] = link
      /\ \A u \in Met : low'[u] <= low[u]
      /\ \A u \in Met : u # v /\ (k # 1 => u # p) => low'[u] = low[u]
      /\ k # 1 => low'[p] <= link /\ low'[p] \in {low[p], link}
  <2>1. CASE k = 1
    BY <1>3, <1>5, <1>6, <2>1
  <2>2. CASE k # 1
    <3>1. k - 1 \in 1..k /\ k - 1 < k
      BY <1>5, <2>2
    <3>2. p \in Met /\ p # v
      BY <1>5, <3>1
    <3> HIDE DEF p
    <3>3. low' = [low EXCEPT ![v] = link, ![p] = Least(@, link)]
      BY <1>3, <2>2
    <3>4. Least(low[p], link) \in {low[p], link} /\ Least(low[p], link) <= low[p]
          /\ Least(low[p], link) <= link /\ Least(low[p], link) \in Nat
      BY <1>5, <3>2 DEF Least
    <3>5. low'[p] = Least(low[p], link) /\ low'[v] = link
          /\ \A u \in Met : u # v /\ u # p => low'[u] = low[u]
      BY <1>5, <1>6, <3>2, <3>3
    <3>6. low' \in [Met -> Nat]
      BY <1>5, <1>6, <3>2, <3>3, <3>4
    <3>7. \A u \in Met : low'[u] <= low[u]
      BY <1>5, <3>2, <3>4, <3>5
    <3> QED
      BY <2>2, <3>4, <3>5, <3>6, <3>7
  <2> QED
    BY <2>1, <2>2
<1>9. Finished(v, link)
  <2>1. /\ k # 1 => k - 1 \in 1..(k - 1)
        /\ \A i \in 1..(k - 1) : i = k - 1 => k # 1
    BY <1>5
  <2>2. /\ \A u \in Met : u # v /\ (\A i \in 1..(k - 1) : i = k - 1 => u # work[i][1]) =>
             low'[u] = low[u]
        /\ \A i \in 1..(k - 1) : i = k - 1 =>
             low'[work[i][1]] <= link /\ low'[work[i][1]] \in {low[work[i][1]], link}
    BY <1>8, <2>1
  <2> QED
    BY <1>3, <1>7, <1>8, <2>2 DEF Finished, k
<1> QED
  BY <1>2, <1>3, <1>4, <1>9

(* What stays the same at the end of a file's neighbours.                  *)
LEMMA FinishedWay ==
  ASSUME CyclesInv, NEW v, NEW link, Scan(v, Len(adj[v]), link), Finished(v, link)
  PROVE  /\ Met' = Met /\ Vertices' = Vertices
         /\ OnTheWay = OnTheWay' \cup {v} /\ v \notin OnTheWay'
         /\ Numbered'
         /\ \A i \in 1..(Len(work) - 1) : i \in 1..Len(work) /\ i \in DOMAIN work
<1> DEFINE k == Len(work)
<1>1. CyclesShape /\ Numbered
  BY DEF CyclesInv
<1>2. /\ k \in Nat \ {0} /\ v = work[k][1] /\ DOMAIN work = 1..k
      /\ \A i \in 1..k : i < k => work[i][1] # v
      /\ \A u \in Met : index[u] \in Nat /\ low[u] \in Nat /\ low[u] <= index[u]
  <2>1. k \in Nat \ {0} /\ v = work[k][1]
    BY DEF Scan
  <2>2. DOMAIN work = 1..k
    BY <1>1, OnTheStack
  <2>3. /\ \A i \in DOMAIN work : i < k => work[i][1] # v
        /\ \A u \in Met : index[u] \in Nat /\ low[u] \in Nat /\ low[u] <= index[u]
    BY TheWay
  <2> QED
    BY <2>1, <2>2, <2>3
<1>3. /\ index' = index /\ DOMAIN work' = 1..(k - 1) /\ \A i \in 1..(k - 1) : work'[i] = work[i]
      /\ low' \in [Met -> Nat] /\ \A u \in Met : low'[u] <= low[u]
  BY DEF Finished
<1> HIDE DEF k
<1>4. Met' = Met
  BY <1>3 DEF Met
<1>5. Vertices' = Vertices
  BY DEF Vertices
<1>6. \A i \in 1..(k - 1) : i \in 1..k /\ i < k
  BY <1>2
<1>7. OnTheWay = {work[i][1] : i \in 1..k} /\ OnTheWay' = {work[i][1] : i \in 1..(k - 1)}
  BY <1>2, <1>3 DEF OnTheWay
<1>8. v \notin OnTheWay'
  BY <1>2, <1>6, <1>7
<1>9. OnTheWay = OnTheWay' \cup {v}
  <2>1. \A i \in 1..k : i \in 1..(k - 1) \/ i = k
    BY <1>2
  <2>2. k \in 1..k
    BY <1>2
  <2> QED
    BY <1>2, <1>6, <1>7, <2>1, <2>2
<1>10. Numbered'
  <2>1. \A u \in Met : low'[u] <= index[u]
    BY <1>2, <1>3
  <2> QED
    BY <1>1, <1>3, <1>4, <2>1 DEF Numbered
<1> QED
  BY <1>2, <1>4, <1>5, <1>6, <1>8, <1>9, <1>10 DEF k

(* A file that is no root is left, below the file it was gone into from.   *)
LEMMA LeaveKept ==
  ASSUME CyclesInv, NEW v, NEW link, Scan(v, Len(adj[v]), link), Finished(v, link),
         link # index[v], stack' = stack, cyclic' = cyclic
  PROVE  CyclesInv'
<1> DEFINE k == Len(work)
           p == work[k - 1][1]
<1>1. CyclesShape /\ Numbered /\ StackInOrder /\ WayInOrder /\ ScannedAreMet /\ GoneForGood
  BY DEF CyclesInv
<1>2. /\ k \in Nat \ {0} /\ v = work[k][1] /\ DOMAIN work = 1..k /\ k \in DOMAIN work
      /\ link \in Nat /\ link <= low[v]
      /\ v \in Opened /\ v \in Vertices /\ v \in Met /\ v \in OnTheWay
      /\ \A i \in DOMAIN work : work[i][1] \in Opened /\ work[i][1] \in Met
      /\ \A i \in DOMAIN work : i < k => index[work[i][1]] < index[v] /\ work[i][1] # v
      /\ \A u \in Met : index[u] \in Nat /\ low[u] \in Nat /\ low[u] <= index[u]
      /\ Opened \subseteq Met /\ Left \subseteq Opened
  <2>1. k \in Nat \ {0} /\ v = work[k][1] /\ link \in Nat /\ link <= low[v] /\ v \in Opened
    BY DEF Scan
  <2>2. DOMAIN work = 1..k /\ Opened \subseteq Met /\ Left \subseteq Opened
    BY <1>1, OnTheStack
  <2>3. /\ k \in DOMAIN work /\ v \in Vertices /\ v \in Met /\ v \in OnTheWay
        /\ \A i \in DOMAIN work : work[i][1] \in Opened /\ work[i][1] \in Met
        /\ \A i \in DOMAIN work : i < k => index[work[i][1]] < index[v] /\ work[i][1] # v
        /\ \A u \in Met : index[u] \in Nat /\ low[u] \in Nat /\ low[u] <= index[u]
    BY TheWay
  <2> QED
    BY <2>1, <2>2, <2>3
<1>3. /\ adj' = adj /\ index' = index
      /\ work' \in Seq(Vertices \X (Nat \ {0}))
      /\ DOMAIN work' = 1..(k - 1) /\ Len(work') = k - 1
      /\ \A i \in 1..(k - 1) : work'[i] = work[i]
      /\ low' \in [Met -> Nat] /\ low'[v] = link
      /\ \A u \in Met : low'[u] <= low[u]
      /\ \A u \in Met : u # v /\ (\A i \in 1..(k - 1) : i = k - 1 => u # work[i][1]) =>
           low'[u] = low[u]
      /\ \A i \in 1..(k - 1) : i = k - 1 =>
           low'[work[i][1]] <= link /\ low'[work[i][1]] \in {low[work[i][1]], link}
  BY DEF Finished
<1>4. /\ Met' = Met /\ Vertices' = Vertices /\ OnTheWay = OnTheWay' \cup {v} /\ v \notin OnTheWay'
      /\ Numbered' /\ \A i \in 1..(k - 1) : i \in DOMAIN work /\ i < k
  <2>1. /\ Met' = Met /\ Vertices' = Vertices /\ OnTheWay = OnTheWay' \cup {v} /\ v \notin OnTheWay'
        /\ Numbered' /\ \A i \in 1..(k - 1) : i \in DOMAIN work
    BY FinishedWay
  <2> QED
    BY <1>2, <2>1
<1>5. PICK x \in Opened : link = index[x] /\ Leads(v, x)
  BY DEF Scan
<1>6. link < index[v]
  <2>1. low[v] <= index[v] /\ index[v] \in Nat /\ low[v] \in Nat
    BY <1>2
  <2> QED
    BY <1>2, <2>1
<1>7. \A j \in 1..Len(adj[v]) :
        adj[v][j] \in Met /\ (adj[v][j] \in Opened => link <= index[adj[v][j]])
  BY DEF Scan
<1>8. \A y \in Ahead(v) : \E j \in 1..Len(adj[v]) : adj[v][j] = y
  BY <1>1, <1>2, AheadInside DEF CyclesShape
<1>9. /\ Opened' = Opened /\ Left' = Left \cup {v} /\ Gone' = Gone /\ v \notin Left
      /\ \A u \in Left : u # v /\ low'[u] = low[u]
  <2>1. Opened' = Opened /\ Gone' = Gone
    BY <1>4 DEF Opened, Gone
  <2>2. Left' = Left \cup {v} /\ v \notin Left
    BY <1>2, <1>4, <2>1 DEF Left
  <2>3. \A u \in Left : \A i \in 1..(k - 1) : u # work[i][1]
    BY <1>4 DEF Left, OnTheWay
  <2>4. \A u \in Left : u # v /\ low'[u] = low[u]
    BY <1>2, <1>3, <2>2, <2>3
  <2> QED
    BY <2>1, <2>2, <2>4
<1>10. k # 1
  <2> SUFFICES ASSUME k = 1 PROVE FALSE
    OBVIOUS
  <2>1. index[x] < index[v] /\ x \in Met
    BY <1>2, <1>5, <1>6
  <2>2. CASE x \in Left
    <3>1. PICK i \in DOMAIN work : Above(i, x)
      BY <2>2 DEF CyclesInv, LeftBelow
    <3>2. i = k
      BY <1>2, <3>1
    <3>3. index[v] < index[x]
      BY <1>2, <3>1, <3>2 DEF Above
    <3> QED
      BY <1>2, <2>1, <3>3
  <2>3. CASE x \in OnTheWay
    <3>1. PICK i \in DOMAIN work : work[i][1] = x
      BY <2>3 DEF OnTheWay
    <3>2. i = k
      BY <1>2, <3>1
    <3> QED
      BY <1>2, <2>1, <3>1, <3>2
  <2> QED
    BY <1>5, <2>2, <2>3 DEF Left
<1>11. /\ k - 1 \in 1..(k - 1) /\ k - 1 \in DOMAIN work /\ p \in Met /\ p \in Opened /\ p # v
       /\ index[p] < index[v] /\ v \in Ahead(p)
       /\ low'[p] <= link /\ low'[p] \in {low[p], link}
  <2>1. k - 1 \in 1..(k - 1) /\ k - 1 \in DOMAIN work /\ k - 1 < k /\ (k - 1) + 1 = k
    BY <1>2, <1>4, <1>10
  <2>2. v \in Ahead(p)
    BY <1>1, <1>2, <2>1 DEF WayInOrder
  <2> QED
    BY <1>2, <1>3, <2>1, <2>2
<1> HIDE DEF k, p
<1>12. CyclesShape'
  BY <1>1, <1>3, <1>4 DEF CyclesShape
<1>13. StackInOrder'
  BY <1>1, <1>3 DEF StackInOrder
<1>14. WayInOrder'
  <2>1. ASSUME NEW i \in 1..(k - 1), i < k - 1
        PROVE  work'[i + 1][1] \in Ahead(work'[i][1])
    <3>1. i + 1 \in 1..(k - 1) /\ i \in DOMAIN work /\ i < k
      BY <1>2, <1>4, <2>1
    <3> QED
      BY <1>1, <1>3, <3>1 DEF WayInOrder, k
  <2>2. \A i \in 1..(k - 1) : work'[i][1] \in Opened
    BY <1>2, <1>3, <1>4
  <2>3. \A i, j \in 1..(k - 1) : i < j /\ work'[j][1] \in Met =>
          index[work'[i][1]] < index[work'[j][1]]
    BY <1>1, <1>3, <1>4 DEF WayInOrder
  <2> QED
    BY <1>3, <1>4, <1>9, <2>1, <2>2, <2>3, EdgesStay DEF WayInOrder
<1>15. ScannedAreMet'
  <2>1. Ahead(v) \subseteq Met
    BY <1>7, <1>8
  <2>2. \A u \in Left \cup {v} : Ahead(u) \subseteq Met
    BY <1>1, <2>1 DEF ScannedAreMet
  <2>3. \A i \in 1..(k - 1) :
          /\ work'[i][2] - 1 <= Len(adj[work'[i][1]])
          /\ \A j \in 1..(work'[i][2] - 1) : adj[work'[i][1]][j] \in Met
    <3> SUFFICES ASSUME NEW i \in 1..(k - 1)
                 PROVE  /\ work[i][2] - 1 <= Len(adj[work[i][1]])
                        /\ \A j \in 1..(work[i][2] - 1) : adj[work[i][1]][j] \in Met
      BY <1>3
    <3>1. i \in DOMAIN work
      BY <1>4
    <3>2. work[Len(work)][1] \in Met
      BY <1>2 DEF k
    <3> QED
      BY <1>1, <3>1, <3>2 DEF ScannedAreMet
  <2> QED
    BY <1>3, <1>4, <1>9, <2>2, <2>3, EdgesStay DEF ScannedAreMet
<1>16. GoneForGood'
  BY <1>1, <1>3, <1>9, EdgesStay DEF GoneForGood
<1>17. WayLeads'
  <2>1. \A i \in 1..(k - 1) : \A w \in Opened :
          work'[i][1] \in Met /\ index[work'[i][1]] <= index[w] => Leads(work'[i][1], w)
    BY <1>3, <1>4 DEF CyclesInv, WayLeads
  <2> QED
    BY <1>3, <1>4, <1>9, <2>1, EdgesStay DEF WayLeads
<1>18. LinksReach'
  <2> SUFFICES ASSUME NEW u \in Opened PROVE \E y \in Opened : low'[u] = index[y] /\ Leads(u, y)
    BY <1>3, <1>9, EdgesStay DEF LinksReach
  <2>1. CASE u = v
    BY <1>3, <1>5, <2>1
  <2>2. CASE u = p /\ low'[p] = link
    <3>1. Leads(p, x)
      BY <1>5, <1>11, LeadingOn
    <3> QED
      BY <1>5, <2>2, <3>1
  <2>3. CASE low'[u] = low[u]
    BY <2>3 DEF CyclesInv, LinksReach
  <2>4. u # v /\ u # p => low'[u] = low[u]
    BY <1>2, <1>3 DEF p
  <2>5. u = p => low'[u] = low[u] \/ low'[p] = link
    BY <1>11
  <2> QED
    BY <2>1, <2>2, <2>3, <2>4, <2>5
<1>19. LinksLeave'
  <2>1. \A u \in Left \cup {v} : low'[u] < index[u]
    BY <1>3, <1>6, <1>9 DEF CyclesInv, LinksLeave
  <2> QED
    BY <1>3, <1>9, <2>1 DEF LinksLeave
<1>20. LinksBound'
  <2>1. \A y \in Ahead(v) \cap Opened : low'[v] <= index[y]
    BY <1>3, <1>7, <1>8
  <2>2. \A u \in Left : \A y \in Ahead(u) \cap Opened : low'[u] <= index[y]
    BY <1>9 DEF CyclesInv, LinksBound
  <2>3. ASSUME NEW i \in 1..(k - 1), NEW j \in 1..(work'[i][2] - 1), adj[work'[i][1]][j] \in Opened
        PROVE  low'[work'[i][1]] <= index[adj[work'[i][1]][j]]
    <3> DEFINE u == work[i][1]
               y == adj[u][j]
    <3>1. work'[i] = work[i] /\ i \in DOMAIN work /\ u \in Met
      BY <1>2, <1>3, <1>4
    <3>2. y \in Opened /\ low[u] <= index[y]
      BY <2>3, <3>1 DEF CyclesInv, LinksBound
    <3>3. low'[u] \in Nat /\ low[u] \in Nat /\ index[y] \in Nat /\ low'[u] <= low[u]
      BY <1>2, <1>3, <3>1, <3>2
    <3> HIDE DEF u, y
    <3>4. low'[u] <= index[y]
      BY <3>2, <3>3
    <3> QED
      BY <3>1, <3>4 DEF u, y
  <2>4. \A u \in Left \cup {v} : \A y \in Ahead(u) \cap Opened : low'[u] <= index[y]
    BY <2>1, <2>2
  <2> QED
    BY <1>3, <1>9, <2>3, <2>4, EdgesStay DEF LinksBound
<1>21. LeftBelow'
  <2> SUFFICES ASSUME NEW w \in Left \cup {v} PROVE \E i \in 1..(k - 1) : Above(i, w)'
    BY <1>3, <1>9 DEF LeftBelow
  <2>1. ASSUME w \in Met, index[v] <= index[w], link <= low'[w]
        PROVE  \E i \in 1..(k - 1) : Above(i, w)'
    <3> PICK h \in 1..(k - 1) : h = k - 1
      BY <1>11
    <3>1. work'[h][1] = p /\ Met' = Met
      BY <1>3, <1>4, <1>11 DEF p
    <3>2. index[p] < index[w] /\ low'[p] <= low'[w]
      <4>1. index[p] \in Nat /\ index[v] \in Nat /\ index[w] \in Nat /\ low'[p] \in Nat
            /\ low'[w] \in Nat
        BY <1>2, <1>3, <1>11, <2>1
      <4> QED
        BY <1>2, <1>11, <2>1, <4>1
    <3>3. \A j \in 1..(k - 1) : ~(j > h)
      BY <1>2
    <3>4. Above(h, w)'
      BY <1>3, <1>11, <3>1, <3>2, <3>3 DEF Above
    <3> QED
      BY <3>4
  <2>2. CASE w = v
    BY <1>2, <1>3, <2>1, <2>2
  <2>3. CASE w \in Left
    <3>1. w \in Met /\ low'[w] = low[w]
      BY <1>2, <1>9, <2>3
    <3>2. PICK i \in DOMAIN work : Above(i, w)
      BY <2>3 DEF CyclesInv, LeftBelow
    <3>3. CASE i = k
      <4>1. index[v] < index[w] /\ low[v] <= low[w]
        BY <1>2, <3>2, <3>3 DEF Above
      <4>2. index[v] <= index[w] /\ link <= low[w]
        <5>1. index[v] \in Nat /\ index[w] \in Nat /\ low[v] \in Nat /\ low[w] \in Nat
          BY <1>2, <3>1
        <5> QED
          BY <1>2, <4>1, <5>1
      <4> QED
        BY <2>1, <3>1, <4>2
    <3>4. CASE i # k
      <4>1. i \in 1..(k - 1)
        BY <1>2, <3>2, <3>4
      <4>2. work[i][1] \in Met /\ work'[i][1] = work[i][1]
        BY <1>2, <1>3, <1>4, <4>1
      <4>3. low'[work[i][1]] <= low[w]
        <5>1. low[work[i][1]] <= low[w]
          BY <3>2 DEF Above
        <5>2. low'[work[i][1]] \in Nat /\ low[work[i][1]] \in Nat /\ low[w] \in Nat
              /\ low'[work[i][1]] <= low[work[i][1]]
          BY <1>2, <1>3, <3>1, <4>2
        <5> QED
          BY <5>1, <5>2
      <4>4. \A j \in 1..(k - 1) : j > i => index[w] < index[work'[j][1]]
        BY <1>2, <1>3, <1>4, <3>2 DEF Above
      <4>5. Above(i, w)'
        BY <1>3, <1>4, <3>1, <3>2, <4>2, <4>3, <4>4 DEF Above
      <4> QED
        BY <4>1, <4>5
    <3> QED
      BY <3>3, <3>4
  <2> QED
    BY <2>2, <2>3
<1> QED
  BY <1>4, <1>12, <1>13, <1>14, <1>15, <1>16, <1>17, <1>18, <1>19, <1>20, <1>21 DEF CyclesInv

(* A root takes its component with it.                                     *)
LEMMA RootKept ==
  ASSUME CyclesInv, NEW v, NEW from \in DOMAIN stack, Scan(v, Len(adj[v]), index[v]),
         Finished(v, index[v]), stack[from] = v,
         stack' = SubSeq(stack, 1, from - 1),
         cyclic' = IF Cardinality({stack[i] : i \in from..Len(stack)}) > 1
                   THEN cyclic \cup {stack[i] : i \in from..Len(stack)} ELSE cyclic
  PROVE  CyclesInv'
<1> DEFINE k == Len(work)
           C == OpenFrom(v)
<1>1. CyclesShape /\ Numbered /\ StackInOrder /\ WayInOrder /\ ScannedAreMet /\ GoneForGood
  BY DEF CyclesInv
<1>2. /\ k \in Nat \ {0} /\ v = work[k][1] /\ DOMAIN work = 1..k /\ k \in DOMAIN work
      /\ v \in Opened /\ v \in Vertices /\ v \in Met
      /\ \A i \in DOMAIN work : work[i][1] \in Opened /\ work[i][1] \in Met
      /\ \A i \in DOMAIN work : i < k => index[work[i][1]] < index[v]
      /\ \A u \in Met : index[u] \in Nat /\ low[u] \in Nat /\ low[u] <= index[u]
      /\ Opened \subseteq Met /\ Left \subseteq Opened
  <2>1. k \in Nat \ {0} /\ v = work[k][1] /\ v \in Opened
    BY DEF Scan
  <2>2. DOMAIN work = 1..k /\ Opened \subseteq Met /\ Left \subseteq Opened
    BY <1>1, OnTheStack
  <2>3. /\ k \in DOMAIN work /\ v \in Vertices /\ v \in Met
        /\ \A i \in DOMAIN work : work[i][1] \in Opened /\ work[i][1] \in Met
        /\ \A i \in DOMAIN work : i < k => index[work[i][1]] < index[v]
        /\ \A u \in Met : index[u] \in Nat /\ low[u] \in Nat /\ low[u] <= index[u]
    BY TheWay
  <2> QED
    BY <2>1, <2>2, <2>3
<1>3. /\ adj' = adj /\ index' = index
      /\ work' \in Seq(Vertices \X (Nat \ {0}))
      /\ DOMAIN work' = 1..(k - 1) /\ Len(work') = k - 1
      /\ \A i \in 1..(k - 1) : work'[i] = work[i]
      /\ low' \in [Met -> Nat]
      /\ \A u \in Met : low'[u] <= low[u]
      /\ \A u \in Met : u # v /\ (\A i \in 1..(k - 1) : i = k - 1 => u # work[i][1]) =>
           low'[u] = low[u]
      /\ \A i \in 1..(k - 1) : i = k - 1 =>
           low'[work[i][1]] <= index[v] /\ low'[work[i][1]] \in {low[work[i][1]], index[v]}
  BY DEF Finished
<1>4. /\ Met' = Met /\ Vertices' = Vertices /\ OnTheWay = OnTheWay' \cup {v} /\ v \notin OnTheWay'
      /\ Numbered' /\ \A i \in 1..(k - 1) : i \in DOMAIN work /\ i < k
  <2>1. /\ Met' = Met /\ Vertices' = Vertices /\ OnTheWay = OnTheWay' \cup {v} /\ v \notin OnTheWay'
        /\ Numbered' /\ \A i \in 1..(k - 1) : i \in DOMAIN work
    BY FinishedWay
  <2> QED
    BY <1>2, <2>1
<1>5. /\ Shut(Gone \cup C) /\ C \ {v} \subseteq Left
      /\ Cardinality(C) > 1 => \A w \in C : Loops(w)
      /\ ~(Cardinality(C) > 1) => \A w \in C : ~Loops(w)
  BY Rooted
<1>6. /\ C \subseteq Opened /\ v \in C
      /\ \A w \in Opened : w \in C \/ index[w] < index[v]
      /\ \A w \in C : ~(index[w] < index[v])
  BY <1>2 DEF OpenFrom
<1> HIDE DEF C, k
<1>7. /\ stack \in Seq(Met) /\ DOMAIN stack = 1..Len(stack) /\ Len(stack) \in Nat
      /\ from \in 1..Len(stack)
      /\ Opened = {stack[i] : i \in 1..Len(stack)}
      /\ \A i \in 1..Len(stack) : stack[i] \in Met /\ stack[i] \in Opened
  BY <1>1, <1>2, OnTheStack DEF Opened, Range, CyclesShape
<1>8. /\ stack' \in Seq(Met) /\ Len(stack') = from - 1 /\ DOMAIN stack' = 1..(from - 1)
      /\ \A i \in 1..(from - 1) : stack'[i] = stack[i] /\ i \in 1..Len(stack) /\ i < from
  <2>1. from - 1 \in 0..Len(stack) /\ stack \in Seq(Met)
    BY <1>7
  <2>2. /\ SubSeq(stack, 1, from - 1) \in Seq(Met) /\ Len(SubSeq(stack, 1, from - 1)) = from - 1
        /\ DOMAIN SubSeq(stack, 1, from - 1) = 1..(from - 1)
        /\ \A i \in 1..(from - 1) : SubSeq(stack, 1, from - 1)[i] = stack[i]
    BY <2>1
  <2>3. \A i \in 1..(from - 1) : i \in 1..Len(stack) /\ i < from
    BY <1>7
  <2> QED
    BY <2>2, <2>3
<1>9. \A i \in 1..Len(stack) : stack[i] \in C <=> from <= i
  <2> SUFFICES ASSUME NEW i \in 1..Len(stack) PROVE stack[i] \in C <=> from <= i
    OBVIOUS
  <2>1. CASE i < from
    <3>1. index[stack[i]] < index[v]
      BY <1>1, <1>7, <2>1 DEF StackInOrder
    <3>2. stack[i] \notin C
      BY <1>6, <3>1
    <3> QED
      BY <1>7, <2>1, <3>2
  <2>2. CASE i = from
    BY <1>6, <1>7, <2>2
  <2>3. CASE i > from
    <3>1. index[v] < index[stack[i]]
      BY <1>1, <1>7, <2>3 DEF StackInOrder
    <3>2. stack[i] \in C
      <4>1. index[v] \in Nat /\ index[stack[i]] \in Nat /\ stack[i] \in Opened
        BY <1>2, <1>7
      <4>2. ~(index[stack[i]] < index[v])
        BY <3>1, <4>1
      <4> QED
        BY <1>6, <4>1, <4>2
    <3> QED
      BY <1>7, <2>3, <3>2
  <2> QED
    BY <1>7, <2>1, <2>2, <2>3
<1>10. {stack[i] : i \in from..Len(stack)} = C
  <2>1. \A i \in from..Len(stack) : i \in 1..Len(stack) /\ from <= i
    BY <1>7
  <2>2. \A i \in 1..Len(stack) : from <= i => i \in from..Len(stack)
    BY <1>7
  <2>3. {stack[i] : i \in from..Len(stack)} \subseteq C
    BY <1>9, <2>1
  <2>4. C \subseteq {stack[i] : i \in from..Len(stack)}
    BY <1>6, <1>7, <1>9, <2>2
  <2> QED
    BY <2>3, <2>4
<1>11. cyclic' = IF Cardinality(C) > 1 THEN cyclic \cup C ELSE cyclic
  BY <1>10
<1>12. Opened' = Opened \ C
  <2>1. Opened' = {stack[i] : i \in 1..(from - 1)}
    BY <1>8 DEF Opened, Range
  <2>2. Opened' \subseteq Opened \ C
    BY <1>7, <1>8, <1>9, <2>1
  <2>3. \A i \in 1..Len(stack) : ~(from <= i) => i \in 1..(from - 1)
    BY <1>7
  <2>4. Opened \ C \subseteq Opened'
    BY <1>7, <1>9, <2>1, <2>3
  <2> QED
    BY <2>2, <2>4
<1>13. /\ Gone' = Gone \cup C /\ Left' = Left \ C /\ Left' \subseteq Left /\ Left' \subseteq Opened'
       /\ Opened' \subseteq Opened
  <2>1. Gone' = Gone \cup C
    BY <1>2, <1>4, <1>6, <1>12 DEF Gone
  <2>2. Left' = Left \ C
    BY <1>4, <1>6, <1>12 DEF Left
  <2> QED
    BY <1>2, <1>12, <2>1, <2>2
<1>14. ASSUME NEW u \in Opened'
       PROVE  u \in Opened /\ u \in Met /\ u # v /\ index[u] < index[v] /\ low'[u] = low[u]
  <2>1. u \in Opened /\ u \in Met /\ u # v /\ index[u] < index[v]
    BY <1>2, <1>6, <1>12
  <2>2. low[u] < index[v] /\ low'[u] <= low[u] /\ low'[u] \in Nat /\ low[u] \in Nat
        /\ index[v] \in Nat
    <3>1. low[u] \in Nat /\ index[u] \in Nat /\ index[v] \in Nat /\ low[u] <= index[u]
      BY <1>2, <2>1
    <3> QED
      BY <1>3, <2>1, <3>1
  <2>3. ASSUME NEW i \in 1..(k - 1), i = k - 1, u = work[i][1] PROVE low'[u] = low[u]
    <3>1. low'[u] \in {low[u], index[v]}
      BY <1>3, <2>3
    <3> QED
      BY <2>2, <3>1
  <2>4. (\A i \in 1..(k - 1) : i = k - 1 => u # work[i][1]) => low'[u] = low[u]
    BY <1>3, <2>1
  <2> QED
    BY <2>1, <2>3, <2>4
<1>15. \A i \in 1..(k - 1) : /\ i \in DOMAIN work /\ i < k /\ work'[i] = work[i]
                             /\ work[i][1] \in Opened' /\ work[i][1] \in Met
  <2> SUFFICES ASSUME NEW i \in 1..(k - 1) PROVE work[i][1] \in Opened'
    BY <1>2, <1>3, <1>4
  <2>1. work[i][1] \in Opened /\ index[work[i][1]] < index[v]
    BY <1>2, <1>4
  <2> QED
    BY <1>6, <1>12, <2>1
<1>16. CyclesShape'
  <2>1. C \subseteq Vertices
    BY <1>1, <1>2, <1>6 DEF CyclesShape
  <2>2. cyclic' \subseteq Vertices
    BY <1>1, <1>11, <2>1 DEF CyclesShape
  <2> QED
    BY <1>1, <1>3, <1>4, <1>8, <2>2 DEF CyclesShape
<1>17. StackInOrder'
  <2>1. \A i, j \in 1..(from - 1) : i < j => index[stack[i]] < index[stack[j]]
    BY <1>1, <1>7, <1>8 DEF StackInOrder
  <2>2. \A i, j \in 1..(from - 1) : i < j => index[stack'[i]] < index[stack'[j]]
    BY <1>8, <2>1
  <2> QED
    BY <1>3, <1>8, <2>2 DEF StackInOrder
<1>18. WayInOrder'
  <2>1. ASSUME NEW i \in 1..(k - 1), i < k - 1
        PROVE  work'[i + 1][1] \in Ahead(work'[i][1])
    <3>1. i + 1 \in 1..(k - 1) /\ i \in DOMAIN work /\ i < k
      BY <1>2, <1>4, <2>1
    <3> QED
      BY <1>1, <1>3, <3>1 DEF WayInOrder, k
  <2>2. \A i \in 1..(k - 1) : work'[i][1] \in Opened'
    BY <1>15
  <2>3. \A i, j \in 1..(k - 1) : i < j /\ work'[j][1] \in Met =>
          index[work'[i][1]] < index[work'[j][1]]
    BY <1>1, <1>15 DEF WayInOrder
  <2> QED
    BY <1>3, <1>4, <2>1, <2>2, <2>3, EdgesStay DEF WayInOrder
<1>19. ScannedAreMet'
  <2>1. \A u \in Left' : Ahead(u) \subseteq Met
    BY <1>1, <1>13 DEF ScannedAreMet
  <2>2. \A i \in 1..(k - 1) :
          /\ work'[i][2] - 1 <= Len(adj[work'[i][1]])
          /\ \A j \in 1..(work'[i][2] - 1) : adj[work'[i][1]][j] \in Met
    <3> SUFFICES ASSUME NEW i \in 1..(k - 1)
                 PROVE  /\ work[i][2] - 1 <= Len(adj[work[i][1]])
                        /\ \A j \in 1..(work[i][2] - 1) : adj[work[i][1]][j] \in Met
      BY <1>3
    <3>1. i \in DOMAIN work
      BY <1>4
    <3>2. work[Len(work)][1] \in Met
      BY <1>2 DEF k
    <3> QED
      BY <1>1, <3>1, <3>2 DEF ScannedAreMet
  <2> QED
    BY <1>3, <1>4, <2>1, <2>2, EdgesStay DEF ScannedAreMet
<1>20. GoneForGood'
  <2>1. cyclic' = {u \in Gone \cup C : Loops(u)}
    <3>1. cyclic = {u \in Gone : Loops(u)}
      BY <1>1 DEF GoneForGood
    <3>2. CASE Cardinality(C) > 1
      <4>1. cyclic' = cyclic \cup C /\ \A w \in C : Loops(w)
        BY <1>5, <1>11, <3>2
      <4> QED
        BY <3>1, <4>1
    <3>3. CASE ~(Cardinality(C) > 1)
      <4>1. cyclic' = cyclic /\ \A w \in C : ~Loops(w)
        BY <1>5, <1>11, <3>3
      <4> QED
        BY <3>1, <4>1
    <3> QED
      BY <3>2, <3>3
  <2> QED
    BY <1>3, <1>5, <1>13, <2>1, EdgesStay DEF GoneForGood
<1>21. WayLeads'
  <2>1. \A i \in 1..(k - 1) : \A w \in Opened' :
          work'[i][1] \in Met /\ index[work'[i][1]] <= index[w] => Leads(work'[i][1], w)
    BY <1>13, <1>15 DEF CyclesInv, WayLeads
  <2> QED
    BY <1>3, <1>4, <2>1, EdgesStay DEF WayLeads
<1>22. LinksReach'
  <2> SUFFICES ASSUME NEW u \in Opened' PROVE \E y \in Opened' : low'[u] = index[y] /\ Leads(u, y)
    BY <1>3, EdgesStay DEF LinksReach
  <2>1. u \in Opened /\ u \in Met /\ index[u] < index[v] /\ low'[u] = low[u]
    BY <1>14
  <2>2. PICK y \in Opened : low[u] = index[y] /\ Leads(u, y)
    BY <2>1 DEF CyclesInv, LinksReach
  <2>3. index[y] < index[v]
    <3>1. low[u] <= index[u] /\ low[u] \in Nat /\ index[u] \in Nat /\ index[v] \in Nat
      BY <1>2, <2>1
    <3> QED
      BY <2>1, <2>2, <3>1
  <2>4. y \in Opened'
    BY <1>6, <1>12, <2>3
  <2> QED
    BY <2>1, <2>2, <2>4
<1>23. LinksLeave'
  <2>1. \A u \in Left' : low'[u] < index[u]
    BY <1>13, <1>14 DEF CyclesInv, LinksLeave
  <2> QED
    BY <1>3, <2>1 DEF LinksLeave
<1>24. LinksBound'
  <2>1. \A u \in Left' : \A y \in Ahead(u) \cap Opened' : low'[u] <= index[y]
    BY <1>13, <1>14 DEF CyclesInv, LinksBound
  <2>2. ASSUME NEW i \in 1..(k - 1), NEW j \in 1..(work'[i][2] - 1), adj[work'[i][1]][j] \in Opened'
        PROVE  low'[work'[i][1]] <= index[adj[work'[i][1]][j]]
    <3> DEFINE u == work[i][1]
               y == adj[u][j]
    <3>1. work'[i] = work[i] /\ i \in DOMAIN work /\ low'[u] = low[u]
      BY <1>14, <1>15
    <3>2. low[u] <= index[y]
      BY <1>13, <2>2, <3>1 DEF CyclesInv, LinksBound
    <3> QED
      BY <3>1, <3>2
  <2> QED
    BY <1>3, <2>1, <2>2, EdgesStay DEF LinksBound
<1>25. LeftBelow'
  <2> SUFFICES ASSUME NEW w \in Left' PROVE \E i \in 1..(k - 1) : Above(i, w)'
    BY <1>3 DEF LeftBelow
  <2>1. w \in Left /\ w \in Met /\ index[w] < index[v] /\ low'[w] = low[w]
    BY <1>13, <1>14
  <2>2. PICK i \in DOMAIN work : Above(i, w)
    BY <2>1 DEF CyclesInv, LeftBelow
  <2>3. i # k
    <3> SUFFICES ASSUME i = k PROVE FALSE
      OBVIOUS
    <3>1. index[v] < index[w]
      BY <1>2, <2>2 DEF Above
    <3> QED
      BY <1>2, <2>1, <3>1
  <2>4. i \in 1..(k - 1)
    BY <1>2, <2>2, <2>3
  <2>5. work'[i][1] = work[i][1] /\ work[i][1] \in Met /\ low'[work[i][1]] = low[work[i][1]]
    BY <1>14, <1>15, <2>4
  <2>6. \A j \in 1..(k - 1) : j > i => index[w] < index[work'[j][1]]
    BY <1>15, <2>2 DEF Above
  <2>7. Above(i, w)'
    BY <1>3, <1>4, <2>1, <2>2, <2>5, <2>6 DEF Above
  <2> QED
    BY <2>4, <2>7
<1> QED
  BY <1>4, <1>16, <1>17, <1>18, <1>19, <1>20, <1>21, <1>22, <1>23, <1>24, <1>25 DEF CyclesInv

(* At the end of its neighbours a file is left, or taken off as a root.    *)
LEMMA FinishKept == ASSUME CyclesInv, Finish PROVE CyclesInv'
<1>1. PICK v, link :
        /\ Scan(v, Len(adj[v]), link) /\ Finished(v, link)
        /\ link # index[v] => stack' = stack /\ cyclic' = cyclic
        /\ link = index[v] =>
             \E from \in DOMAIN stack :
               /\ stack[from] = v
               /\ stack' = SubSeq(stack, 1, from - 1)
               /\ cyclic' = IF Cardinality({stack[i] : i \in from..Len(stack)}) > 1
                            THEN cyclic \cup {stack[i] : i \in from..Len(stack)} ELSE cyclic
  BY Finishing
<1>2. CASE link # index[v]
  BY <1>1, <1>2, LeaveKept
<1>3. CASE link = index[v]
  <2>1. PICK from \in DOMAIN stack :
          /\ stack[from] = v
          /\ stack' = SubSeq(stack, 1, from - 1)
          /\ cyclic' = IF Cardinality({stack[i] : i \in from..Len(stack)}) > 1
                       THEN cyclic \cup {stack[i] : i \in from..Len(stack)} ELSE cyclic
    BY <1>1, <1>3
  <2> QED
    BY <1>1, <1>3, <2>1, RootKept
<1> QED
  BY <1>2, <1>3

(* Every step of the search keeps the invariant.                           *)
LEMMA CyclesKept == CyclesInv /\ [CyclesNext]_searching => CyclesInv'
<1> SUFFICES ASSUME CyclesInv, [CyclesNext]_searching PROVE CyclesInv'
  OBVIOUS
<1>1. CASE Start
  BY <1>1, StartKept
<1>2. CASE Meet
  BY <1>2, MeetKept
<1>3. CASE Descend
  BY <1>3, DescendKept
<1>4. CASE Finish
  BY <1>4, FinishKept
<1>5. CASE UNCHANGED searching
  <2>1. /\ adj' = adj /\ index' = index /\ low' = low /\ stack' = stack /\ work' = work
        /\ cyclic' = cyclic
    BY <1>5 DEF searching
  <2>2. /\ Met' = Met /\ Opened' = Opened /\ OnTheWay' = OnTheWay /\ Left' = Left /\ Gone' = Gone
        /\ Vertices' = Vertices
    BY <2>1 DEF Met, Opened, OnTheWay, Left, Gone, Vertices
  <2>3. CyclesShape' /\ Numbered' /\ StackInOrder'
    BY <2>1, <2>2 DEF CyclesInv, CyclesShape, Numbered, StackInOrder
  <2>4. WayInOrder' /\ ScannedAreMet'
    BY <2>1, <2>2, EdgesStay DEF CyclesInv, WayInOrder, ScannedAreMet
  <2>5. GoneForGood' /\ WayLeads' /\ LinksReach'
    BY <2>1, <2>2, EdgesStay DEF CyclesInv, GoneForGood, WayLeads, LinksReach
  <2>6. LinksLeave' /\ LinksBound' /\ LeftBelow'
    BY <2>1, <2>2, EdgesStay DEF CyclesInv, LinksLeave, LinksBound, LeftBelow, Above
  <2> QED
    BY <2>3, <2>4, <2>5, <2>6 DEF CyclesInv
<1> QED
  BY <1>1, <1>2, <1>3, <1>4, <1>5 DEF CyclesNext

(* When all files are met and none is open, every component is closed.     *)
LEMMA CyclesAreFound == CyclesInv => FindsTheCycles
<1> SUFFICES ASSUME CyclesInv, work = <<>>, Linked \subseteq Met
             PROVE  cyclic = {v \in Linked : v \in Reaches(v)}
  BY DEF FindsTheCycles, Met
<1>1. CyclesShape /\ GoneForGood /\ Gone = Met
  BY NothingOpen DEF CyclesInv
<1>2. cyclic = {v \in Met : Loops(v)} /\ Met \subseteq Vertices
  BY <1>1 DEF GoneForGood, CyclesShape
<1>3. \A v \in Vertices : v \in Reaches(v) <=> Loops(v)
  BY <1>1, LoopsAreReached DEF CyclesShape
<1>4. ASSUME NEW v \in Vertices, Loops(v) PROVE v \in Linked
  <2>1. Ahead(v) # {}
    <3> SUFFICES ASSUME Ahead(v) = {} PROVE FALSE
      OBVIOUS
    <3>1. {} \in SUBSET Vertices /\ Shut({}) /\ Ahead(v) \subseteq {}
      BY DEF Shut
    <3> QED
      BY <1>4, <3>1 DEF Loops
  <2>2. adj[v] # <<>>
    BY <2>1 DEF Ahead, Range
  <2> QED
    BY <2>2 DEF Linked, Vertices
<1>5. Linked \subseteq Vertices
  BY DEF Linked, Vertices
<1> QED
  BY <1>2, <1>3, <1>4, <1>5

(* For every graph without an edge from a file to itself and whatever the  *)
(* order of its edges, the search ends with just the files that reach      *)
(* themselves.                                                             *)
THEOREM CyclesAreWhatReachesItself == CyclesSpec => []FindsTheCycles
<1>1. CyclesSpec => []CyclesInv
  BY CyclesStart, CyclesKept, PTL DEF CyclesSpec
<1> QED
  BY <1>1, CyclesAreFound, PTL

--------------------------------------------------------------------------------
(*****************************************************************************)
(* Continuity                                                                *)
(*****************************************************************************)

(* Where an analysis is once the version is known to be trusted, and once  *)
(* the tree before is known to be of it.                                   *)
TrustedFrom ==
  {"init before", "status before", "version after", "init after", "status after", "compare"}
BuiltFrom == {"version after", "init after", "status after", "compare"}

(* The engine only moves on, so that one found to be of the version        *)
(* measured was of it since the measurement, whenever a tree was indexed.  *)
VersionInv ==
  /\ engine \in Engines \cup {None}
  /\ known \in Engines \cup {None}
  /\ known # None => engine \in Engines /\ known <= engine

AnalysisFields == {"at", "late", "version", "file", "before", "after", "status", "hit", "retry"}

TreesInv ==
  /\ DOMAIN call = AnalysisFields
  /\ call.version \in {None, known}
  /\ call.at \in TrustedFrom => known \in Accepted /\ known \in Engines
  /\ call.at = "status before" =>
       call.before \in Engines /\ known <= call.before /\ call.before <= engine
  /\ call.at \in BuiltFrom => call.before = known
  /\ call.at = "status after" =>
       call.after \in Engines /\ known <= call.after /\ call.after <= engine
  /\ call.at = "compare" => call.after = known
  /\ call.at # "done" => ~call.hit

(* Only the comparison of the two graphs answers that users are served.    *)
ProvedInv ==
  Proved =>
    /\ ~call.hit /\ Continuous(edit)
    /\ known \in Accepted /\ known \in Engines
    /\ call.before = known /\ call.after = known

ContinuityInv == edit \in Edits /\ VersionInv /\ TreesInv /\ ProvedInv

--------------------------------------------------------------------------------
(* Where it all starts.                                                    *)
LEMMA ContinuityStarts == ContinuityInit => ContinuityInv
BY DEF ContinuityInit, ContinuityInv, VersionInv, TreesInv, ProvedInv, Proved, Idle, AnalysisFields,
       TrustedFrom, BuiltFrom

(* A version, once measured, is kept, and the engine moves past it only to *)
(* a later one.                                                            *)
LEMMA VersionKept ==
  ASSUME VersionInv,
         \/ UNCHANGED <<engine, known>>
         \/ Upgrade
         \/ engine' = engine /\ engine # None /\ known' = IF known = None THEN engine ELSE known
  PROVE  /\ VersionInv'
         /\ known # None => known' = known
         /\ engine \in Engines => engine' \in Engines /\ engine <= engine'
<1>1. CASE UNCHANGED <<engine, known>>
  BY <1>1, EnginesAssumption DEF VersionInv
<1>2. CASE Upgrade
  <2>1. engine' \in Engines /\ (engine \in Engines => engine' > engine) /\ known' = known
    BY <1>2 DEF Upgrade
  <2>2. engine \in Engines => engine <= engine'
    BY <2>1, EnginesAssumption
  <2>3. known # None => known <= engine'
    BY <2>1, <2>2, EnginesAssumption DEF VersionInv
  <2> QED
    BY <2>1, <2>2, <2>3 DEF VersionInv
<1>3. CASE engine' = engine /\ engine # None /\ known' = IF known = None THEN engine ELSE known
  <2>1. CASE known = None
    BY <1>3, <2>1, EnginesAssumption DEF VersionInv
  <2>2. CASE known # None
    BY <1>3, <2>2, EnginesAssumption DEF VersionInv
  <2> QED
    BY <2>1, <2>2
<1> QED
  BY <1>1, <1>2, <1>3

(* A tree indexed since the measurement by an engine found to be of the    *)
(* version measured was indexed by that version.                           *)
LEMMA SameVersion ==
  ASSUME NEW v \in Engines, NEW w \in Engines, v <= w, w <= v
  PROVE  v = w
BY EnginesAssumption

(* The analysis rests while the world moves.                               *)
LEMMA AnalysisRests ==
  ASSUME ContinuityInv, VersionInv', edit' = edit, call' = call, known # None => known' = known,
         engine \in Engines => engine' \in Engines /\ engine <= engine'
  PROVE  ContinuityInv'
<1>1. TreesInv'
  <2>1. ASSUME NEW v \in Engines, v <= engine, engine \in Engines PROVE v <= engine'
    <3>1. engine' \in Engines /\ engine <= engine'
      BY <2>1
    <3> QED
      BY <2>1, <3>1, EnginesAssumption
  <2>2. /\ call.at = "status before" => call.before <= engine'
        /\ call.at = "status after" => call.after <= engine'
    <3>1. call.at \in TrustedFrom => engine \in Engines
      BY EnginesAssumption DEF ContinuityInv, TreesInv, VersionInv
    <3> QED
      BY <2>1, <3>1 DEF ContinuityInv, TreesInv, TrustedFrom
  <2>3. call.at \in TrustedFrom => known' = known
    BY EnginesAssumption DEF ContinuityInv, TreesInv
  <2>4. call.version \in {None, known'}
    BY DEF ContinuityInv, TreesInv
  <2> QED
    BY <2>1, <2>2, <2>3, <2>4 DEF ContinuityInv, TreesInv, TrustedFrom, BuiltFrom
<1>2. ProvedInv'
  BY EnginesAssumption DEF ContinuityInv, ProvedInv, Proved
<1> QED
  BY <1>1, <1>2 DEF ContinuityInv

(* Every step keeps it so.                                                 *)
LEMMA ContinuityKept == ContinuityInv /\ [ContinuityNext]_analysing => ContinuityInv'
<1> SUFFICES ASSUME ContinuityInv, [ContinuityNext]_analysing PROVE ContinuityInv'
  OBVIOUS
<1> USE EnginesAssumption DEF ContinuityInv
<1>1. CASE Upgrade
  BY <1>1, VersionKept, AnalysisRests DEF Upgrade
<1>2. CASE OtherMeasures
  BY <1>2, VersionKept, AnalysisRests DEF OtherMeasures
<1>3. CASE Overdue
  BY <1>3 DEF Overdue, VersionInv, TreesInv, ProvedInv, Proved, AnalysisFields
<1>4. CASE Begin
  <2>1. /\ edit' = edit /\ engine' = engine /\ known' = known
        /\ call' = Done("not_applicable", FALSE) \/ Goes("context")
    BY <1>4 DEF Begin
  <2>2. CASE call' = Done("not_applicable", FALSE)
    BY <2>1, <2>2
    DEF Done, VersionInv, TreesInv, ProvedInv, Proved, AnalysisFields, TrustedFrom, BuiltFrom
  <2>3. CASE Goes("context")
    BY <1>4, <2>1, <2>3
    DEF Begin, Goes, VersionInv, TreesInv, ProvedInv, Proved, AnalysisFields, TrustedFrom, BuiltFrom
  <2> QED
    BY <2>1, <2>2, <2>3
<1>5. CASE ReadContext
  <2>1. /\ edit' = edit /\ engine' = engine /\ known' = known
        /\ (\E retry \in BOOLEAN : call' = Done("unavailable", retry)) \/ Goes("patch")
    BY <1>5 DEF ReadContext
  <2>2. ASSUME NEW retry \in BOOLEAN, call' = Done("unavailable", retry) PROVE ContinuityInv'
    BY <2>1, <2>2
    DEF Done, VersionInv, TreesInv, ProvedInv, Proved, AnalysisFields, TrustedFrom, BuiltFrom
  <2>3. CASE Goes("patch")
    BY <1>5, <2>1, <2>3
    DEF ReadContext, Goes, VersionInv, TreesInv, ProvedInv, Proved,
        AnalysisFields, TrustedFrom, BuiltFrom
  <2> QED
    BY <2>1, <2>2, <2>3
<1>6. CASE Materialize
  BY <1>6
  DEF Materialize, Done, Goes, VersionInv, TreesInv, ProvedInv, Proved,
      AnalysisFields, TrustedFrom, BuiltFrom
<1>7. CASE Identify
  <2>1. edit' = edit /\ engine' = engine
        /\ \/ engine # None /\ known' = IF known = None THEN engine ELSE known
           \/ known' = known
    BY <1>7 DEF Identify, Measure
  <2>2. VersionInv' /\ (known # None => known' = known)
    BY <2>1, VersionKept
  <2>3. /\ call'.version \in {None, known'} /\ call'.at = "lookup"
        /\ ~call'.hit /\ DOMAIN call' = AnalysisFields
    BY <1>7, <2>2 DEF Identify, Goes, TreesInv, AnalysisFields
  <2> QED
    BY <2>1, <2>2, <2>3 DEF TreesInv, TrustedFrom, BuiltFrom, ProvedInv, Proved
<1>8. CASE LookUp
  BY <1>8
  DEF LookUp, Trustworthy, Done, Goes, VersionInv, TreesInv, ProvedInv, Proved,
      AnalysisFields, TrustedFrom, BuiltFrom
<1>9. CASE NeedVersion("version before", "init before")
  <2>1. edit' = edit /\ engine' = engine
        /\ \/ engine # None /\ known' = IF known = None THEN engine ELSE known
           \/ known' = known
    BY <1>9 DEF NeedVersion, Measure
  <2>2. VersionInv' /\ (known # None => known' = known)
    BY <2>1, VersionKept
  <2>3. /\ call'.version = call.version /\ call'.before = call.before /\ call'.after = call.after
        /\ call'.hit = call.hit /\ DOMAIN call' = AnalysisFields /\ call.at = "version before"
        /\ \/ call'.at = "done" /\ call'.status = "unavailable"
           \/ call'.at = "init before" /\ known' \in Accepted /\ known' \in Engines
    BY <1>9 DEF NeedVersion, Unindexed, Done, Goes, TreesInv, AnalysisFields
  <2>4. call'.at = "init after" => call'.before = known'
    BY <2>2, <2>3 DEF TreesInv, BuiltFrom, TrustedFrom
  <2> QED
    BY <2>1, <2>2, <2>3, <2>4 DEF TreesInv, TrustedFrom, BuiltFrom, ProvedInv, Proved
<1>10. CASE BuildIndex("before", "init before", "status before")
  <2>1. edit' = edit /\ engine' = engine /\ known' = known /\ VersionInv'
    BY <1>10, VersionKept DEF BuildIndex
  <2>2. /\ call'.version = call.version /\ call'.hit = call.hit /\ DOMAIN call' = AnalysisFields
        /\ call.at = "init before"
        /\ \/ call'.at = "done" /\ call'.status = "unavailable"
           \/ /\ call'.at = "status before" /\ engine # None
              /\ call'.before = engine /\ call'.after = call.after
    BY <1>10 DEF BuildIndex, Unindexed, Done, Goes, TreesInv, AnalysisFields
  <2>3. known \in Engines
    BY <2>2 DEF TreesInv, TrustedFrom
  <2>4. engine \in Engines /\ known <= engine
    BY <2>3 DEF VersionInv
  <2>5. engine <= engine
    BY <2>4
  <2> QED
    BY <2>1, <2>2, <2>3, <2>4, <2>5 DEF TreesInv, TrustedFrom, BuiltFrom, ProvedInv, Proved
<1>11. CASE ReadStatus("status before", "version after")
  <2>1. edit' = edit /\ engine' = engine /\ known' = known /\ VersionInv'
    BY <1>11, VersionKept DEF ReadStatus
  <2>2. /\ call'.version = call.version /\ call'.hit = call.hit /\ DOMAIN call' = AnalysisFields
        /\ call.at = "status before" /\ call'.before = call.before /\ call'.after = call.after
        /\ \/ call'.at = "done" /\ call'.status = "unavailable"
           \/ call'.at = "version after" /\ engine = known
    BY <1>11, ZenonT(60)
    DEF ReadStatus, StatusAgrees, Unindexed, Done, Goes, TreesInv, AnalysisFields
  <2>3. call'.at = "version after" => call.before = known
    BY <2>2, SameVersion DEF TreesInv, TrustedFrom
  <2> QED
    BY <2>1, <2>2, <2>3 DEF TreesInv, TrustedFrom, BuiltFrom, ProvedInv, Proved
<1>12. CASE NeedVersion("version after", "init after")
  <2>1. edit' = edit /\ engine' = engine
        /\ \/ engine # None /\ known' = IF known = None THEN engine ELSE known
           \/ known' = known
    BY <1>12 DEF NeedVersion, Measure
  <2>2. VersionInv' /\ (known # None => known' = known)
    BY <2>1, VersionKept
  <2>3. /\ call'.version = call.version /\ call'.before = call.before /\ call'.after = call.after
        /\ call'.hit = call.hit /\ DOMAIN call' = AnalysisFields /\ call.at = "version after"
        /\ \/ call'.at = "done" /\ call'.status = "unavailable"
           \/ call'.at = "init after" /\ known' \in Accepted /\ known' \in Engines
    BY <1>12, ZenonT(60) DEF NeedVersion, Unindexed, Done, Goes, TreesInv, AnalysisFields
  <2>4. call'.at = "init after" => call'.before = known'
    BY <2>2, <2>3 DEF TreesInv, BuiltFrom, TrustedFrom
  <2> QED
    BY <2>1, <2>2, <2>3, <2>4 DEF TreesInv, TrustedFrom, BuiltFrom, ProvedInv, Proved
<1>13. CASE BuildIndex("after", "init after", "status after")
  <2>1. edit' = edit /\ engine' = engine /\ known' = known /\ VersionInv'
    BY <1>13, VersionKept DEF BuildIndex
  <2>2. /\ call'.version = call.version /\ call'.hit = call.hit /\ DOMAIN call' = AnalysisFields
        /\ call.at = "init after"
        /\ \/ call'.at = "done" /\ call'.status = "unavailable"
           \/ /\ call'.at = "status after" /\ engine # None
              /\ call'.after = engine /\ call'.before = call.before
    BY <1>13, ZenonT(60) DEF BuildIndex, Unindexed, Done, Goes, TreesInv, AnalysisFields
  <2>3. known \in Engines
    BY <2>2 DEF TreesInv, TrustedFrom
  <2>4. engine \in Engines /\ known <= engine
    BY <2>3 DEF VersionInv
  <2>5. engine <= engine
    BY <2>4
  <2> QED
    BY <2>1, <2>2, <2>3, <2>4, <2>5 DEF TreesInv, TrustedFrom, BuiltFrom, ProvedInv, Proved
<1>14. CASE ReadStatus("status after", "compare")
  <2>1. edit' = edit /\ engine' = engine /\ known' = known /\ VersionInv'
    BY <1>14, VersionKept DEF ReadStatus
  <2>2. /\ call'.version = call.version /\ call'.hit = call.hit /\ DOMAIN call' = AnalysisFields
        /\ call.at = "status after" /\ call'.before = call.before /\ call'.after = call.after
        /\ \/ call'.at = "done" /\ call'.status = "unavailable"
           \/ call'.at = "compare" /\ engine = known
    BY <1>14, ZenonT(60)
    DEF ReadStatus, StatusAgrees, Unindexed, Done, Goes, TreesInv, AnalysisFields
  <2>3. call'.at = "compare" => call.after = known
    BY <2>2, SameVersion DEF TreesInv, TrustedFrom
  <2> QED
    BY <2>1, <2>2, <2>3, ZenonT(60) DEF TreesInv, TrustedFrom, BuiltFrom, ProvedInv, Proved
<1>15. CASE Compare
  BY <1>15
  DEF Compare, Unindexed, Done, Goes, VersionInv, TreesInv, ProvedInv, Proved,
      AnalysisFields, TrustedFrom, BuiltFrom
<1>16. CASE Leave
  BY <1>16
  DEF Leave, Idle, VersionInv, TreesInv, ProvedInv, Proved,
      AnalysisFields, TrustedFrom, BuiltFrom
<1>17. CASE Restart
  BY <1>17
  DEF Restart, Idle, VersionInv, TreesInv, ProvedInv, Proved,
      AnalysisFields, TrustedFrom, BuiltFrom
<1>18. CASE UNCHANGED analysing
  BY <1>18 DEF analysing, VersionInv, TreesInv, ProvedInv, Proved
<1> QED
  BY <1>1, <1>2, <1>3, <1>4, <1>5, <1>6, <1>7, <1>8, <1>9, <1>10, <1>11, <1>12, <1>13, <1>14,
     <1>15, <1>16, <1>17, <1>18 DEF ContinuityNext

(* analyze reports continuity from two graphs it built itself, both by the *)
(* one trusted version it names.                                           *)
THEOREM ContinuityIsEarned == ContinuitySpec => []EarnedHere
<1>1. ContinuityInv => EarnedHere
  BY EnginesAssumption DEF ContinuityInv, TreesInv, ProvedInv, EarnedHere
<1> QED
  BY <1>1, ContinuityStarts, ContinuityKept, PTL DEF ContinuitySpec

--------------------------------------------------------------------------------
(* As many of each trust is as many in all.                                *)
LEMMA CountedAlike ==
  ASSUME NEW A, NEW B, IsFiniteSet(A), IsFiniteSet(B), Counted(A) = Counted(B),
         \A u \in A \cup B : u.trust \in {"trusted", "exact", "guess"}
  PROVE  Cardinality(A) = Cardinality(B)
<1> DEFINE Of(S, c) == {u \in S : u.trust = c}
<1>1. ASSUME NEW S, IsFiniteSet(S), \A u \in S : u.trust \in {"trusted", "exact", "guess"}
      PROVE  /\ Cardinality(S) = Cardinality(Of(S, "trusted")) + Cardinality(Of(S, "exact"))
                                 + Cardinality(Of(S, "guess"))
             /\ \A c \in {"trusted", "exact", "guess"} : Cardinality(Of(S, c)) \in Nat
  <2>1. \A c \in {"trusted", "exact", "guess"} : IsFiniteSet(Of(S, c))
    BY <1>1, FS_Subset
  <2>2. /\ IsFiniteSet(Of(S, "trusted") \cup Of(S, "exact"))
        /\ Cardinality(Of(S, "trusted") \cup Of(S, "exact")) \in Nat
    BY <2>1, FS_Union, FS_CardinalityType
  <2>3. /\ S = (Of(S, "trusted") \cup Of(S, "exact")) \cup Of(S, "guess")
        /\ Of(S, "trusted") \cap Of(S, "exact") = {}
        /\ (Of(S, "trusted") \cup Of(S, "exact")) \cap Of(S, "guess") = {}
    BY <1>1
  <2>4. \A c \in {"trusted", "exact", "guess"} : Cardinality(Of(S, c)) \in Nat
    BY <2>1, FS_CardinalityType
  <2> HIDE DEF Of
  <2>5. Cardinality(Of(S, "trusted") \cup Of(S, "exact"))
          = Cardinality(Of(S, "trusted")) + Cardinality(Of(S, "exact"))
    <3> DEFINE trusted == Of(S, "trusted")
               exact == Of(S, "exact")
    <3>1. IsFiniteSet(trusted) /\ IsFiniteSet(exact) /\ trusted \cap exact = {}
      BY <2>1, <2>3
    <3>2. Cardinality(trusted) \in Nat /\ Cardinality(exact) \in Nat
      BY <2>4
    <3> HIDE DEF trusted, exact
    <3>3. Cardinality(trusted \cup exact)
            = Cardinality(trusted) + Cardinality(exact) - Cardinality(trusted \cap exact)
      BY <3>1, FS_Union
    <3>4. Cardinality(trusted \cap exact) = 0
      BY <3>1, FS_EmptySet
    <3>5. Cardinality(trusted \cup exact) = Cardinality(trusted) + Cardinality(exact) - 0
      BY <3>3, <3>4
    <3> QED
      BY <3>2, <3>5 DEF trusted, exact
  <2> DEFINE sure == Of(S, "trusted") \cup Of(S, "exact")
             guess == Of(S, "guess")
  <2>6. Cardinality(S) = Cardinality(sure) + Cardinality(guess)
    <3>1. IsFiniteSet(sure) /\ IsFiniteSet(guess) /\ S = sure \cup guess /\ sure \cap guess = {}
      BY <2>1, <2>2, <2>3
    <3>2. Cardinality(sure) \in Nat /\ Cardinality(guess) \in Nat
      BY <2>2, <2>4
    <3> HIDE DEF sure, guess
    <3>3. Cardinality(sure \cup guess)
            = Cardinality(sure) + Cardinality(guess) - Cardinality(sure \cap guess)
      BY <3>1, FS_Union
    <3> QED
      <4>1. Cardinality(sure \cap guess) = 0
        BY <3>1, FS_EmptySet
      <4>2. Cardinality(S) = Cardinality(sure) + Cardinality(guess) - 0
        BY <3>1, <3>3, <4>1
      <4> QED
        BY <3>2, <4>2
  <2> QED
    BY <2>4, <2>5, <2>6
<1>2. ASSUME NEW c \in {"trusted", "exact", "guess"}
      PROVE  Cardinality(Of(A, c)) = Cardinality(Of(B, c))
  <2>1. Counted(A)[c] = Counted(B)[c]
    OBVIOUS
  <2> QED
    BY <2>1 DEF Counted
<1> HIDE DEF Of
<1> QED
  BY <1>1, <1>2

(* One forwarder, of what the old owner has become, runs what that ran;    *)
(* so does every other place that is reached directly.                     *)
LEMMA RunAsBefore ==
  ASSUME edit \in Edits, OwnersStand(edit), NEW b, Forwarders(edit) = {b},
         NEW u, Strong(edit, b) = {u}, Forwards(edit, b, u.to)
  PROVE  /\ Runs(b) = {edit.before[b].source.text}
         /\ Runs(u.to) = {edit.before[b].source.text}
         /\ \A p : p # b => Runs(p) = {edit.after[p].source.text}
<1>1. Len(edit.patch.declared) = 1 /\ SafeForwarder(edit.patch.declared[1])
  BY DEF Forwards, OnlyForwards
<1>2. edit.after[b].source = edit.patch.declared[1]
  BY <1>1, EditsAssumption
<1>3. edit.after[b].source.text = "forward"
  BY <1>1, <1>2 DEF SafeForwarder
<1>4. edit.after[u.to].source.text = edit.before[b].source.text
  BY DEF Forwards, SameImplementation
<1>5. Runs(b) = {edit.after[u.to].source.text}
  BY <1>3 DEF Runs
<1>6. \A p : p # b => Runs(p) = {edit.after[p].source.text}
  BY DEF Runs
<1> QED
  BY <1>4, <1>5, <1>6

(* What the comparison asks of the two graphs is that no user is lost.     *)
LEMMA ContinuousServes ==
  ASSUME edit \in Edits, Continuous(edit), NEW x \in External(edit)
  PROVE  LET Alike(us) == {v \in us : v.from = x.from /\ v.kind = x.kind}
             was == {v \in Alike(edit.usesBefore) : v.to = x.to}
             is == {v \in Alike(edit.usesAfter) : Runs(v.to) = {edit.before[x.to].source.text}}
         IN  /\ edit.after[x.from].source.text = edit.before[x.from].source.text
             /\ Cardinality(is) >= Cardinality(was)
<1> DEFINE Alike(us) == {v \in us : v.from = x.from /\ v.kind = x.kind}
           was == {v \in Alike(edit.usesBefore) : v.to = x.to}
           is == {v \in Alike(edit.usesAfter) : Runs(v.to) = {edit.before[x.to].source.text}}
<1>1. PICK b \in Forwarders(edit) :
        /\ Forwarders(edit) = {b}
        /\ \E u \in Strong(edit, b) :
             /\ Strong(edit, b) = {u} /\ Forwards(edit, b, u.to)
             /\ \A o \in edit.owners \ {b} : Follows(edit, o, b, u.to)
             /\ UsersServed(edit, b, u.to)
  BY DEF Continuous
<1>2. PICK u \in Strong(edit, b) :
        /\ Strong(edit, b) = {u} /\ Forwards(edit, b, u.to)
        /\ \A o \in edit.owners \ {b} : Follows(edit, o, b, u.to)
        /\ UsersServed(edit, b, u.to)
  BY <1>1
<1> DEFINE found == {v \in edit.usesAfter :
                       /\ v.from = x.from /\ v.kind = x.kind
                       /\ v.to \in IF x.to = b THEN {b, u.to} ELSE {x.to}}
           served == {v \in External(edit) : v.from = x.from /\ v.to = x.to /\ v.kind = x.kind}
<1>3. /\ OwnersStand(edit) /\ x \in edit.usesBefore
      /\ x.to \in edit.owners /\ x.from \notin edit.owners
  BY DEF Continuous, External
<1>4. /\ SameExternal(edit.before[x.from].source, edit.after[x.from].source)
      /\ Served(served, found)
  BY <1>2 DEF UsersServed
<1>5. edit.after[x.from].source.text = edit.before[x.from].source.text
  BY <1>4 DEF SameExternal, Renamed
<1>6. was = served
  BY <1>3 DEF External
<1>7. /\ Runs(b) = {edit.before[b].source.text}
      /\ Runs(u.to) = {edit.before[b].source.text}
      /\ \A p : p # b => Runs(p) = {edit.after[p].source.text}
  BY <1>1, <1>2, <1>3, RunAsBefore
<1>8. x.to # b => edit.after[x.to].source.text = edit.before[x.to].source.text
  BY <1>2, <1>3 DEF Follows, Renamed
<1>9. found \subseteq is
  <2> SUFFICES ASSUME NEW v \in found PROVE Runs(v.to) = {edit.before[x.to].source.text}
    OBVIOUS
  <2>1. CASE x.to = b
    BY <1>7, <2>1
  <2>2. CASE x.to # b
    BY <1>7, <1>8, <2>2
  <2> QED
    BY <2>1, <2>2
<1>10. /\ IsFiniteSet(edit.usesBefore) /\ IsFiniteSet(edit.usesAfter)
       /\ \A v \in edit.usesBefore \cup edit.usesAfter : v.trust \in {"trusted", "exact", "guess"}
  BY EditsAssumption
<1>11. /\ was \subseteq edit.usesBefore
       /\ found \subseteq edit.usesAfter /\ is \subseteq edit.usesAfter
  OBVIOUS
<1>12. Counted(was) = Counted(found)
  BY <1>4, <1>6 DEF Served
<1>13. SUFFICES Cardinality(is) >= Cardinality(was)
  BY <1>5
<1> HIDE DEF was, is, found
<1>14. IsFiniteSet(was) /\ IsFiniteSet(found) /\ IsFiniteSet(is)
  BY <1>10, <1>11, FS_Subset
<1>15. Cardinality(was) = Cardinality(found)
  BY <1>10, <1>11, <1>12, <1>14, CountedAlike
<1>16. /\ Cardinality(found) <= Cardinality(is)
       /\ Cardinality(found) \in Nat /\ Cardinality(is) \in Nat
  BY <1>9, <1>14, FS_Subset, FS_CardinalityType
<1> QED
  BY <1>15, <1>16

(* When analyze reports continuity, whoever used a renamed owner uses what *)
(* it ran, as often and in the same way.                                   *)
THEOREM UsersAreServed == ContinuitySpec => []UsersRunTheSame
<1>1. ContinuityInv => UsersRunTheSame
  BY ContinuousServes DEF ContinuityInv, ProvedInv, UsersRunTheSame
<1> QED
  BY <1>1, ContinuityStarts, ContinuityKept, PTL DEF ContinuitySpec

--------------------------------------------------------------------------------
(*****************************************************************************)
(* LearnedFacts                                                              *)
(* Rows are counted by sums over the parts of a finite set; rates are fractions. *)
(*****************************************************************************)

(* Whatever holds of a part of a finite set once it holds of that part     *)
(* less any one element, holds of every part.                              *)
LEMMA PartByPart ==
  ASSUME NEW U, IsFiniteSet(U), NEW P,
         \A s \in SUBSET U : (\A x \in s : s \ {x} \in P) => s \in P
  PROVE  \A s \in SUBSET U : s \in P
<1> DEFINE T == {s \in SUBSET U : s \notin P}
<1> SUFFICES ASSUME T # {} PROVE FALSE
  OBVIOUS
<1>1. T \subseteq FiniteSubsetsOf(U)
  BY FS_Subset DEF FiniteSubsetsOf
<1>2. PICK s \in T : \A y \in T : ~(y \subseteq s /\ y # s)
  <2> HIDE DEF T
  <2> QED
    BY <1>1, MinimalOf
<1>3. \A x \in s : s \ {x} \in P
  <2> SUFFICES ASSUME NEW x \in s, s \ {x} \notin P PROVE FALSE
    OBVIOUS
  <2>1. s \ {x} \in T /\ s \ {x} \subseteq s /\ s \ {x} # s
    OBVIOUS
  <2> QED
    BY <1>2, <2>1
<1> QED
  BY <1>2, <1>3

(* The element a sum takes first.                                          *)
Foremost(s) == CHOOSE x \in s : TRUE

(* h has the sums of the weights w over the sets of D.                     *)
SumsUp(h, w, D) ==
  \A s \in D : h[s] = IF s = {} THEN 0 ELSE w[Foremost(s)] + h[s \ {Foremost(s)}]

(* h has the sums of the weights w over the parts of U.                    *)
SumsOf(h, w, U) == h \in [SUBSET U -> Nat] /\ SumsUp(h, w, SUBSET U)

(* What comes first is of the set.                                         *)
LEMMA FirstIsOf == ASSUME NEW s, s # {} PROVE Foremost(s) \in s
BY DEF Foremost

(* There are sums over the parts of a finite set.                          *)
LEMMA SumsOverParts ==
  ASSUME NEW U, IsFiniteSet(U), NEW w \in [U -> Nat]
  PROVE  \E h : SumsOf(h, w, U)
<1> DEFINE Small(n) == {s \in SUBSET U : Cardinality(s) <= n}
           T == {n \in Nat : \E h \in [Small(n) -> Nat] : SumsUp(h, w, Small(n))}
<1>0. \A s \in SUBSET U : IsFiniteSet(s) /\ Cardinality(s) \in Nat
  BY FS_Subset, FS_CardinalityType
<1>1. 0 \in T
  <2> DEFINE h == [s \in Small(0) |-> 0]
  <2>1. \A s \in Small(0) : s = {}
    BY <1>0, FS_EmptySet
  <2>2. SumsUp(h, w, Small(0))
    BY <2>1 DEF SumsUp
  <2>3. h \in [Small(0) -> Nat]
    OBVIOUS
  <2> QED
    BY <2>2, <2>3
<1>2. ASSUME NEW n \in T PROVE n + 1 \in T
  <2>1. n \in Nat /\ n + 1 \in Nat
    OBVIOUS
  <2>2. PICK h \in [Small(n) -> Nat] : SumsUp(h, w, Small(n))
    OBVIOUS
  <2> DEFINE g == [s \in Small(n + 1) |->
                     IF s = {} THEN 0 ELSE w[Foremost(s)] + h[s \ {Foremost(s)}]]
  <2>3. ASSUME NEW s \in Small(n + 1), s # {}
        PROVE  /\ Foremost(s) \in s /\ s \ {Foremost(s)} \in Small(n)
               /\ w[Foremost(s)] \in Nat /\ h[s \ {Foremost(s)}] \in Nat
    <3>1. Foremost(s) \in s
      BY <2>3, FirstIsOf
    <3> DEFINE r == s \ {Foremost(s)}
    <3>2. IsFiniteSet(s) /\ Cardinality(s) \in Nat /\ Cardinality(s) <= n + 1
      BY <1>0
    <3>3. Cardinality(r) = Cardinality(s) - 1
      BY <3>1, <3>2, FS_RemoveElement
    <3>4. Cardinality(r) <= n
      BY <2>1, <3>2, <3>3
    <3>5. r \in Small(n) /\ w[Foremost(s)] \in Nat
      BY <3>1, <3>4
    <3> QED
      BY <2>2, <3>1, <3>5
  <2>4. g \in [Small(n + 1) -> Nat]
    BY <2>3
  <2>5. \A s \in Small(n) : s \in Small(n + 1) /\ g[s] = h[s]
    <3>1. \A s \in Small(n) : s \in Small(n + 1)
      BY <1>0, <2>1
    <3> QED
      BY <2>2, <3>1 DEF SumsUp
  <2>6. SumsUp(g, w, Small(n + 1))
    <3> SUFFICES ASSUME NEW s \in Small(n + 1)
                 PROVE  g[s] = IF s = {} THEN 0 ELSE w[Foremost(s)] + g[s \ {Foremost(s)}]
      BY DEF SumsUp
    <3>1. s # {} => g[s \ {Foremost(s)}] = h[s \ {Foremost(s)}]
      BY <2>3, <2>5
    <3> QED
      BY <3>1
  <2> QED
    <3> HIDE DEF g
    <3> QED
      BY <2>1, <2>4, <2>6
<1>3. Cardinality(U) \in T
  <2>1. T \in SUBSET Nat
    OBVIOUS
  <2>2. Cardinality(U) \in Nat
    BY FS_CardinalityType
  <2> HIDE DEF T
  <2> QED
    BY <1>1, <1>2, <2>1, <2>2, Induct
<1>4. Small(Cardinality(U)) = SUBSET U
  BY FS_Subset
<1> HIDE DEF Small
<1> QED
  BY <1>3, <1>4 DEF SumsOf

(* In a sum any one may come first.                                        *)
LEMMA AnyComesFirst ==
  ASSUME NEW U, IsFiniteSet(U), NEW w \in [U -> Nat], NEW h, SumsOf(h, w, U)
  PROVE  \A s \in SUBSET U : \A x \in s : h[s] = w[x] + h[s \ {x}]
<1> DEFINE P == {s \in SUBSET U : \A x \in s : h[s] = w[x] + h[s \ {x}]}
<1>0. \A s \in SUBSET U : h[s] \in Nat
  BY DEF SumsOf
<1>1. ASSUME NEW s \in SUBSET U, \A x \in s : s \ {x} \in P PROVE s \in P
  <2> SUFFICES ASSUME NEW x \in s PROVE h[s] = w[x] + h[s \ {x}]
    OBVIOUS
  <2> DEFINE c == Foremost(s)
  <2>1. c \in s
    BY FirstIsOf
  <2>2. h[s] = w[c] + h[s \ {c}]
    BY DEF SumsOf, SumsUp
  <2> HIDE DEF c
  <2>3. CASE x # c
    <3> DEFINE r == (s \ {c}) \ {x}
    <3>1. r = (s \ {x}) \ {c} /\ r \in SUBSET U
      OBVIOUS
    <3>2. h[s \ {c}] = w[x] + h[r]
      BY <1>1, <2>1, <2>3
    <3>3. h[s \ {x}] = w[c] + h[r]
      BY <1>1, <2>1, <2>3, <3>1
    <3>4. w[x] \in Nat /\ w[c] \in Nat /\ h[r] \in Nat
      BY <1>0, <2>1, <3>1
    <3> QED
      BY <2>2, <3>2, <3>3, <3>4
  <2> QED
    BY <2>2, <2>3
<1>2. \A s \in SUBSET U : s \in P
  <2> HIDE DEF P
  <2> QED
    BY <1>1, PartByPart
<1> QED
  BY <1>2

(* A larger set has a larger sum.                                          *)
LEMMA SumsGrow ==
  ASSUME NEW U, IsFiniteSet(U), NEW w \in [U -> Nat], NEW h, SumsOf(h, w, U)
  PROVE  \A s \in SUBSET U : \A t \in SUBSET s : h[t] <= h[s]
<1> DEFINE P == {s \in SUBSET U : \A t \in SUBSET s : h[t] <= h[s]}
<1>0. \A s \in SUBSET U : h[s] \in Nat
  BY DEF SumsOf
<1>1. ASSUME NEW s \in SUBSET U, \A x \in s : s \ {x} \in P PROVE s \in P
  <2> SUFFICES ASSUME NEW t \in SUBSET s, t # s PROVE h[t] <= h[s]
    BY <1>0
  <2>1. PICK x \in s : x \notin t
    OBVIOUS
  <2>2. t \subseteq s \ {x} /\ h[t] <= h[s \ {x}]
    BY <1>1, <2>1
  <2>3. h[s] = w[x] + h[s \ {x}]
    BY <2>1, AnyComesFirst
  <2>4. h[t] \in Nat /\ h[s \ {x}] \in Nat /\ w[x] \in Nat
    BY <1>0
  <2> QED
    BY <2>2, <2>3, <2>4
<1>2. \A s \in SUBSET U : s \in P
  <2> HIDE DEF P
  <2> QED
    BY <1>1, PartByPart
<1> QED
  BY <1>2

(* Where no weight is more than ten times the other, no sum is.            *)
LEMMA SumsBound ==
  ASSUME NEW U, IsFiniteSet(U), NEW w \in [U -> Nat], NEW v \in [U -> Nat],
         \A k \in U : v[k] <= 10 * w[k],
         NEW h, SumsOf(h, w, U), NEW j, SumsOf(j, v, U)
  PROVE  \A s \in SUBSET U : j[s] <= 10 * h[s]
<1> DEFINE P == {s \in SUBSET U : j[s] <= 10 * h[s]}
<1>0. \A s \in SUBSET U : h[s] \in Nat /\ j[s] \in Nat
  BY DEF SumsOf
<1>1. ASSUME NEW s \in SUBSET U, \A x \in s : s \ {x} \in P PROVE s \in P
  <2>1. CASE s = {}
    <3>1. h[s] = 0 /\ j[s] = 0
      BY <2>1 DEF SumsOf, SumsUp
    <3> QED
      BY <3>1
  <2>2. CASE s # {}
    <3> DEFINE x == Foremost(s)
               r == s \ {x}
    <3>1. x \in s
      BY <2>2, FirstIsOf
    <3>2. h[s] = w[x] + h[r] /\ j[s] = v[x] + j[r]
      BY <2>2 DEF SumsOf, SumsUp
    <3>3. j[r] <= 10 * h[r]
      BY <1>1, <3>1
    <3>4. w[x] \in Nat /\ v[x] \in Nat /\ h[r] \in Nat /\ j[r] \in Nat /\ v[x] <= 10 * w[x]
      BY <1>0, <3>1
    <3> HIDE DEF x, r
    <3>5. j[s] <= 10 * h[s]
      BY <3>2, <3>3, <3>4
    <3> QED
      BY <3>5
  <2> QED
    BY <2>1, <2>2
<1>2. \A s \in SUBSET U : s \in P
  <2> HIDE DEF P
  <2> QED
    BY <1>1, PartByPart
<1> QED
  BY <1>2

(* A total over rows is the sum of their weights.                          *)
LEMMA TotalIsTheSum ==
  ASSUME NEW U, IsFiniteSet(U), NEW w \in [U -> Nat], NEW h, SumsOf(h, w, U),
         NEW g, NEW v, DOMAIN g \subseteq U, \A k \in DOMAIN g : g[k] * v[k] = w[k]
  PROVE  Total(v, g) = h[DOMAIN g]
<1> DEFINE S == DOMAIN g
           Is(f) == f = [s \in SUBSET S |->
                           IF s = {} THEN 0
                           ELSE g[CHOOSE x \in s : TRUE] * v[CHOOSE x \in s : TRUE]
                                + f[s \ {CHOOSE x \in s : TRUE}]]
           f0 == [s \in SUBSET S |-> h[s]]
<1>1. Total(v, g) = (CHOOSE f : Is(f))[S]
  BY DEF Total, MapThenSumSet, MapThenFoldSet
<1>2. \A s \in SUBSET S :
        s # {} => /\ Foremost(s) \in s /\ s \ {Foremost(s)} \in SUBSET S
                  /\ g[Foremost(s)] * v[Foremost(s)] = w[Foremost(s)]
  BY FirstIsOf
<1>3. Is(f0)
  <2>1. ASSUME NEW s \in SUBSET S
        PROVE  h[s] = IF s = {} THEN 0
                      ELSE g[CHOOSE x \in s : TRUE] * v[CHOOSE x \in s : TRUE]
                           + f0[s \ {CHOOSE x \in s : TRUE}]
    <3>1. h[s] = IF s = {} THEN 0 ELSE w[Foremost(s)] + h[s \ {Foremost(s)}]
      BY DEF SumsOf, SumsUp
    <3>2. s # {} => f0[s \ {Foremost(s)}] = h[s \ {Foremost(s)}]
      BY <1>2
    <3> QED
      BY <1>2, <3>1, <3>2 DEF Foremost
  <2> QED
    BY <2>1
<1> DEFINE f == CHOOSE e : Is(e)
<1>4. Is(f)
  BY <1>3
<1>5. \A s \in SUBSET S :
        f[s] = IF s = {} THEN 0 ELSE w[Foremost(s)] + f[s \ {Foremost(s)}]
  <2>1. \A e : Is(e) => \A s \in SUBSET S :
          e[s] = IF s = {} THEN 0 ELSE g[Foremost(s)] * v[Foremost(s)] + e[s \ {Foremost(s)}]
    BY DEF Foremost
  <2> HIDE DEF Is, f
  <2> QED
    BY <1>2, <1>4, <2>1
<1> HIDE DEF Is, f
<1> DEFINE P == {s \in SUBSET S : f[s] = h[s]}
<1>6. ASSUME NEW s \in SUBSET S, \A x \in s : s \ {x} \in P PROVE s \in P
  <2>1. h[s] = IF s = {} THEN 0 ELSE w[Foremost(s)] + h[s \ {Foremost(s)}]
    BY DEF SumsOf, SumsUp
  <2>2. s # {} => f[s \ {Foremost(s)}] = h[s \ {Foremost(s)}]
    BY <1>2, <1>6
  <2> QED
    BY <1>5, <2>1, <2>2
<1>7. \A s \in SUBSET S : s \in P
  <2>1. IsFiniteSet(S)
    BY FS_Subset
  <2> HIDE DEF P, S
  <2> QED
    BY <1>6, <2>1, PartByPart
<1>8. f[S] = h[S]
  BY <1>7
<1> QED
  BY <1>1, <1>8 DEF f

(* Finitely many rows, of the kinds there are.                             *)
RowBag(b) == IsABag(b) /\ IsFiniteSet(DOMAIN b) /\ DOMAIN b \subseteq RowKinds

(* The rows of a bag that are of the kinds in D.                           *)
Part(b, D) == [k \in D |-> b[k]]

(* A part of a bag of rows is one.                                         *)
LEMMA PartsAreBags ==
  ASSUME NEW b, RowBag(b), NEW D \in SUBSET DOMAIN b
  PROVE  RowBag(Part(b, D)) /\ DOMAIN Part(b, D) = D
BY FS_Subset DEF RowBag, Part, IsABag

(* What teaches, what a scope matches, what is critical and what was       *)
(* missed are parts.                                                       *)
LEMMA TheyAreParts ==
  ASSUME NEW b, RowBag(b)
  PROVE  /\ RowBag(Teaching(b)) /\ RowBag(Critical(b))
         /\ \A s : RowBag(Matched(b, s))
         /\ \A p : RowBag(Missed(b, p))
<1>0. \A D \in SUBSET DOMAIN b : RowBag([k \in D |-> b[k]])
  <2>1. \A D \in SUBSET DOMAIN b : RowBag(Part(b, D))
    BY PartsAreBags
  <2> QED
    BY <2>1 DEF Part
<1>1. RowBag(Teaching(b)) /\ RowBag(Critical(b))
  BY <1>0 DEF Teaching, Critical
<1>2. ASSUME NEW s PROVE RowBag(Matched(b, s))
  BY <1>0 DEF Matched
<1>3. ASSUME NEW p PROVE RowBag(Missed(b, p))
  BY <1>0 DEF Missed
<1> QED
  BY <1>1, <1>2, <1>3

(* Fewer kinds of the rows of a bag are fewer rows.                        *)
LEMMA PartsAreSmaller ==
  ASSUME NEW b, RowBag(b), NEW D \in SUBSET DOMAIN b, NEW E \in SUBSET D
  PROVE  /\ Size(Part(b, D)) \in Nat /\ Size(Part(b, E)) \in Nat
         /\ Size(Part(b, E)) <= Size(Part(b, D))
<1> DEFINE U == DOMAIN b
           w == [k \in U |-> b[k]]
<1>1. IsFiniteSet(U) /\ w \in [U -> Nat]
  BY DEF RowBag, IsABag
<1>2. PICK h : SumsOf(h, w, U)
  <2> HIDE DEF U, w
  <2> QED
    BY <1>1, SumsOverParts
<1>3. ASSUME NEW F \in SUBSET U PROVE Size(Part(b, F)) = h[F]
  <2> DEFINE g == Part(b, F)
             v == [k \in DOMAIN g |-> 1]
  <2>1. DOMAIN g = F /\ \A k \in F : g[k] * v[k] = w[k]
    BY DEF Part, RowBag, IsABag
  <2>2. Total(v, g) = h[DOMAIN g]
    <3> HIDE DEF g, v, U, w
    <3> QED
      BY <1>1, <1>2, <2>1, TotalIsTheSum
  <2> QED
    BY <2>1, <2>2 DEF Size
<1>4. D \in SUBSET U /\ E \in SUBSET U
  OBVIOUS
<1>5. h[D] \in Nat /\ h[E] \in Nat
  BY <1>2, <1>4 DEF SumsOf
<1>6. h[E] <= h[D]
  <2> HIDE DEF U, w
  <2> QED
    BY <1>1, <1>2, <1>4, SumsGrow
<1> QED
  BY <1>3, <1>4, <1>5, <1>6

(* Of rows that are events no more were observed than there are.           *)
LEMMA ObservedAreRows ==
  ASSUME NEW b, RowBag(b), \A k \in DOMAIN b : k.actual \in {0, 10}
  PROVE  Size(b) \in Nat /\ Observed(b) \in Nat /\ Observed(b) <= 10 * Size(b)
<1> DEFINE U == DOMAIN b
           one == [k \in U |-> 1]
           act == [k \in U |-> k.actual]
           w == [k \in U |-> b[k]]
           v == [k \in U |-> b[k] * k.actual]
<1>1. IsFiniteSet(U) /\ w \in [U -> Nat] /\ v \in [U -> Nat] /\ \A k \in U : v[k] <= 10 * w[k]
  <2>1. \A k \in U : b[k] \in Nat
    BY DEF RowBag, IsABag
  <2>2. \A k \in U : b[k] * k.actual = 0 \/ b[k] * k.actual = 10 * b[k]
    BY <2>1
  <2> QED
    BY <2>1, <2>2 DEF RowBag
<1>2. \A k \in U : b[k] * one[k] = w[k] /\ b[k] * act[k] = v[k]
  BY DEF RowBag, IsABag
<1>3. Size(b) = Total(one, b) /\ Observed(b) = Total(act, b)
  BY DEF Size, Observed
<1> HIDE DEF w, v, one, act
<1>4. PICK h : SumsOf(h, w, U)
  <2> HIDE DEF U
  <2> QED
    BY <1>1, SumsOverParts
<1>5. PICK j : SumsOf(j, v, U)
  <2> HIDE DEF U
  <2> QED
    BY <1>1, SumsOverParts
<1>6. Total(one, b) = h[U]
  BY <1>1, <1>2, <1>4, TotalIsTheSum
<1>7. Total(act, b) = j[U]
  BY <1>1, <1>2, <1>5, TotalIsTheSum
<1>8. \A s \in SUBSET U : j[s] <= 10 * h[s]
  <2> HIDE DEF U
  <2> QED
    BY <1>1, <1>4, <1>5, SumsBound
<1>9. U \in SUBSET U
  OBVIOUS
<1>10. h[U] \in Nat /\ j[U] \in Nat
  BY <1>4, <1>5, <1>9 DEF SumsOf
<1> QED
  BY <1>3, <1>6, <1>7, <1>8, <1>9, <1>10

(* Where one prediction stops every harmful row another stops, it misses   *)
(* no more.                                                                *)
LEMMA NoMoreMissed ==
  ASSUME NEW b, RowBag(b), NEW p, NEW q,
         \A k \in DOMAIN b : k.actual = 10 /\ Proceeds(p[k], k) => Proceeds(q[k], k)
  PROVE  /\ FalseProceeds(b, p) \in Nat /\ FalseProceeds(b, q) \in Nat
         /\ FalseProceeds(b, p) <= FalseProceeds(b, q)
<1> DEFINE D == {j \in DOMAIN b : j.actual = 10 /\ Proceeds(q[j], j)}
           E == {j \in DOMAIN b : j.actual = 10 /\ Proceeds(p[j], j)}
<1>1. D \in SUBSET DOMAIN b /\ E \in SUBSET D
  OBVIOUS
<1>2. Missed(b, p) = Part(b, E) /\ Missed(b, q) = Part(b, D)
  BY DEF Missed, Part
<1> HIDE DEF D, E
<1> QED
  BY <1>1, <1>2, PartsAreSmaller DEF FalseProceeds

(* Nor of the critical ones.                                               *)
LEMMA NoMoreCriticalMissed ==
  ASSUME NEW b, RowBag(b), NEW p, NEW q,
         \A k \in DOMAIN b : k.actual = 10 /\ Proceeds(p[k], k) => Proceeds(q[k], k)
  PROVE  /\ CriticalProceeds(b, p) \in Nat /\ CriticalProceeds(b, q) \in Nat
         /\ CriticalProceeds(b, p) <= CriticalProceeds(b, q)
<1>1. RowBag(Critical(b))
  BY TheyAreParts
<1>2. \A k \in DOMAIN Critical(b) : k.actual = 10 /\ Proceeds(p[k], k) => Proceeds(q[k], k)
  BY DEF Critical
<1>3. /\ FalseProceeds(Critical(b), p) \in Nat /\ FalseProceeds(Critical(b), q) \in Nat
      /\ FalseProceeds(Critical(b), p) <= FalseProceeds(Critical(b), q)
  BY <1>1, <1>2, NoMoreMissed
<1> QED
  BY <1>3 DEF CriticalProceeds, FalseProceeds

(* A number of tenths.                                                     *)
IsFraction(v) == v[1] \in Int /\ v[2] \in Nat /\ v[2] # 0

(* Products keep the order, and so do quotients.                           *)
LEMMA TimesKeeps ==
  ASSUME NEW m \in Int, NEW n \in Int, NEW p \in Nat
  PROVE  m <= n => m * p <= n * p
OBVIOUS

(* A positive factor may be left out.                                      *)
LEMMA CancelKeeps ==
  ASSUME NEW m \in Int, NEW n \in Int, NEW p \in Nat, p # 0, m * p <= n * p
  PROVE  m <= n
<1> SUFFICES ASSUME n + 1 <= m PROVE FALSE
  OBVIOUS
<1>1. (n + 1) * p <= m * p
  BY TimesKeeps
<1>2. (n + 1) * p = n * p + p
  OBVIOUS
<1>3. n * p \in Int /\ m * p \in Int
  OBVIOUS
<1> QED
  BY <1>1, <1>2, <1>3

(* Fractions are ordered.                                                  *)
LEMMA FractionsAreOrdered ==
  ASSUME NEW u, NEW v, NEW x, IsFraction(u), IsFraction(v), IsFraction(x)
  PROVE  /\ AtMost(u, v) \/ AtMost(v, u)
         /\ AtMost(u, v) /\ AtMost(v, x) => AtMost(u, x)
<1> DEFINE a == u[1]
           b == u[2]
           c == v[1]
           d == v[2]
           e == x[1]
           f == x[2]
<1>1. a \in Int /\ c \in Int /\ e \in Int /\ b \in Nat /\ d \in Nat /\ f \in Nat /\ d # 0
  BY DEF IsFraction
<1>2. /\ a * d \in Int /\ c * b \in Int /\ c * f \in Int
      /\ e * d \in Int /\ a * f \in Int /\ e * b \in Int
  BY <1>1
<1>3. AtMost(u, v) \/ AtMost(v, u)
  BY <1>2 DEF AtMost
<1>4. ASSUME a * d <= c * b, c * f <= e * d PROVE a * f <= e * b
  <2> HIDE DEF a, b, c, d, e, f
  <2>1. (a * d) * f <= (c * b) * f
    BY <1>1, <1>2, <1>4, TimesKeeps
  <2>2. (c * f) * b <= (e * d) * b
    BY <1>1, <1>2, <1>4, TimesKeeps
  <2>3. /\ (a * d) * f = (a * f) * d
        /\ (c * b) * f = (c * f) * b
        /\ (e * d) * b = (e * b) * d
    BY <1>1
  <2>4. (a * f) * d <= (e * b) * d
    <3>1. (a * f) * d \in Int /\ (c * f) * b \in Int /\ (e * b) * d \in Int
      BY <1>1, <1>2
    <3> QED
      BY <2>1, <2>2, <2>3, <3>1
  <2> QED
    BY <1>1, <1>2, <2>4, CancelKeeps
<1> QED
  BY <1>3, <1>4 DEF AtMost

(* What proceeds at a probability proceeds at a lower one.                 *)
LEMMA LowerProceeds ==
  ASSUME NEW u, NEW v, IsFraction(u), IsFraction(v), AtMost(u, v),
         NEW k, k.disutility \in Nat \cup {Unknown}, Proceeds(v, k)
  PROVE  Proceeds(u, k)
<1> DEFINE a == u[1]
           b == u[2]
           c == v[1]
           d == v[2]
<1>1. a \in Int /\ c \in Int /\ b \in Nat /\ d \in Nat /\ b # 0 /\ d # 0
  BY DEF IsFraction
<1>2. a * d \in Int /\ c * b \in Int /\ a * d <= c * b
  BY <1>1 DEF AtMost
<1>3. ASSUME NEW n \in Nat, NEW m \in Nat, c * n < m * d PROVE a * n < m * b
  <2> HIDE DEF a, b, c, d
  <2>1. (a * d) * n <= (c * b) * n
    BY <1>1, <1>2, TimesKeeps
  <2>2. c * n + 1 \in Int /\ m * d \in Int /\ c * n + 1 <= m * d
    BY <1>1, <1>3
  <2>3. (c * n + 1) * b <= (m * d) * b
    BY <1>1, <2>2, TimesKeeps
  <2>4. /\ (a * d) * n = (a * n) * d
        /\ (c * n + 1) * b = (c * b) * n + b
        /\ (m * d) * b = (m * b) * d
    BY <1>1
  <2>5. /\ (a * n) * d \in Int /\ (c * b) * n \in Int /\ (m * b) * d \in Int
        /\ a * n \in Int /\ m * b \in Int
    BY <1>1
  <2>6. (a * n) * d < (m * b) * d
    BY <1>1, <2>1, <2>3, <2>4, <2>5
  <2> SUFFICES ASSUME m * b <= a * n PROVE FALSE
    BY <2>5
  <2>7. (m * b) * d <= (a * n) * d
    BY <1>1, <2>5, TimesKeeps
  <2> QED
    BY <2>5, <2>6, <2>7
<1>4. CASE k.disutility = Unknown
  <2>1. c * 2 < 10 * d
    BY <1>4 DEF Proceeds
  <2>2. a * 2 < 10 * b
    BY <1>3, <2>1
  <2> QED
    BY <1>4, <2>2 DEF Proceeds
<1>5. CASE k.disutility # Unknown
  <2>1. c * k.disutility < 100 * d /\ k.disutility \in Nat
    BY <1>5 DEF Proceeds
  <2>2. a * k.disutility < 100 * b
    BY <1>3, <2>1
  <2> QED
    BY <1>5, <2>2 DEF Proceeds
<1> QED
  BY <1>4, <1>5

(* Of finitely many fractions some are the highest.                        *)
LEMMA SomeAreHighest ==
  ASSUME NEW fs, fs # {}, \A f \in fs : IsFraction(f.value),
         NEW V, IsFiniteSet(V), \A v \in V : IsFraction(v), \A f \in fs : f.value \in V
  PROVE  Highest(fs) # {}
<1> DEFINE NoLower(f) == {v \in V : AtMost(f.value, v)}
           T == {NoLower(f) : f \in fs}
<1>1. T \subseteq FiniteSubsetsOf(V) /\ T # {}
  <2>1. \A f \in fs : NoLower(f) \in SUBSET V /\ IsFiniteSet(NoLower(f))
    BY FS_Subset
  <2>2. \A f \in fs : NoLower(f) \in FiniteSubsetsOf(V)
    BY <2>1 DEF FiniteSubsetsOf
  <2> QED
    BY <2>2
<1>2. PICK t \in T : \A y \in T : ~(y \subseteq t /\ y # t)
  <2> HIDE DEF T
  <2> QED
    BY <1>1, MinimalOf
<1>3. PICK f \in fs : t = NoLower(f)
  BY <1>2
<1>4. ASSUME NEW g \in fs, ~AtMost(g.value, f.value) PROVE FALSE
  <2>1. AtMost(f.value, g.value)
    BY <1>4, FractionsAreOrdered
  <2>2. NoLower(g) \subseteq NoLower(f)
    <3>1. \A v \in V : IsFraction(v) => (AtMost(g.value, v) => AtMost(f.value, v))
      BY <2>1, FractionsAreOrdered
    <3> QED
      BY <3>1
  <2>3. f.value \in NoLower(f) /\ f.value \notin NoLower(g)
    BY <1>4, FractionsAreOrdered
  <2> QED
    BY <1>2, <1>3, <2>2, <2>3
<1> QED
  BY <1>4 DEF Highest

(* Every fact of the snapshot has the rate of the rows its scope matched   *)
(* when it was learned, and had passed the gate on them.                   *)
LearnInv ==
  /\ target \in Targets
  /\ RowBag(rows) /\ RowBag(basis)
  /\ \A f \in facts :
       /\ f = [scope |-> f.scope, value |-> f.value, size |-> f.size, churn |-> f.churn]
       /\ f.value = Value(Matched(Teaching(basis), f.scope))
       /\ Passes(Matched(Teaching(basis), f.scope))

(* Where learning starts.                                                  *)
LEMMA LearningStarts == LearnInit => LearnInv
<1>1. RowBag(EmptyBag)
  BY FS_EmptySet DEF EmptyBag, SetToBag, RowBag, IsABag
<1> QED
  BY <1>1 DEF LearnInit, LearnInv

(* A fact is made of the rows that its scope matched, and they passed.     *)
LEMMA FactsAreOfTheirRows ==
  ASSUME NEW b, NEW learned \in Promotions(b), NEW c \in learned
  PROVE  LET f == Fact(c)
         IN  /\ f = [scope |-> f.scope, value |-> f.value, size |-> f.size, churn |-> f.churn]
             /\ f.value = Value(Matched(b, f.scope))
             /\ Passes(Matched(b, f.scope))
BY DEF Promotions, Collected, Groups, Fact

(* What passes the gate still does: its verdict is of the rows alone.      *)
LEMMA StillPasses ==
  ASSUME target' = target, NEW b, Passes(b)
  PROVE  Passes(b)'
BY DEF Passes, Safe

(* One more row of a kind there is.                                        *)
LEMMA OneMoreRow ==
  ASSUME NEW b, RowBag(b), NEW k \in RowKinds
  PROVE  RowBag(b (+) SetToBag({k}))
<1> DEFINE c == b (+) SetToBag({k})
<1>1. DOMAIN c = DOMAIN b \cup {k}
  BY DEF (+), SetToBag
<1>2. \A j \in DOMAIN b : b[j] \in Nat /\ b[j] > 0
  BY DEF RowBag, IsABag
<1>3. \A j \in DOMAIN c :
        c[j] = (IF j \in DOMAIN b THEN b[j] ELSE 0) + (IF j \in {k} THEN 1 ELSE 0)
  BY DEF (+), SetToBag
<1>4. \A j \in DOMAIN c : c[j] \in Nat /\ c[j] > 0
  BY <1>1, <1>2, <1>3
<1>5. c = [j \in DOMAIN c |-> c[j]]
  BY DEF (+)
<1>6. IsFiniteSet(DOMAIN b \cup {k})
  BY FS_AddElement DEF RowBag
<1> HIDE DEF c
<1>7. c \in [DOMAIN c -> {n \in Nat : n > 0}]
  BY <1>4, <1>5
<1>8. RowBag(c)
  BY <1>1, <1>6, <1>7 DEF RowBag, IsABag
<1> QED
  BY <1>8 DEF c

(* Every step keeps it so.                                                 *)
LEMMA LearningKept == LearnInv /\ [LearnNext]_learning => LearnInv'
<1> SUFFICES ASSUME LearnInv, [LearnNext]_learning PROVE LearnInv'
  OBVIOUS
<1>0. ASSUME target' = target, NEW b, b = basis', NEW f, Passes(Matched(Teaching(b), f.scope))
      PROVE  Passes(Matched(Teaching(basis), f.scope))'
  <2> DEFINE g == Matched(Teaching(b), f.scope)
  <2>1. Passes(g)'
    <3> HIDE DEF g
    <3> QED
      BY <1>0, StillPasses DEF g
  <2> QED
    BY <1>0, <2>1
<1>1. ASSUME NEW k \in RowKinds, Record(k) PROVE LearnInv'
  <2>1. rows' = rows (+) SetToBag({k}) /\ UNCHANGED <<target, facts, basis>>
    BY <1>1 DEF Record
  <2>2. RowBag(rows')
    BY <2>1, OneMoreRow DEF LearnInv
  <2>3. \A f \in facts' : Passes(Matched(Teaching(basis), f.scope))'
    BY <1>0, <2>1 DEF LearnInv
  <2> QED
    BY <2>1, <2>2, <2>3 DEF LearnInv
<1>2. CASE Promote
  <2>1. PICK learned \in Promotions(Teaching(rows)) :
          facts' = {Fact(c) : c \in learned} /\ basis' = rows /\ rows' = rows /\ target' = target
    BY <1>2 DEF Promote
  <2>2. \A f \in facts' :
          /\ f = [scope |-> f.scope, value |-> f.value, size |-> f.size, churn |-> f.churn]
          /\ f.value = Value(Matched(Teaching(rows), f.scope))
          /\ Passes(Matched(Teaching(rows), f.scope))
    BY <2>1, FactsAreOfTheirRows
  <2>3. \A f \in facts' : Passes(Matched(Teaching(basis), f.scope))'
    BY <1>0, <2>1, <2>2
  <2> QED
    BY <2>1, <2>2, <2>3 DEF LearnInv
<1>3. ASSUME NEW features, Verified(features) PROVE LearnInv'
  <2>1. UNCHANGED <<target, rows, basis>>
    BY <1>3 DEF Verified
  <2>2. \A f \in facts' : \E g \in facts :
          /\ f = [scope |-> f.scope, value |-> f.value, size |-> f.size, churn |-> f.churn]
          /\ f.value = g.value /\ f.scope = g.scope
    <3> SUFFICES ASSUME NEW f \in facts'
                 PROVE  \E g \in facts :
                          /\ f = [scope |-> f.scope, value |-> f.value,
                                  size |-> f.size, churn |-> f.churn]
                          /\ f.value = g.value /\ f.scope = g.scope
      OBVIOUS
    <3>1. PICK g \in facts : \E n : f = [g EXCEPT !.churn = n]
      BY <1>3 DEF Verified
    <3>2. g = [scope |-> g.scope, value |-> g.value, size |-> g.size, churn |-> g.churn]
      BY DEF LearnInv
    <3>3. \E n : f = [scope |-> g.scope, value |-> g.value, size |-> g.size, churn |-> n]
      BY <3>1, <3>2
    <3> QED
      BY <3>3
  <2>3. \A f \in facts' : Passes(Matched(Teaching(basis), f.scope))
    BY <2>2 DEF LearnInv
  <2>4. \A f \in facts' : Passes(Matched(Teaching(basis), f.scope))'
    BY <1>0, <2>1, <2>3
  <2> QED
    BY <2>1, <2>2, <2>4 DEF LearnInv
<1>4. CASE UNCHANGED learning
  <2>1. UNCHANGED <<target, rows, facts, basis>>
    BY <1>4 DEF learning
  <2>2. \A f \in facts' : Passes(Matched(Teaching(basis), f.scope))'
    BY <1>0, <2>1 DEF LearnInv
  <2> QED
    BY <2>1, <2>2 DEF LearnInv
<1> QED
  BY <1>1, <1>2, <1>3, <1>4 DEF LearnNext

(* compute_drift of a snapshot, over the rows promote made it of, none of  *)
(* them a refined one, finds every fact at the rate it was given.          *)
THEOREM SnapshotsStartRight == LearnSpec => []BornWithoutDrift
<1>1. LearnInv => BornWithoutDrift
  <2> SUFFICES ASSUME LearnInv, rows = basis, Drifted(facts, rows),
                      \A k \in DOMAIN rows : ~k.refined
               PROVE  FALSE
    BY DEF BornWithoutDrift
  <2>1. Teaching(rows) = rows
    BY DEF Teaching, LearnInv, RowBag, IsABag
  <2>2. PICK f \in facts : Off(f, rows)
    BY DEF Drifted
  <2>3. f.value = Value(Matched(rows, f.scope))
    BY <2>1 DEF LearnInv
  <2> DEFINE g == Matched(rows, f.scope)
  <2>4. f.value[1] = Observed(g) /\ f.value[2] = Size(g)
    BY <2>3 DEF Value
  <2> QED
    BY <2>2, <2>4 DEF Off
<1> QED
  BY <1>1, LearningStarts, LearningKept, PTL DEF LearnSpec

(* The rate of the others of a harmful row is no higher than that of all.  *)
LEMMA OthersAreLower ==
  ASSUME NEW n \in Nat, n >= 2, NEW a \in Nat, a <= 10 * n
  PROVE  AtMost(<<a - 10, n - 1>>, <<a, n>>)
<1>1. (a - 10) * n = a * n - 10 * n /\ a * (n - 1) = a * n - a
  OBVIOUS
<1>2. a * n \in Int
  OBVIOUS
<1>3. (a - 10) * n <= a * (n - 1)
  BY <1>1, <1>2
<1> QED
  BY <1>3 DEF AtMost

(* What a bag of rows of an event is worth.                                *)
LEMMA RatesOfEvents ==
  ASSUME NEW b, RowBag(b), \A k \in DOMAIN b : k.actual \in {0, 10}, Size(b) >= 2
  PROVE  /\ IsFraction(Value(b))
         /\ \A k \in DOMAIN b : k.actual = 10 =>
              /\ IsFraction(OfTheOthers(b)[k])
              /\ AtMost(OfTheOthers(b)[k], Value(b))
<1> DEFINE n == Size(b)
           a == Observed(b)
<1>1. n \in Nat /\ a \in Nat /\ a <= 10 * n
  BY ObservedAreRows
<1>2. Value(b) = <<a, n>> /\ \A k \in DOMAIN b : OfTheOthers(b)[k] = <<a - k.actual, n - 1>>
  BY DEF Value, OfTheOthers
<1> HIDE DEF n, a
<1>3. n >= 2
  BY DEF n
<1>4. AtMost(<<a - 10, n - 1>>, <<a, n>>)
  BY <1>1, <1>3, OthersAreLower
<1>5. IsFraction(<<a, n>>) /\ IsFraction(<<a - 10, n - 1>>)
  BY <1>1, <1>3 DEF IsFraction
<1> QED
  BY <1>2, <1>4, <1>5

(* Clamped, a value is no lower than one below it, unless it is 0.99.      *)
LEMMA ClampedIsNoLower ==
  ASSUME NEW u, NEW v, IsFraction(u), IsFraction(v), AtMost(u, v)
  PROVE  /\ IsFraction(Clamp(v))
         /\ \/ AtMost(u, Clamp(v))
            \/ Clamp(v) = <<99, 10>> /\ ~AtMost(u, <<99, 10>>)
<1>1. IsFraction(<<1, 10>>) /\ IsFraction(<<99, 10>>)
  BY DEF IsFraction
<1>2. CASE AtMost(v, <<1, 10>>)
  <2>1. Clamp(v) = <<1, 10>>
    BY <1>2 DEF Clamp
  <2>2. AtMost(u, <<1, 10>>)
    BY <1>1, <1>2, FractionsAreOrdered
  <2> QED
    BY <1>1, <2>1, <2>2
<1>3. CASE ~AtMost(v, <<1, 10>>) /\ AtMost(<<99, 10>>, v)
  <2>1. Clamp(v) = <<99, 10>>
    BY <1>3 DEF Clamp
  <2> QED
    BY <1>1, <2>1
<1>4. CASE ~AtMost(v, <<1, 10>>) /\ ~AtMost(<<99, 10>>, v)
  <2>1. Clamp(v) = v
    BY <1>4 DEF Clamp
  <2> QED
    BY <2>1
<1> QED
  BY <1>2, <1>3, <1>4

(* Of an event, what is applied to a row that a fact matches: what was     *)
(* predicted, or the clamped value of a fact that is no lower.             *)
LEMMA AppliedIsNoLower ==
  ASSUME LearnInv, target.event, NEW f \in facts, AutoApplies(f),
         NEW k, ScopeMatches(f.scope, k.features), k.predicted \in Nat
  PROVE  LET p == <<k.predicted, 1>>
             v == CHOOSE v \in Applied(k.features, <<k.predicted, 1>>) : TRUE
         IN  \/ v = p /\ AtMost(f.value, p)
             \/ IsFraction(v) /\ AtMost(f.value, v)
             \/ v \in {p, <<99, 10>>} /\ ~AtMost(f.value, <<99, 10>>)
<1> DEFINE p == <<k.predicted, 1>>
           fs == Applicable(facts, k.features)
           c(h) == IF target.binary THEN Clamp(h.value) ELSE h.value
           d(h) == IF target.consequence /\ AtMost(c(h), p) THEN p ELSE c(h)
           v == CHOOSE v \in Applied(k.features, p) : TRUE
<1>1. f \in fs /\ fs \subseteq facts
  BY DEF Applicable
<1>2. \A h \in facts : IsFraction(h.value)
  <2> SUFFICES ASSUME NEW h \in facts PROVE IsFraction(h.value)
    OBVIOUS
  <2>1. PICK b : b = Matched(Teaching(basis), h.scope)
    OBVIOUS
  <2>2. RowBag(b) /\ Passes(b) /\ h.value = Value(b)
    BY <2>1, TheyAreParts DEF LearnInv
  <2>3. \A j \in DOMAIN b : j.actual \in {0, 10}
    BY <2>2, RowsAssumption DEF LearnInv, RowBag
  <2>4. Size(b) >= 2
    BY <2>2 DEF Passes
  <2> QED
    BY <2>2, <2>3, <2>4, RatesOfEvents
<1>3. Highest(fs) # {}
  <2> DEFINE B == Teaching(basis)
             V == {Value(Part(B, D)) : D \in SUBSET DOMAIN B}
             W == {h.value : h \in facts}
  <2>1. IsFiniteSet(DOMAIN B)
    BY TheyAreParts DEF LearnInv, RowBag
  <2>2. IsFiniteSet(SUBSET DOMAIN B)
    BY <2>1, FS_SUBSET
  <2>3. IsFiniteSet(V)
    <3> DEFINE e == [D \in SUBSET DOMAIN B |-> Value(Part(B, D))]
    <3> HIDE DEF B
    <3>1. e \in Surjection(SUBSET DOMAIN B, V)
      BY DEF Surjection
    <3> HIDE DEF e, V
    <3> QED
      BY <2>2, <3>1, FS_Surjection
  <2>4. W \subseteq V
    <3> SUFFICES ASSUME NEW h \in facts PROVE h.value \in V
      OBVIOUS
    <3>1. Matched(B, h.scope) = Part(B, {j \in DOMAIN B : ScopeMatches(h.scope, j.features)})
      BY DEF Matched, Part
    <3> QED
      BY <3>1 DEF LearnInv
  <2>5. IsFiniteSet(W)
    BY <2>3, <2>4, FS_Subset
  <2> QED
    <3>1. fs # {} /\ \A h \in fs : IsFraction(h.value) /\ h.value \in W
      BY <1>1, <1>2
    <3>2. \A x \in W : IsFraction(x)
      BY <1>2
    <3> HIDE DEF W, fs
    <3> QED
      BY <2>5, <3>1, <3>2, SomeAreHighest
<1>4. Applied(k.features, p) = {d(h) : h \in Highest(fs)}
  <2>1. ResolveTarget(fs) = {c(h) : h \in Highest(fs)}
    BY DEF ResolveTarget
  <2>2. Applied(k.features, p) =
          {IF target.consequence /\ AtMost(x, p) THEN p ELSE x : x \in ResolveTarget(fs)}
    BY <1>1 DEF Applied
  <2> HIDE DEF fs, c
  <2> QED
    BY <2>1, <2>2
<1>5. PICK h \in Highest(fs) : v = d(h)
  <2>1. v \in Applied(k.features, p)
    <3> HIDE DEF fs, d
    <3> QED
      BY <1>3, <1>4
  <2> HIDE DEF fs, d, v
  <2> QED
    BY <1>4, <2>1
<1>6. IsFraction(h.value) /\ IsFraction(f.value) /\ AtMost(f.value, h.value)
  BY <1>1, <1>2, <1>5 DEF Highest
<1>7. IsFraction(p)
  BY DEF IsFraction
<1>8. /\ IsFraction(c(h))
      /\ \/ AtMost(f.value, c(h))
         \/ c(h) = <<99, 10>> /\ ~AtMost(f.value, <<99, 10>>)
  BY <1>6, ClampedIsNoLower
<1> HIDE DEF p, c, v, fs
<1>9. \/ v = p /\ AtMost(f.value, p)
      \/ IsFraction(v) /\ AtMost(f.value, v)
      \/ v \in {p, <<99, 10>>} /\ ~AtMost(f.value, <<99, 10>>)
  <2>1. v = c(h) \/ (v = p /\ AtMost(c(h), p))
    BY <1>5
  <2>2. CASE AtMost(f.value, c(h))
    <3>1. AtMost(c(h), p) => AtMost(f.value, p)
      BY <1>6, <1>7, <1>8, <2>2, FractionsAreOrdered
    <3> QED
      BY <1>8, <2>1, <2>2, <3>1
  <2>3. CASE c(h) = <<99, 10>> /\ ~AtMost(f.value, <<99, 10>>)
    BY <2>1, <2>3
  <2> QED
    BY <1>8, <2>2, <2>3
<1> QED
  BY <1>9 DEF p, v

(* apply_snapshot among all the facts there are, clamped, and scored on    *)
(* the rows of one of them: it misses no more of the harmful edits than    *)
(* was predicted, nor of the critical ones, if the clamp lets none by.     *)
(* The gate has seen to it leaving one row out; what is applied instead is *)
(* no lower for a harmful row, or 0.99.                                    *)
THEOREM NoMoreHarmPasses == ClampLetsNoneBy => (LearnSpec => []LearnedSafely)
<1> SUFFICES ASSUME ClampLetsNoneBy PROVE LearnSpec => []LearnedSafely
  OBVIOUS
<1>1. LearnInv => LearnedSafely
  <2> SUFFICES ASSUME LearnInv, target.event,
                      NEW f \in facts, AutoApplies(f)
               PROVE  LET g == Matched(Teaching(basis), f.scope)
                      IN  /\ FalseProceeds(g, AppliedIn(g)) <= FalseProceeds(g, Predicted(g))
                          /\ CriticalProceeds(g, AppliedIn(g)) <= CriticalProceeds(g, Predicted(g))
    BY DEF LearnedSafely
  <2> DEFINE g == Matched(Teaching(basis), f.scope)
             a == AppliedIn(g)
             o == OfTheOthers(g)
             p == Predicted(g)
  <2>1. RowBag(g) /\ Passes(g) /\ f.value = Value(g)
    BY TheyAreParts DEF LearnInv
  <2>2. \A k \in DOMAIN g : /\ ScopeMatches(f.scope, k.features)
                            /\ k.actual \in {0, 10} /\ k.predicted \in Nat
                            /\ k.disutility \in Nat \cup {Unknown} /\ k \in RowKinds
    <3>1. DOMAIN g \subseteq RowKinds
      BY <2>1 DEF RowBag
    <3>2. \A k \in DOMAIN g : ScopeMatches(f.scope, k.features)
      BY DEF Matched
    <3> QED
      BY <3>1, <3>2, RowsAssumption DEF LearnInv
  <2>3. \A k \in DOMAIN g : p[k] = <<k.predicted, 1>>
    BY DEF Predicted
  <2>4. \A k \in DOMAIN g :
          \/ a[k] = p[k] /\ AtMost(f.value, a[k])
          \/ IsFraction(a[k]) /\ AtMost(f.value, a[k])
          \/ a[k] \in {p[k], <<99, 10>>} /\ ~AtMost(f.value, <<99, 10>>)
    <3>1. \A k \in DOMAIN g :
            a[k] = CHOOSE v \in Applied(k.features, <<k.predicted, 1>>) : TRUE
      BY DEF AppliedIn
    <3> QED
      BY <2>2, <2>3, <3>1, AppliedIsNoLower
  <2>5. /\ FalseProceeds(g, o) <= FalseProceeds(g, p)
        /\ CriticalProceeds(g, o) <= CriticalProceeds(g, p)
        /\ Size(g) >= 2
    BY <2>1 DEF Passes, Safe
  <2> HIDE DEF g, a, o, p
  <2>6. IsFraction(f.value) /\ \A k \in DOMAIN g : k.actual = 10 =>
          IsFraction(o[k]) /\ AtMost(o[k], f.value)
    BY <2>1, <2>2, <2>5, RatesOfEvents DEF o
  <2>7. CASE AtMost(f.value, <<99, 10>>)
    <3>1. ASSUME NEW k \in DOMAIN g, k.actual = 10, Proceeds(a[k], k) PROVE Proceeds(o[k], k)
      <4>1. IsFraction(p[k])
        BY <2>2, <2>3, <3>1 DEF IsFraction
      <4>2. IsFraction(a[k]) /\ AtMost(f.value, a[k])
        BY <2>4, <2>7, <3>1, <4>1
      <4>3. IsFraction(o[k]) /\ AtMost(o[k], a[k])
        BY <2>6, <3>1, <4>2, FractionsAreOrdered
      <4> QED
        BY <2>2, <3>1, <4>2, <4>3, LowerProceeds
    <3>2. /\ FalseProceeds(g, a) \in Nat /\ FalseProceeds(g, o) \in Nat
          /\ FalseProceeds(g, a) <= FalseProceeds(g, o)
      BY <2>1, <3>1, NoMoreMissed
    <3>3. /\ CriticalProceeds(g, a) \in Nat /\ CriticalProceeds(g, o) \in Nat
          /\ CriticalProceeds(g, a) <= CriticalProceeds(g, o)
      BY <2>1, <3>1, NoMoreCriticalMissed
    <3>4. FalseProceeds(g, p) \in Nat /\ CriticalProceeds(g, p) \in Nat
      BY <2>1, NoMoreMissed, NoMoreCriticalMissed
    <3>5. /\ FalseProceeds(g, a) <= FalseProceeds(g, p)
          /\ CriticalProceeds(g, a) <= CriticalProceeds(g, p)
      BY <2>5, <3>2, <3>3, <3>4
    <3> QED
      BY <3>5 DEF a, g, p
  <2>8. CASE ~AtMost(f.value, <<99, 10>>)
    <3>1. IsFraction(<<99, 10>>)
      BY DEF IsFraction
    <3>2. ASSUME NEW k \in DOMAIN g, k.actual = 10, Proceeds(a[k], k) PROVE Proceeds(p[k], k)
      <4>1. Proceeds(<<99, 10>>, k) => Proceeds(p[k], k)
        BY <2>2, <2>3, <3>2 DEF ClampLetsNoneBy
      <4>2. CASE IsFraction(a[k]) /\ AtMost(f.value, a[k])
        <5>1. AtMost(<<99, 10>>, f.value)
          BY <2>6, <2>8, <3>1, FractionsAreOrdered
        <5>2. AtMost(<<99, 10>>, a[k])
          BY <2>6, <3>1, <4>2, <5>1, FractionsAreOrdered
        <5> QED
          BY <2>2, <3>1, <3>2, <4>1, <4>2, <5>2, LowerProceeds
      <4>3. CASE a[k] \in {p[k], <<99, 10>>}
        BY <3>2, <4>1, <4>3
      <4> QED
        BY <2>4, <4>2, <4>3
    <3>3. /\ FalseProceeds(g, a) <= FalseProceeds(g, p)
          /\ CriticalProceeds(g, a) <= CriticalProceeds(g, p)
      BY <2>1, <3>2, NoMoreMissed, NoMoreCriticalMissed
    <3> QED
      BY <3>3 DEF a, g, p
  <2> QED
    BY <2>7, <2>8
<1> QED
  BY <1>1, LearningStarts, LearningKept, PTL DEF LearnSpec

--------------------------------------------------------------------------------
(*****************************************************************************)
(* Orders                                                                    *)
(* Every one in a set has a place of its own in the order of its key.        *)
(*****************************************************************************)

(* Tuples that differ are ordered.                                         *)
LEMMA PrecedesIsTotal ==
  ASSUME NEW n \in Nat, NEW u \in [1..n -> Int], NEW v \in [1..n -> Int], u # v
  PROVE  Precedes(u, v) \/ Precedes(v, u)
<1> DEFINE D == {i \in 1..n : u[i] # v[i]}
<1>1. D \in SUBSET Nat /\ D # {}
  OBVIOUS
<1>2. \E i \in D : \A j \in D : i <= j
  <2> HIDE DEF D
  <2> QED
    BY <1>1, LeastOf
<1>3. PICK i \in D : \A j \in D : i <= j
  BY <1>2
<1>4. i \in 1..n /\ (u[i] < v[i] \/ v[i] < u[i])
  BY <1>3
<1>5. \A j \in 1..(i - 1) : u[j] = v[j]
  BY <1>3
<1> QED
  BY <1>4, <1>5 DEF Precedes

(* No tuple is before itself, and what is before is before the rest.       *)
LEMMA PrecedesIsAnOrder ==
  ASSUME NEW n \in Nat, NEW u \in [1..n -> Int], NEW v \in [1..n -> Int], NEW w \in [1..n -> Int]
  PROVE  /\ ~Precedes(u, u)
         /\ Precedes(u, v) /\ Precedes(v, w) => Precedes(u, w)
<1>1. ~Precedes(u, u)
  BY DEF Precedes
<1>2. ASSUME Precedes(u, v), Precedes(v, w) PROVE Precedes(u, w)
  <2>1. PICK i \in 1..n : u[i] < v[i] /\ \A j \in 1..(i - 1) : u[j] = v[j]
    BY <1>2 DEF Precedes
  <2>2. PICK j \in 1..n : v[j] < w[j] /\ \A h \in 1..(j - 1) : v[h] = w[h]
    BY <1>2 DEF Precedes
  <2>3. \E h \in {i, j} : h <= i /\ h <= j
    OBVIOUS
  <2>4. PICK h \in {i, j} : h <= i /\ h <= j
    BY <2>3
  <2>5. \A g \in 1..(h - 1) : u[g] = w[g]
    BY <2>1, <2>2, <2>4
  <2>6. u[h] < w[h]
    <3>1. CASE i < j
      <4>1. h = i /\ v[i] = w[i]
        BY <2>2, <2>4, <3>1
      <4> QED
        BY <2>1, <4>1
    <3>2. CASE j < i
      <4>1. h = j /\ u[j] = v[j]
        BY <2>1, <2>4, <3>2
      <4> QED
        BY <2>2, <4>1
    <3>3. CASE i = j
      BY <2>1, <2>2, <2>4, <3>3
    <3> QED
      BY <3>1, <3>2, <3>3
  <2> QED
    BY <2>5, <2>6 DEF Precedes
<1> QED
  BY <1>1, <1>2

(* What is before one that is before another is less than what is before   *)
(* the other.                                                              *)
LEMMA EarlierIsSmaller ==
  ASSUME NEW S, IsFiniteSet(S), NEW n \in Nat, NEW k \in [S -> [1..n -> Int]],
         NEW a \in S, NEW b \in S, Precedes(k[a], k[b])
  PROVE  /\ Earlier(k, S, a) \subseteq Earlier(k, S, b) /\ Earlier(k, S, a) # Earlier(k, S, b)
         /\ Cardinality(Earlier(k, S, a)) < Cardinality(Earlier(k, S, b))
<1> DEFINE A == Earlier(k, S, a)
           B == Earlier(k, S, b)
<1>1. \A o \in S : k[o] \in [1..n -> Int]
  OBVIOUS
<1>2. A \subseteq B
  BY <1>1, PrecedesIsAnOrder DEF Earlier
<1>3. a \in B /\ a \notin A
  BY <1>1, PrecedesIsAnOrder DEF Earlier
<1>4. B \subseteq S
  BY DEF Earlier
<1> HIDE DEF A, B
<1>5. IsFiniteSet(B) /\ IsFiniteSet(A)
  BY <1>2, <1>4, FS_Subset
<1>6. /\ Cardinality(A) <= Cardinality(B)
      /\ Cardinality(A) \in Nat /\ Cardinality(B) \in Nat
      /\ Cardinality(A) # Cardinality(B)
  BY <1>2, <1>3, <1>5, FS_Subset, FS_CardinalityType
<1> QED
  BY <1>2, <1>3, <1>6 DEF A, B

(* Of finitely many one is before all others.                              *)
LEMMA OneIsFirst ==
  ASSUME NEW S, IsFiniteSet(S), S # {}, NEW n \in Nat, NEW k \in [S -> [1..n -> Int]],
         \A a, b \in S : k[a] = k[b] => a = b
  PROVE  \E c \in S : \A o \in S \ {c} : Precedes(k[c], k[o])
<1> DEFINE T == {Earlier(k, S, c) : c \in S}
<1>1. T \subseteq FiniteSubsetsOf(S) /\ T # {}
  <2>1. \A c \in S : Earlier(k, S, c) \subseteq S
    BY DEF Earlier
  <2>2. \A c \in S : IsFiniteSet(Earlier(k, S, c))
    BY <2>1, FS_Subset
  <2> QED
    BY <2>1, <2>2 DEF FiniteSubsetsOf
<1>2. \E x \in T : \A y \in T : ~(y \subseteq x /\ y # x)
  <2> HIDE DEF T
  <2> QED
    BY <1>1, MinimalOf
<1>3. \E c \in S : \A o \in S : ~(/\ Earlier(k, S, o) \subseteq Earlier(k, S, c)
                                   /\ Earlier(k, S, o) # Earlier(k, S, c))
  <2>1. PICK x \in T : \A y \in T : ~(y \subseteq x /\ y # x)
    BY <1>2
  <2>2. PICK c \in S : x = Earlier(k, S, c)
    BY <2>1
  <2>3. \A o \in S : Earlier(k, S, o) \in T
    OBVIOUS
  <2> HIDE DEF T
  <2> QED
    BY <2>1, <2>2, <2>3
<1>4. PICK c \in S : \A o \in S : ~(/\ Earlier(k, S, o) \subseteq Earlier(k, S, c)
                                   /\ Earlier(k, S, o) # Earlier(k, S, c))
  BY <1>3
<1>5. ASSUME NEW o \in S \ {c} PROVE Precedes(k[c], k[o])
  <2>1. ~Precedes(k[o], k[c])
    BY <1>4, EarlierIsSmaller
  <2>2. k[o] # k[c] /\ k[o] \in [1..n -> Int] /\ k[c] \in [1..n -> Int]
    OBVIOUS
  <2> QED
    BY <2>1, <2>2, PrecedesIsTotal
<1> QED
  BY <1>5

(* Each has a place of its own, and no place is empty.                     *)
PlacesFilled(k, S) ==
  /\ Cardinality(S) \in Nat
  /\ \A c \in S : Cardinality(Earlier(k, S, c)) + 1 \in 1..Cardinality(S)
  /\ \A c, d \in S : Cardinality(Earlier(k, S, c)) = Cardinality(Earlier(k, S, d)) => c = d
  /\ \A i \in 1..Cardinality(S) : \E c \in S : Cardinality(Earlier(k, S, c)) + 1 = i

(* That is so of finitely many with keys of their own.                     *)
LEMMA PlacesAreFilled ==
  ASSUME NEW S, IsFiniteSet(S), NEW n \in Nat, NEW k \in [S -> [1..n -> Int]],
         \A a, b \in S : k[a] = k[b] => a = b
  PROVE  PlacesFilled(k, S)
<1>1. Cardinality(S) \in Nat
  BY FS_CardinalityType
<1>2. ASSUME NEW c \in S PROVE Cardinality(Earlier(k, S, c)) + 1 \in 1..Cardinality(S)
  <2>1. Earlier(k, S, c) \subseteq S \ {c}
    <3>1. k[c] \in [1..n -> Int]
      OBVIOUS
    <3>2. ~Precedes(k[c], k[c])
      BY <3>1, PrecedesIsAnOrder
    <3> QED
      BY <3>2 DEF Earlier
  <2>2. IsFiniteSet(S \ {c}) /\ Cardinality(S \ {c}) = Cardinality(S) - 1
    BY FS_RemoveElement
  <2>3. /\ Cardinality(Earlier(k, S, c)) <= Cardinality(S) - 1
        /\ Cardinality(Earlier(k, S, c)) \in Nat
    BY <2>1, <2>2, FS_Subset, FS_CardinalityType
  <2> QED
    BY <1>1, <2>3
<1>3. ASSUME NEW c \in S, NEW d \in S,
             Cardinality(Earlier(k, S, c)) = Cardinality(Earlier(k, S, d))
      PROVE  c = d
  <2> SUFFICES ASSUME c # d PROVE FALSE
    OBVIOUS
  <2>1. Precedes(k[c], k[d]) \/ Precedes(k[d], k[c])
    <3>1. k[c] # k[d] /\ k[c] \in [1..n -> Int] /\ k[d] \in [1..n -> Int]
      OBVIOUS
    <3> QED
      BY <3>1, PrecedesIsTotal
  <2>2. \A e \in S : Cardinality(Earlier(k, S, e)) \in Nat
    BY <1>1, <1>2, FS_Subset, FS_CardinalityType DEF Earlier
  <2>3. \/ Cardinality(Earlier(k, S, c)) < Cardinality(Earlier(k, S, d))
        \/ Cardinality(Earlier(k, S, d)) < Cardinality(Earlier(k, S, c))
    BY <2>1, EarlierIsSmaller
  <2> QED
    BY <1>3, <2>2, <2>3
<1> DEFINE f == [c \in S |-> Cardinality(Earlier(k, S, c)) + 1]
<1>4. f \in Injection(S, 1..Cardinality(S))
  <2>1. f \in [S -> 1..Cardinality(S)]
    BY <1>2
  <2>2. \A c, d \in S : f[c] = f[d] => c = d
    <3>1. \A e \in S : Cardinality(Earlier(k, S, e)) \in Nat
      BY FS_Subset, FS_CardinalityType DEF Earlier
    <3>2. \A c, d \in S :
            f[c] = f[d] => Cardinality(Earlier(k, S, c)) = Cardinality(Earlier(k, S, d))
      BY <3>1
    <3> QED
      BY <1>3, <3>2
  <2> QED
    BY <2>1, <2>2 DEF Injection, IsInjective
<1>5. f \in Surjection(S, 1..Cardinality(S))
  <2>1. /\ IsFiniteSet(1..Cardinality(S))
        /\ Cardinality(1..Cardinality(S)) = Cardinality(S)
    BY <1>1, FS_Interval
  <2> HIDE DEF f
  <2> QED
    BY <1>4, <2>1, FS_Injection
<1>6. \A i \in 1..Cardinality(S) : \E c \in S : f[c] = i
  <2> HIDE DEF f
  <2> QED
    BY <1>5 DEF Surjection
<1> QED
  BY <1>1, <1>2, <1>3, <1>6 DEF PlacesFilled

(* The first k are at most k of them, and one is always in its place.      *)
LEMMA LeadingIs ==
  ASSUME NEW S, IsFiniteSet(S), NEW n \in Nat, NEW key \in [S -> [1..n -> Int]],
         \A a, b \in S : key[a] = key[b] => a = b, NEW k \in Nat
  PROVE  /\ Leading(k, S, key) \subseteq S
         /\ IsFiniteSet(Leading(k, S, key)) /\ Cardinality(Leading(k, S, key)) <= k
<1> DEFINE L == Leading(k, S, key)
           f == [x \in L |-> Cardinality(Earlier(key, S, x)) + 1]
<1>1. PlacesFilled(key, S)
  BY PlacesAreFilled
<1>2. L \subseteq S /\ IsFiniteSet(L)
  BY FS_Subset DEF Leading
<1>3. \A x \in S : Cardinality(Earlier(key, S, x)) \in Nat
  <2>1. \A x \in S : Earlier(key, S, x) \subseteq S
    BY DEF Earlier
  <2> QED
    BY <2>1, FS_Subset, FS_CardinalityType
<1>4. f \in [L -> 1..k]
  BY <1>2, <1>3 DEF Leading
<1>5. \A x, y \in L : f[x] = f[y] => x = y
  <2>1. \A x, y \in L : f[x] = f[y] =>
          Cardinality(Earlier(key, S, x)) = Cardinality(Earlier(key, S, y))
    BY <1>2, <1>3
  <2> QED
    BY <1>1, <1>2, <2>1 DEF PlacesFilled
<1>6. f \in Injection(L, 1..k)
  BY <1>4, <1>5 DEF Injection, IsInjective
<1>7. IsFiniteSet(1..k) /\ Cardinality(1..k) = k
  BY FS_Interval
<1> HIDE DEF f, L
<1>8. Cardinality(L) <= k
  BY <1>6, <1>7, FS_Injection
<1> QED
  BY <1>2, <1>8 DEF L

(* A sequence with each of them.                                           *)
Lists(s, S) == s \in Seq(S) /\ \A x \in S : \E i \in 1..Len(s) : s[i] = x

(* All of them in order are a sequence with each of them.                  *)
LEMMA InOrderIs ==
  ASSUME NEW S, IsFiniteSet(S), NEW n \in Nat, NEW key \in [S -> [1..n -> Int]],
         \A a, b \in S : key[a] = key[b] => a = b
  PROVE  Lists(InOrder(S, key), S)
<1> DEFINE m == Cardinality(S)
           place(x) == Cardinality(Earlier(key, S, x))
           s == InOrder(S, key)
<1>1. PlacesFilled(key, S)
  BY PlacesAreFilled
<1>2. /\ m \in Nat /\ \A x \in S : place(x) + 1 \in 1..m
      /\ \A x, y \in S : place(x) = place(y) => x = y
      /\ \A i \in 1..m : \E x \in S : place(x) + 1 = i
  BY <1>1 DEF PlacesFilled
<1>3. \A x \in S : place(x) \in Nat
  <2>1. \A x \in S : Earlier(key, S, x) \subseteq S
    BY DEF Earlier
  <2> QED
    BY <2>1, FS_Subset, FS_CardinalityType
<1>4. s = [i \in 1..m |-> CHOOSE x \in S : place(x) = i - 1]
  BY DEF InOrder
<1> HIDE DEF place, m, s
<1>5. \A i \in 1..m : s[i] \in S /\ place(s[i]) = i - 1
  <2>1. ASSUME NEW i \in 1..m PROVE \E x \in S : place(x) = i - 1
    <3>1. PICK x \in S : place(x) + 1 = i
      BY <1>2
    <3>2. place(x) \in Nat
      BY <1>3
    <3>3. place(x) = i - 1
      BY <3>1, <3>2
    <3> QED
      BY <3>3
  <2> QED
    BY <1>4, <2>1
<1>6. s \in Seq(S) /\ Len(s) = m
  <2>1. s \in [1..m -> S]
    BY <1>4, <1>5
  <2> QED
    BY <1>2, <2>1
<1>7. ASSUME NEW x \in S PROVE \E i \in 1..Len(s) : s[i] = x
  <2>1. place(x) + 1 \in 1..m /\ (place(x) + 1) - 1 = place(x)
    BY <1>2, <1>3
  <2>2. s[place(x) + 1] \in S /\ place(s[place(x) + 1]) = place(x)
    BY <1>5, <2>1
  <2>3. s[place(x) + 1] = x
    BY <1>2, <2>2
  <2> QED
    BY <1>6, <2>1, <2>3
<1> QED
  BY <1>6, <1>7 DEF s, Lists

--------------------------------------------------------------------------------
(*****************************************************************************)
(* GraphViews: what a SELECT chooses                                         *)
(*****************************************************************************)

(* The indexes there are.                                                  *)
Proper(g) ==
  /\ IsFiniteSet(g.nodes) /\ g.nodes \subseteq Int
  /\ IsFiniteSet(g.edges) /\ g.edges \subseteq [from : g.nodes, to : g.nodes, kind : STRING]
  /\ \A n \in g.nodes : FileOf[n] \in Int \cup {NoPath}

(* A function has finitely many values on finitely many arguments.         *)
LEMMA ValuesAreFinite ==
  ASSUME NEW S, IsFiniteSet(S), NEW f, DOMAIN f = S, NEW T, T = {f[x] : x \in S}
  PROVE  IsFiniteSet(T)
<1> DEFINE h == [x \in S |-> f[x]]
<1>1. h \in Surjection(S, T)
  BY DEF Surjection
<1> HIDE DEF h
<1> QED
  BY <1>1, FS_Surjection

(* What is selected from an index is finite.                               *)
LEMMA SelectionsAreFinite ==
  ASSUME NEW g, Proper(g)
  PROVE  /\ Structural(g) \subseteq g.nodes /\ IsFiniteSet(Structural(g))
         /\ Paths(Structural(g)) \subseteq Int /\ IsFiniteSet(Paths(Structural(g)))
         /\ HotFiles(g) \subseteq Int /\ IsFiniteSet(HotFiles(g))
         /\ Impacts(g) \subseteq g.edges /\ IsFiniteSet(Impacts(g))
         /\ Fanin(g) \subseteq g.edges
<1>1. /\ Structural(g) \subseteq g.nodes /\ Callable(g) \subseteq g.nodes
      /\ Impacts(g) \subseteq g.edges /\ Fanin(g) \subseteq g.edges
  BY DEF Structural, Callable, Impacts, Fanin
<1>2. IsFiniteSet(g.nodes) /\ IsFiniteSet(g.edges)
  BY DEF Proper
<1>3. ASSUME NEW ns \in SUBSET g.nodes
      PROVE  Paths(ns) \subseteq Int /\ IsFiniteSet(Paths(ns))
  <2>1. Paths(ns) \subseteq Int
    BY DEF Paths, Proper
  <2>2. IsFiniteSet(ns)
    BY <1>2, FS_Subset
  <2>3. IsFiniteSet({FileOf[n] : n \in ns})
    <3> DEFINE f == [n \in ns |-> FileOf[n]]
               T == {f[n] : n \in ns}
    <3>1. DOMAIN f = ns /\ T = {FileOf[n] : n \in ns}
      OBVIOUS
    <3> HIDE DEF f
    <3>2. IsFiniteSet(T)
      BY <2>2, <3>1, ValuesAreFinite
    <3> QED
      BY <3>1, <3>2
  <2>4. Paths(ns) \subseteq {FileOf[n] : n \in ns}
    BY DEF Paths
  <2> QED
    BY <2>1, <2>3, <2>4, FS_Subset
<1>4. HotFiles(g) \subseteq Paths(Callable(g))
  BY DEF HotFiles
<1>5. IsFiniteSet(Structural(g)) /\ IsFiniteSet(Impacts(g))
  BY <1>1, <1>2, FS_Subset
<1>6. /\ Paths(Structural(g)) \subseteq Int /\ IsFiniteSet(Paths(Structural(g)))
      /\ Paths(Callable(g)) \subseteq Int /\ IsFiniteSet(Paths(Callable(g)))
  BY <1>1, <1>3
<1> QED
  BY <1>1, <1>4, <1>5, <1>6, FS_Subset

(* Whom edges come from, or lead to, is as finite as they are.             *)
LEMMA EndsAreFinite ==
  ASSUME NEW g, Proper(g), NEW es \in SUBSET g.edges
  PROVE  /\ {e.from : e \in es} \subseteq Int /\ {e.to : e \in es} \subseteq Int
         /\ Cardinality({e.from : e \in es}) \in Nat /\ IsFiniteSet({e.from : e \in es})
         /\ Cardinality({e.to : e \in es}) \in Nat
<1>1. IsFiniteSet(es)
  BY FS_Subset DEF Proper
<1>2. \A e \in es : e.from \in Int /\ e.to \in Int
  BY DEF Proper
<1> DEFINE from == [e \in es |-> e.from]
           to == [e \in es |-> e.to]
<1>3. IsFiniteSet({e.from : e \in es}) /\ IsFiniteSet({e.to : e \in es})
  <2>1. /\ DOMAIN from = es /\ {from[e] : e \in es} = {e.from : e \in es}
        /\ DOMAIN to = es /\ {to[e] : e \in es} = {e.to : e \in es}
    OBVIOUS
  <2> HIDE DEF from, to
  <2>2. IsFiniteSet({from[e] : e \in es}) /\ IsFiniteSet({to[e] : e \in es})
    BY <1>1, <2>1, ValuesAreFinite
  <2> QED
    BY <2>1, <2>2
<1> QED
  BY <1>2, <1>3, FS_CardinalityType

(* What the counts of a ranking count is finite.                           *)
LEMMA CountsAreNumbers ==
  ASSUME NEW g, Proper(g)
  PROVE  /\ \A f : CallersIn(g, f) \in Nat /\ Pointing(g, f) \in Nat
         /\ \A f : Cardinality(SymbolsIn(g, f)) \in Nat /\ IsFiniteSet(SymbolsIn(g, f))
         /\ \A n : Inbound(g, n) \in Nat /\ Outbound(g, n) \in Nat
<1>1. Fanin(g) \subseteq g.edges /\ Impacts(g) \subseteq g.edges /\ IsFiniteSet(Structural(g))
  BY SelectionsAreFinite
<1>2. ASSUME NEW f PROVE CallersIn(g, f) \in Nat /\ Pointing(g, f) \in Nat
  <2> DEFINE callers == {x \in Fanin(g) : x.to \in Callable(g) /\ FileOf[x.to] = f}
             pointing == {x \in Impacts(g) : x.to \in SymbolsIn(g, f) /\ x.from \in Structural(g)}
  <2>1. callers \subseteq g.edges /\ pointing \subseteq g.edges
    BY <1>1
  <2>2. /\ CallersIn(g, f) = Cardinality({e.from : e \in callers})
        /\ Pointing(g, f) = Cardinality({e.from : e \in pointing})
    BY DEF CallersIn, Pointing
  <2> HIDE DEF callers, pointing
  <2> QED
    BY <2>1, <2>2, EndsAreFinite
<1>3. ASSUME NEW n PROVE Inbound(g, n) \in Nat /\ Outbound(g, n) \in Nat
  <2> DEFINE callers == {x \in Fanin(g) : x.to = n /\ x.from \in Structural(g)}
             called == {x \in Fanin(g) : x.from = n /\ x.to \in Structural(g)}
  <2>1. callers \subseteq g.edges /\ called \subseteq g.edges
    BY <1>1
  <2>2. /\ Inbound(g, n) = Cardinality({e.from : e \in callers})
        /\ Outbound(g, n) = Cardinality({e.to : e \in called})
    BY DEF Inbound, Outbound
  <2> HIDE DEF callers, called
  <2> QED
    BY <2>1, <2>2, EndsAreFinite
<1>4. ASSUME NEW f PROVE Cardinality(SymbolsIn(g, f)) \in Nat /\ IsFiniteSet(SymbolsIn(g, f))
  <2>1. SymbolsIn(g, f) \subseteq Structural(g)
    BY DEF SymbolsIn
  <2> QED
    BY <1>1, <2>1, FS_Subset, FS_CardinalityType
<1> QED
  BY <1>2, <1>3, <1>4

(* A selection with a limit: some, and no more than the limit.             *)
Limits(chosen, k, S) == chosen \subseteq S /\ IsFiniteSet(chosen) /\ Cardinality(chosen) <= k

(* Of symbols, those with the first ids.                                   *)
LEMMA FirstIdsLimit ==
  ASSUME NEW ns \in SUBSET Int, IsFiniteSet(ns), NEW k \in Nat
  PROVE  Limits(FirstIds(k, ns), k, ns)
<1> DEFINE key == [n \in ns |-> <<n>>]
<1>1. key \in [ns -> [1..1 -> Int]]
  OBVIOUS
<1>2. \A a, b \in ns : key[a] = key[b] => a = b
  OBVIOUS
<1> HIDE DEF key
<1>3. Limits(Leading(k, ns, key), k, ns)
  BY <1>1, <1>2, LeadingIs DEF Limits
<1> QED
  BY <1>3 DEF key, FirstIds

(* Of edges, the first by their ends and kind.                             *)
LEMMA FirstEdgesLimit ==
  ASSUME NEW g, Proper(g), NEW es \in SUBSET Impacts(g), NEW k \in Nat
  PROVE  Limits(FirstEdges(k, es), k, es)
<1> DEFINE key == [e \in es |-> <<e.from, e.to, IF e.kind = "calls" THEN 0 ELSE 1>>]
<1>1. \A e \in es : /\ e \in [from : g.nodes, to : g.nodes, kind : STRING]
                    /\ e.from \in Int /\ e.to \in Int /\ e.kind \in {"calls", "extends"}
  BY DEF Proper, Impacts, DrawnKinds
<1>2. key \in [es -> [1..3 -> Int]]
  BY <1>1
<1>3. ASSUME NEW a \in es, NEW b \in es, key[a] = key[b] PROVE a = b
  <2>1. a.from = b.from /\ a.to = b.to /\ a.kind = b.kind
    BY <1>1, <1>3
  <2> QED
    BY <1>1, <2>1
<1>4. IsFiniteSet(es)
  BY SelectionsAreFinite, FS_Subset
<1> HIDE DEF key
<1>5. Limits(Leading(k, es, key), k, es)
  BY <1>2, <1>3, <1>4, LeadingIs DEF Limits
<1> QED
  BY <1>5 DEF key, FirstEdges

(* Of files: those with keys in front of their names.                      *)
LEMMA HottestFilesLimit ==
  ASSUME NEW g, Proper(g), NEW k \in Nat
  PROVE  Limits(HottestFiles(k, g), k, HotFiles(g))
<1> DEFINE S == HotFiles(g)
           key == FileHeat(g, S)
<1>1. S \subseteq Int /\ IsFiniteSet(S)
  BY SelectionsAreFinite
<1>2. \A f \in S : key[f] = <<-CallersIn(g, f), f>> /\ CallersIn(g, f) \in Nat
  BY CountsAreNumbers DEF FileHeat
<1>3. key \in [S -> [1..2 -> Int]]
  <2>1. \A f \in S : key[f] \in [1..2 -> Int]
    BY <1>1, <1>2
  <2> QED
    BY <2>1 DEF FileHeat
<1>4. \A a, b \in S : key[a] = key[b] => a = b
  BY <1>2
<1> HIDE DEF key, S
<1>5. Limits(Leading(k, S, key), k, S)
  BY <1>1, <1>3, <1>4, LeadingIs DEF Limits
<1> QED
  BY <1>5 DEF key, S, HottestFiles

(* The drawn files in order.                                               *)
LEMMA FilesInOrder ==
  ASSUME NEW g, Proper(g), NEW fs \in SUBSET HotFiles(g)
  PROVE  Lists(InOrder(fs, FileHeat(g, fs)), fs)
<1> DEFINE key == FileHeat(g, fs)
<1>1. fs \subseteq Int /\ IsFiniteSet(fs)
  BY SelectionsAreFinite, FS_Subset
<1>2. \A f \in fs : key[f] = <<-CallersIn(g, f), f>> /\ CallersIn(g, f) \in Nat
  BY CountsAreNumbers DEF FileHeat
<1>3. key \in [fs -> [1..2 -> Int]]
  <2>1. \A f \in fs : key[f] \in [1..2 -> Int]
    BY <1>1, <1>2
  <2> QED
    BY <2>1 DEF FileHeat
<1>4. \A a, b \in fs : key[a] = key[b] => a = b
  BY <1>2
<1> HIDE DEF key
<1>5. Lists(InOrder(fs, key), fs)
  BY <1>1, <1>3, <1>4, InOrderIs
<1> QED
  BY <1>5 DEF key

(* Of the symbols in a file.                                               *)
LEMMA HottestSymbolsLimit ==
  ASSUME NEW g, Proper(g), NEW f, NEW k \in Nat
  PROVE  Limits(HottestSymbols(k, g, SymbolsIn(g, f)), k, SymbolsIn(g, f))
<1> DEFINE S == SymbolsIn(g, f)
           key == [n \in S |-> <<-Inbound(g, n), -Outbound(g, n), n>>]
<1>1. S \subseteq Int /\ IsFiniteSet(S)
  <2>1. S \subseteq Structural(g)
    BY DEF SymbolsIn
  <2> QED
    BY <2>1, SelectionsAreFinite, CountsAreNumbers DEF Proper
<1>2. \A n \in S : Inbound(g, n) \in Nat /\ Outbound(g, n) \in Nat
  BY CountsAreNumbers
<1> HIDE DEF S
<1>3. key \in [S -> [1..3 -> Int]]
  <2>1. \A n \in S : key[n] \in [1..3 -> Int]
    BY <1>1, <1>2
  <2> QED
    BY <2>1
<1>4. \A a, b \in S : key[a] = key[b] => a = b
  OBVIOUS
<1> HIDE DEF key
<1>5. Limits(Leading(k, S, key), k, S)
  BY <1>1, <1>3, <1>4, LeadingIs DEF Limits
<1> QED
  BY <1>5 DEF key, S, HottestSymbols

(* Of files in the order of the collapsed view.                            *)
LEMMA DensestFilesLimit ==
  ASSUME NEW g, Proper(g), NEW k \in Nat
  PROVE  Limits(DensestFiles(k, g), k, Paths(Structural(g)))
<1> DEFINE S == Paths(Structural(g))
           key == [f \in S |-> <<-Pointing(g, f), -Cardinality(SymbolsIn(g, f)), f>>]
<1>1. S \subseteq Int /\ IsFiniteSet(S)
  BY SelectionsAreFinite
<1>2. \A f \in S : Pointing(g, f) \in Nat /\ Cardinality(SymbolsIn(g, f)) \in Nat
  BY CountsAreNumbers
<1> HIDE DEF S
<1>3. key \in [S -> [1..3 -> Int]]
  <2>1. \A f \in S : key[f] \in [1..3 -> Int]
    BY <1>1, <1>2
  <2> QED
    BY <2>1
<1>4. \A a, b \in S : key[a] = key[b] => a = b
  OBVIOUS
<1> HIDE DEF key
<1>5. Limits(Leading(k, S, key), k, S)
  BY <1>1, <1>3, <1>4, LeadingIs DEF Limits
<1> QED
  BY <1>5 DEF key, S, DensestFiles

(* Pairs of files.                                                         *)
LEMMA FirstPairsLimit ==
  ASSUME NEW g, Proper(g), NEW fs \in SUBSET Int, NEW k \in Nat
  PROVE  /\ FilePairs(g, fs) \subseteq fs \X fs
         /\ Limits(FirstPairs(k, FilePairs(g, fs)), k, FilePairs(g, fs))
<1> DEFINE S == FilePairs(g, fs)
           es == {x \in Impacts(g) : FileOf[x.from] \in fs /\ FileOf[x.to] \in fs}
           pair == [e \in es |-> <<FileOf[e.from], FileOf[e.to]>>]
           key == [p \in S |-> p]
<1>1. S \subseteq fs \X fs
  BY DEF FilePairs
<1>2. IsFiniteSet(S)
  <2>1. IsFiniteSet(es)
    BY SelectionsAreFinite, FS_Subset
  <2>2. DOMAIN pair = es /\ S \subseteq {pair[e] : e \in es}
    BY DEF FilePairs
  <2> HIDE DEF pair, S, es
  <2>3. IsFiniteSet({pair[e] : e \in es})
    BY <2>1, <2>2, ValuesAreFinite
  <2> QED
    BY <2>2, <2>3, FS_Subset
<1> HIDE DEF S
<1>3. key \in [S -> [1..2 -> Int]]
  <2>1. ASSUME NEW p \in fs \X fs PROVE p \in Int \X Int
    OBVIOUS
  <2>2. ASSUME NEW p \in Int \X Int PROVE p \in [1..2 -> Int]
    OBVIOUS
  <2>3. \A p \in S : p \in [1..2 -> Int]
    BY <1>1, <2>1, <2>2
  <2> QED
    BY <2>3
<1>4. \A a, b \in S : key[a] = key[b] => a = b
  OBVIOUS
<1> HIDE DEF key
<1>5. Limits(Leading(k, S, key), k, S)
  BY <1>2, <1>3, <1>4, LeadingIs DEF Limits
<1> QED
  BY <1>1, <1>5 DEF key, S, FirstPairs

(* The levels out from ns.                                                 *)
LEMMA OutwardIs ==
  ASSUME NEW g, NEW ns, NEW depth \in Nat
  PROVE  /\ Outward(g, ns, depth)[0] = ns
         /\ \A d \in 1..depth : Outward(g, ns, depth)[d] =
              Outward(g, ns, depth)[d - 1] \cup Sources(g, Outward(g, ns, depth)[d - 1])
<1> DEFINE N == ns \cup {e.from : e \in g.edges}
           step == [s \in SUBSET N |-> s \cup Sources(g, s)]
           Is(f) ==
             f = [d \in 0..depth |-> IF d = 0 THEN ns ELSE f[d - 1] \cup Sources(g, f[d - 1])]
<1>1. step \in [SUBSET N -> SUBSET N]
  <2>1. \A s : Sources(g, s) \subseteq N
    BY DEF Sources, Impacts
  <2> HIDE DEF N
  <2> QED
    BY <2>1
<1>2. ns \in SUBSET N
  OBVIOUS
<1> HIDE DEF N
<1>3. \E f \in [1..depth -> SUBSET N] : Repeats(f, step, ns, depth)
  <2> HIDE DEF step
  <2> QED
    BY <1>1, <1>2, Iterates
<1>4. PICK f \in [1..depth -> SUBSET N] : Repeats(f, step, ns, depth)
  BY <1>3
<1> DEFINE h == [d \in 0..depth |-> IF d = 0 THEN ns ELSE f[d]]
<1>5. \A d \in 1..depth : h[d] = h[d - 1] \cup Sources(g, h[d - 1])
  <2> TAKE d \in 1..depth
  <2>1. f[d] = step[IF d = 1 THEN ns ELSE f[d - 1]]
    BY <1>4 DEF Repeats
  <2>2. h[d] = f[d] /\ h[d - 1] = (IF d = 1 THEN ns ELSE f[d - 1]) /\ h[d - 1] \in SUBSET N
    <3>1. CASE d = 1
      BY <1>2, <3>1
    <3>2. CASE d # 1
      <4>1. d - 1 \in 1..depth /\ d - 1 \in 0..depth /\ d - 1 # 0
        BY <3>2
      <4> QED
        BY <3>2, <4>1
    <3> QED
      BY <3>1, <3>2
  <2> HIDE DEF h
  <2> QED
    BY <2>1, <2>2
<1>6. Is(h)
  <2>1. h = [d \in 0..depth |-> h[d]] /\ h[0] = ns
    OBVIOUS
  <2>2. \A d \in 0..depth : h[d] = IF d = 0 THEN ns ELSE h[d - 1] \cup Sources(g, h[d - 1])
    <3> TAKE d \in 0..depth
    <3>1. CASE d = 0
      BY <2>1, <3>1
    <3>2. CASE d # 0
      <4>1. d \in 1..depth
        BY <3>2
      <4> HIDE DEF h
      <4> QED
        BY <1>5, <3>2, <4>1
    <3> QED
      BY <3>1, <3>2
  <2> HIDE DEF h
  <2> QED
    BY <2>1, <2>2
<1>7. Is(CHOOSE r : Is(r))
  <2> HIDE DEF Is, h
  <2> QED
    BY <1>6
<1>8. Outward(g, ns, depth) = CHOOSE r : Is(r)
  BY DEF Outward
<1> DEFINE o == Outward(g, ns, depth)
<1>9. o = [d \in 0..depth |-> IF d = 0 THEN ns ELSE o[d - 1] \cup Sources(g, o[d - 1])]
  BY <1>7, <1>8
<1> HIDE DEF o
<1>10. o[0] = ns /\ \A d \in 1..depth : o[d] = o[d - 1] \cup Sources(g, o[d - 1])
  <2>1. \A d \in 0..depth : o[d] = IF d = 0 THEN ns ELSE o[d - 1] \cup Sources(g, o[d - 1])
    BY <1>9
  <2>2. ASSUME NEW d \in 1..depth PROVE o[d] = o[d - 1] \cup Sources(g, o[d - 1])
    <3>1. d \in 0..depth /\ d # 0
      OBVIOUS
    <3> QED
      BY <2>1, <3>1
  <2>3. o[0] = ns
    <3>1. 0 \in 0..depth
      OBVIOUS
    <3> QED
      BY <2>1, <3>1
  <2> QED
    BY <2>2, <2>3
<1> QED
  BY <1>10 DEF o

--------------------------------------------------------------------------------
(*****************************************************************************)
(* GraphViews                                                                *)
(* What is known of a view at each stage of its reading, and that it lasts.  *)
(*****************************************************************************)

(* The fields of a view, and where its reading may be.                     *)
ViewFields ==
  {"at", "request", "nodes", "files", "edges", "spokes", "pairs", "truncated", "total",
   "totalEdges", "names", "rows", "around", "level", "inFile", "starved"}

Elements(s) == {s[i] : i \in 1..Len(s)}

(* The index is still the one asked of, and nothing is left out yet.       *)
Entire == syncs = 0 /\ ~view.truncated

Fresh ==
  /\ view.nodes = {} /\ view.files = {} /\ view.edges = {} /\ view.spokes = {} /\ view.pairs = {}
  /\ ~view.truncated

(* Neighbourhoods: names are found as long as there is room, and so is     *)
(* what leads to them; what leads to the rest is found already.            *)
HotSoFar ==
  /\ Asked.view = "hot" /\ view.files = {} /\ view.spokes = {} /\ view.pairs = {}
  /\ view.nodes \subseteq Int /\ IsFiniteSet(view.nodes)
  /\ Cardinality(view.nodes) <= Asked.maxNodes

NamesInv ==
  /\ HotSoFar /\ view.level = 0 /\ view.names \in Seq(SUBSET Int)
  /\ UNION Elements(view.names) \subseteq UNION Elements(Asked.names)
  /\ syncs = 0 => view.nodes \subseteq Named
  /\ Entire => Named \subseteq view.nodes \cup (UNION Elements(view.names))

Levels == Outward(database, Named, Asked.depth)

SearchInv ==
  /\ HotSoFar /\ view.around \subseteq view.nodes /\ view.level \in 0..Asked.depth
  /\ syncs = 0 => view.nodes \subseteq database.nodes
  /\ Entire /\ ~view.starved =>
       /\ view.nodes = Levels[view.level]
       /\ Sources(database, view.nodes) \subseteq view.nodes \cup Sources(database, view.around)

FetchedInv ==
  /\ HotSoFar /\ view.nodes \subseteq view.around
  /\ syncs = 0 => view.nodes = view.around
  /\ syncs <= 1 => view.nodes = view.around \/ view.nodes = view.around \cap database.nodes
  /\ Entire /\ ~view.starved /\ Cardinality(view.nodes) # Asked.maxNodes =>
       view.nodes = Levels[Asked.depth]

(* The map: the files drawn and the rows left are the hot files, and the   *)
(* symbols drawn are those of the files drawn.                             *)
MapSoFar ==
  /\ Asked.view = "godmap" /\ view.pairs = {}
  /\ view.files \subseteq Int /\ IsFiniteSet(view.files)
  /\ view.nodes \subseteq Int /\ IsFiniteSet(view.nodes)
  /\ Drawn <= Asked.maxNodes
  /\ \A n \in view.nodes : FileOf[n] \in view.files

CrossInv ==
  /\ MapSoFar /\ view.files = {} /\ view.nodes = {} /\ view.rows \in Seq(Int)
  /\ syncs = 0 => /\ view.around = HotFiles(database)
                  /\ view.totalEdges = Cardinality(HotSymbols(database))
  /\ Entire => Elements(view.rows) = HotFiles(database)

EdgesCounted ==
  syncs = 0 => view.totalEdges = Cardinality(HotSymbols(database))
                                 + Cardinality(Between(database, HotSymbols(database)))

HubInv ==
  /\ MapSoFar /\ view.rows \in Seq(Int) /\ EdgesCounted
  /\ Entire => /\ view.files \cup Elements(view.rows) = HotFiles(database)
               /\ view.nodes = {n \in Structural(database) : FileOf[n] \in view.files}

SymbolsInv ==
  /\ MapSoFar /\ view.rows \in Seq(Int) /\ EdgesCounted /\ Drawn < Asked.maxNodes
  /\ view.rows # <<>> /\ Head(view.rows) \in view.files
  /\ syncs = 0 => view.inFile = Cardinality(SymbolsIn(database, Head(view.rows)))
  /\ Entire =>
       /\ view.files \cup Elements(view.rows) = HotFiles(database)
       /\ view.nodes \subseteq {n \in Structural(database) : FileOf[n] \in view.files}
       /\ \A n \in Structural(database) :
            FileOf[n] \in view.files /\ FileOf[n] # Head(view.rows) => n \in view.nodes

(* The full graph: by symbol or by file, as was counted.                   *)
CountedInv ==
  /\ Asked.view = "full" /\ Fresh /\ view.total \in Nat

SymbolModeInv ==
  /\ Asked.view = "full" /\ view.total \in Nat /\ view.total <= Asked.collapseAfter
  /\ view.files = {} /\ view.spokes = {} /\ view.pairs = {}
  /\ view.nodes \subseteq Int /\ IsFiniteSet(view.nodes)
  /\ Cardinality(view.nodes) <= Asked.maxNodes

FileModeInv ==
  /\ Asked.view = "full" /\ view.total \in Nat /\ view.total > Asked.collapseAfter
  /\ view.nodes = {} /\ view.edges = {} /\ view.spokes = {}
  /\ view.files \subseteq Int /\ IsFiniteSet(view.files)
  /\ Cardinality(view.files) <= Asked.maxNodes

Honest ==
  /\ Joined /\ Fits
  /\ (syncs = 0 /\ ~view.starved) => (Whole \/ Owned)

ViewsBase ==
  /\ Proper(database) /\ syncs \in Nat
  /\ DOMAIN view = ViewFields /\ view.truncated \in BOOLEAN /\ view.starved \in BOOLEAN
  /\ view.at # "idle" => Asked \in Requests

ViewsInv ==
  /\ ViewsBase
  /\ view.at \in {"godmap", "full", "overview", "file"} => Asked.view = view.at /\ Fresh
  /\ view.at = "hot" => NamesInv
  /\ view.at = "search" => SearchInv
  /\ view.at = "edges" => FetchedInv
  /\ view.at = "cross" => CrossInv
  /\ view.at = "hub" => HubInv
  /\ view.at = "symbols" => SymbolsInv
  /\ view.at = "spokes" => MapSoFar /\ view.truncated
  /\ view.at = "countEdges" => CountedInv
  /\ view.at = "allSymbols" => CountedInv /\ SymbolModeInv
  /\ view.at = "allEdges" => SymbolModeInv /\ (Entire => view.nodes = Structural(database))
  /\ view.at = "allFiles" => CountedInv /\ FileModeInv
  /\ view.at = "pairs" => /\ FileModeInv /\ (syncs = 0 => view.files = Densest)
                          /\ Entire => view.files = Paths(Structural(database))
  /\ view.at = "top" => /\ Asked.view = "file" /\ Fresh
                        /\ syncs = 0 => view.total = Cardinality(SymbolsIn(database, Asked.file))
  /\ view.at = "done" => view = [Blank(Asked) EXCEPT !.at = "done"] \/ Honest

(* What is asked for is of its kind.                                       *)
LEMMA RequestsAre ==
  ASSUME Asked \in Requests
  PROVE  /\ Asked.view \in {"hot", "godmap", "full", "overview", "file"}
         /\ Asked.view = "hot" =>
              Asked.names \in Seq(SUBSET Int) /\ Asked.depth \in Nat /\ Asked.maxNodes \in Nat
         /\ Asked.view = "godmap" => /\ Asked.maxFiles \in Nat /\ Asked.perFile \in Nat
                                     /\ Asked.maxNodes \in Nat /\ Asked.maxEdges \in Nat
         /\ Asked.view = "full" => /\ Asked.maxNodes \in Nat /\ Asked.maxEdges \in Nat
                                   /\ Asked.collapseAfter \in Nat
         /\ Asked.view = "overview" => Asked.maxFiles \in Nat
         /\ Asked.view = "file" => Asked.perFile \in Nat
BY ViewsAssumption

(* Nothing is asked for to begin with.                                     *)
LEMMA ViewsStartRight ==
  ASSUME ViewsInit
  PROVE  ViewsInv
<1>1. Proper(database) /\ syncs = 0 /\ view = Blank(NoRequest)
  BY ViewsAssumption DEF ViewsInit, Proper
<1>2. view.at = "idle" /\ DOMAIN view = ViewFields /\ view.truncated = FALSE /\ view.starved = FALSE
  BY <1>1 DEF Blank, ViewFields
<1> QED
  BY <1>1, <1>2 DEF ViewsInv, ViewsBase

(* A sync spoils only what is said of views read from one index.           *)
LEMMA SyncKeepsViews ==
  ASSUME ViewsInv, Sync
  PROVE  ViewsInv'
<1>1. /\ view' = view /\ syncs' = syncs + 1 /\ database' \in Resynced
      /\ view.at \notin {"idle", "done"} /\ syncs \in Nat
  BY DEF Sync, ViewsInv, ViewsBase
<1>2. Proper(database)'
  BY <1>1, ViewsAssumption DEF Proper
<1>3. syncs' \in Nat /\ syncs' # 0 /\ (syncs' <= 1 => syncs = 0)
  BY <1>1
<1>4. ViewsBase'
  BY <1>1, <1>2, <1>3 DEF ViewsInv, ViewsBase, Asked
<1>5. /\ Fresh' = Fresh /\ HotSoFar' = HotSoFar /\ MapSoFar' = MapSoFar /\ CountedInv' = CountedInv
      /\ SymbolModeInv' = SymbolModeInv /\ FileModeInv' = FileModeInv /\ Drawn' = Drawn
      /\ Asked' = Asked
  BY <1>1 DEF Fresh, HotSoFar, MapSoFar, CountedInv, SymbolModeInv, FileModeInv, Drawn, Asked
<1>6. view.at = "hot" => NamesInv'
  BY <1>1, <1>3, <1>5 DEF ViewsInv, NamesInv, Entire
<1>7. view.at = "search" => SearchInv'
  BY <1>1, <1>3, <1>5 DEF ViewsInv, SearchInv, Entire
<1>8. view.at = "edges" => FetchedInv'
  BY <1>1, <1>3, <1>5 DEF ViewsInv, FetchedInv, Entire
<1>9. view.at = "cross" => CrossInv'
  BY <1>1, <1>3, <1>5 DEF ViewsInv, CrossInv, Entire
<1>10. view.at = "hub" => HubInv'
  BY <1>1, <1>3, <1>5 DEF ViewsInv, HubInv, EdgesCounted, Entire
<1>11. view.at = "symbols" => SymbolsInv'
  BY <1>1, <1>3, <1>5 DEF ViewsInv, SymbolsInv, EdgesCounted, Entire
<1> QED
  BY <1>1, <1>3, <1>4, <1>5, <1>6, <1>7, <1>8, <1>9, <1>10, <1>11 DEF ViewsInv, Entire

(* A view that is refused shows nothing.                                   *)
LEMMA RefusalKeepsViews ==
  ASSUME ViewsInv, NEW r \in Requests, Steps([Blank(r) EXCEPT !.at = "done"])
  PROVE  ViewsInv'
<1>1. view' = [Blank(r) EXCEPT !.at = "done"] /\ database' = database /\ syncs' = syncs
  BY DEF Steps
<1>2. /\ view'.at = "done" /\ view'.request = r /\ DOMAIN view' = ViewFields
      /\ view'.truncated = FALSE /\ view'.starved = FALSE
  BY <1>1 DEF Blank, ViewFields
<1>3. Asked' = r
  BY <1>2 DEF Asked
<1>4. ViewsBase'
  BY <1>1, <1>2, <1>3 DEF ViewsInv, ViewsBase
<1> QED
  BY <1>1, <1>2, <1>3, <1>4 DEF ViewsInv

(* What is opened begins with nothing shown.                               *)
LEMMA OpenKeepsViews ==
  ASSUME ViewsInv, Open
  PROVE  ViewsInv'
<1>1. PICK r \in Requests :
        \/ Steps([Blank(r) EXCEPT !.at = "done"])
        \/ Steps([Blank(r) EXCEPT !.at = r.view,
                                  !.names = IF r.view = "hot" THEN r.names ELSE <<>>])
  BY DEF Open
<1>2. CASE Steps([Blank(r) EXCEPT !.at = "done"])
  BY <1>2, RefusalKeepsViews
<1>3. CASE Steps([Blank(r) EXCEPT !.at = r.view,
                                  !.names = IF r.view = "hot" THEN r.names ELSE <<>>])
  <2>1. /\ view' = [Blank(r) EXCEPT !.at = r.view,
                                    !.names = IF r.view = "hot" THEN r.names ELSE <<>>]
        /\ database' = database /\ syncs' = syncs
    BY <1>3 DEF Steps
  <2>2. /\ view'.at = r.view /\ view'.request = r /\ DOMAIN view' = ViewFields
        /\ view'.truncated = FALSE /\ view'.starved = FALSE /\ view'.level = 0
        /\ view'.nodes = {} /\ view'.files = {} /\ view'.edges = {} /\ view'.spokes = {}
        /\ view'.pairs = {} /\ (r.view = "hot" => view'.names = r.names)
    BY <2>1 DEF Blank, ViewFields
  <2>3. Asked' = r /\ r.view \in {"hot", "godmap", "full", "overview", "file"}
    BY <2>2, ViewsAssumption DEF Asked
  <2>4. ViewsBase' /\ Fresh'
    BY <2>1, <2>2, <2>3 DEF ViewsInv, ViewsBase, Fresh
  <2>5. CASE r.view = "hot"
    <3>1. r.names \in Seq(SUBSET Int) /\ r.maxNodes \in Nat
      BY <2>5, ViewsAssumption
    <3>2. HotSoFar'
      BY <2>2, <2>3, <2>5, <3>1, FS_EmptySet DEF HotSoFar
    <3>3. Named' \subseteq UNION Elements(r.names)
      BY <2>3, <3>1 DEF Named, Elements
    <3>4. NamesInv'
      BY <2>2, <2>3, <2>5, <3>1, <3>2, <3>3 DEF NamesInv
    <3> QED
      BY <2>2, <2>4, <2>5, <3>4 DEF ViewsInv
  <2>6. CASE r.view # "hot"
    BY <2>2, <2>3, <2>4, <2>6 DEF ViewsInv
  <2> QED
    BY <2>5, <2>6
<1> QED
  BY <1>1, <1>2, <1>3

(* A query that fails leaves a view that shows nothing.                    *)
LEMMA FailureKeepsViews ==
  ASSUME ViewsInv, QueryFails
  PROVE  ViewsInv'
<1>1. Asked \in Requests /\ Steps([Blank(Asked) EXCEPT !.at = "done"])
  BY DEF ViewsInv, ViewsBase, QueryFails, Unavailable, Reading
<1>2. PICK r \in Requests : r = Asked
  BY <1>1
<1> QED
  BY <1>1, <1>2, RefusalKeepsViews

(* A step of a reading keeps what it was asked for, and the index.         *)
LEMMA StepIs ==
  ASSUME ViewsInv, view.at # "idle", NEW changed, Steps(changed), DOMAIN changed = ViewFields,
         changed.request = view.request,
         changed.truncated \in BOOLEAN, changed.starved \in BOOLEAN
  PROVE  /\ view' = changed /\ database' = database /\ syncs' = syncs
         /\ Asked' = Asked /\ Asked \in Requests /\ ViewsBase'
<1>1. view' = changed /\ database' = database /\ syncs' = syncs
  BY DEF Steps
<1>2. Asked' = Asked
  BY <1>1 DEF Asked
<1> QED
  BY <1>1, <1>2 DEF ViewsInv, ViewsBase

(* The elements of a sequence: its head and those of its tail.             *)
LEMMA HeadAndTail ==
  ASSUME NEW T, NEW s \in Seq(T), s # <<>>
  PROVE  Head(s) \in T /\ Tail(s) \in Seq(T) /\ Elements(s) = {Head(s)} \cup Elements(Tail(s))
<1>1. Head(s) \in T /\ Tail(s) \in Seq(T) /\ Len(s) \in Nat /\ Len(s) # 0 /\ Head(s) = s[1]
  OBVIOUS
<1>2. Len(Tail(s)) = Len(s) - 1 /\ \A i \in 1..(Len(s) - 1) : Tail(s)[i] = s[i + 1]
  OBVIOUS
<1>3. Elements(s) \subseteq {Head(s)} \cup Elements(Tail(s))
  <2>1. ASSUME NEW i \in 1..Len(s) PROVE s[i] \in {Head(s)} \cup Elements(Tail(s))
    <3>1. CASE i = 1
      BY <1>1, <3>1
    <3>2. CASE i # 1
      <4>1. i - 1 \in 1..(Len(s) - 1) /\ (i - 1) + 1 = i
        BY <1>1, <3>2
      <4>2. Tail(s)[i - 1] = s[i]
        BY <1>2, <4>1
      <4> QED
        BY <1>2, <4>1, <4>2 DEF Elements
    <3> QED
      BY <3>1, <3>2
  <2> QED
    BY <2>1 DEF Elements
<1>4. Elements(Tail(s)) \subseteq Elements(s) /\ Head(s) \in Elements(s)
  <2>1. ASSUME NEW i \in 1..(Len(s) - 1) PROVE Tail(s)[i] \in Elements(s)
    <3>1. i + 1 \in 1..Len(s) /\ Tail(s)[i] = s[i + 1]
      BY <1>1, <1>2
    <3> QED
      BY <3>1 DEF Elements
  <2>2. 1 \in 1..Len(s)
    BY <1>1
  <2> QED
    BY <1>1, <1>2, <2>1, <2>2 DEF Elements
<1> QED
  BY <1>1, <1>3, <1>4

(* What is chosen with a limit, added to what is there.                    *)
LEMMA RoomIsLeft ==
  ASSUME NEW S, IsFiniteSet(S), NEW limit \in Nat, Cardinality(S) <= limit,
         NEW A, NEW T, Limits(A, limit - Cardinality(S), T)
  PROVE  IsFiniteSet(S \cup A) /\ Cardinality(S \cup A) <= limit
<1>1. IsFiniteSet(A) /\ Cardinality(A) <= limit - Cardinality(S)
  BY DEF Limits
<1>2. /\ IsFiniteSet(S \cup A) /\ IsFiniteSet(S \cap A)
      /\ Cardinality(S \cup A) = Cardinality(S) + Cardinality(A) - Cardinality(S \cap A)
  <2>1. IsFiniteSet(S \cap A)
    BY FS_Subset
  <2> QED
    BY <1>1, <2>1, FS_Union
<1>3. Cardinality(S) \in Nat /\ Cardinality(A) \in Nat /\ Cardinality(S \cap A) \in Nat
  BY <1>1, <1>2, FS_CardinalityType
<1> QED
  BY <1>1, <1>2, <1>3

(* A name that is resolved is found, or its absence owned to.              *)
LEMMA ResolvingKeepsViews ==
  ASSUME ViewsInv, ResolveName
  PROVE  ViewsInv'
<1> DEFINE matches == (Head(view.names) \cap database.nodes) \ view.nodes
           room == Asked.maxNodes - Cardinality(view.nodes)
           added == FirstIds(room, matches)
           changed == [view EXCEPT !.nodes = @ \cup added, !.names = Tail(@),
                                   !.truncated = @ \/ added # matches]
<1>1. /\ view.at = "hot" /\ view.names # <<>> /\ Steps(changed) /\ NamesInv /\ ViewsBase
      /\ DOMAIN view = ViewFields /\ Asked.view = "hot"
  BY DEF ResolveName, Reading, ViewsInv, ViewsBase, NamesInv, HotSoFar
<1>2. /\ DOMAIN changed = ViewFields /\ changed.request = view.request /\ changed.at = "hot"
      /\ changed.nodes = view.nodes \cup added /\ changed.names = Tail(view.names)
      /\ changed.truncated = (view.truncated \/ added # matches)
      /\ changed.starved = view.starved /\ changed.level = view.level
      /\ changed.files = view.files /\ changed.spokes = view.spokes /\ changed.pairs = view.pairs
  BY <1>1 DEF ViewFields
<1> HIDE DEF changed
<1>3. /\ view' = changed /\ database' = database /\ syncs' = syncs
      /\ Asked' = Asked /\ Asked \in Requests /\ ViewsBase'
  <2>1. changed.truncated \in BOOLEAN /\ changed.starved \in BOOLEAN
    BY <1>1, <1>2 DEF ViewsBase
  <2> QED
    BY <1>1, <1>2, <2>1, StepIs
<1>4. Asked.names \in Seq(SUBSET Int) /\ Asked.maxNodes \in Nat
  BY <1>1, <1>3, RequestsAre
<1>5. /\ view.nodes \subseteq Int /\ IsFiniteSet(view.nodes)
      /\ Cardinality(view.nodes) <= Asked.maxNodes /\ Cardinality(view.nodes) \in Nat
      /\ view.names \in Seq(SUBSET Int)
  BY <1>1, FS_CardinalityType DEF NamesInv, HotSoFar
<1>6. /\ Head(view.names) \in SUBSET Int /\ Tail(view.names) \in Seq(SUBSET Int)
      /\ Elements(view.names) = {Head(view.names)} \cup Elements(Tail(view.names))
  BY <1>1, <1>5, HeadAndTail
<1>7. Limits(added, room, matches)
  <2>1. matches \in SUBSET Int /\ IsFiniteSet(matches)
    <3>1. IsFiniteSet(database.nodes) /\ matches \subseteq database.nodes
      BY <1>1 DEF ViewsBase, Proper
    <3> QED
      BY <1>6, <3>1, FS_Subset
  <2>2. room \in Nat
    BY <1>4, <1>5
  <2> HIDE DEF matches, room
  <2> QED
    BY <2>1, <2>2, FirstIdsLimit
<1>8. /\ IsFiniteSet(view.nodes \cup added) /\ Cardinality(view.nodes \cup added) <= Asked.maxNodes
      /\ view.nodes \cup added \subseteq Int
  <2>1. view.nodes \cup added \subseteq Int
    BY <1>5, <1>6, <1>7 DEF Limits
  <2> HIDE DEF added, matches
  <2> QED
    BY <1>4, <1>5, <1>7, <2>1, RoomIsLeft
<1> DEFINE found == view.nodes \cup added
<1>9. matches \subseteq Head(view.names) \cap database.nodes /\ added \subseteq matches
  BY <1>7 DEF Limits
<1>10. Head(view.names) \cap database.nodes \subseteq view.nodes \cup matches
  OBVIOUS
<1>11. Named = (UNION Elements(Asked.names)) \cap database.nodes
  BY <1>4 DEF Named, Elements
<1> HIDE DEF added, matches
<1>12. HotSoFar'
  BY <1>1, <1>2, <1>3, <1>8 DEF NamesInv, HotSoFar
<1>13. UNION Elements(Tail(view.names)) \subseteq UNION Elements(Asked.names)
  BY <1>1, <1>6 DEF NamesInv
<1>14. Named' = Named
  BY <1>3 DEF Named
<1> DEFINE head == Head(view.names)
           before == UNION Elements(view.names)
           left == UNION Elements(Tail(view.names))
           all == UNION Elements(Asked.names)
<1>20. before = head \cup left
  BY <1>6
<1>21. /\ before \subseteq all
       /\ syncs = 0 => view.nodes \subseteq Named
       /\ Entire => Named \subseteq view.nodes \cup before
  BY <1>1 DEF NamesInv
<1> HIDE DEF head, before, left, all
<1>15. syncs = 0 => view.nodes \cup added \subseteq Named
  BY <1>9, <1>11, <1>20, <1>21 DEF head, all
<1>16. Entire /\ added = matches =>
         Named \subseteq (view.nodes \cup added) \cup (UNION Elements(Tail(view.names)))
  <2>1. Entire /\ added = matches => Named \subseteq (view.nodes \cup added) \cup left
    BY <1>10, <1>11, <1>20, <1>21 DEF head
  <2> QED
    BY <2>1 DEF left
<1>17. Entire' => Entire /\ added = matches
  BY <1>2, <1>3 DEF Entire
<1>18. NamesInv'
  <2>1. view.level = 0
    BY <1>1 DEF NamesInv
  <2> QED
    BY <1>2, <1>3, <1>6, <1>12, <1>13, <1>14, <1>15, <1>16, <1>17, <2>1 DEF NamesInv
<1> QED
  BY <1>2, <1>3, <1>18 DEF ViewsInv

(* What leads to more leads to as much, and what leads to both to either.  *)
LEMMA SourcesGrow ==
  ASSUME NEW g, NEW A, NEW B
  PROVE  /\ Sources(g, A \cup B) = Sources(g, A) \cup Sources(g, B)
         /\ A \subseteq B => Sources(g, A) \subseteq Sources(g, B)
         /\ Sources(g, {}) = {}
         /\ Proper(g) => Sources(g, A) \subseteq g.nodes /\ IsFiniteSet(Sources(g, A))
<1>1. Proper(g) => Sources(g, A) \subseteq g.nodes /\ IsFiniteSet(Sources(g, A))
  <2>1. Sources(g, A) \subseteq {e.from : e \in g.edges}
    BY DEF Sources, Impacts
  <2>2. Proper(g) => Sources(g, A) \subseteq g.nodes /\ IsFiniteSet(g.nodes)
    BY <2>1 DEF Proper
  <2> QED
    BY <2>2, FS_Subset
<1> QED
  BY <1>1 DEF Sources

(* A level that leads nowhere new is the last.                             *)
LEMMA LevelsStay ==
  ASSUME NEW g, NEW ns, NEW depth \in Nat, NEW l \in 0..depth,
         Sources(g, Outward(g, ns, depth)[l]) \subseteq Outward(g, ns, depth)[l]
  PROVE  Outward(g, ns, depth)[depth] = Outward(g, ns, depth)[l]
<1> DEFINE o == Outward(g, ns, depth)
           D == {d \in l..depth : o[d] # o[l]}
<1>1. SUFFICES ASSUME D # {} PROVE FALSE
  <2>1. depth \in l..depth
    OBVIOUS
  <2> QED
    BY <2>1
<1>2. \E d \in D : \A j \in D : d <= j
  <2>1. D \in SUBSET Nat
    OBVIOUS
  <2> HIDE DEF D
  <2> QED
    BY <1>1, <2>1, LeastOf
<1>3. PICK d \in D : \A j \in D : d <= j
  BY <1>2
<1>4. d \in 1..depth /\ d # l /\ d - 1 \in l..depth /\ o[d] # o[l]
  BY <1>3
<1>5. d - 1 \notin D
  BY <1>3, <1>4
<1>6. o[d - 1] = o[l]
  BY <1>4, <1>5
<1>7. o[d] = o[d - 1] \cup Sources(g, o[d - 1])
  BY <1>4, OutwardIs
<1> HIDE DEF o
<1>8. o[d] = o[l]
  BY <1>6, <1>7 DEF o
<1> QED
  BY <1>4, <1>8

(* The search begins with what was named.                                  *)
LEMMA StartingKeepsViews ==
  ASSUME ViewsInv, StartSearch
  PROVE  ViewsInv'
<1>1. view.at = "hot" /\ view.names = <<>> /\ NamesInv /\ ViewsBase /\ Asked \in Requests
  BY DEF StartSearch, Reading, ViewsInv, ViewsBase
<1>2. CASE view.nodes = {}
  <2>1. Steps([Blank(Asked) EXCEPT !.at = "done"])
    BY <1>2 DEF StartSearch, Unavailable
  <2>2. PICK r \in Requests : r = Asked
    BY <1>1
  <2> QED
    BY <2>1, <2>2, RefusalKeepsViews
<1>3. CASE view.nodes # {}
  <2> DEFINE changed ==
        [view EXCEPT !.at = "search", !.around = view.nodes,
                     !.truncated = @ \/ Cardinality(view.nodes) >= Asked.maxNodes]
  <2>1. Steps(changed) /\ DOMAIN view = ViewFields
    BY <1>1, <1>3 DEF StartSearch, ViewsBase
  <2>2. /\ DOMAIN changed = ViewFields /\ changed.request = view.request /\ changed.at = "search"
        /\ changed.nodes = view.nodes /\ changed.around = view.nodes
        /\ changed.truncated = (view.truncated \/ Cardinality(view.nodes) >= Asked.maxNodes)
        /\ changed.starved = view.starved /\ changed.level = view.level
        /\ changed.files = view.files /\ changed.spokes = view.spokes /\ changed.pairs = view.pairs
    BY <2>1 DEF ViewFields
  <2> HIDE DEF changed
  <2>3. /\ view' = changed /\ database' = database /\ syncs' = syncs
        /\ Asked' = Asked /\ ViewsBase'
    <3>1. changed.truncated \in BOOLEAN /\ changed.starved \in BOOLEAN
      BY <1>1, <2>2 DEF ViewsBase
    <3> QED
      BY <1>1, <2>1, <2>2, <3>1, StepIs
  <2>4. HotSoFar'
    BY <1>1, <2>2, <2>3 DEF NamesInv, HotSoFar
  <2>5. Asked.names \in Seq(SUBSET Int) /\ Asked.depth \in Nat
    BY <1>1, RequestsAre DEF NamesInv, HotSoFar
  <2>6. Levels[0] = Named
    BY <2>5, OutwardIs DEF Levels
  <2>7. Named \subseteq database.nodes
    BY DEF Named
  <2>8. (UNION Elements(view.names)) = {}
    BY <1>1 DEF Elements
  <2>9. syncs = 0 => view.nodes \subseteq database.nodes
    BY <1>1, <2>7 DEF NamesInv
  <2>10. Entire => view.nodes = Levels[0]
    <3>1. /\ syncs = 0 => view.nodes \subseteq Named
          /\ Entire => Named \subseteq view.nodes \cup (UNION Elements(view.names))
      BY <1>1 DEF NamesInv
    <3> QED
      BY <2>6, <2>8, <3>1 DEF Entire
  <2>11. Levels' = Levels
    BY <2>3 DEF Levels, Named
  <2>12. Entire' => Entire
    BY <2>2, <2>3 DEF Entire
  <2>13. SearchInv'
    <3>1. view'.level = 0 /\ 0 \in 0..Asked.depth
      BY <1>1, <2>2, <2>3, <2>5 DEF NamesInv
    <3>2. /\ view'.nodes = view.nodes /\ view'.around = view.nodes
          /\ database' = database /\ syncs' = syncs /\ Asked' = Asked
      BY <2>2, <2>3
    <3> QED
      BY <2>4, <2>9, <2>10, <2>11, <2>12, <3>1, <3>2 DEF SearchInv
  <2> QED
    BY <2>2, <2>3, <2>13 DEF ViewsInv
<1> QED
  BY <1>2, <1>3

(* A level of the search keeps what it finds within the limit, and is the  *)
(* next level out unless something was cut off.                            *)
LEMMA LevelKeepsViews ==
  ASSUME ViewsInv, SearchLevel
  PROVE  ViewsInv'
<1> DEFINE room == Asked.maxNodes - Cardinality(view.nodes)
           sources == Sources(database, view.around)
           unseen == FirstIds(room + 1, sources) \ view.nodes
           added == FirstIds(room, unseen)
           changed == [view EXCEPT !.nodes = @ \cup added, !.around = added, !.level = @ + 1,
                                   !.truncated = @ \/ added # unseen,
                                   !.starved = @ \/ unseen # sources \ view.nodes]
<1>1. /\ view.at = "search" /\ SearchInv /\ ViewsBase /\ Asked \in Requests /\ Steps(changed)
      /\ view.level < Asked.depth /\ Cardinality(view.nodes) < Asked.maxNodes
      /\ DOMAIN view = ViewFields
  BY DEF SearchLevel, Searching, Reading, ViewsInv, ViewsBase
<1>2. /\ DOMAIN changed = ViewFields /\ changed.request = view.request /\ changed.at = "search"
      /\ changed.nodes = view.nodes \cup added /\ changed.around = added
      /\ changed.level = view.level + 1
      /\ changed.truncated = (view.truncated \/ added # unseen)
      /\ changed.starved = (view.starved \/ unseen # sources \ view.nodes)
      /\ changed.files = view.files /\ changed.spokes = view.spokes /\ changed.pairs = view.pairs
  BY <1>1 DEF ViewFields
<1> HIDE DEF changed
<1>3. /\ view' = changed /\ database' = database /\ syncs' = syncs
      /\ Asked' = Asked /\ ViewsBase'
  <2>1. changed.truncated \in BOOLEAN /\ changed.starved \in BOOLEAN
    BY <1>1, <1>2 DEF ViewsBase
  <2> QED
    BY <1>1, <1>2, <2>1, StepIs
<1>4. /\ view.nodes \subseteq Int /\ IsFiniteSet(view.nodes)
      /\ Cardinality(view.nodes) <= Asked.maxNodes /\ Cardinality(view.nodes) \in Nat
      /\ view.around \subseteq view.nodes /\ view.level \in 0..Asked.depth
      /\ Asked.view = "hot" /\ Asked.depth \in Nat /\ Asked.maxNodes \in Nat
  BY <1>1, FS_CardinalityType, RequestsAre DEF SearchInv, HotSoFar
<1>5. /\ sources \subseteq database.nodes /\ IsFiniteSet(sources) /\ sources \subseteq Int
  <2>1. Proper(database)
    BY <1>1 DEF ViewsBase
  <2> QED
    BY <2>1, SourcesGrow DEF Proper
<1>6. room \in Nat /\ room + 1 \in Nat
  BY <1>1, <1>4
<1> HIDE DEF sources, room
<1>7. Limits(FirstIds(room + 1, sources), room + 1, sources)
  BY <1>5, <1>6, FirstIdsLimit
<1>8. unseen \in SUBSET Int /\ IsFiniteSet(unseen) /\ unseen \subseteq sources
  BY <1>5, <1>7, FS_Subset DEF Limits
<1> HIDE DEF unseen
<1>9. Limits(added, room, unseen)
  BY <1>6, <1>8, FirstIdsLimit
<1>10. added \subseteq unseen
  BY <1>9 DEF Limits
<1> HIDE DEF added
<1>11. /\ IsFiniteSet(view.nodes \cup added) /\ Cardinality(view.nodes \cup added) <= Asked.maxNodes
  BY <1>4, <1>9, RoomIsLeft DEF room
<1>12. HotSoFar'
  <2>1. view.nodes \cup added \subseteq Int
    BY <1>4, <1>8, <1>10
  <2> QED
    BY <1>1, <1>2, <1>3, <1>11, <2>1 DEF SearchInv, HotSoFar
<1>13. view.level + 1 \in 0..Asked.depth /\ view.level + 1 \in 1..Asked.depth
       /\ (view.level + 1) - 1 = view.level
  BY <1>1, <1>4
<1>14. syncs = 0 => view.nodes \cup added \subseteq database.nodes
  BY <1>1, <1>5, <1>8, <1>10 DEF SearchInv
<1>15. ASSUME Entire', ~view'.starved
       PROVE  /\ view.nodes \cup added = Levels[view.level + 1]
              /\ Sources(database, view.nodes \cup added)
                   \subseteq (view.nodes \cup added) \cup Sources(database, added)
  <2>1. Entire /\ ~view.starved /\ added = unseen /\ unseen = sources \ view.nodes
    BY <1>2, <1>3, <1>15 DEF Entire
  <2>2. /\ view.nodes = Levels[view.level]
        /\ Sources(database, view.nodes) \subseteq view.nodes \cup sources
    BY <1>1, <2>1 DEF SearchInv, sources
  <2>3. Levels[view.level + 1] = view.nodes \cup Sources(database, view.nodes)
    BY <1>4, <1>13, <2>2, OutwardIs DEF Levels
  <2>4. sources \subseteq Sources(database, view.nodes)
    BY <1>4, SourcesGrow DEF sources
  <2>5. view.nodes \cup added = Levels[view.level + 1]
    BY <2>1, <2>2, <2>3, <2>4
  <2>6. Sources(database, view.nodes \cup added)
          = Sources(database, view.nodes) \cup Sources(database, added)
    BY SourcesGrow
  <2> QED
    BY <2>1, <2>2, <2>5, <2>6
<1>16. Levels' = Levels
  BY <1>3 DEF Levels, Named
<1>17. SearchInv'
  <2>1. /\ view'.nodes = view.nodes \cup added /\ view'.around = added
        /\ view'.level = view.level + 1
        /\ database' = database /\ syncs' = syncs /\ Asked' = Asked
    BY <1>2, <1>3
  <2> QED
    BY <1>12, <1>13, <1>14, <1>15, <1>16, <2>1 DEF SearchInv
<1> QED
  BY <1>2, <1>3, <1>17 DEF ViewsInv

(* When it ends, all levels are found or the limit is reached.             *)
LEMMA FetchingKeepsViews ==
  ASSUME ViewsInv, FetchNodes
  PROVE  ViewsInv'
<1> DEFINE changed == [view EXCEPT !.at = "edges", !.around = view.nodes,
                                   !.nodes = @ \cap database.nodes]
<1>1. /\ view.at = "search" /\ SearchInv /\ ViewsBase /\ Asked \in Requests /\ Steps(changed)
      /\ ~Searching /\ DOMAIN view = ViewFields
  BY DEF FetchNodes, Reading, ViewsInv, ViewsBase
<1>2. /\ DOMAIN changed = ViewFields /\ changed.request = view.request /\ changed.at = "edges"
      /\ changed.nodes = view.nodes \cap database.nodes /\ changed.around = view.nodes
      /\ changed.truncated = view.truncated /\ changed.starved = view.starved
      /\ changed.files = view.files /\ changed.spokes = view.spokes /\ changed.pairs = view.pairs
  BY <1>1 DEF ViewFields
<1> HIDE DEF changed
<1>3. /\ view' = changed /\ database' = database /\ syncs' = syncs
      /\ Asked' = Asked /\ ViewsBase'
  <2>1. changed.truncated \in BOOLEAN /\ changed.starved \in BOOLEAN
    BY <1>1, <1>2 DEF ViewsBase
  <2> QED
    BY <1>1, <1>2, <2>1, StepIs
<1>4. /\ view.nodes \subseteq Int /\ IsFiniteSet(view.nodes)
      /\ Cardinality(view.nodes) <= Asked.maxNodes /\ Cardinality(view.nodes) \in Nat
      /\ view.level \in 0..Asked.depth
      /\ Asked.view = "hot" /\ Asked.depth \in Nat /\ Asked.maxNodes \in Nat
      /\ (syncs = 0 => view.nodes \subseteq database.nodes)
  BY <1>1, FS_CardinalityType, RequestsAre DEF SearchInv, HotSoFar
<1>5. HotSoFar'
  <2>1. /\ view.nodes \cap database.nodes \subseteq Int
        /\ IsFiniteSet(view.nodes \cap database.nodes)
        /\ Cardinality(view.nodes \cap database.nodes) <= Cardinality(view.nodes)
        /\ Cardinality(view.nodes \cap database.nodes) \in Nat
    BY <1>4, FS_Subset, FS_CardinalityType
  <2>2. Cardinality(view.nodes \cap database.nodes) <= Asked.maxNodes
    BY <1>4, <2>1
  <2> QED
    BY <1>1, <1>2, <1>3, <2>1, <2>2 DEF SearchInv, HotSoFar
<1>6. syncs = 0 => view.nodes \cap database.nodes = view.nodes
  BY <1>4
<1>7. ASSUME Entire', ~view'.starved, Cardinality(view'.nodes) # Asked.maxNodes
      PROVE  view.nodes = Levels[Asked.depth]
  <2>1. Entire /\ ~view.starved /\ Cardinality(view.nodes) # Asked.maxNodes
    BY <1>2, <1>3, <1>6, <1>7 DEF Entire
  <2>2. /\ view.nodes = Levels[view.level]
        /\ Sources(database, view.nodes) \subseteq view.nodes \cup Sources(database, view.around)
    BY <1>1, <2>1 DEF SearchInv
  <2>3. view.level = Asked.depth \/ view.around = {}
    BY <1>1, <1>4, <2>1 DEF Searching
  <2>4. CASE view.around = {}
    <3>1. Sources(database, view.nodes) \subseteq view.nodes
      BY <2>2, <2>4, SourcesGrow
    <3>2. Levels[Asked.depth] = Levels[view.level]
      BY <1>4, <2>2, <3>1, LevelsStay DEF Levels
    <3> QED
      BY <2>2, <3>2
  <2> QED
    BY <2>2, <2>3, <2>4
<1>8. Levels' = Levels
  BY <1>3 DEF Levels, Named
<1>9. FetchedInv'
  <2>1. /\ view'.nodes = view.nodes \cap database.nodes /\ view'.around = view.nodes
        /\ database' = database /\ syncs' = syncs /\ Asked' = Asked
    BY <1>2, <1>3
  <2>2. Entire' => syncs = 0
    BY <2>1 DEF Entire
  <2> QED
    BY <1>5, <1>6, <1>7, <1>8, <2>1, <2>2 DEF FetchedInv
<1> QED
  BY <1>2, <1>3, <1>9 DEF ViewsInv

(* The edges of a neighbourhood join what it shows.                        *)
LEMMA HotIsHonest ==
  ASSUME ViewsInv, FetchEdges
  PROVE  ViewsInv'
<1> DEFINE between == Between(database, view.around)
           shown == FirstEdges(EdgesPerNode * Asked.maxNodes, between)
           changed == [view EXCEPT !.at = "done", !.edges = shown, !.around = {},
                                   !.truncated = @ \/ shown # between,
                                   !.total = Cardinality(view.nodes),
                                   !.totalEdges = Cardinality(shown)]
<1>1. /\ view.at = "edges" /\ FetchedInv /\ ViewsBase /\ Asked \in Requests /\ Steps(changed)
      /\ DOMAIN view = ViewFields /\ Asked.view = "hot"
  BY DEF FetchEdges, Reading, ViewsInv, ViewsBase, FetchedInv, HotSoFar
<1>2. /\ DOMAIN changed = ViewFields /\ changed.request = view.request /\ changed.at = "done"
      /\ changed.nodes = view.nodes /\ changed.edges = shown
      /\ changed.truncated = (view.truncated \/ shown # between) /\ changed.starved = view.starved
      /\ changed.files = view.files /\ changed.spokes = view.spokes /\ changed.pairs = view.pairs
  BY <1>1 DEF ViewFields
<1> HIDE DEF changed
<1>3. /\ view' = changed /\ database' = database /\ syncs' = syncs
      /\ Asked' = Asked /\ ViewsBase'
  <2>1. changed.truncated \in BOOLEAN /\ changed.starved \in BOOLEAN
    BY <1>1, <1>2 DEF ViewsBase
  <2> QED
    BY <1>1, <1>2, <2>1, StepIs
<1>4. /\ view.nodes \subseteq Int /\ IsFiniteSet(view.nodes)
      /\ Cardinality(view.nodes) <= Asked.maxNodes /\ Cardinality(view.nodes) \in Nat
      /\ Asked.maxNodes \in Nat /\ view.files = {} /\ view.spokes = {} /\ view.pairs = {}
  BY <1>1, FS_CardinalityType, RequestsAre DEF FetchedInv, HotSoFar
<1>5. Limits(shown, EdgesPerNode * Asked.maxNodes, between)
  <2>1. between \in SUBSET Impacts(database)
    BY DEF Between
  <2>2. EdgesPerNode * Asked.maxNodes \in Nat
    BY <1>4, ViewsAssumption
  <2> QED
    BY <1>1, <2>1, <2>2, FirstEdgesLimit DEF ViewsBase
<1>6. ASSUME NEW e \in shown
      PROVE  {e.from, e.to} \subseteq view.around /\ {e.from, e.to} \subseteq database.nodes
  <2>1. e \in between /\ e \in Impacts(database) /\ e \in database.edges
    BY <1>5, <1>6 DEF Limits, Between, Impacts
  <2> QED
    BY <1>1, <2>1 DEF ViewsBase, Proper, Between
<1> HIDE DEF shown
<1>7. /\ view'.nodes = view.nodes /\ view'.edges = shown /\ view'.files = {} /\ view'.spokes = {}
      /\ view'.pairs = {} /\ view'.truncated = (view.truncated \/ shown # between)
      /\ view'.starved = view.starved
      /\ database' = database /\ syncs' = syncs /\ Asked' = Asked /\ syncs \in Nat
  BY <1>1, <1>2, <1>3, <1>4 DEF ViewsBase
<1>8. Joined'
  <2>1. CASE syncs >= 2
    BY <1>1, <1>7, <2>1 DEF Joined
  <2>2. CASE syncs <= 1
    <3>1. view.nodes = view.around \/ view.nodes = view.around \cap database.nodes
      BY <1>1, <2>2 DEF FetchedInv
    <3>2. \A e \in shown : {e.from, e.to} \subseteq view.nodes
      BY <1>6, <3>1
    <3> QED
      BY <1>7, <3>2 DEF Joined
  <2> QED
    BY <1>7, <2>1, <2>2
<1>9. Fits'
  <2>1. Drawn' = Cardinality(view.nodes)
    BY <1>4, <1>7, FS_EmptySet DEF Drawn
  <2> QED
    BY <1>1, <1>4, <1>7, <2>1 DEF Fits
<1>10. ASSUME syncs = 0, ~view.starved, ~Owned' PROVE Whole'
  <2>1. Entire /\ shown = between /\ Cardinality(view.nodes) # Asked.maxNodes
    BY <1>1, <1>7, <1>10 DEF Owned, Entire
  <2>2. view.nodes = view.around /\ view.nodes = Levels[Asked.depth]
    BY <1>1, <1>10, <2>1 DEF FetchedInv
  <2>3. Named' = Named
    BY <1>7 DEF Named
  <2>4. view'.nodes = Outward(database, Named, Asked.depth)[Asked.depth]
    BY <1>7, <2>2 DEF Levels
  <2>5. view'.edges = Between(database, view'.nodes)
    BY <1>7, <2>1, <2>2
  <2> QED
    BY <1>1, <1>7, <2>3, <2>4, <2>5 DEF Whole
<1>11. Honest'
  BY <1>7, <1>8, <1>9, <1>10 DEF Honest
<1> QED
  BY <1>2, <1>3, <1>11 DEF ViewsInv

(* Part of a set that is as large as the set is all of it.                 *)
LEMMA AllOfIt ==
  ASSUME NEW S, IsFiniteSet(S), NEW A \in SUBSET S, Cardinality(A) >= Cardinality(S)
  PROVE  A = S
<1>1. IsFiniteSet(A) /\ Cardinality(A) \in Nat /\ Cardinality(S) \in Nat
      /\ Cardinality(A) <= Cardinality(S)
  BY FS_Subset, FS_CardinalityType
<1>2. Cardinality(A) = Cardinality(S)
  BY <1>1
<1> QED
  BY <1>2, FS_Subset

(* What is drawn is counted.                                               *)
LEMMA DrawnIs ==
  ASSUME MapSoFar
  PROVE  /\ Cardinality(view.files) \in Nat /\ Cardinality(view.nodes) \in Nat
         /\ Drawn = Cardinality(view.files) + Cardinality(view.nodes) /\ Drawn \in Nat
BY FS_CardinalityType DEF MapSoFar, Drawn

(* The map begins with the hot files, in order.                            *)
LEMMA HotFilesKeepViews ==
  ASSUME ViewsInv, ReadHotFiles
  PROVE  ViewsInv'
<1> DEFINE hot == HotFiles(database)
           symbols == HotSymbols(database)
           drawn == HottestFiles(Asked.maxFiles, database)
           listed == InOrder(drawn, FileHeat(database, drawn))
           changed == [view EXCEPT !.at = "cross", !.rows = listed,
                                   !.around = hot, !.truncated = drawn # hot,
                                   !.total = Cardinality(hot) + Cardinality(symbols),
                                   !.totalEdges = Cardinality(symbols)]
<1>1. /\ view.at = "godmap" /\ Fresh /\ ViewsBase /\ Asked \in Requests /\ Steps(changed)
      /\ DOMAIN view = ViewFields /\ Asked.view = "godmap" /\ Proper(database)
  BY DEF ReadHotFiles, Reading, ViewsInv, ViewsBase
<1>2. /\ DOMAIN changed = ViewFields /\ changed.request = view.request /\ changed.at = "cross"
      /\ changed.rows = listed /\ changed.around = hot /\ changed.truncated = (drawn # hot)
      /\ changed.totalEdges = Cardinality(symbols)
      /\ changed.starved = view.starved /\ changed.nodes = {} /\ changed.files = {}
      /\ changed.pairs = {}
  BY <1>1 DEF ViewFields, Fresh
<1> HIDE DEF changed
<1>3. /\ view' = changed /\ database' = database /\ syncs' = syncs
      /\ Asked' = Asked /\ ViewsBase'
  <2>1. changed.truncated \in BOOLEAN /\ changed.starved \in BOOLEAN
    BY <1>1, <1>2 DEF ViewsBase
  <2> QED
    BY <1>1, <1>2, <2>1, StepIs
<1>4. Asked.maxNodes \in Nat /\ Asked.maxFiles \in Nat
  BY <1>1, RequestsAre
<1>5. drawn \subseteq hot /\ hot \subseteq Int
  BY <1>1, <1>4, HottestFilesLimit, SelectionsAreFinite DEF Limits
<1>6. Lists(listed, drawn)
  <2> HIDE DEF drawn
  <2> QED
    BY <1>1, <1>5, FilesInOrder
<1> HIDE DEF listed, drawn
<1>7. listed \in Seq(Int) /\ Elements(listed) = drawn
  <2>1. listed \in Seq(drawn) /\ \A x \in drawn : \E i \in 1..Len(listed) : listed[i] = x
    BY <1>6 DEF Lists
  <2>2. drawn \subseteq Int
    BY <1>5
  <2>3. \A i \in 1..Len(listed) : listed[i] \in drawn
    BY <2>1
  <2>4. listed \in Seq(Int)
    <3>1. \A i \in 1..Len(listed) : listed[i] \in Int
      BY <2>2, <2>3
    <3>2. Len(listed) \in Nat /\ listed \in [1..Len(listed) -> Int]
      BY <2>1, <3>1
    <3> QED
      BY <3>2, SeqDef
  <2>5. Elements(listed) = drawn
    BY <2>1, <2>3 DEF Elements
  <2> QED
    BY <2>4, <2>5
<1>8. MapSoFar'
  <2>1. Drawn' = 0
    BY <1>2, <1>3, FS_EmptySet DEF Drawn
  <2> QED
    BY <1>1, <1>2, <1>3, <1>4, <2>1, FS_EmptySet DEF MapSoFar
<1>9. CrossInv'
  BY <1>2, <1>3, <1>7, <1>8 DEF CrossInv, Entire
<1> QED
  BY <1>2, <1>3, <1>9 DEF ViewsInv

(* Its edges are counted.                                                  *)
LEMMA CountingKeepsViews ==
  ASSUME ViewsInv, CountCrossEdges
  PROVE  ViewsInv'
<1> DEFINE between == Between(database, {n \in Structural(database) : FileOf[n] \in view.around})
           changed == [view EXCEPT !.at = "hub", !.around = {},
                                   !.totalEdges = @ + Cardinality(between)]
<1>1. /\ view.at = "cross" /\ CrossInv /\ ViewsBase /\ Asked \in Requests /\ Steps(changed)
      /\ DOMAIN view = ViewFields
  BY DEF CountCrossEdges, Reading, ViewsInv, ViewsBase
<1>2. /\ DOMAIN changed = ViewFields /\ changed.request = view.request /\ changed.at = "hub"
      /\ changed.rows = view.rows /\ changed.truncated = view.truncated
      /\ changed.totalEdges = view.totalEdges + Cardinality(between)
      /\ changed.starved = view.starved /\ changed.nodes = view.nodes /\ changed.files = view.files
      /\ changed.pairs = view.pairs
  BY <1>1 DEF ViewFields
<1> HIDE DEF changed
<1>3. /\ view' = changed /\ database' = database /\ syncs' = syncs
      /\ Asked' = Asked /\ ViewsBase'
  <2>1. changed.truncated \in BOOLEAN /\ changed.starved \in BOOLEAN
    BY <1>1, <1>2 DEF ViewsBase
  <2> QED
    BY <1>1, <1>2, <2>1, StepIs
<1>4. MapSoFar' /\ view'.nodes = {} /\ view'.files = {} /\ view'.rows = view.rows
  BY <1>1, <1>2, <1>3 DEF CrossInv, MapSoFar, Drawn
<1>5. EdgesCounted'
  <2>1. syncs = 0 => between = Between(database, HotSymbols(database))
    BY <1>1 DEF CrossInv, HotSymbols
  <2> HIDE DEF between
  <2> QED
    BY <1>1, <1>2, <1>3, <2>1 DEF EdgesCounted, CrossInv
<1>6. Entire' => /\ Entire /\ Elements(view.rows) = HotFiles(database)
                 /\ {} = {n \in Structural(database) : FileOf[n] \in {}}
  BY <1>1, <1>2, <1>3 DEF Entire, CrossInv
<1>7. view.rows \in Seq(Int)
  BY <1>1 DEF CrossInv
<1>8. HubInv'
  BY <1>3, <1>4, <1>5, <1>6, <1>7 DEF HubInv
<1> QED
  BY <1>2, <1>3, <1>8 DEF ViewsInv

(* A hub is drawn within the limit.                                        *)
LEMMA HubsKeepViews ==
  ASSUME ViewsInv, DrawHub
  PROVE  ViewsInv'
<1> DEFINE file == Head(view.rows)
           withHub == [view EXCEPT !.files = @ \cup {file}]
           stop == [view EXCEPT !.at = "spokes", !.truncated = TRUE]
           last == [withHub EXCEPT !.at = "spokes", !.truncated = TRUE]
           more == [withHub EXCEPT !.at = "symbols",
                                   !.inFile = Cardinality(SymbolsIn(database, file))]
<1>1. /\ view.at = "hub" /\ view.rows # <<>> /\ HubInv /\ ViewsBase /\ Asked \in Requests
      /\ DOMAIN view = ViewFields /\ MapSoFar
      /\ view.truncated \in BOOLEAN /\ view.starved \in BOOLEAN
      /\ IF Drawn >= Asked.maxNodes THEN Steps(stop)
         ELSE IF Drawn + 1 = Asked.maxNodes THEN Steps(last) ELSE Steps(more)
  BY DEF DrawHub, Reading, ViewsInv, ViewsBase, HubInv
<1>2. /\ DOMAIN stop = ViewFields /\ stop.request = view.request /\ stop.at = "spokes"
      /\ stop.truncated = TRUE /\ stop.starved = view.starved /\ stop.nodes = view.nodes
      /\ stop.files = view.files /\ stop.pairs = view.pairs
      /\ DOMAIN last = ViewFields /\ last.request = view.request /\ last.at = "spokes"
      /\ last.truncated = TRUE /\ last.starved = view.starved /\ last.nodes = view.nodes
      /\ last.files = view.files \cup {file} /\ last.pairs = view.pairs
  BY <1>1 DEF ViewFields
<1>3. /\ DOMAIN more = ViewFields /\ more.request = view.request /\ more.at = "symbols"
      /\ more.truncated = view.truncated /\ more.starved = view.starved /\ more.nodes = view.nodes
      /\ more.files = view.files \cup {file} /\ more.pairs = view.pairs
      /\ more.rows = view.rows /\ more.totalEdges = view.totalEdges
      /\ more.inFile = Cardinality(SymbolsIn(database, file))
  BY <1>1 DEF ViewFields
<1> HIDE DEF stop, last, more, file
<1>4. view.rows \in Seq(Int) /\ Asked.view = "godmap"
  BY <1>1 DEF HubInv, MapSoFar
<1>5. file \in Int /\ file \in Elements(view.rows)
  BY <1>1, <1>4, HeadAndTail DEF file
<1>6. Asked.maxNodes \in Nat
  BY <1>1, <1>4, RequestsAre
<1>7. /\ Cardinality(view.files) \in Nat /\ Cardinality(view.nodes) \in Nat
      /\ Drawn = Cardinality(view.files) + Cardinality(view.nodes) /\ Drawn <= Asked.maxNodes
      /\ view.files \subseteq Int /\ IsFiniteSet(view.files)
      /\ view.nodes \subseteq Int /\ IsFiniteSet(view.nodes) /\ view.pairs = {}
      /\ \A n \in view.nodes : FileOf[n] \in view.files
  BY <1>1, DrawnIs DEF MapSoFar
<1>8. /\ IsFiniteSet(view.files \cup {file}) /\ view.files \cup {file} \subseteq Int
      /\ Cardinality(view.files \cup {file}) \in Nat
      /\ Cardinality(view.files \cup {file}) <= Cardinality(view.files) + 1
  <2>1. /\ IsFiniteSet(view.files \cup {file})
        /\ \/ Cardinality(view.files \cup {file}) = Cardinality(view.files)
           \/ Cardinality(view.files \cup {file}) = Cardinality(view.files) + 1
    BY <1>7, FS_AddElement
  <2> QED
    BY <1>5, <1>7, <2>1
<1>9. CASE Drawn >= Asked.maxNodes
  <2>1. Steps(stop)
    BY <1>1, <1>9
  <2>2. view' = stop /\ database' = database /\ syncs' = syncs /\ Asked' = Asked /\ ViewsBase'
    <3>1. stop.truncated \in BOOLEAN /\ stop.starved \in BOOLEAN
      BY <1>1, <1>2
    <3> QED
      BY <1>1, <1>2, <2>1, <3>1, StepIs
  <2>3. Drawn' = Drawn
    BY <1>2, <2>2 DEF Drawn
  <2>4. MapSoFar'
    BY <1>2, <1>4, <1>7, <2>2, <2>3 DEF MapSoFar
  <2> QED
    BY <1>2, <2>2, <2>4 DEF ViewsInv
<1>10. CASE Drawn < Asked.maxNodes /\ Drawn + 1 = Asked.maxNodes
  <2>1. Steps(last)
    BY <1>1, <1>6, <1>7, <1>10
  <2>2. view' = last /\ database' = database /\ syncs' = syncs /\ Asked' = Asked /\ ViewsBase'
    <3>1. last.truncated \in BOOLEAN /\ last.starved \in BOOLEAN
      BY <1>1, <1>2
    <3> QED
      BY <1>1, <1>2, <2>1, <3>1, StepIs
  <2>3. Drawn' = Cardinality(view.files \cup {file}) + Cardinality(view.nodes)
    BY <1>2, <2>2 DEF Drawn
  <2>4. Drawn' <= Asked.maxNodes
    BY <1>6, <1>7, <1>8, <1>10, <2>3
  <2>5. MapSoFar'
    BY <1>2, <1>4, <1>7, <1>8, <2>2, <2>4 DEF MapSoFar
  <2> QED
    BY <1>2, <2>2, <2>5 DEF ViewsInv
<1>11. CASE Drawn < Asked.maxNodes /\ Drawn + 1 # Asked.maxNodes
  <2>1. Steps(more)
    BY <1>1, <1>6, <1>7, <1>11
  <2>2. view' = more /\ database' = database /\ syncs' = syncs /\ Asked' = Asked /\ ViewsBase'
    <3>1. more.truncated \in BOOLEAN /\ more.starved \in BOOLEAN
      BY <1>1, <1>3
    <3> QED
      BY <1>1, <1>3, <2>1, <3>1, StepIs
  <2>3. Drawn' = Cardinality(view.files \cup {file}) + Cardinality(view.nodes)
    BY <1>3, <2>2 DEF Drawn
  <2>4. Drawn' < Asked.maxNodes /\ Drawn' <= Asked.maxNodes
    BY <1>6, <1>7, <1>8, <1>11, <2>3
  <2>5. MapSoFar'
    BY <1>3, <1>4, <1>7, <1>8, <2>2, <2>4 DEF MapSoFar
  <2>6. EdgesCounted'
    BY <1>1, <1>3, <2>2 DEF HubInv, EdgesCounted
  <2>7. Entire' => Entire
    BY <1>3, <2>2 DEF Entire
  <2>8. Entire =>
          /\ (view.files \cup {file}) \cup Elements(view.rows) = HotFiles(database)
          /\ view.nodes \subseteq
               {n \in Structural(database) : FileOf[n] \in view.files \cup {file}}
          /\ \A n \in Structural(database) :
               FileOf[n] \in view.files \cup {file} /\ FileOf[n] # file => n \in view.nodes
    BY <1>1, <1>5 DEF HubInv
  <2>9. SymbolsInv'
    <3>1. /\ view'.rows = view.rows /\ Head(view'.rows) = file
          /\ view'.files = view.files \cup {file} /\ view'.nodes = view.nodes
          /\ view'.inFile = Cardinality(SymbolsIn(database, file))
      BY <1>3, <2>2 DEF file
    <3> QED
      BY <1>1, <1>4, <2>2, <2>4, <2>5, <2>6, <2>7, <2>8, <3>1 DEF SymbolsInv
  <2> QED
    BY <1>3, <2>2, <2>9 DEF ViewsInv
<1> QED
  BY <1>6, <1>7, <1>9, <1>10, <1>11

(* A file's hottest symbols are drawn within the limit, and all of them    *)
(* unless it is said.                                                      *)
LEMMA SymbolsKeepViews ==
  ASSUME ViewsInv, DrawSymbols
  PROVE  ViewsInv'
<1> DEFINE file == Head(view.rows)
           limit == Smaller(Asked.perFile, Asked.maxNodes - Drawn)
           inside == SymbolsIn(database, file)
           hottest == HottestSymbols(limit, database, inside)
           changed == [view EXCEPT !.at = "hub", !.rows = Tail(@), !.nodes = @ \cup hottest,
                                   !.inFile = 0,
                                   !.truncated = @ \/ view.inFile > Cardinality(hottest)]
<1>1. /\ view.at = "symbols" /\ SymbolsInv /\ ViewsBase /\ Asked \in Requests
      /\ DOMAIN view = ViewFields /\ MapSoFar /\ Steps(changed) /\ Proper(database)
      /\ view.truncated \in BOOLEAN /\ view.starved \in BOOLEAN
  BY DEF DrawSymbols, Reading, ViewsInv, ViewsBase, SymbolsInv
<1>2. /\ DOMAIN changed = ViewFields /\ changed.request = view.request /\ changed.at = "hub"
      /\ changed.truncated = (view.truncated \/ view.inFile > Cardinality(hottest))
      /\ changed.starved = view.starved /\ changed.nodes = view.nodes \cup hottest
      /\ changed.files = view.files /\ changed.pairs = view.pairs
      /\ changed.rows = Tail(view.rows) /\ changed.totalEdges = view.totalEdges
  BY <1>1 DEF ViewFields
<1> HIDE DEF changed
<1>3. view' = changed /\ database' = database /\ syncs' = syncs /\ Asked' = Asked /\ ViewsBase'
  <2>1. changed.truncated \in BOOLEAN /\ changed.starved \in BOOLEAN
    BY <1>1, <1>2
  <2> QED
    BY <1>1, <1>2, <2>1, StepIs
<1> HIDE DEF file
<1>4. /\ view.rows \in Seq(Int) /\ view.rows # <<>> /\ file \in view.files
      /\ Asked.view = "godmap" /\ view.files \subseteq Int
  BY <1>1 DEF SymbolsInv, MapSoFar, file
<1>5. /\ Tail(view.rows) \in Seq(Int)
      /\ Elements(view.rows) = {file} \cup Elements(Tail(view.rows))
  BY <1>4, HeadAndTail DEF file
<1>6. Asked.maxNodes \in Nat /\ Asked.perFile \in Nat
  BY <1>1, <1>4, RequestsAre
<1>7. /\ Cardinality(view.files) \in Nat /\ Cardinality(view.nodes) \in Nat
      /\ Drawn = Cardinality(view.files) + Cardinality(view.nodes) /\ Drawn < Asked.maxNodes
      /\ IsFiniteSet(view.files)
      /\ view.nodes \subseteq Int /\ IsFiniteSet(view.nodes) /\ view.pairs = {}
      /\ \A n \in view.nodes : FileOf[n] \in view.files
  BY <1>1, DrawnIs DEF MapSoFar, SymbolsInv
<1> DEFINE room == Asked.maxNodes - Cardinality(view.files)
<1>8. limit \in Nat /\ limit <= Asked.maxNodes - Drawn /\ room \in Nat
      /\ limit <= room - Cardinality(view.nodes) /\ Cardinality(view.nodes) <= room
  BY <1>6, <1>7 DEF Smaller
<1> HIDE DEF limit
<1>9. Limits(hottest, limit, inside)
  BY <1>1, <1>8, HottestSymbolsLimit
<1>10. inside \subseteq Structural(database) /\ \A n \in inside : FileOf[n] = file
  BY DEF SymbolsIn
<1>11. inside = {n \in Structural(database) : FileOf[n] = file}
  BY DEF SymbolsIn
<1>12. IsFiniteSet(inside) /\ inside \subseteq Int
  <2>1. IsFiniteSet(inside)
    BY <1>1, CountsAreNumbers
  <2>2. Structural(database) \subseteq Int
    BY <1>1, SelectionsAreFinite DEF Proper
  <2> QED
    BY <1>10, <2>1, <2>2
<1> HIDE DEF hottest, room
<1>13. Limits(hottest, room - Cardinality(view.nodes), inside)
  <2>1. /\ hottest \subseteq inside /\ IsFiniteSet(hottest) /\ Cardinality(hottest) <= limit
        /\ Cardinality(hottest) \in Nat
    BY <1>9, FS_CardinalityType DEF Limits
  <2>2. room - Cardinality(view.nodes) \in Int
    BY <1>7, <1>8
  <2>3. Cardinality(hottest) <= room - Cardinality(view.nodes)
    BY <1>8, <2>1, <2>2
  <2> QED
    BY <2>1, <2>3 DEF Limits
<1>14. hottest \subseteq inside /\ IsFiniteSet(hottest) /\ Cardinality(hottest) \in Nat
  BY <1>13, FS_CardinalityType DEF Limits
<1> HIDE DEF inside
<1>15. /\ IsFiniteSet(view.nodes \cup hottest) /\ Cardinality(view.nodes \cup hottest) <= room
       /\ Cardinality(view.nodes \cup hottest) \in Nat
  BY <1>7, <1>8, <1>13, RoomIsLeft, FS_CardinalityType
<1>16. Drawn' <= Asked.maxNodes
  <2>1. Drawn' = Cardinality(view.files) + Cardinality(view.nodes \cup hottest)
    BY <1>2, <1>3 DEF Drawn
  <2> QED
    BY <1>6, <1>7, <1>15, <2>1 DEF room
<1>17. MapSoFar'
  <2>1. view.nodes \cup hottest \subseteq Int
    BY <1>7, <1>12, <1>14
  <2>2. \A n \in view.nodes \cup hottest : FileOf[n] \in view.files
    BY <1>4, <1>7, <1>10, <1>14
  <2> QED
    BY <1>2, <1>3, <1>4, <1>7, <1>15, <1>16, <2>1, <2>2 DEF MapSoFar
<1>18. EdgesCounted'
  BY <1>1, <1>2, <1>3 DEF SymbolsInv, EdgesCounted
<1>19. ASSUME Entire'
       PROVE  /\ view.files \cup Elements(Tail(view.rows)) = HotFiles(database)
              /\ view.nodes \cup hottest
                   = {n \in Structural(database) : FileOf[n] \in view.files}
  <2>1. Entire /\ syncs = 0 /\ ~(view.inFile > Cardinality(hottest))
    BY <1>2, <1>3, <1>19 DEF Entire
  <2>2. view.inFile = Cardinality(inside)
    BY <1>1, <2>1 DEF SymbolsInv, inside, file
  <2>3. Cardinality(inside) \in Nat
    BY <1>12, FS_CardinalityType
  <2>4. Cardinality(hottest) >= Cardinality(inside)
    BY <1>14, <2>1, <2>2, <2>3
  <2>5. hottest = inside
    <3>1. hottest \in SUBSET inside
      BY <1>14
    <3> QED
      BY <1>12, <2>4, <3>1, AllOfIt
  <2>6. /\ view.files \cup Elements(view.rows) = HotFiles(database)
        /\ view.nodes \subseteq {n \in Structural(database) : FileOf[n] \in view.files}
        /\ \A n \in Structural(database) :
             FileOf[n] \in view.files /\ FileOf[n] # file => n \in view.nodes
    BY <1>1, <2>1 DEF SymbolsInv, file
  <2> QED
    BY <1>4, <1>5, <1>11, <2>5, <2>6
<1>20. HubInv'
  <2>1. /\ view'.rows = Tail(view.rows) /\ view'.files = view.files
        /\ view'.nodes = view.nodes \cup hottest
    BY <1>2, <1>3
  <2> QED
    BY <1>3, <1>5, <1>17, <1>18, <1>19, <2>1 DEF HubInv
<1> QED
  BY <1>2, <1>3, <1>20 DEF ViewsInv

(* The map is drawn within its limits, whole or owned to be less.          *)
LEMMA MapIsHonest ==
  ASSUME ViewsInv, DrawEdges
  PROVE  ViewsInv'
<1> DEFINE spokes == FirstIds(Asked.maxEdges, view.nodes)
           left == Asked.maxEdges - Cardinality(spokes)
           between == Between(database, view.nodes)
           cross == FirstEdges(left, between)
           short == view.nodes # {} /\ left > 0 /\ Cardinality(cross) >= left
           changed == [view EXCEPT !.at = "done", !.rows = <<>>, !.spokes = spokes,
                                   !.edges = cross,
                                   !.truncated = @ \/ spokes # view.nodes \/ short]
<1>1. /\ \/ view.at = "spokes" /\ MapSoFar /\ view.truncated
         \/ view.at = "hub" /\ view.rows = <<>> /\ HubInv
      /\ MapSoFar /\ ViewsBase /\ Asked \in Requests /\ view.at # "idle"
      /\ DOMAIN view = ViewFields /\ Proper(database)
      /\ view.truncated \in BOOLEAN /\ view.starved \in BOOLEAN
  BY DEF DrawEdges, Reading, ViewsInv, ViewsBase, HubInv
<1>2. Steps(changed)
  BY DEF DrawEdges
<1>3. /\ DOMAIN changed = ViewFields /\ changed.request = view.request /\ changed.at = "done"
      /\ changed.truncated = (view.truncated \/ spokes # view.nodes \/ short)
      /\ changed.starved = view.starved /\ changed.nodes = view.nodes
      /\ changed.files = view.files /\ changed.pairs = view.pairs
      /\ changed.spokes = spokes /\ changed.edges = cross
      /\ changed.totalEdges = view.totalEdges
  BY <1>1 DEF ViewFields
<1> HIDE DEF changed
<1>4. view' = changed /\ database' = database /\ syncs' = syncs /\ Asked' = Asked /\ ViewsBase'
  <2>1. changed.truncated \in BOOLEAN /\ changed.starved \in BOOLEAN
    BY <1>1, <1>3
  <2> QED
    BY <1>1, <1>2, <1>3, <2>1, StepIs
<1>5. /\ view.nodes \subseteq Int /\ IsFiniteSet(view.nodes) /\ view.pairs = {}
      /\ Asked.view = "godmap" /\ Drawn <= Asked.maxNodes
      /\ \A n \in view.nodes : FileOf[n] \in view.files
  BY <1>1 DEF MapSoFar
<1>6. Asked.maxNodes \in Nat /\ Asked.maxEdges \in Nat
  BY <1>1, <1>5, RequestsAre
<1>7. Limits(spokes, Asked.maxEdges, view.nodes)
  BY <1>5, <1>6, FirstIdsLimit
<1>8. /\ spokes \subseteq view.nodes /\ Cardinality(spokes) \in Nat
      /\ Cardinality(spokes) <= Asked.maxEdges
  BY <1>7, FS_CardinalityType DEF Limits
<1>9. left \in Nat
  BY <1>6, <1>8
<1>10. between \in SUBSET Impacts(database) /\ IsFiniteSet(between)
  <2>1. between \subseteq Impacts(database)
    BY DEF Between
  <2>2. IsFiniteSet(Impacts(database))
    BY <1>1, SelectionsAreFinite
  <2> QED
    BY <2>1, <2>2, FS_Subset
<1>11. Limits(cross, left, between)
  <2> HIDE DEF left, between
  <2> QED
    BY <1>1, <1>9, <1>10, FirstEdgesLimit
<1>12. /\ cross \subseteq between /\ Cardinality(cross) \in Nat /\ Cardinality(cross) <= left
  BY <1>11, FS_CardinalityType DEF Limits
<1>13. \A e \in between : {e.from, e.to} \subseteq view.nodes
  BY DEF Between
<1> HIDE DEF spokes, cross, between, left
<1>14. /\ view'.nodes = view.nodes /\ view'.files = view.files /\ view'.pairs = {}
       /\ view'.spokes = spokes /\ view'.edges = cross /\ view'.totalEdges = view.totalEdges
       /\ view'.truncated = (view.truncated \/ spokes # view.nodes \/ short)
       /\ view'.starved = view.starved
  BY <1>3, <1>4, <1>5
<1>15. Joined'
  BY <1>5, <1>8, <1>12, <1>13, <1>14 DEF Joined
<1>16. Fits'
  <2>1. Drawn' = Drawn
    BY <1>14 DEF Drawn
  <2>2. Cardinality(cross) + Cardinality(spokes) + 0 <= Asked.maxEdges
    BY <1>6, <1>8, <1>12 DEF left
  <2> QED
    BY <1>4, <1>5, <1>14, <2>1, <2>2, FS_EmptySet DEF Fits
<1>17. ASSUME syncs = 0, ~Owned' PROVE Whole'
  <2>1. /\ ~view.truncated /\ spokes = view.nodes
        /\ ~(Cardinality(cross) + Cardinality(spokes) < view.totalEdges)
    BY <1>4, <1>5, <1>14, <1>17 DEF Owned
  <2>2. HubInv /\ view.rows = <<>> /\ Entire
    BY <1>1, <1>17, <2>1 DEF Entire
  <2>3. Elements(view.rows) = {}
    BY <2>2 DEF Elements
  <2>4. view.files = HotFiles(database) /\ view.nodes = HotSymbols(database)
    BY <2>2, <2>3 DEF HubInv, HotSymbols
  <2>5. view.totalEdges = Cardinality(view.nodes) + Cardinality(between)
    BY <1>17, <2>2, <2>4 DEF HubInv, EdgesCounted, between
  <2>6. Cardinality(view.nodes) \in Nat /\ Cardinality(between) \in Nat
    BY <1>5, <1>10, FS_CardinalityType
  <2>7. Cardinality(cross) >= Cardinality(between)
    BY <1>12, <2>1, <2>5, <2>6
  <2>8. cross = between
    BY <1>10, <1>12, <2>7, AllOfIt
  <2> QED
    BY <1>4, <1>5, <1>14, <2>1, <2>4, <2>8 DEF Whole, between
<1>18. Honest'
  BY <1>4, <1>15, <1>16, <1>17 DEF Honest
<1> QED
  BY <1>3, <1>4, <1>18 DEF ViewsInv

(* The symbols of the index are counted.                                   *)
LEMMA TotalsKeepViews ==
  ASSUME ViewsInv, CountAll
  PROVE  ViewsInv'
<1> DEFINE changed == [view EXCEPT !.at = "countEdges",
                                   !.total = Cardinality(Structural(database))]
<1>1. /\ view.at = "full" /\ Asked.view = "full" /\ Fresh /\ ViewsBase /\ Steps(changed)
      /\ DOMAIN view = ViewFields /\ Proper(database)
      /\ view.truncated \in BOOLEAN /\ view.starved \in BOOLEAN
  BY DEF CountAll, Reading, ViewsInv, ViewsBase
<1>2. /\ DOMAIN changed = ViewFields /\ changed.request = view.request
      /\ changed.at = "countEdges" /\ changed.total = Cardinality(Structural(database))
      /\ changed.truncated = view.truncated /\ changed.starved = view.starved
      /\ changed.nodes = view.nodes /\ changed.files = view.files /\ changed.edges = view.edges
      /\ changed.spokes = view.spokes /\ changed.pairs = view.pairs
  BY <1>1 DEF ViewFields
<1> HIDE DEF changed
<1>3. view' = changed /\ database' = database /\ syncs' = syncs /\ Asked' = Asked /\ ViewsBase'
  BY <1>1, <1>2, StepIs
<1>4. Cardinality(Structural(database)) \in Nat
  BY <1>1, SelectionsAreFinite, FS_CardinalityType
<1>5. CountedInv'
  BY <1>1, <1>2, <1>3, <1>4 DEF CountedInv, Fresh
<1> QED
  BY <1>2, <1>3, <1>5 DEF ViewsInv

(* By their number the graph is drawn by symbol or by file.                *)
LEMMA ModesKeepViews ==
  ASSUME ViewsInv, CountEdges
  PROVE  ViewsInv'
<1> DEFINE edges == Cardinality(Between(database, Structural(database)))
           changed == [view EXCEPT !.at = IF view.total > Asked.collapseAfter
                                          THEN "allFiles" ELSE "allSymbols",
                                   !.totalEdges = edges]
<1>1. /\ view.at = "countEdges" /\ CountedInv /\ ViewsBase /\ Steps(changed)
      /\ Asked \in Requests /\ DOMAIN view = ViewFields
      /\ view.truncated \in BOOLEAN /\ view.starved \in BOOLEAN
  BY DEF CountEdges, Reading, ViewsInv, ViewsBase
<1>2. /\ DOMAIN changed = ViewFields /\ changed.request = view.request
      /\ changed.at = (IF view.total > Asked.collapseAfter THEN "allFiles" ELSE "allSymbols")
      /\ changed.total = view.total
      /\ changed.truncated = view.truncated /\ changed.starved = view.starved
      /\ changed.nodes = view.nodes /\ changed.files = view.files /\ changed.edges = view.edges
      /\ changed.spokes = view.spokes /\ changed.pairs = view.pairs
  BY <1>1 DEF ViewFields
<1> HIDE DEF changed
<1>3. view' = changed /\ database' = database /\ syncs' = syncs /\ Asked' = Asked /\ ViewsBase'
  BY <1>1, <1>2, StepIs
<1>4. /\ Asked.view = "full" /\ Fresh /\ view.total \in Nat
      /\ Asked.collapseAfter \in Nat /\ Asked.maxNodes \in Nat
  BY <1>1, RequestsAre DEF CountedInv
<1>5. CountedInv'
  BY <1>2, <1>3, <1>4 DEF CountedInv, Fresh
<1>6. /\ view'.nodes = {} /\ view'.files = {} /\ view'.edges = {} /\ view'.spokes = {}
      /\ view'.pairs = {} /\ view'.total = view.total
  BY <1>2, <1>3, <1>4 DEF Fresh
<1>7. IsFiniteSet({}) /\ Cardinality({}) = 0
  BY FS_EmptySet
<1>8. CASE view.total > Asked.collapseAfter
  <2>1. FileModeInv'
    BY <1>3, <1>4, <1>6, <1>7, <1>8 DEF FileModeInv
  <2> QED
    BY <1>2, <1>3, <1>5, <1>8, <2>1 DEF ViewsInv
<1>9. CASE view.total <= Asked.collapseAfter
  <2>1. SymbolModeInv'
    BY <1>3, <1>4, <1>6, <1>7, <1>9 DEF SymbolModeInv
  <2>2. view'.at = "allSymbols"
    <3>1. ~(view.total > Asked.collapseAfter)
      BY <1>4, <1>9
    <3> QED
      BY <1>2, <1>3, <3>1
  <2> QED
    BY <1>3, <1>5, <2>1, <2>2 DEF ViewsInv
<1> QED
  BY <1>4, <1>8, <1>9

(* By symbol: as many as fit.                                              *)
LEMMA AllSymbolsKeepViews ==
  ASSUME ViewsInv, ReadAllSymbols
  PROVE  ViewsInv'
<1> DEFINE symbols == Structural(database)
           shown == FirstIds(Asked.maxNodes, symbols)
           changed == [view EXCEPT !.at = "allEdges", !.nodes = shown,
                                   !.truncated = shown # symbols]
<1>1. /\ view.at = "allSymbols" /\ SymbolModeInv /\ ViewsBase /\ Steps(changed)
      /\ Asked \in Requests /\ DOMAIN view = ViewFields /\ Proper(database)
      /\ view.truncated \in BOOLEAN /\ view.starved \in BOOLEAN
  BY DEF ReadAllSymbols, Reading, ViewsInv, ViewsBase
<1>2. /\ DOMAIN changed = ViewFields /\ changed.request = view.request
      /\ changed.at = "allEdges" /\ changed.total = view.total
      /\ changed.truncated = (shown # symbols) /\ changed.starved = view.starved
      /\ changed.nodes = shown /\ changed.files = view.files
      /\ changed.spokes = view.spokes /\ changed.pairs = view.pairs
  BY <1>1 DEF ViewFields
<1> HIDE DEF changed
<1>3. view' = changed /\ database' = database /\ syncs' = syncs /\ Asked' = Asked /\ ViewsBase'
  <2>1. changed.truncated \in BOOLEAN
    BY <1>2
  <2> QED
    BY <1>1, <1>2, <2>1, StepIs
<1>4. Asked.view = "full" /\ Asked.maxNodes \in Nat
  BY <1>1, RequestsAre DEF SymbolModeInv
<1>5. symbols \in SUBSET Int /\ IsFiniteSet(symbols)
  BY <1>1, SelectionsAreFinite DEF Proper
<1> HIDE DEF symbols
<1>6. Limits(shown, Asked.maxNodes, symbols)
  BY <1>4, <1>5, FirstIdsLimit
<1>7. SymbolModeInv'
  BY <1>1, <1>2, <1>3, <1>5, <1>6 DEF SymbolModeInv, Limits
<1>8. (Entire => view.nodes = Structural(database))'
  BY <1>2, <1>3 DEF Entire, symbols
<1> QED
  BY <1>2, <1>3, <1>7, <1>8 DEF ViewsInv

(* And the edges between those.                                            *)
LEMMA SymbolModeIsHonest ==
  ASSUME ViewsInv, ReadAllEdges
  PROVE  ViewsInv'
<1> DEFINE between == Between(database, view.nodes)
           shown == FirstEdges(Asked.maxEdges, between)
           changed == [view EXCEPT !.at = "done", !.edges = shown,
                                   !.truncated = @ \/ shown # between]
<1>1. /\ view.at = "allEdges" /\ SymbolModeInv /\ ViewsBase /\ Steps(changed)
      /\ Asked \in Requests /\ DOMAIN view = ViewFields /\ Proper(database)
      /\ view.truncated \in BOOLEAN /\ view.starved \in BOOLEAN
      /\ Entire => view.nodes = Structural(database)
  BY DEF ReadAllEdges, Reading, ViewsInv, ViewsBase
<1>2. /\ DOMAIN changed = ViewFields /\ changed.request = view.request
      /\ changed.at = "done" /\ changed.total = view.total
      /\ changed.truncated = (view.truncated \/ shown # between) /\ changed.starved = view.starved
      /\ changed.nodes = view.nodes /\ changed.files = view.files /\ changed.edges = shown
      /\ changed.spokes = view.spokes /\ changed.pairs = view.pairs
  BY <1>1 DEF ViewFields
<1> HIDE DEF changed
<1>3. view' = changed /\ database' = database /\ syncs' = syncs /\ Asked' = Asked /\ ViewsBase'
  <2>1. changed.truncated \in BOOLEAN
    BY <1>1, <1>2
  <2> QED
    BY <1>1, <1>2, <2>1, StepIs
<1>4. /\ Asked.view = "full" /\ Asked.maxNodes \in Nat /\ Asked.maxEdges \in Nat
      /\ Asked.collapseAfter \in Nat
  BY <1>1, RequestsAre DEF SymbolModeInv
<1>5. between \in SUBSET Impacts(database) /\ \A e \in between : {e.from, e.to} \subseteq view.nodes
  BY DEF Between
<1> HIDE DEF between
<1>6. Limits(shown, Asked.maxEdges, between)
  BY <1>1, <1>4, <1>5, FirstEdgesLimit
<1>7. shown \subseteq between /\ Cardinality(shown) \in Nat /\ Cardinality(shown) <= Asked.maxEdges
  BY <1>6, FS_CardinalityType DEF Limits
<1> HIDE DEF shown
<1>8. /\ view'.nodes = view.nodes /\ view'.files = {} /\ view'.pairs = {} /\ view'.spokes = {}
      /\ view'.edges = shown /\ view'.truncated = (view.truncated \/ shown # between)
      /\ view'.total = view.total /\ view.total <= Asked.collapseAfter /\ view.total \in Nat
      /\ Cardinality(view.nodes) <= Asked.maxNodes /\ Cardinality(view.nodes) \in Nat
  BY <1>1, <1>2, <1>3, FS_CardinalityType DEF SymbolModeInv
<1>9. Joined'
  BY <1>5, <1>7, <1>8 DEF Joined
<1>10. Fits'
  <2>1. Drawn' = Cardinality(view.nodes)
    BY <1>8, FS_EmptySet DEF Drawn
  <2>2. Cardinality(shown) + 0 + 0 <= Asked.maxEdges
    BY <1>7
  <2> QED
    BY <1>3, <1>8, <2>1, <2>2, FS_EmptySet DEF Fits
<1>11. ASSUME syncs = 0, ~Owned' PROVE Whole'
  <2>1. shown = between /\ Entire
    BY <1>8, <1>11 DEF Owned, Entire
  <2>2. view'.nodes = Structural(database) /\ view'.edges = Between(database, view'.nodes)
    BY <1>1, <1>8, <2>1 DEF between
  <2>3. ~(view'.total > Asked.collapseAfter)
    BY <1>4, <1>8
  <2> QED
    BY <1>3, <1>4, <1>8, <2>2, <2>3 DEF Whole
<1>12. Honest'
  BY <1>3, <1>9, <1>10, <1>11 DEF Honest
<1> QED
  BY <1>2, <1>3, <1>12 DEF ViewsInv

(* By file: as many as fit.                                                *)
LEMMA AllFilesKeepViews ==
  ASSUME ViewsInv, ReadAllFiles
  PROVE  ViewsInv'
<1> DEFINE paths == Paths(Structural(database))
           changed == [view EXCEPT !.at = "pairs", !.files = Densest,
                                   !.truncated = Densest # paths]
<1>1. /\ view.at = "allFiles" /\ FileModeInv /\ ViewsBase /\ Steps(changed)
      /\ Asked \in Requests /\ DOMAIN view = ViewFields /\ Proper(database)
      /\ view.truncated \in BOOLEAN /\ view.starved \in BOOLEAN
  BY DEF ReadAllFiles, Reading, ViewsInv, ViewsBase
<1>2. /\ DOMAIN changed = ViewFields /\ changed.request = view.request
      /\ changed.at = "pairs" /\ changed.total = view.total
      /\ changed.truncated = (Densest # paths) /\ changed.starved = view.starved
      /\ changed.nodes = view.nodes /\ changed.files = Densest /\ changed.edges = view.edges
      /\ changed.spokes = view.spokes /\ changed.pairs = view.pairs
  BY <1>1 DEF ViewFields
<1> HIDE DEF changed
<1>3. view' = changed /\ database' = database /\ syncs' = syncs /\ Asked' = Asked /\ ViewsBase'
  <2>1. changed.truncated \in BOOLEAN
    BY <1>2
  <2> QED
    BY <1>1, <1>2, <2>1, StepIs
<1>4. Asked.view = "full" /\ Asked.maxNodes \in Nat
  BY <1>1, RequestsAre DEF FileModeInv
<1>5. Limits(Densest, Asked.maxNodes, paths)
  BY <1>1, <1>4, DensestFilesLimit DEF Densest
<1>6. paths \subseteq Int
  BY <1>1, SelectionsAreFinite
<1>7. Densest' = Densest
  BY <1>3 DEF Densest
<1>8. FileModeInv'
  BY <1>1, <1>2, <1>3, <1>5, <1>6 DEF FileModeInv, Limits
<1>9. (Entire => view.files = Paths(Structural(database)))'
  BY <1>2, <1>3 DEF Entire
<1> QED
  BY <1>2, <1>3, <1>7, <1>8, <1>9 DEF ViewsInv

(* And the edges between those that are shown.                             *)
LEMMA FileModeIsHonest ==
  ASSUME ViewsInv, ReadAllPairs
  PROVE  ViewsInv'
<1> DEFINE pairs == FilePairs(database, Densest)
           fetched == FirstPairs(Asked.maxEdges, pairs)
           shown == fetched \cap (view.files \X view.files)
           changed == [view EXCEPT !.at = "done", !.pairs = shown,
                                   !.truncated = @ \/ fetched # pairs]
<1>1. /\ view.at = "pairs" /\ FileModeInv /\ ViewsBase /\ Steps(changed)
      /\ Asked \in Requests /\ DOMAIN view = ViewFields /\ Proper(database)
      /\ view.truncated \in BOOLEAN /\ view.starved \in BOOLEAN
      /\ syncs = 0 => view.files = Densest
      /\ Entire => view.files = Paths(Structural(database))
  BY DEF ReadAllPairs, Reading, ViewsInv, ViewsBase
<1>2. /\ DOMAIN changed = ViewFields /\ changed.request = view.request
      /\ changed.at = "done" /\ changed.total = view.total
      /\ changed.truncated = (view.truncated \/ fetched # pairs) /\ changed.starved = view.starved
      /\ changed.nodes = view.nodes /\ changed.files = view.files /\ changed.edges = view.edges
      /\ changed.spokes = view.spokes /\ changed.pairs = shown
  BY <1>1 DEF ViewFields
<1> HIDE DEF changed
<1>3. view' = changed /\ database' = database /\ syncs' = syncs /\ Asked' = Asked /\ ViewsBase'
  <2>1. changed.truncated \in BOOLEAN
    BY <1>1, <1>2
  <2> QED
    BY <1>1, <1>2, <2>1, StepIs
<1>4. /\ Asked.view = "full" /\ Asked.maxNodes \in Nat /\ Asked.maxEdges \in Nat
      /\ Asked.collapseAfter \in Nat
  BY <1>1, RequestsAre DEF FileModeInv
<1>5. Densest \in SUBSET Int
  <2>1. Densest \subseteq Paths(Structural(database))
    BY <1>1, <1>4, DensestFilesLimit DEF Densest, Limits
  <2> QED
    BY <1>1, <2>1, SelectionsAreFinite
<1>6. pairs \subseteq Densest \X Densest /\ Limits(fetched, Asked.maxEdges, pairs)
  BY <1>1, <1>4, <1>5, FirstPairsLimit
<1> HIDE DEF fetched, pairs
<1>7. /\ fetched \subseteq pairs /\ Cardinality(shown) \in Nat
      /\ Cardinality(shown) <= Asked.maxEdges
  <2>1. /\ fetched \subseteq pairs /\ IsFiniteSet(fetched)
        /\ Cardinality(fetched) <= Asked.maxEdges /\ Cardinality(fetched) \in Nat
    BY <1>6, FS_CardinalityType DEF Limits
  <2>2. IsFiniteSet(shown) /\ Cardinality(shown) <= Cardinality(fetched)
    BY <2>1, FS_Subset
  <2>3. Cardinality(shown) \in Nat
    BY <2>2, FS_CardinalityType
  <2> QED
    BY <1>4, <2>1, <2>2, <2>3
<1>8. \A p \in shown : {p[1], p[2]} \subseteq view.files
  OBVIOUS
<1>9. Densest = view.files => (fetched = pairs => shown = pairs)
  BY <1>6
<1> HIDE DEF shown
<1>10. /\ view'.nodes = {} /\ view'.files = view.files /\ view'.pairs = shown /\ view'.spokes = {}
       /\ view'.edges = {} /\ view'.truncated = (view.truncated \/ fetched # pairs)
       /\ view'.total = view.total /\ view.total > Asked.collapseAfter /\ view.total \in Nat
       /\ Cardinality(view.files) <= Asked.maxNodes /\ Cardinality(view.files) \in Nat
  BY <1>1, <1>2, <1>3, FS_CardinalityType DEF FileModeInv
<1>11. Joined'
  BY <1>8, <1>10 DEF Joined
<1>12. Fits'
  <2>1. Drawn' = Cardinality(view.files)
    BY <1>10, FS_EmptySet DEF Drawn
  <2>2. 0 + 0 + Cardinality(shown) <= Asked.maxEdges
    BY <1>7
  <2> QED
    BY <1>3, <1>10, <2>1, <2>2, FS_EmptySet DEF Fits
<1>13. ASSUME syncs = 0, ~Owned' PROVE Whole'
  <2>1. fetched = pairs /\ Entire
    BY <1>10, <1>13 DEF Owned, Entire
  <2>2. view.files = Densest
    BY <1>1, <1>13
  <2>3. view'.pairs = FilePairs(database, view'.files)
    BY <1>9, <1>10, <2>1, <2>2 DEF pairs
  <2>4. view'.files = Paths(Structural(database))
    BY <1>1, <1>10, <2>1
  <2>5. ~(view'.total <= Asked.collapseAfter)
    BY <1>4, <1>10
  <2> QED
    BY <1>3, <1>4, <1>10, <2>3, <2>4, <2>5 DEF Whole
<1>14. Honest'
  BY <1>3, <1>11, <1>12, <1>13 DEF Honest
<1> QED
  BY <1>2, <1>3, <1>14 DEF ViewsInv

(* The list of hot files has all of them, or a larger total.               *)
LEMMA OverviewIsHonest ==
  ASSUME ViewsInv, ReadOverview
  PROVE  ViewsInv'
<1> DEFINE hot == HotFiles(database)
           shown == HottestFiles(Asked.maxFiles, database)
           changed == [view EXCEPT !.at = "done", !.files = shown, !.total = Cardinality(hot),
                                   !.truncated = Cardinality(hot) > Cardinality(shown)]
<1>1. /\ view.at = "overview" /\ Asked.view = "overview" /\ Fresh /\ ViewsBase /\ Steps(changed)
      /\ Asked \in Requests /\ DOMAIN view = ViewFields /\ Proper(database)
      /\ view.truncated \in BOOLEAN /\ view.starved \in BOOLEAN
  BY DEF ReadOverview, Reading, ViewsInv, ViewsBase
<1>2. /\ DOMAIN changed = ViewFields /\ changed.request = view.request
      /\ changed.at = "done" /\ changed.files = shown
      /\ changed.truncated = (Cardinality(hot) > Cardinality(shown))
      /\ changed.starved = view.starved
      /\ changed.edges = {} /\ changed.spokes = {} /\ changed.pairs = {}
  BY <1>1 DEF ViewFields, Fresh
<1> HIDE DEF changed
<1>3. view' = changed /\ database' = database /\ syncs' = syncs /\ Asked' = Asked /\ ViewsBase'
  <2>1. changed.truncated \in BOOLEAN
    BY <1>2
  <2> QED
    BY <1>1, <1>2, <2>1, StepIs
<1>4. Asked.maxFiles \in Nat
  BY <1>1, RequestsAre
<1>5. Limits(shown, Asked.maxFiles, hot) /\ IsFiniteSet(hot)
  BY <1>1, <1>4, HottestFilesLimit, SelectionsAreFinite
<1>6. /\ shown \in SUBSET hot /\ Cardinality(shown) \in Nat /\ Cardinality(hot) \in Nat
  BY <1>5, FS_CardinalityType DEF Limits
<1> HIDE DEF shown, hot
<1>7. ASSUME ~Owned' PROVE Whole'
  <2>1. ~(Cardinality(hot) > Cardinality(shown))
    BY <1>2, <1>3, <1>7 DEF Owned
  <2>2. Cardinality(shown) >= Cardinality(hot)
    BY <1>6, <2>1
  <2>3. shown = hot
    BY <1>5, <1>6, <2>2, AllOfIt
  <2>4. view'.files = HotFiles(database)
    BY <1>2, <1>3, <2>3 DEF hot
  <2> QED
    BY <1>1, <1>3, <2>4 DEF Whole
<1>8. Joined' /\ Fits'
  <2>1. /\ view'.edges = {} /\ view'.spokes = {} /\ view'.pairs = {}
        /\ Asked'.view \in {"overview", "file"}
    BY <1>1, <1>2, <1>3
  <2> QED
    BY <2>1 DEF Joined, Fits
<1>9. Honest'
  BY <1>7, <1>8 DEF Honest
<1> QED
  BY <1>2, <1>3, <1>9 DEF ViewsInv

(* A file's symbols are counted.                                           *)
LEMMA FileCountKeepsViews ==
  ASSUME ViewsInv, CountFile
  PROVE  ViewsInv'
<1> DEFINE inside == Cardinality(SymbolsIn(database, Asked.file))
           changed == [view EXCEPT !.at = "top", !.total = inside]
<1>1. /\ view.at = "file" /\ Asked.view = "file" /\ Fresh /\ ViewsBase /\ Steps(changed)
      /\ DOMAIN view = ViewFields
      /\ view.truncated \in BOOLEAN /\ view.starved \in BOOLEAN
  BY DEF CountFile, Reading, ViewsInv, ViewsBase
<1>2. /\ DOMAIN changed = ViewFields /\ changed.request = view.request
      /\ changed.at = "top" /\ changed.total = inside
      /\ changed.truncated = view.truncated /\ changed.starved = view.starved
      /\ changed.nodes = view.nodes /\ changed.files = view.files /\ changed.edges = view.edges
      /\ changed.spokes = view.spokes /\ changed.pairs = view.pairs
  BY <1>1 DEF ViewFields
<1> HIDE DEF changed
<1>3. view' = changed /\ database' = database /\ syncs' = syncs /\ Asked' = Asked /\ ViewsBase'
  BY <1>1, <1>2, StepIs
<1>4. Fresh' /\ view'.total = Cardinality(SymbolsIn(database, Asked.file))
  BY <1>1, <1>2, <1>3 DEF Fresh
<1> QED
  BY <1>1, <1>2, <1>3, <1>4 DEF ViewsInv

(* The list of them has all, or a larger total.                            *)
LEMMA FileIsHonest ==
  ASSUME ViewsInv, ReadFile
  PROVE  ViewsInv'
<1> DEFINE inside == SymbolsIn(database, Asked.file)
           shown == HottestSymbols(Asked.perFile, database, inside)
           changed == [view EXCEPT !.at = "done", !.nodes = shown,
                                   !.truncated = view.total > Cardinality(shown)]
<1>1. /\ view.at = "top" /\ Asked.view = "file" /\ Fresh /\ ViewsBase /\ Steps(changed)
      /\ Asked \in Requests /\ DOMAIN view = ViewFields /\ Proper(database)
      /\ view.truncated \in BOOLEAN /\ view.starved \in BOOLEAN
      /\ syncs = 0 => view.total = Cardinality(inside)
  BY DEF ReadFile, Reading, ViewsInv, ViewsBase
<1>2. /\ DOMAIN changed = ViewFields /\ changed.request = view.request
      /\ changed.at = "done" /\ changed.nodes = shown
      /\ changed.truncated = (view.total > Cardinality(shown))
      /\ changed.starved = view.starved
      /\ changed.edges = {} /\ changed.spokes = {} /\ changed.pairs = {}
  BY <1>1 DEF ViewFields, Fresh
<1> HIDE DEF changed
<1>3. view' = changed /\ database' = database /\ syncs' = syncs /\ Asked' = Asked /\ ViewsBase'
  <2>1. changed.truncated \in BOOLEAN
    BY <1>2
  <2> QED
    BY <1>1, <1>2, <2>1, StepIs
<1>4. Asked.perFile \in Nat
  BY <1>1, RequestsAre
<1>5. Limits(shown, Asked.perFile, inside) /\ IsFiniteSet(inside)
  BY <1>1, <1>4, HottestSymbolsLimit, CountsAreNumbers
<1>6. /\ shown \in SUBSET inside /\ Cardinality(shown) \in Nat /\ Cardinality(inside) \in Nat
  BY <1>5, FS_CardinalityType DEF Limits
<1> HIDE DEF shown, inside
<1>7. ASSUME syncs = 0, ~Owned' PROVE Whole'
  <2>1. ~(view.total > Cardinality(shown))
    BY <1>2, <1>3, <1>7 DEF Owned
  <2>2. Cardinality(shown) >= Cardinality(inside)
    BY <1>1, <1>6, <1>7, <2>1
  <2>3. shown = inside
    BY <1>5, <1>6, <2>2, AllOfIt
  <2>4. view'.nodes = SymbolsIn(database, Asked.file)
    BY <1>2, <1>3, <2>3 DEF inside
  <2> QED
    BY <1>1, <1>3, <2>4 DEF Whole
<1>8. Joined' /\ Fits'
  <2>1. /\ view'.edges = {} /\ view'.spokes = {} /\ view'.pairs = {}
        /\ Asked'.view \in {"overview", "file"}
    BY <1>1, <1>2, <1>3
  <2> QED
    BY <2>1 DEF Joined, Fits
<1>9. Honest'
  BY <1>3, <1>7, <1>8 DEF Honest
<1> QED
  BY <1>2, <1>3, <1>9 DEF ViewsInv

(* Every step of a reading keeps the invariant.                            *)
LEMMA ViewsStay ==
  ASSUME ViewsInv, [ViewsNext]_viewing
  PROVE  ViewsInv'
<1>1. CASE UNCHANGED viewing
  <2>1. view' = view /\ database' = database /\ syncs' = syncs
    BY <1>1 DEF viewing
  <2>2. /\ Asked' = Asked /\ Fresh' = Fresh /\ Entire' = Entire /\ Named' = Named /\ Drawn' = Drawn
        /\ EdgesCounted' = EdgesCounted /\ ViewsBase' = ViewsBase
    BY <2>1 DEF Asked, Fresh, Entire, Named, Drawn, EdgesCounted, ViewsBase
  <2>3. /\ Levels' = Levels /\ HotSoFar' = HotSoFar /\ MapSoFar' = MapSoFar /\ Densest' = Densest
        /\ CountedInv' = CountedInv /\ SymbolModeInv' = SymbolModeInv
        /\ FileModeInv' = FileModeInv
    BY <2>1, <2>2 DEF Levels, HotSoFar, MapSoFar, Densest, CountedInv, SymbolModeInv, FileModeInv
  <2>4. NamesInv' = NamesInv /\ SearchInv' = SearchInv /\ FetchedInv' = FetchedInv
    BY <2>1, <2>2, <2>3 DEF NamesInv, SearchInv, FetchedInv
  <2>5. CrossInv' = CrossInv /\ HubInv' = HubInv /\ SymbolsInv' = SymbolsInv
    BY <2>1, <2>2, <2>3 DEF CrossInv, HubInv, SymbolsInv
  <2>6. Joined' = Joined /\ Fits' = Fits /\ Owned' = Owned /\ Whole' = Whole
    BY <2>1, <2>2 DEF Joined, Fits, Owned, Whole
  <2>7. Honest' = Honest
    BY <2>1, <2>6 DEF Honest
  <2> QED
    BY <2>1, <2>2, <2>3, <2>4, <2>5, <2>7 DEF ViewsInv
<1> QED
  BY <1>1, SyncKeepsViews, OpenKeepsViews, FailureKeepsViews, ResolvingKeepsViews,
    StartingKeepsViews, LevelKeepsViews, FetchingKeepsViews, HotIsHonest, HotFilesKeepViews,
    CountingKeepsViews, HubsKeepViews, SymbolsKeepViews, MapIsHonest, TotalsKeepViews,
    ModesKeepViews, AllSymbolsKeepViews, SymbolModeIsHonest, AllFilesKeepViews, FileModeIsHonest,
    OverviewIsHonest, FileCountKeepsViews, FileIsHonest DEF ViewsNext

(* Whatever is synced while it is read, for any indexes, requests and      *)
(* limits: every edge of a view joins what it shows, but for a             *)
(* neighbourhood over two syncs; no view is larger than asked for; and one *)
(* read from one index is whole or owns to leaving something out.          *)
THEOREM NoViewDeceives == ViewsSpec => []ViewsAreHonest
<1>1. ViewsInv => ViewsAreHonest
  BY DEF ViewsInv, ViewsAreHonest, Ready, Reading, Honest
<1> QED
  BY <1>1, ViewsStartRight, ViewsStay, PTL DEF ViewsSpec

--------------------------------------------------------------------------------
(*****************************************************************************)
(* Refinement                                                                *)
(* A fold is a sum; a proof lessens one event.                               *)
(*****************************************************************************)

(* Every sequence of numbers has sums.                                     *)
LEMMA SumsExist ==
  ASSUME NEW n \in Nat, NEW t \in [1..n -> Int]
  PROVE  \E f \in [0..n -> Int] : f[0] = 0 /\ \A i \in 1..n : f[i] = f[i - 1] + t[i]
<1> DEFINE Sums(m, f) == f[0] = 0 /\ \A i \in 1..m : f[i] = f[i - 1] + t[i]
           T == {m \in Nat : m <= n => \E f \in [0..m -> Int] : Sums(m, f)}
<1>1. 0 \in T
  <2> DEFINE f == [i \in 0..0 |-> 0]
  <2>1. f \in [0..0 -> Int] /\ Sums(0, f)
    OBVIOUS
  <2> QED
    BY <2>1
<1>2. ASSUME NEW m \in T PROVE m + 1 \in T
  <2>0. m \in Nat /\ m + 1 \in Nat
    OBVIOUS
  <2> SUFFICES ASSUME m + 1 <= n PROVE \E f \in [0..(m + 1) -> Int] : Sums(m + 1, f)
    BY <2>0
  <2>1. m \in Nat /\ m <= n /\ m + 1 \in 1..n
    BY <2>0
  <2>2. PICK f \in [0..m -> Int] : Sums(m, f)
    BY <1>2, <2>1
  <2> DEFINE g == [i \in 0..(m + 1) |-> IF i = m + 1 THEN f[m] + t[m + 1] ELSE f[i]]
  <2>3. f[m] \in Int /\ t[m + 1] \in Int
    BY <2>1, <2>2
  <2>4. g \in [0..(m + 1) -> Int]
    BY <2>1, <2>2, <2>3
  <2>5. g[0] = 0
    BY <2>1, <2>2
  <2>6. ASSUME NEW i \in 1..(m + 1) PROVE g[i] = g[i - 1] + t[i]
    <3>1. CASE i = m + 1
      <4>1. g[i] = f[m] + t[m + 1] /\ g[i - 1] = f[m]
        BY <2>1, <3>1
      <4> QED
        BY <3>1, <4>1
    <3>2. CASE i # m + 1
      <4>1. i \in 1..m /\ g[i] = f[i] /\ g[i - 1] = f[i - 1]
        BY <2>1, <3>2
      <4> QED
        BY <2>2, <4>1
    <3> QED
      BY <3>1, <3>2
  <2>7. Sums(m + 1, g)
    <3> HIDE DEF g
    <3> QED
      BY <2>5, <2>6
  <2> QED
    BY <2>4, <2>7
<1>3. T = Nat
  <2>1. T \in SUBSET Nat
    OBVIOUS
  <2> HIDE DEF T
  <2> QED
    BY <1>1, <1>2, <2>1, Induct
<1>4. n \in T
  BY <1>3
<1> QED
  BY <1>4

(* The loss of events whose numbers are numbers is one.                    *)
LEMMA LossIsANumber ==
  ASSUME NEW es, Len(es) \in Nat,
         \A i \in 1..Len(es) : es[i].p \in Int /\ es[i].d \in Int
  PROVE  Loss(es) \in Int
<1> DEFINE n == Len(es)
           t == [i \in 1..n |-> es[i].p * es[i].d]
           Is(f) == f = [i \in 0..Len(es) |-> IF i = 0 THEN 0 ELSE f[i - 1] + es[i].p * es[i].d]
<1>1. t \in [1..n -> Int]
  OBVIOUS
<1>2. PICK f \in [0..n -> Int] : f[0] = 0 /\ \A i \in 1..n : f[i] = f[i - 1] + t[i]
  <2> HIDE DEF t
  <2> QED
    BY <1>1, SumsExist
<1>3. Is(f)
  <2>1. \A i \in 0..n : f[i] = IF i = 0 THEN 0 ELSE f[i - 1] + es[i].p * es[i].d
    <3> SUFFICES ASSUME NEW i \in 0..n, i # 0 PROVE f[i] = f[i - 1] + es[i].p * es[i].d
      BY <1>2
    <3>1. i \in 1..n /\ t[i] = es[i].p * es[i].d
      OBVIOUS
    <3> QED
      BY <1>2, <3>1
  <2>2. f = [i \in 0..n |-> f[i]]
    BY <1>2
  <2> QED
    BY <2>1, <2>2
<1> HIDE DEF t
<1>4. Is(LossOf(es))
  <2>1. LossOf(es) = CHOOSE h : Is(h)
    BY DEF LossOf
  <2>2. Is(CHOOSE h : Is(h))
    BY <1>3
  <2> QED
    BY <2>1, <2>2
<1> DEFINE g == LossOf(es)
           T == {m \in Nat : m <= n => g[m] \in Int}
<1>5. \A i \in 0..n : g[i] = IF i = 0 THEN 0 ELSE g[i - 1] + t[i]
  <2>1. \A h : Is(h) => \A i \in 0..n : h[i] = IF i = 0 THEN 0 ELSE h[i - 1] + es[i].p * es[i].d
    OBVIOUS
  <2>2. \A i \in 0..n : i # 0 => t[i] = es[i].p * es[i].d
    BY DEF t
  <2> HIDE DEF Is
  <2> QED
    BY <1>4, <2>1, <2>2
<1> HIDE DEF g, Is
<1>6. 0 \in T
  BY <1>5
<1>7. ASSUME NEW m \in T PROVE m + 1 \in T
  <2> SUFFICES ASSUME m + 1 <= n PROVE g[m + 1] \in Int
    OBVIOUS
  <2>1. m \in Nat /\ g[m] \in Int /\ m + 1 \in 0..n /\ m + 1 \in 1..n /\ m + 1 # 0
    OBVIOUS
  <2>2. g[m + 1] = g[m + 1 - 1] + t[m + 1] /\ t[m + 1] \in Int
    BY <1>1, <1>5, <2>1
  <2>3. m + 1 - 1 = m
    BY <2>1
  <2> QED
    BY <2>1, <2>2, <2>3
<1>8. T = Nat
  <2>1. T \in SUBSET Nat
    OBVIOUS
  <2> HIDE DEF T
  <2> QED
    BY <1>6, <1>7, <2>1, Induct
<1>9. n \in T
  BY <1>8
<1> QED
  BY <1>9 DEF Loss, g

(* The events of an offer, and what is assumed of it.                      *)
GraphNames == {"api_contract_break", "public_api_break", "dependency_break"}
EventsOfOffers ==
  [event : STRING \cup GraphNames, p : Nat, d : Nat, source : {Nothing, "graph"},
   owners : {{}} \cup DOMAIN Answers,
   floor : Nat]
ProperOffer(c) ==
  /\ c.said \in Seq(SaidEvents) /\ c.change.p \in Nat
  /\ c.benefit \in Int /\ c.breadth \in Int /\ c.change.owners \in DOMAIN Answers
  /\ c.success \in Nat /\ c.doubt \in Int /\ c.learned.success \in Nat \cup {Nothing}
  /\ \A event \in DOMAIN c.learned.events : c.learned.events[event] \in Nat

(* p is no less than what was said of e, or what was learned of it.        *)
Stands(c, e, p) ==
  \/ p >= e.p
  \/ e.event \in DOMAIN c.learned.events \ ConsequenceBearing /\ p = Clamped(c.learned.events[e.event])

(* No event a caller names is less likely in es but as learned, and one at *)
(* most is the graph's, which has consequences and what was said for a     *)
(* floor.                                                                  *)
KeepsWhatWasSaid(c, es) ==
  /\ es \in Seq(EventsOfOffers) /\ Len(c.said) <= Len(es)
  /\ \A i \in 1..Len(c.said) :
       /\ es[i].event = c.said[i].event /\ Stands(c, c.said[i], es[i].p)
       /\ es[i].source = "graph" => es[i].floor >= c.said[i].p
  /\ \E k \in Nat : \A i \in 1..Len(es) : es[i].source = "graph" => i = k

(* The least of some natural numbers is one of them.                       *)
LEMMA TheLeastIsOne ==
  ASSUME NEW T \in SUBSET Nat, T # {}
  PROVE  Min(T) \in T
<1>1. \E x \in T : \A y \in T : x <= y
  BY LeastOf
<1> QED
  BY <1>1 DEF Min

(* The graph expects one event, if any.                                    *)
LEMMA GraphExpectsOne ==
  ASSUME NEW c, ProperOffer(c), GraphEvents(c) # {}
  PROVE  LET new == CHOOSE e \in GraphEvents(c) : TRUE
         IN  new \in EventsOfOffers /\ new.source = "graph" /\ new.floor = 0
<1> DEFINE name == Dominant(c.change)
           new == Event(name, c.change.p, Disutility(name), "graph", c.change.owners, 0)
<1>1. name \in GraphNames /\ Disutility(name) \in Nat
  BY DEF Dominant, Disutility, GraphNames
<1> HIDE DEF name
<1>2. new \in EventsOfOffers /\ new.source = "graph" /\ new.floor = 0
  BY <1>1 DEF Event, EventsOfOffers, ProperOffer
<1>3. GraphEvents(c) = {new}
  BY DEF GraphEvents, new, name
<1> HIDE DEF new
<1>4. (CHOOSE e \in {new} : TRUE) = new
  OBVIOUS
<1> QED
  BY <1>2, <1>3, <1>4

(* An event said and expected is no less likely than it was said to be.    *)
LEMMA MergeKeeps ==
  ASSUME NEW old \in SaidEvents, NEW new \in EventsOfOffers,
         new.event = old.event, new.source = "graph"
  PROVE  /\ Merge(old, new) \in EventsOfOffers
         /\ Merge(old, new).event = old.event /\ Merge(old, new).p >= old.p
         /\ Merge(old, new).source = "graph" => Merge(old, new).floor >= old.p
<1> DEFINE worse == new.p >= old.p /\ new.d >= old.d /\ (new.p > old.p \/ new.d > old.d)
<1>1. /\ old.p \in Nat /\ old.d \in Nat /\ new.p \in Nat /\ new.d \in Nat
      /\ old.floor = 0
  BY DEF SaidEvents, EventsOfOffers
<1>2. CASE worse
  <2>1. Merge(old, new) = [new EXCEPT !.floor = old.p]
    BY <1>2 DEF Merge
  <2>2. /\ [new EXCEPT !.floor = old.p] \in EventsOfOffers
        /\ [new EXCEPT !.floor = old.p].event = new.event
        /\ [new EXCEPT !.floor = old.p].p = new.p
        /\ [new EXCEPT !.floor = old.p].floor = old.p
    BY <1>1 DEF EventsOfOffers
  <2>3. new.p >= old.p /\ old.p >= old.p
    BY <1>1, <1>2
  <2> QED
    BY <2>1, <2>2, <2>3
<1>3. CASE ~worse
  <2> DEFINE m == [old EXCEPT !.p = Larger(@, new.p), !.d = Larger(@, new.d),
                              !.source = Nothing, !.owners = {}]
  <2>1. Merge(old, new) = m
    BY <1>3 DEF Merge
  <2>2. /\ Larger(old.p, new.p) \in Nat /\ Larger(old.d, new.d) \in Nat
        /\ Larger(old.p, new.p) >= old.p
    BY <1>1 DEF Larger
  <2> DEFINE pp == Larger(old.p, new.p)
             dd == Larger(old.d, new.d)
  <2> HIDE DEF pp, dd
  <2>3. /\ m \in EventsOfOffers /\ m.event = old.event
        /\ m.p = Larger(old.p, new.p) /\ m.source = Nothing
    <3> DEFINE o == [old EXCEPT !.p = pp, !.d = dd, !.source = Nothing, !.owners = {}]
    <3>1. m = o
      BY DEF pp, dd
    <3>2. pp \in Nat /\ dd \in Nat
      BY <2>2 DEF pp, dd
    <3>3. o \in EventsOfOffers /\ o.event = old.event /\ o.p = pp /\ o.source = Nothing
      <4>1. old \in EventsOfOffers
        BY DEF EventsOfOffers, SaidEvents
      <4> QED
        BY <3>2, <4>1 DEF EventsOfOffers
    <3> HIDE DEF m, o
    <3> QED
      BY <3>1, <3>3 DEF pp
  <2>4. Nothing # "graph"
    BY RefinementAssumption
  <2> HIDE DEF m
  <2> QED
    BY <2>1, <2>2, <2>3, <2>4
<1> QED
  BY <1>2, <1>3

(* What the graph adds keeps what was said.                                *)
LEMMA ExpectedKeeps ==
  ASSUME NEW c, ProperOffer(c)
  PROVE  KeepsWhatWasSaid(c, Expected(c))
<1>1. Nothing # "graph"
  BY RefinementAssumption
<1>2. SaidEvents \subseteq EventsOfOffers
  BY DEF SaidEvents, EventsOfOffers
<1>3. /\ c.said \in Seq(SaidEvents) /\ Len(c.said) \in Nat
      /\ \A i \in 1..Len(c.said) : /\ c.said[i] \in SaidEvents /\ c.said[i] \in EventsOfOffers
                                   /\ c.said[i].source # "graph" /\ c.said[i].p \in Nat
  <2>1. c.said \in Seq(SaidEvents) /\ Len(c.said) \in Nat
    BY DEF ProperOffer
  <2>2. \A i \in 1..Len(c.said) : c.said[i] \in SaidEvents
    BY <2>1
  <2>3. \A e \in SaidEvents : e.source # "graph" /\ e.p \in Nat
    BY <1>1 DEF SaidEvents
  <2> QED
    BY <1>2, <2>1, <2>2, <2>3
<1>4. c.said \in Seq(EventsOfOffers)
  BY <1>2, <1>3
<1> DEFINE said == c.said
<1>5. CASE GraphEvents(c) = {}
  <2>1. Expected(c) = said
    BY <1>5 DEF Expected
  <2>2. \A i \in 1..Len(said) : said[i].p >= said[i].p
    BY <1>3
  <2>3. \E k \in Nat : \A i \in 1..Len(said) : said[i].source = "graph" => i = k
    BY <1>3
  <2> QED
    BY <1>3, <1>4, <2>1, <2>2, <2>3 DEF KeepsWhatWasSaid, Stands
<1>6. CASE GraphEvents(c) # {}
  <2> DEFINE new == CHOOSE e \in GraphEvents(c) : TRUE
             I == {i \in 1..Len(c.said) : c.said[i].event = new.event}
  <2>1. new \in EventsOfOffers /\ new.source = "graph" /\ new.floor = 0
    BY <1>6, GraphExpectsOne
  <2>2. Expected(c) = IF I = {} THEN Append(said, new)
                      ELSE [said EXCEPT ![Min(I)] = Merge(@, new)]
    <3>1. I # {} => Min(I) \in I
      <4>1. I \in SUBSET Nat
        OBVIOUS
      <4> HIDE DEF I
      <4> QED
        BY <4>1, TheLeastIsOne
    <3>2. I # {} => Min(I) # 0
      BY <3>1
    <3>3. SelectInSeq(c.said, LAMBDA e : e.event = new.event) = IF I # {} THEN Min(I) ELSE 0
      BY DEF SelectInSeq
    <3> QED
      BY <1>6, <3>2, <3>3 DEF Expected
  <2> HIDE DEF new
  <2>3. CASE I = {}
    <3>1. /\ Append(said, new) \in Seq(EventsOfOffers) /\ Len(Append(said, new)) = Len(said) + 1
          /\ \A i \in 1..Len(said) : Append(said, new)[i] = said[i]
      BY <1>3, <1>4, <2>1
    <3> DEFINE es == Append(said, new)
    <3>2. \A i \in 1..Len(said) : es[i].event = said[i].event /\ es[i].p >= said[i].p
                                  /\ es[i].source # "graph"
      BY <1>3, <3>1
    <3>3. \A i \in 1..Len(es) : es[i].source = "graph" => i = Len(said) + 1
      BY <1>3, <3>1, <3>2
    <3> HIDE DEF es
    <3>4. Len(said) + 1 \in Nat /\ Len(said) <= Len(said) + 1
      BY <1>3
    <3> QED
      BY <2>2, <2>3, <3>1, <3>2, <3>3, <3>4 DEF KeepsWhatWasSaid, Stands, es
  <2>4. CASE I # {}
    <3> DEFINE k == Min(I)
    <3>1. k \in 1..Len(said) /\ said[k].event = new.event
      <4>1. I \in SUBSET Nat
        OBVIOUS
      <4>2. Min(I) \in I
        <5> HIDE DEF I
        <5> QED
          BY <2>4, <4>1, TheLeastIsOne
      <4> QED
        BY <4>2
    <3> HIDE DEF k
    <3> DEFINE m == Merge(said[k], new)
               es == [said EXCEPT ![k] = m]
    <3>2. /\ m \in EventsOfOffers /\ m.event = said[k].event /\ m.p >= said[k].p
          /\ m.source = "graph" => m.floor >= said[k].p
      BY <1>3, <2>1, <3>1, MergeKeeps
    <3> HIDE DEF m
    <3>3. /\ es \in Seq(EventsOfOffers) /\ Len(es) = Len(said)
          /\ \A i \in 1..Len(said) : es[i] = IF i = k THEN m ELSE said[i]
      BY <1>4, <3>1, <3>2
    <3>4. Expected(c) = es
      BY <2>2, <2>4 DEF k, m
    <3> HIDE DEF es
    <3>5. ASSUME NEW i \in 1..Len(said)
          PROVE  /\ es[i].event = said[i].event /\ es[i].p >= said[i].p
                 /\ es[i].source = "graph" => es[i].floor >= said[i].p
                 /\ es[i].source = "graph" => i = k
      <4>1. CASE i = k
        BY <3>2, <3>3, <4>1
      <4>2. CASE i # k
        BY <1>3, <3>3, <4>2
      <4> QED
        BY <4>1, <4>2
    <3>6. k \in Nat /\ Len(said) <= Len(said)
      BY <1>3, <3>1
    <3> QED
      BY <3>3, <3>4, <3>5, <3>6 DEF KeepsWhatWasSaid, Stands
  <2> QED
    BY <2>3, <2>4
<1> QED
  BY <1>5, <1>6

(* A learned rate is a number.                                             *)
LEMMA ClampedIs == ASSUME NEW r \in Nat PROVE Clamped(r) \in Nat
  BY DEF Clamped

(* What a learned rate leaves of an event, and that it leaves that again.  *)
LEMMA RelearnedIs ==
  ASSUME NEW c, ProperOffer(c), NEW e \in EventsOfOffers
  PROVE  LET new == Relearned(e, c.learned.events)
         IN  /\ new \in EventsOfOffers /\ new.event = e.event /\ new.source = e.source
             /\ new.floor = e.floor /\ Stands(c, e, new.p)
             /\ Relearned(new, c.learned.events) = new
<1> DEFINE rates == c.learned.events
           r == Clamped(rates[e.event])
           q == IF e.event \in ConsequenceBearing THEN Larger(e.p, r) ELSE r
           changed == [e EXCEPT !.p = q]
<1>0. e.p \in Nat
  BY DEF EventsOfOffers
<1>1. CASE e.event \notin DOMAIN rates
  <2>1. Relearned(e, rates) = e
    BY <1>1 DEF Relearned
  <2>2. Stands(c, e, e.p)
    BY <1>0 DEF Stands
  <2> QED
    BY <2>1, <2>2
<1>2. CASE e.event \in DOMAIN rates
  <2>1. r \in Nat
    BY <1>2, ClampedIs DEF ProperOffer
  <2>2. Relearned(e, rates) = changed
    BY <1>2 DEF Relearned
  <2> HIDE DEF r
  <2>3. /\ q \in Nat
        /\ e.event \in ConsequenceBearing => q >= e.p /\ Larger(q, r) = q
        /\ e.event \notin ConsequenceBearing => q = r
    BY <1>0, <2>1 DEF Larger
  <2>4. Stands(c, e, q)
    BY <1>2, <2>3 DEF Stands, r
  <2> HIDE DEF q, rates
  <2>5. /\ changed \in EventsOfOffers /\ changed.event = e.event /\ changed.source = e.source
        /\ changed.floor = e.floor /\ changed.p = q
    BY <2>3 DEF EventsOfOffers
  <2>6. [changed EXCEPT !.p = q] = changed
    BY DEF EventsOfOffers
  <2>7. Relearned(changed, rates) = changed
    <3> DEFINE again == IF changed.event \in ConsequenceBearing THEN Larger(changed.p, r) ELSE r
    <3>1. again = q
      BY <2>3, <2>5
    <3>2. Relearned(changed, rates) = [changed EXCEPT !.p = again]
      <4> HIDE DEF changed
      <4> QED
        BY <1>2, <2>5 DEF Relearned, r
    <3> QED
      BY <2>6, <3>1, <3>2
  <2> HIDE DEF changed
  <2> QED
    BY <2>2, <2>4, <2>5, <2>7 DEF rates
<1> QED
  BY <1>1, <1>2

(* The events with what was learned of each.                               *)
LearnedOf(c, es) == [i \in DOMAIN es |-> Relearned(es[i], c.learned.events)]

(* What was learned leaves what was said, or replaces it, and leaves what  *)
(* it left before.                                                         *)
LEMMA LearnedKeeps ==
  ASSUME NEW c, ProperOffer(c), NEW es, KeepsWhatWasSaid(c, es)
  PROVE  KeepsWhatWasSaid(c, LearnedOf(c, es)) /\ LearnedOf(c, LearnedOf(c, es)) = LearnedOf(c, es)
<1> DEFINE new == LearnedOf(c, es)
<1>1. /\ es \in Seq(EventsOfOffers) /\ Len(es) \in Nat /\ DOMAIN es = 1..Len(es)
      /\ \A i \in 1..Len(es) : es[i] \in EventsOfOffers /\ es[i].p \in Nat
  <2>1. es \in Seq(EventsOfOffers)
    BY DEF KeepsWhatWasSaid
  <2>2. \A e \in EventsOfOffers : e.p \in Nat
    BY DEF EventsOfOffers
  <2> QED
    BY <2>1, <2>2
<1>2. ASSUME NEW i \in 1..Len(es)
      PROVE  /\ new[i] = Relearned(es[i], c.learned.events)
             /\ new[i] \in EventsOfOffers /\ new[i].event = es[i].event /\ new[i].source = es[i].source
             /\ new[i].floor = es[i].floor /\ Stands(c, es[i], new[i].p)
             /\ Relearned(new[i], c.learned.events) = new[i]
  <2>1. new[i] = Relearned(es[i], c.learned.events)
    BY <1>1 DEF LearnedOf
  <2>2. es[i] \in EventsOfOffers
    BY <1>1
  <2> QED
    BY <2>1, <2>2, RelearnedIs
<1>3. new = [i \in 1..Len(es) |-> new[i]]
  BY <1>1 DEF LearnedOf
<1>4. LearnedOf(c, new) = [i \in DOMAIN new |-> Relearned(new[i], c.learned.events)]
  BY DEF LearnedOf
<1> HIDE DEF new
<1>5. new \in Seq(EventsOfOffers) /\ Len(new) = Len(es) /\ DOMAIN new = 1..Len(es)
  BY <1>1, <1>2, <1>3
<1>6. LearnedOf(c, new) = new
  <2>1. LearnedOf(c, new) = [i \in 1..Len(es) |-> new[i]]
    BY <1>2, <1>4, <1>5
  <2> QED
    BY <1>3, <2>1
<1>7. /\ c.said \in Seq(SaidEvents) /\ Len(c.said) \in Nat /\ Len(c.said) <= Len(es)
      /\ \A i \in 1..Len(c.said) : c.said[i].p \in Nat
  <2>1. c.said \in Seq(SaidEvents) /\ Len(c.said) <= Len(es)
    BY DEF ProperOffer, KeepsWhatWasSaid
  <2>2. \A e \in SaidEvents : e.p \in Nat
    BY DEF SaidEvents
  <2> QED
    BY <2>1, <2>2
<1>8. ASSUME NEW i \in 1..Len(c.said)
      PROVE  /\ new[i].event = c.said[i].event /\ Stands(c, c.said[i], new[i].p)
             /\ new[i].source = "graph" => new[i].floor >= c.said[i].p
  <2>1. i \in 1..Len(es)
    BY <1>1, <1>7
  <2>2. /\ es[i].event = c.said[i].event /\ Stands(c, c.said[i], es[i].p)
        /\ es[i].source = "graph" => es[i].floor >= c.said[i].p
    BY DEF KeepsWhatWasSaid
  <2>3. /\ new[i].event = es[i].event /\ new[i].source = es[i].source /\ new[i].floor = es[i].floor
        /\ Stands(c, es[i], new[i].p) /\ new[i] \in EventsOfOffers
    BY <1>2, <2>1
  <2>4. new[i].p \in Nat /\ es[i].p \in Nat /\ c.said[i].p \in Nat
    BY <1>1, <1>7, <2>1, <2>3 DEF EventsOfOffers
  <2>5. Stands(c, c.said[i], new[i].p)
    <3> DEFINE e == c.said[i].event
               rate == Clamped(c.learned.events[e])
               free == e \in DOMAIN c.learned.events \ ConsequenceBearing
    <3>1. new[i].p >= es[i].p \/ (free /\ new[i].p = rate)
      BY <2>2, <2>3 DEF Stands
    <3>2. es[i].p >= c.said[i].p \/ (free /\ es[i].p = rate)
      BY <2>2 DEF Stands
    <3>3. free => new[i].p = rate
      <4>1. new[i] = Relearned(es[i], c.learned.events) /\ es[i].event = e
        BY <1>2, <2>1, <2>2
      <4>2. free => new[i] = [es[i] EXCEPT !.p = rate]
        BY <4>1 DEF Relearned
      <4>3. [es[i] EXCEPT !.p = rate].p = rate
        BY <1>1, <2>1 DEF EventsOfOffers
      <4> QED
        BY <4>2, <4>3
    <3> HIDE DEF free, rate
    <3>4. new[i].p >= c.said[i].p \/ (free /\ new[i].p = rate)
      BY <2>4, <3>1, <3>2, <3>3
    <3> QED
      BY <3>4 DEF Stands, free, rate
  <2> QED
    BY <2>2, <2>3, <2>5
<1>9. \E k \in Nat : \A i \in 1..Len(new) : new[i].source = "graph" => i = k
  <2>1. PICK k \in Nat : \A i \in 1..Len(es) : es[i].source = "graph" => i = k
    BY DEF KeepsWhatWasSaid
  <2> QED
    BY <1>2, <1>5, <2>1
<1>10. KeepsWhatWasSaid(c, new)
  BY <1>5, <1>7, <1>8, <1>9 DEF KeepsWhatWasSaid
<1> QED
  BY <1>6, <1>10 DEF new

(* A chance of success with what was learned of it.                        *)
SuccessOf(c, success) == IF c.learned.success = Nothing THEN success ELSE Clamped(c.learned.success)

(* The layers over an input: what is shipped matters to success alone.     *)
LEMMA LayersAre ==
  ASSUME NEW c, NEW es, NEW success, NEW shown
  PROVE  PriorLayers(c, [events |-> es, success |-> success], shown)
         = [events |-> LearnedOf(c, es),
            success |-> SuccessOf(c, IF Matches(c, shown) /\ ~c.stated THEN WarmSuccess ELSE success)]
<1> DEFINE input == [events |-> es, success |-> success]
           warm == IF Matches(c, shown) /\ ~c.stated THEN WarmSuccess ELSE success
<1>1. Warmed(c, input, shown) = [events |-> es, success |-> warm]
  BY DEF Warmed
<1> HIDE DEF warm
<1>2. [events |-> es, success |-> warm].events = es /\ [events |-> es, success |-> warm].success = warm
  OBVIOUS
<1>3. Learned(c, [events |-> es, success |-> warm])
      = [events |-> LearnedOf(c, es), success |-> SuccessOf(c, warm)]
  BY <1>2 DEF Learned, LearnedOf, SuccessOf
<1> QED
  BY <1>1, <1>3 DEF PriorLayers, warm

(* What a candidate is scored by first keeps what was said.                *)
LEMMA PreparedKeeps ==
  ASSUME NEW c, ProperOffer(c)
  PROVE  /\ KeepsWhatWasSaid(c, Prepared(c).events)
         /\ LearnedOf(c, Prepared(c).events) = Prepared(c).events
         /\ Prepared(c) = [events |-> Prepared(c).events, success |-> SuccessOf(c, c.success)]
<1>1. NotAnalysed.status # "available"
  BY DEF NotAnalysed, ContinuityEvidence
<1>2. ~Matches(c, NotAnalysed)
  BY <1>1 DEF Matches
<1>3. Prepared(c) = [events |-> LearnedOf(c, Expected(c)), success |-> SuccessOf(c, c.success)]
  BY <1>2, LayersAre DEF Prepared
<1>4. /\ KeepsWhatWasSaid(c, LearnedOf(c, Expected(c)))
      /\ LearnedOf(c, LearnedOf(c, Expected(c))) = LearnedOf(c, Expected(c))
  BY ExpectedKeeps, LearnedKeeps
<1>5. Prepared(c).events = LearnedOf(c, Expected(c))
  BY <1>3
<1> QED
  BY <1>3, <1>4, <1>5

(* It is one to be scored.                                                 *)
LEMMA PreparedIsAnInput ==
  ASSUME NEW c, ProperOffer(c)
  PROVE  Prepared(c).events \in Seq(EventsOfOffers) /\ Prepared(c).success \in Nat
<1>1. KeepsWhatWasSaid(c, Prepared(c).events)
      /\ Prepared(c) = [events |-> Prepared(c).events, success |-> SuccessOf(c, c.success)]
  BY PreparedKeeps
<1>2. Prepared(c).events \in Seq(EventsOfOffers)
  BY <1>1 DEF KeepsWhatWasSaid
<1>3. Prepared(c).success = SuccessOf(c, c.success)
  BY <1>1
<1>4. c.learned.success # Nothing => Clamped(c.learned.success) \in Nat
  BY ClampedIs DEF ProperOffer
<1>5. SuccessOf(c, c.success) \in Nat
  BY <1>4 DEF SuccessOf, ProperOffer
<1> QED
  BY <1>2, <1>3, <1>5

(* The layers over it again leave its events; success they change only     *)
(* where something proved matches what is shipped, and nothing else says.  *)
LEMMA AgainIs ==
  ASSUME NEW c, ProperOffer(c), NEW shown
  PROVE  LET input == PriorLayers(c, Prepared(c), shown)
         IN  /\ input.events = Prepared(c).events /\ input.success \in Nat
             /\ input.success # Prepared(c).success =>
                  /\ shown.status = "available" /\ c.typescript /\ ~c.stated
                  /\ c.learned.success = Nothing
<1> DEFINE es == Prepared(c).events
           first == SuccessOf(c, c.success)
           warm == IF Matches(c, shown) /\ ~c.stated THEN WarmSuccess ELSE first
<1>1. Prepared(c) = [events |-> es, success |-> first] /\ LearnedOf(c, es) = es
  BY PreparedKeeps
<1>2. PriorLayers(c, Prepared(c), shown) = [events |-> LearnedOf(c, es), success |-> SuccessOf(c, warm)]
  <2> HIDE DEF es, first
  <2> QED
    BY <1>1, LayersAre
<1>3. Prepared(c).success = first
  <2> HIDE DEF es, first
  <2> QED
    BY <1>1
<1>4. SuccessOf(c, warm) \in Nat
  <2>1. c.learned.success # Nothing => Clamped(c.learned.success) \in Nat
    BY ClampedIs DEF ProperOffer
  <2>2. c.success \in Nat /\ WarmSuccess \in Nat
    BY DEF ProperOffer, WarmSuccess
  <2> QED
    BY <2>1, <2>2 DEF SuccessOf
<1>5. SuccessOf(c, warm) # first =>
        c.learned.success = Nothing /\ Matches(c, shown) /\ ~c.stated
  BY DEF SuccessOf
<1>6. Matches(c, shown) => shown.status = "available" /\ c.typescript
  BY DEF Matches
<1> HIDE DEF es, first, warm
<1>7. /\ PriorLayers(c, Prepared(c), shown).events = es
      /\ PriorLayers(c, Prepared(c), shown).success = SuccessOf(c, warm)
  BY <1>1, <1>2
<1> QED
  BY <1>3, <1>4, <1>5, <1>6, <1>7 DEF es

(* is is es after what was proved: a third of the graph's events at least, *)
(* and no less than their floors.                                          *)
AdjustedFrom(is, es) ==
  /\ is \in Seq(EventsOfOffers) /\ Len(is) = Len(es)
  /\ \A i \in 1..Len(es) :
       /\ is[i].event = es[i].event /\ is[i].p <= es[i].p /\ 20 * is[i].p >= 7 * es[i].p - 20
       /\ is[i].p = es[i].p \/ (is[i].p >= es[i].floor /\ is[i].p >= ProbabilityFloor)
       /\ is[i].p # es[i].p => es[i].source = "graph"

(* What is left of a probability.                                          *)
LEMMA RevisedBounds ==
  ASSUME NEW e \in EventsOfOffers, NEW q \in 90..100
  PROVE  /\ Revised(e, q) \in Nat /\ Revised(e, q) <= e.p /\ 20 * Revised(e, q) >= 7 * e.p - 20
         /\ Revised(e, q) = e.p \/ (Revised(e, q) >= e.floor /\ Revised(e, q) >= ProbabilityFloor)
<1> DEFINE p == e.p
           f == e.floor
           x == 10000 - 65 * q
           y == p * x
           z == y \div 10000
           b == Larger(ProbabilityFloor, f)
           l == Larger(b, z)
<1>1. p \in Nat /\ f \in Nat /\ x \in Nat /\ 3500 <= x
  BY DEF EventsOfOffers
<1>2. Revised(e, q) = IF l < p THEN l ELSE p
  BY DEF Revised
<1> HIDE DEF p, f, x
<1>3. y \in Nat /\ 3500 * p <= y
  BY <1>1
<1> HIDE DEF y
<1>4. z \in Nat /\ y < 10000 * z + 10000
  BY <1>3
<1> HIDE DEF z
<1>5. 20 * z >= 7 * p - 20
  BY <1>1, <1>3, <1>4
<1>6. b \in Nat /\ b >= f /\ b >= ProbabilityFloor /\ ProbabilityFloor \in Nat
  BY <1>1 DEF Larger, ProbabilityFloor
<1> HIDE DEF b
<1>7. l \in Nat /\ l >= b /\ l >= z
  BY <1>4, <1>6 DEF Larger
<1> HIDE DEF l
<1>8. \A r \in {l, p} : r = (IF l < p THEN l ELSE p) =>
        r \in Nat /\ r <= p /\ 20 * r >= 7 * p - 20 /\ (r = p \/ (r >= f /\ r >= ProbabilityFloor))
  BY <1>1, <1>4, <1>5, <1>6, <1>7
<1> QED
  BY <1>2, <1>8 DEF p, f

(* A proof of a patch takes no more away, and only one that is available.  *)
LEMMA AdjustedKeeps ==
  ASSUME NEW es \in Seq(EventsOfOffers), NEW shown
  PROVE  /\ AdjustedFrom(Adjusted(es, shown), es)
         /\ shown.status # "available" => Adjusted(es, shown) = es
<1> DEFINE is == Adjusted(es, shown)
           Facts(i) == {f \in Range(shown.facts) : About(f, es[i], es, shown.facts)}
           fact(i) == CHOOSE f \in Facts(i) : TRUE
           new == [i \in DOMAIN es |->
                     IF Facts(i) = {} THEN es[i]
                     ELSE [es[i] EXCEPT !.p = Revised(es[i], fact(i).confidence)]]
<1>1. /\ Len(es) \in Nat /\ DOMAIN es = 1..Len(es)
      /\ \A i \in 1..Len(es) : es[i] \in EventsOfOffers
  OBVIOUS
<1>2. AdjustedFrom(es, es)
  <2>1. ASSUME NEW i \in 1..Len(es)
        PROVE  es[i].p \in Nat /\ es[i].p <= es[i].p /\ 20 * es[i].p >= 7 * es[i].p - 20
    <3>1. es[i].p \in Nat
      BY <1>1 DEF EventsOfOffers
    <3> QED
      BY <3>1
  <2> QED
    BY <2>1 DEF AdjustedFrom
<1>3. CASE is = es
  BY <1>2, <1>3
<1>4. CASE is # es
  <2>1. is = new /\ shown.status = "available"
    BY <1>4 DEF Adjusted
  <2>2. ASSUME NEW i \in 1..Len(es), Facts(i) # {}
        PROVE  fact(i).confidence \in 90..100 /\ es[i].source = "graph"
    <3>1. fact(i) \in Facts(i)
      BY <2>2
    <3> HIDE DEF fact
    <3>2. About(fact(i), es[i], es, shown.facts)
      BY <3>1
    <3> QED
      BY <3>2 DEF About, MinConfidence
  <2>3. ASSUME NEW i \in 1..Len(es)
        PROVE  /\ is[i] \in EventsOfOffers /\ is[i].event = es[i].event
               /\ is[i].p <= es[i].p /\ 20 * is[i].p >= 7 * es[i].p - 20
               /\ is[i].p = es[i].p \/ (is[i].p >= es[i].floor /\ is[i].p >= ProbabilityFloor)
               /\ is[i].p # es[i].p => es[i].source = "graph"
    <3>1. CASE Facts(i) = {}
      <4>1. is[i] = es[i]
        BY <1>1, <2>1, <3>1
      <4> QED
        BY <1>1, <1>2, <4>1 DEF AdjustedFrom
    <3>2. CASE Facts(i) # {}
      <4> DEFINE q == fact(i).confidence
                 e == es[i]
                 r == Revised(e, q)
      <4>1. is[i] = [e EXCEPT !.p = r]
        BY <1>1, <2>1, <3>2
      <4>2. q \in 90..100 /\ e.source = "graph" /\ e \in EventsOfOffers
        BY <1>1, <2>2, <3>2
      <4> HIDE DEF q, e
      <4>3. /\ r \in Nat /\ r <= e.p /\ 20 * r >= 7 * e.p - 20
            /\ r = e.p \/ (r >= e.floor /\ r >= ProbabilityFloor)
        BY <4>2, RevisedBounds
      <4> HIDE DEF r
      <4>4. [e EXCEPT !.p = r] \in EventsOfOffers /\ [e EXCEPT !.p = r].event = e.event
            /\ [e EXCEPT !.p = r].p = r
        BY <4>2, <4>3 DEF EventsOfOffers
      <4> QED
        BY <4>1, <4>2, <4>3, <4>4 DEF e
    <3> QED
      BY <3>1, <3>2
  <2>4. DOMAIN is = 1..Len(es)
    BY <1>1, <2>1
  <2>5. is = [i \in 1..Len(es) |-> is[i]]
    BY <1>1, <2>1
  <2> HIDE DEF is, new, Facts
  <2>6. is \in Seq(EventsOfOffers) /\ Len(is) = Len(es)
    BY <1>1, <2>3, <2>5
  <2> QED
    BY <2>1, <2>3, <2>6 DEF AdjustedFrom, is
<1> QED
  BY <1>3, <1>4

(* What a score consists of.                                               *)
ScoreFields == {"events", "success", "loss", "rau", "decision", "evidence", "status"}

(* A score is a number, of events less likely only if something proved it. *)
LEMMA ScoredIs ==
  ASSUME NEW c, c.benefit \in Int, NEW input, input.events \in Seq(EventsOfOffers), input.success \in Nat,
         NEW shown, NEW doubt \in Int
  PROVE  LET s == Scored(c, input, shown, doubt)
         IN  /\ DOMAIN s = ScoreFields /\ s.status = shown.status /\ s.success = input.success
             /\ s.loss \in Int /\ s.rau \in Int
             /\ AdjustedFrom(s.events, input.events)
             /\ shown.status # "available" => s.events = input.events
<1> DEFINE is == Adjusted(input.events, shown)
           loss == Loss(is)
           rau == ((c.benefit * input.success) \div 1000) - loss - doubt
           s == Scored(c, input, shown, doubt)
<1>1. AdjustedFrom(is, input.events) /\ (shown.status # "available" => is = input.events)
  BY AdjustedKeeps
<1> HIDE DEF is
<1>2. loss \in Int
  <2>1. is \in Seq(EventsOfOffers)
    BY <1>1 DEF AdjustedFrom
  <2>2. Len(is) \in Nat /\ \A i \in 1..Len(is) : is[i] \in EventsOfOffers
    BY <2>1
  <2>3. \A i \in 1..Len(is) : is[i].p \in Int /\ is[i].d \in Int
    BY <2>2 DEF EventsOfOffers
  <2> QED
    BY <2>2, <2>3, LossIsANumber
<1> HIDE DEF loss
<1>3. rau \in Int
  <2> DEFINE gain == c.benefit * input.success
  <2>1. gain \in Int
    OBVIOUS
  <2> HIDE DEF gain
  <2>2. gain \div 1000 \in Int
    BY <2>1
  <2> QED
    BY <1>2, <2>2 DEF gain
<1> HIDE DEF rau
<1>4. s = [events |-> is, success |-> input.success, loss |-> loss, rau |-> rau,
           decision |-> Decision(c, loss, rau), evidence |-> shown, status |-> shown.status]
  BY DEF Scored, is, loss, rau
<1> HIDE DEF s
<1>5. /\ DOMAIN s = ScoreFields /\ s.status = shown.status /\ s.success = input.success
      /\ s.loss = loss /\ s.rau = rau /\ s.events = is
  BY <1>4 DEF ScoreFields
<1> QED
  BY <1>1, <1>2, <1>3, <1>5 DEF s

(* Another status is all that changes.                                     *)
LEMMA OnlyTheStatus ==
  ASSUME NEW s, DOMAIN s = ScoreFields, NEW new
  PROVE  LET t == [s EXCEPT !.status = new]
         IN  /\ DOMAIN t = ScoreFields /\ t.status = new
             /\ t.events = s.events /\ t.success = s.success
             /\ t.loss = s.loss /\ t.rau = s.rau /\ t.decision = s.decision
  BY DEF ScoreFields

(* The owners an analysis is about are those of an event of the graph's.   *)
LEMMA ScopeIsAnEvents ==
  ASSUME NEW c, ProperOffer(c), Scope(c) # {}
  PROVE  \E i \in 1..Len(Prepared(c).events) :
           Prepared(c).events[i].source = "graph" /\ Prepared(c).events[i].owners = Scope(c)
<1> DEFINE es == Prepared(c).events
           I == {i \in 1..Len(es) : es[i].event = "public_api_break" /\ es[i].source = "graph"
                                    /\ es[i].owners # {}}
           mine == IF I # {} THEN Min(I) ELSE 0
<1>1. SelectInSeq(es, LAMBDA e :
        e.event = "public_api_break" /\ e.source = "graph" /\ e.owners # {})
        = mine
  BY DEF SelectInSeq
<1>2. mine # 0 /\ Scope(c) = es[mine].owners
  BY <1>1 DEF Scope
<1>3. I # {} /\ mine = Min(I)
  BY <1>2
<1>4. I \in SUBSET Nat
  OBVIOUS
<1> HIDE DEF I
<1>5. mine \in I
  BY <1>3, <1>4, TheLeastIsOne
<1> QED
  BY <1>2, <1>5 DEF I

(* The ranking holds every candidate it is of, and no other.               *)
LEMMA ByRankIs ==
  ASSUME NEW S \in SUBSET Candidates, \A c \in S : RankKey(c) \in [1..5 -> Int]
  PROVE  ByRank(S) \in Seq(S) /\ \A c \in S : \E j \in 1..Len(ByRank(S)) : ByRank(S)[j] = c
<1> DEFINE k == [c \in S |-> RankKey(c)]
<1>1. IsFiniteSet(S)
  BY RefinementAssumption, FS_Subset
<1>2. k \in [S -> [1..5 -> Int]] /\ 5 \in Nat
  OBVIOUS
<1>3. \A a, b \in S : k[a] = k[b] => a = b
  <2>1. \A c \in S : k[c][5] = c
    BY DEF RankKey
  <2> QED
    BY <2>1
<1> HIDE DEF k
<1>4. Lists(InOrder(S, k), S)
  BY <1>1, <1>2, <1>3, InOrderIs
<1> QED
  BY <1>4 DEF k, ByRank, Lists

--------------------------------------------------------------------------------
(* A candidate's score is of what was prepared, or of what a proof left.   *)
AsPrepared(c) ==
  /\ scored[c].events = Prepared(portfolio[c]).events
  /\ scored[c].success = Prepared(portfolio[c]).success
ScoreIsRight(c) ==
  /\ DOMAIN scored[c] = ScoreFields /\ scored[c].loss \in Int /\ scored[c].rau \in Int
  /\ AdjustedFrom(scored[c].events, Prepared(portfolio[c]).events)
  /\ \/ AsPrepared(c)
     \/ WasProved(c) /\ Scope(portfolio[c]) # {} /\ SuccessIsEarned(c)

(* The ranked are analysed one after the other.                            *)
RankingInv ==
  /\ ranked \in Seq(Candidates)
  /\ Len(analysed) <= Len(ranked) /\ Len(analysed) <= budget
  /\ \A i \in 1..Len(analysed) : analysed[i] = ranked[i]
  /\ \A i \in 1..Len(ranked) : Scope(portfolio[ranked[i]]) # {}

(* Who is still to be told why is still to come.                           *)
PendingInv ==
  \A c \in Candidates :
    \/ scored[c].status \in Statuses
    \/ scored[c].status = "pending" /\ \E j \in next..Len(ranked) : ranked[j] = c

(* What proceeds and is worth most is recommended.                         *)
BestInv ==
  Proceeding # {} => row \in Proceeding /\ \A c \in Proceeding : scored[c].rau <= scored[row].rau

RefinedInv ==
  /\ portfolio \in Portfolios /\ budget \in Nat
  /\ at \in {"score", "rank", "refine", "done"}
  /\ analysed \in Seq(Candidates) /\ next = Len(analysed) + 1
  /\ DOMAIN scored = Candidates
  /\ at \in {"score", "rank"} => analysed = <<>>
  /\ at # "score" => \A c \in Candidates : ScoreIsRight(c)
  /\ at = "rank" => \A c \in Candidates : scored[c].status \in Statuses
  /\ at \in {"refine", "done"} => RankingInv
  /\ at = "refine" => PendingInv
  /\ at = "done" => ReasonsAreTrue /\ BestInv

(* The offers are what they are assumed to be.                             *)
LEMMA OffersAreProper ==
  ASSUME portfolio \in Portfolios, NEW c \in Candidates
  PROVE  ProperOffer(portfolio[c])
  BY RefinementAssumption DEF ProperOffer

(* With scores that are numbers, all that is ranked by is a number.        *)
LEMMA KeysAreNumbers ==
  ASSUME portfolio \in Portfolios, NEW c \in Candidates, ScoreIsRight(c)
  PROVE  RankKey(c) \in [1..5 -> Int] /\ Worth(c) \in [1..4 -> Int]
<1>1. /\ scored[c].loss \in Int /\ -scored[c].rau \in Int /\ c \in Int
      /\ -portfolio[c].benefit \in Int /\ portfolio[c].breadth \in Int
  BY RefinementAssumption DEF ScoreIsRight
<1> QED
  BY <1>1 DEF RankKey, Worth

(* It starts so.                                                           *)
LEMMA RefinementStartsRight == ASSUME RefineInit PROVE RefinedInv
  BY RefinementAssumption DEF RefineInit, RefinedInv

(* The first scores are of what was prepared.                              *)
LEMMA ScoreKeepsRefined == ASSUME RefinedInv, Score PROVE RefinedInv'
<1> DEFINE none == NotAnalysed
<1>1. /\ at' = "rank" /\ portfolio' = portfolio /\ budget' = budget /\ next' = next
      /\ analysed' = analysed /\ analysed = <<>>
      /\ scored' = [c \in Candidates |->
                      Scored(portfolio[c], Prepared(portfolio[c]), none, portfolio[c].doubt)]
      /\ portfolio \in Portfolios /\ budget \in Nat /\ next = Len(analysed) + 1
  BY DEF Score, RefinedInv
<1>2. none.status = "not_applicable"
  BY DEF NotAnalysed, ContinuityEvidence
<1> HIDE DEF none
<1>3. ASSUME NEW c \in Candidates
      PROVE  ScoreIsRight(c)' /\ scored'[c].status \in Statuses
  <2> DEFINE o == portfolio[c]
             input == Prepared(portfolio[c])
  <2>1. ProperOffer(o) /\ scored'[c] = Scored(o, input, none, o.doubt)
    BY <1>1, OffersAreProper
  <2>2. input.events \in Seq(EventsOfOffers) /\ input.success \in Nat
    BY <2>1, PreparedIsAnInput
  <2>3. o.benefit \in Int /\ o.doubt \in Int
    BY <2>1 DEF ProperOffer
  <2> HIDE DEF o, input
  <2>4. /\ DOMAIN scored'[c] = ScoreFields /\ scored'[c].status = none.status
        /\ scored'[c].success = input.success
        /\ scored'[c].loss \in Int /\ scored'[c].rau \in Int
        /\ AdjustedFrom(scored'[c].events, input.events)
        /\ none.status # "available" => scored'[c].events = input.events
    BY <2>1, <2>2, <2>3, ScoredIs
  <2>5. AsPrepared(c)'
    BY <1>1, <1>2, <2>4 DEF AsPrepared, input
  <2> QED
    BY <1>1, <1>2, <2>4, <2>5 DEF ScoreIsRight, Statuses, input
<1>4. DOMAIN scored' = Candidates /\ analysed' \in Seq(Candidates)
  BY <1>1
<1> QED
  BY <1>1, <1>3, <1>4 DEF RefinedInv

(* Those ranked are those to be told.                                      *)
LEMMA RankKeepsRefined == ASSUME RefinedInv, Rank PROVE RefinedInv'
<1> DEFINE pending == {c \in Candidates : Eligible(portfolio[c]) /\ c \notin Proceeding}
<1>1. /\ at = "rank" /\ at' = "refine" /\ portfolio' = portfolio /\ budget' = budget /\ next' = next
      /\ analysed' = analysed /\ analysed = <<>>
      /\ ranked' = ByRank(pending)
      /\ scored' = [c \in Candidates |-> IF c \in pending THEN [scored[c] EXCEPT !.status = "pending"]
                                         ELSE scored[c]]
      /\ portfolio \in Portfolios /\ budget \in Nat /\ next = 1
      /\ \A c \in Candidates : ScoreIsRight(c) /\ scored[c].status \in Statuses
  BY DEF Rank, RefinedInv
<1>2. pending \in SUBSET Candidates /\ \A c \in pending : Scope(portfolio[c]) # {}
  BY DEF Eligible
<1> HIDE DEF pending
<1>3. ranked' \in Seq(pending) /\ \A c \in pending : \E j \in 1..Len(ranked') : ranked'[j] = c
  <2>1. \A c \in pending : RankKey(c) \in [1..5 -> Int]
    BY <1>1, <1>2, KeysAreNumbers
  <2> QED
    BY <1>1, <1>2, <2>1, ByRankIs
<1>4. ASSUME NEW c \in Candidates
      PROVE  /\ ScoreIsRight(c)'
             /\ scored'[c].status = IF c \in pending THEN "pending" ELSE scored[c].status
  <2>1. CASE c \in pending
    <3>1. scored'[c] = [scored[c] EXCEPT !.status = "pending"] /\ DOMAIN scored[c] = ScoreFields
      BY <1>1, <2>1 DEF ScoreIsRight
    <3>2. /\ DOMAIN scored'[c] = ScoreFields /\ scored'[c].status = "pending"
          /\ scored'[c].events = scored[c].events /\ scored'[c].loss = scored[c].loss
          /\ scored'[c].rau = scored[c].rau /\ scored'[c].success = scored[c].success
      BY <3>1, OnlyTheStatus
    <3>3. AsPrepared(c) /\ ScoreIsRight(c)
      BY <1>1 DEF ScoreIsRight, WasProved
    <3>4. AsPrepared(c)'
      BY <1>1, <3>2, <3>3 DEF AsPrepared
    <3> QED
      BY <1>1, <2>1, <3>2, <3>3, <3>4 DEF ScoreIsRight
  <2>2. CASE c \notin pending
    <3>1. scored'[c] = scored[c] /\ ScoreIsRight(c)
      BY <1>1, <2>2
    <3> QED
      BY <1>1, <2>2, <3>1 DEF ScoreIsRight, AsPrepared, WasProved, SuccessIsEarned
  <2> QED
    BY <2>1, <2>2
<1>5. RankingInv'
  <2>1. ranked' \in Seq(Candidates) /\ \A i \in 1..Len(ranked') : ranked'[i] \in pending
    BY <1>2, <1>3
  <2>2. Len(analysed') = 0 /\ Len(ranked') \in Nat
    BY <1>1, <2>1
  <2>3. \A i \in 1..Len(ranked') : Scope(portfolio[ranked'[i]]) # {}
    BY <1>2, <2>1
  <2>4. 0 <= Len(ranked') /\ 0 <= budget /\ 1..0 = {}
    BY <1>1, <2>2
  <2> QED
    BY <1>1, <2>1, <2>2, <2>3, <2>4 DEF RankingInv
<1>6. PendingInv'
  BY <1>1, <1>3, <1>4 DEF PendingInv
<1>7. DOMAIN scored' = Candidates /\ analysed' \in Seq(Candidates) /\ next' = Len(analysed') + 1
  BY <1>1
<1> QED
  BY <1>1, <1>4, <1>5, <1>6, <1>7 DEF RefinedInv

(* One is analysed, in its turn, and only its score changes.               *)
LEMMA RefineKeepsRefined == ASSUME RefinedInv, Refine PROVE RefinedInv'
<1> DEFINE c == ranked[next]
<1>1. /\ at = "refine" /\ at' = "refine" /\ portfolio' = portfolio /\ budget' = budget
      /\ ranked' = ranked /\ analysed' = Append(analysed, c) /\ next' = next + 1
      /\ next <= Len(ranked) /\ Len(analysed) < budget
      /\ portfolio \in Portfolios /\ budget \in Nat /\ next = Len(analysed) + 1
      /\ analysed \in Seq(Candidates) /\ DOMAIN scored = Candidates
      /\ \A o \in Candidates : ScoreIsRight(o)
      /\ RankingInv /\ PendingInv
  BY DEF Refine, RefinedInv, MayRefine
<1>2. /\ Len(analysed) \in Nat /\ Len(ranked) \in Nat /\ next \in 1..Len(ranked)
      /\ c \in Candidates /\ Scope(portfolio[c]) # {}
  BY <1>1 DEF RankingInv
<1>3. PICK answer \in Answers[Scope(portfolio[c])] \cup {ContinuityEvidence("unavailable", <<>>)},
           doubt \in Doubts :
        scored' = [scored EXCEPT ![c] = Rescored(portfolio[c], Pinned(portfolio[c], answer), doubt)]
  BY DEF Refine
<1> DEFINE shown == Pinned(portfolio[c], answer)
           input == PriorLayers(portfolio[c], Prepared(portfolio[c]), shown)
<1>4. DOMAIN answer = {"status", "facts", "verified"} /\ answer.status \in Statuses
  <2>1. CASE answer = ContinuityEvidence("unavailable", <<>>)
    BY <2>1 DEF ContinuityEvidence, Statuses
  <2>2. CASE answer \in Answers[Scope(portfolio[c])]
    <3>1. Scope(portfolio[c]) \in DOMAIN Answers
      <4>1. ProperOffer(portfolio[c])
        BY <1>1, <1>2, OffersAreProper
      <4> DEFINE es == Prepared(portfolio[c]).events
      <4>2. PICK i \in 1..Len(es) : es[i].owners = Scope(portfolio[c])
        BY <1>2, <4>1, ScopeIsAnEvents
      <4>3. es \in Seq(EventsOfOffers)
        BY <4>1, PreparedIsAnInput
      <4>4. es[i] \in EventsOfOffers
        BY <4>3
      <4> QED
        BY <1>2, <4>2, <4>4 DEF EventsOfOffers
    <3> QED
      BY <2>2, <3>1, RefinementAssumption
  <2> QED
    BY <2>1, <2>2
<1>5. shown.status = answer.status
  BY <1>4 DEF Pinned
<1>6. scored' = [scored EXCEPT ![c] = Scored(portfolio[c], input, shown, doubt)]
  BY <1>3 DEF Rescored
<1>7. ProperOffer(portfolio[c]) /\ doubt \in Int
  BY <1>1, <1>2, OffersAreProper, RefinementAssumption
<1>8. /\ DOMAIN scored' = Candidates /\ scored'[c] = Scored(portfolio[c], input, shown, doubt)
      /\ \A o \in Candidates : o # c => scored'[o] = scored[o]
  <2> HIDE DEF input, shown
  <2> QED
    BY <1>1, <1>2, <1>6
<1>9. /\ input.events = Prepared(portfolio[c]).events /\ input.success \in Nat
      /\ input.success # Prepared(portfolio[c]).success =>
           /\ shown.status = "available" /\ portfolio[c].typescript /\ ~portfolio[c].stated
           /\ portfolio[c].learned.success = Nothing
  <2> HIDE DEF shown
  <2> QED
    BY <1>7, AgainIs
<1> HIDE DEF shown, input
<1>10. /\ analysed' \in Seq(Candidates) /\ Len(analysed') = Len(analysed) + 1
       /\ \A i \in 1..Len(analysed) : analysed'[i] = analysed[i]
       /\ analysed'[Len(analysed) + 1] = c
  BY <1>1, <1>2
<1> HIDE DEF c
<1>11. /\ DOMAIN scored'[c] = ScoreFields /\ scored'[c].status = shown.status
       /\ scored'[c].success = input.success
       /\ scored'[c].loss \in Int /\ scored'[c].rau \in Int
       /\ AdjustedFrom(scored'[c].events, Prepared(portfolio[c]).events)
       /\ shown.status # "available" => scored'[c].events = Prepared(portfolio[c]).events
  <2>1. input.events \in Seq(EventsOfOffers) /\ portfolio[c].benefit \in Int
    <3>1. Prepared(portfolio[c]).events \in Seq(EventsOfOffers)
      BY <1>7, PreparedIsAnInput
    <3> QED
      BY <1>7, <1>9, <3>1 DEF ProperOffer
  <2> QED
    BY <1>7, <1>8, <1>9, <2>1, ScoredIs
<1>12. ASSUME NEW o \in Candidates PROVE ScoreIsRight(o)'
  <2>1. \A k \in DOMAIN analysed : k \in DOMAIN analysed' /\ analysed'[k] = analysed[k]
    BY <1>1, <1>10
  <2>2. Len(analysed) + 1 \in DOMAIN analysed'
    BY <1>1, <1>2, <1>10
  <2>3. CASE o = c
    <3>1. /\ DOMAIN scored'[o] = ScoreFields /\ scored'[o].status = shown.status
          /\ scored'[o].success = input.success
          /\ scored'[o].loss \in Int /\ scored'[o].rau \in Int
          /\ AdjustedFrom(scored'[o].events, Prepared(portfolio[o]).events)
          /\ shown.status # "available" => scored'[o].events = Prepared(portfolio[o]).events
      BY <1>11, <2>3
    <3>2. input.success # Prepared(portfolio[o]).success =>
            /\ shown.status = "available" /\ portfolio[o].typescript /\ ~portfolio[o].stated
            /\ portfolio[o].learned.success = Nothing
      BY <1>9, <2>3
    <3>3. Scope(portfolio[o]) # {} /\ analysed'[Len(analysed) + 1] = o
      BY <1>2, <1>10, <2>3
    <3>4. CASE shown.status = "available"
      <4>1. WasProved(o)'
        BY <2>2, <3>1, <3>3, <3>4 DEF WasProved
      <4>2. SuccessIsEarned(o)'
        BY <1>1, <3>1, <3>2, <4>1 DEF SuccessIsEarned
      <4> QED
        BY <1>1, <3>1, <3>3, <4>1, <4>2 DEF ScoreIsRight
    <3>5. CASE shown.status # "available"
      <4>1. AsPrepared(o)'
        BY <1>1, <3>1, <3>2, <3>5 DEF AsPrepared
      <4> QED
        BY <1>1, <3>1, <4>1 DEF ScoreIsRight
    <3> QED
      BY <3>4, <3>5
  <2>4. CASE o # c
    <3>1. ScoreIsRight(o) /\ scored'[o] = scored[o]
      BY <1>1, <1>8, <2>4
    <3>2. WasProved(o) => WasProved(o)'
      BY <2>1, <3>1 DEF WasProved
    <3>3. AsPrepared(o) => AsPrepared(o)'
      BY <1>1, <3>1 DEF AsPrepared
    <3>4. WasProved(o) /\ SuccessIsEarned(o) => SuccessIsEarned(o)'
      BY <1>1, <3>1, <3>2 DEF SuccessIsEarned
    <3> QED
      BY <1>1, <3>1, <3>2, <3>3, <3>4 DEF ScoreIsRight
  <2> QED
    BY <2>3, <2>4
<1>13. RankingInv'
  <2>1. \A i \in 1..Len(analysed') : analysed'[i] = ranked[i]
    <3> SUFFICES ASSUME NEW i \in 1..Len(analysed') PROVE analysed'[i] = ranked[i]
      OBVIOUS
    <3>1. CASE i = Len(analysed) + 1
      BY <1>1, <1>10, <3>1 DEF c
    <3>2. CASE i # Len(analysed) + 1
      <4>1. i \in 1..Len(analysed)
        BY <1>2, <1>10, <3>2
      <4> QED
        BY <1>1, <1>10, <4>1 DEF RankingInv
    <3> QED
      BY <3>1, <3>2
  <2>2. Len(analysed') <= Len(ranked) /\ Len(analysed') <= budget
    BY <1>1, <1>2, <1>10
  <2> QED
    BY <1>1, <2>1, <2>2 DEF RankingInv
<1>14. ASSUME NEW o \in Candidates
       PROVE  \/ scored'[o].status \in Statuses
              \/ scored'[o].status = "pending" /\ \E j \in next'..Len(ranked') : ranked'[j] = o
  <2>1. CASE o = c
    BY <1>4, <1>5, <1>11, <2>1
  <2>2. CASE o # c
    <3>1. scored'[o] = scored[o]
      BY <1>8, <2>2
    <3>2. \A j \in next..Len(ranked) : ranked[j] = o => j \in (next + 1)..Len(ranked)
      BY <1>2, <2>2 DEF c
    <3>3. \/ scored[o].status \in Statuses
          \/ scored[o].status = "pending" /\ \E j \in next..Len(ranked) : ranked[j] = o
      BY <1>1 DEF PendingInv
    <3> QED
      BY <1>1, <3>1, <3>2, <3>3
  <2> QED
    BY <2>1, <2>2
<1>15. PendingInv'
  BY <1>14 DEF PendingInv
<1>16. next' = Len(analysed') + 1
  BY <1>1, <1>10
<1> QED
  BY <1>1, <1>8, <1>10, <1>12, <1>13, <1>15, <1>16 DEF RefinedInv

(* Of those that proceed the one worth most is recommended.                *)
LEMMA BestIsRecommended ==
  ASSUME portfolio \in Portfolios, \A c \in Candidates : ScoreIsRight(c), Proceeding # {}
  PROVE  Recommended \in Proceeding
         /\ \A c \in Proceeding : scored[c].rau <= scored[Recommended].rau
<1> DEFINE k == [c \in Proceeding |-> Worth(c)]
           Best(c) == \A o \in Proceeding \ {c} : Precedes(Worth(c), Worth(o))
<1>1. Proceeding \subseteq Candidates /\ IsFiniteSet(Proceeding)
  <2>1. Proceeding \subseteq Candidates
    BY DEF Proceeding
  <2> QED
    BY <2>1, RefinementAssumption, FS_Subset
<1>2. k \in [Proceeding -> [1..4 -> Int]] /\ 4 \in Nat
  BY <1>1, KeysAreNumbers
<1>3. \A a, b \in Proceeding : k[a] = k[b] => a = b
  <2>1. \A c \in Proceeding : k[c][4] = c
    BY DEF Worth
  <2> QED
    BY <2>1
<1>4. PICK best \in Proceeding : \A o \in Proceeding \ {best} : Precedes(k[best], k[o])
  <2> HIDE DEF k
  <2> QED
    BY <1>1, <1>2, <1>3, OneIsFirst
<1>5. Best(best)
  BY <1>4
<1>6. Recommended = CHOOSE c \in Proceeding : Best(c)
  BY DEF Recommended
<1> HIDE DEF Best
<1>7. Recommended \in Proceeding /\ Best(Recommended)
  BY <1>5, <1>6
<1>8. ASSUME NEW c \in Proceeding PROVE scored[c].rau <= scored[Recommended].rau
  <2> DEFINE r == Recommended
  <2>1. scored[c].rau \in Int /\ scored[r].rau \in Int
    BY <1>1, <1>7 DEF ScoreIsRight
  <2> HIDE DEF r
  <2>2. CASE c = r
    BY <2>1, <2>2 DEF r
  <2>3. CASE c # r
    <3>1. Precedes(Worth(r), Worth(c))
      BY <1>7, <2>3 DEF Best, r
    <3>2. /\ DOMAIN Worth(r) = 1..4 /\ Worth(r)[1] = -scored[r].rau
          /\ Worth(c)[1] = -scored[c].rau
      BY DEF Worth
    <3>3. PICK i \in 1..4 : /\ Worth(r)[i] < Worth(c)[i]
                            /\ \A j \in 1..(i - 1) : Worth(r)[j] = Worth(c)[j]
      BY <3>1, <3>2 DEF Precedes
    <3>4. CASE i = 1
      BY <2>1, <3>2, <3>3, <3>4 DEF r
    <3>5. CASE i # 1
      <4>1. Worth(r)[1] = Worth(c)[1]
        BY <3>3, <3>5
      <4> QED
        BY <2>1, <3>2, <4>1 DEF r
    <3> QED
      BY <3>4, <3>5
  <2> QED
    BY <2>2, <2>3
<1> QED
  BY <1>7, <1>8

(* Who was not analysed is told why, and the best is recommended.          *)
LEMMA ConcludeKeepsRefined == ASSUME RefinedInv, Conclude PROVE RefinedInv'
<1> DEFINE reason == IF Stopped THEN "not_evaluated_after_proceed" ELSE "budget_exhausted"
<1>1. /\ at = "refine" /\ at' = "done" /\ portfolio' = portfolio /\ budget' = budget
      /\ ranked' = ranked /\ analysed' = analysed /\ next' = next
      /\ portfolio \in Portfolios /\ budget \in Nat /\ next = Len(analysed) + 1
      /\ analysed \in Seq(Candidates) /\ DOMAIN scored = Candidates
      /\ \A c \in Candidates : ScoreIsRight(c)
      /\ RankingInv /\ PendingInv
      /\ row' = Recommended
      /\ scored' = [c \in Candidates |->
                      IF scored[c].status = "pending" THEN [scored[c] EXCEPT !.status = reason]
                      ELSE scored[c]]
  BY DEF Conclude, RefinedInv
<1>2. ~(next <= Len(ranked) /\ Len(analysed) < budget) \/ Stopped
  BY DEF Conclude, MayRefine
<1>3. ASSUME NEW c \in Candidates
      PROVE  /\ ScoreIsRight(c)'
             /\ scored'[c].decision = scored[c].decision
             /\ scored'[c].rau = scored[c].rau /\ scored'[c].loss = scored[c].loss
             /\ scored'[c].status = IF scored[c].status = "pending" THEN reason ELSE scored[c].status
  <2>1. CASE scored[c].status = "pending"
    <3>1. scored'[c] = [scored[c] EXCEPT !.status = reason] /\ DOMAIN scored[c] = ScoreFields
      BY <1>1, <2>1 DEF ScoreIsRight
    <3> HIDE DEF reason
    <3>2. /\ DOMAIN scored'[c] = ScoreFields /\ scored'[c].status = reason
          /\ scored'[c].events = scored[c].events /\ scored'[c].loss = scored[c].loss
          /\ scored'[c].rau = scored[c].rau /\ scored'[c].decision = scored[c].decision
          /\ scored'[c].success = scored[c].success
      BY <3>1, OnlyTheStatus
    <3>3. AsPrepared(c) /\ ScoreIsRight(c)
      BY <1>1, <2>1 DEF ScoreIsRight, WasProved
    <3>4. AsPrepared(c)'
      BY <1>1, <3>2, <3>3 DEF AsPrepared
    <3> QED
      BY <1>1, <2>1, <3>2, <3>3, <3>4 DEF ScoreIsRight
  <2>2. CASE scored[c].status # "pending"
    <3>1. scored'[c] = scored[c] /\ ScoreIsRight(c)
      BY <1>1, <2>2
    <3> QED
      BY <1>1, <2>2, <3>1 DEF ScoreIsRight, AsPrepared, WasProved, SuccessIsEarned
  <2> QED
    BY <2>1, <2>2
<1> HIDE DEF reason
<1>4. Stopped' <=> Stopped
  <2>1. \A i \in DOMAIN analysed : analysed[i] \in Candidates
    BY <1>1
  <2> QED
    BY <1>1, <1>3, <2>1 DEF Stopped
<1>5. Proceeding' = Proceeding
  BY <1>3 DEF Proceeding
<1>6. RankingInv'
  BY <1>1 DEF RankingInv
<1>7. ASSUME NEW c \in Candidates, scored[c].status = "pending"
      PROVE  \E j \in next..Len(ranked) : ranked[j] = c
  BY <1>1, <1>7 DEF PendingInv, Statuses
<1>8. ASSUME NEW c \in Candidates PROVE scored[c].status \in Statuses \cup {"pending"}
  BY <1>1 DEF PendingInv
<1>9. ReasonsAreTrue'
  <2> SUFFICES ASSUME NEW c \in Candidates
               PROVE  /\ scored'[c].status # "pending"
                      /\ scored'[c].status = "budget_exhausted" => Len(analysed) = budget /\ ~Stopped
                      /\ scored'[c].status = "not_evaluated_after_proceed" =>
                           \E d \in Proceeding : \E i, j \in DOMAIN ranked :
                             ranked[i] = d /\ ranked[j] = c /\ i < j
    BY <1>1, <1>4, <1>5 DEF ReasonsAreTrue
  <2>1. CASE scored[c].status # "pending"
    BY <1>3, <1>8, <2>1 DEF Statuses
  <2>2. CASE scored[c].status = "pending"
    <3>1. scored'[c].status = reason
      BY <1>3, <2>2
    <3>2. PICK j \in next..Len(ranked) : ranked[j] = c
      BY <1>7, <2>2
    <3>3. Len(analysed) \in Nat /\ Len(ranked) \in Nat /\ Len(analysed) <= budget
          /\ DOMAIN ranked = 1..Len(ranked) /\ DOMAIN analysed = 1..Len(analysed)
      BY <1>1 DEF RankingInv
    <3>4. CASE Stopped
      <4>1. reason = "not_evaluated_after_proceed"
        BY <3>4 DEF reason
      <4>2. PICK i \in DOMAIN analysed : scored[analysed[i]].decision = "proceed"
        BY <3>4 DEF Stopped
      <4>3. analysed[i] \in Candidates /\ analysed[i] = ranked[i]
        BY <1>1, <3>3, <4>2 DEF RankingInv
      <4>4. ranked[i] \in Proceeding
        BY <4>2, <4>3 DEF Proceeding
      <4>5. i \in DOMAIN ranked /\ j \in DOMAIN ranked /\ i < j
        BY <1>1, <3>2, <3>3, <4>2
      <4> QED
        BY <3>1, <3>2, <4>1, <4>4, <4>5
    <3>5. CASE ~Stopped
      <4>1. reason = "budget_exhausted"
        BY <3>5 DEF reason
      <4>2. Len(analysed) = budget
        BY <1>1, <1>2, <3>2, <3>3, <3>5
      <4> QED
        BY <3>1, <3>5, <4>1, <4>2
    <3> QED
      BY <3>4, <3>5
  <2> QED
    BY <2>1, <2>2
<1>10. BestInv'
  <2> SUFFICES ASSUME Proceeding # {}
               PROVE  Recommended \in Proceeding
                      /\ \A c \in Proceeding : scored[c].rau <= scored[Recommended].rau
    <3>1. \A c \in Proceeding : c \in Candidates
      BY DEF Proceeding
    <3> QED
      BY <1>1, <1>3, <1>5, <3>1 DEF BestInv
  <2> QED
    BY <1>1, BestIsRecommended
<1> QED
  BY <1>1, <1>3, <1>6, <1>9, <1>10 DEF RefinedInv

(* A step changes nothing, or is one of these.                             *)
LEMMA RefinedKept == ASSUME RefinedInv, [RefineNext]_refining PROVE RefinedInv'
<1>1. CASE Score
  BY <1>1, ScoreKeepsRefined
<1>2. CASE Rank
  BY <1>2, RankKeepsRefined
<1>3. CASE Refine
  BY <1>3, RefineKeepsRefined
<1>4. CASE Conclude
  BY <1>4, ConcludeKeepsRefined
<1>5. CASE UNCHANGED refining
  BY <1>5
  DEF refining, RefinedInv, ScoreIsRight, AsPrepared, WasProved, SuccessIsEarned, RankingInv,
      PendingInv, BestInv, ReasonsAreTrue, Proceeding, Stopped
<1> QED
  BY <1>1, <1>2, <1>3, <1>4, <1>5 DEF RefineNext

(* What was said is kept, of the events one may be less likely, that of    *)
(* the scope, and a chance of success that is another was earned.          *)
LEMMA NoneIsArguedAway ==
  ASSUME portfolio \in Portfolios, NEW c \in Candidates, ScoreIsRight(c)
  PROVE  SaidIsKept(c) /\ ProofsAreScoped(c) /\ SuccessIsEarned(c)
<1> DEFINE offer == portfolio[c]
           said == portfolio[c].said
           was == Prepared(portfolio[c]).events
           is == scored[c].events
           other == {i \in DOMAIN was : is[i].p # was[i].p}
<1>1. ProperOffer(offer)
  BY OffersAreProper
<1>2. KeepsWhatWasSaid(offer, was)
  BY <1>1, PreparedKeeps
<1>3. /\ AdjustedFrom(is, was) /\ SuccessIsEarned(c)
      /\ is = was \/ (WasProved(c) /\ Scope(offer) # {})
  BY DEF ScoreIsRight, AsPrepared, SuccessIsEarned
<1>4. /\ Len(said) \in Nat /\ DOMAIN said = 1..Len(said)
      /\ \A i \in 1..Len(said) : said[i].p \in Nat
  <2>1. said \in Seq(SaidEvents)
    BY <1>1 DEF ProperOffer
  <2>2. \A i \in 1..Len(said) : said[i] \in SaidEvents
    BY <2>1
  <2> QED
    BY <2>1, <2>2 DEF SaidEvents
<1> HIDE DEF said, was, is
<1>5. /\ DOMAIN was = 1..Len(was) /\ DOMAIN is = 1..Len(was) /\ Len(was) \in Nat
      /\ Len(said) <= Len(was)
      /\ \A i \in 1..Len(was) : is[i].p \in Nat /\ was[i].p \in Nat /\ was[i].floor \in Nat
  <2>1. was \in Seq(EventsOfOffers) /\ is \in Seq(EventsOfOffers) /\ Len(is) = Len(was)
        /\ Len(said) <= Len(was)
    BY <1>2, <1>3 DEF KeepsWhatWasSaid, AdjustedFrom, said
  <2>2. \A i \in 1..Len(was) : was[i] \in EventsOfOffers /\ is[i] \in EventsOfOffers
    BY <2>1
  <2>3. \A e \in EventsOfOffers : e.p \in Nat /\ e.floor \in Nat
    BY DEF EventsOfOffers
  <2>4. DOMAIN was = 1..Len(was) /\ DOMAIN is = 1..Len(is) /\ Len(was) \in Nat
    BY <2>1
  <2> QED
    BY <2>1, <2>2, <2>3, <2>4
<1>6. ASSUME NEW i \in DOMAIN said
      PROVE  i \in DOMAIN is /\ is[i].event = said[i].event /\ Stands(offer, said[i], is[i].p)
  <2>1. i \in 1..Len(said) /\ i \in 1..Len(was) /\ i \in DOMAIN is
    BY <1>4, <1>5
  <2>2. /\ was[i].event = said[i].event /\ Stands(offer, said[i], was[i].p)
        /\ was[i].source = "graph" => was[i].floor >= said[i].p
    BY <1>2, <2>1 DEF KeepsWhatWasSaid, said
  <2>3. /\ is[i].event = was[i].event
        /\ is[i].p = was[i].p \/ is[i].p >= was[i].floor
        /\ is[i].p # was[i].p => was[i].source = "graph"
    BY <1>3, <2>1 DEF AdjustedFrom
  <2>4. CASE is[i].p = was[i].p
    BY <2>1, <2>2, <2>3, <2>4
  <2>5. CASE is[i].p # was[i].p
    <3>1. is[i].p >= said[i].p
      BY <1>4, <1>5, <2>1, <2>2, <2>3, <2>5
    <3> QED
      BY <2>1, <2>2, <2>3, <3>1 DEF Stands
  <2> QED
    BY <2>4, <2>5
<1>7. SaidIsKept(c)
  BY <1>6 DEF SaidIsKept, Stands, said, is
<1>8. PICK k \in Nat : \A i \in 1..Len(was) : was[i].source = "graph" => i = k
  BY <1>2 DEF KeepsWhatWasSaid
<1>9. ASSUME NEW i \in DOMAIN was, is[i].p # was[i].p
      PROVE  /\ i = k /\ WasProved(c) /\ was[i].owners = Scope(offer)
             /\ is[i].p < was[i].p /\ is[i].p >= ProbabilityFloor /\ 20 * is[i].p >= 7 * was[i].p - 20
  <2>1. i \in 1..Len(was) /\ is # was
    BY <1>5, <1>9
  <2>2. /\ is[i].p <= was[i].p /\ 20 * is[i].p >= 7 * was[i].p - 20 /\ was[i].source = "graph"
        /\ is[i].p >= ProbabilityFloor
    BY <1>3, <1>9, <2>1 DEF AdjustedFrom
  <2>3. PICK j \in 1..Len(was) : was[j].source = "graph" /\ was[j].owners = Scope(offer)
    BY <1>1, <1>3, <2>1, ScopeIsAnEvents DEF was
  <2>4. i = k /\ j = k
    BY <1>8, <2>1, <2>2, <2>3
  <2>5. is[i].p < was[i].p
    BY <1>5, <1>9, <2>1, <2>2
  <2> QED
    BY <1>3, <2>1, <2>2, <2>3, <2>4, <2>5
<1>10. Cardinality(other) <= 1
  <2>1. other \subseteq {k}
    BY <1>9
  <2> HIDE DEF other
  <2>2. IsFiniteSet({k}) /\ Cardinality({k}) = 1
    BY FS_Singleton
  <2> QED
    BY <2>1, <2>2, FS_Subset
<1>11. ProofsAreScoped(c)
  BY <1>9, <1>10 DEF ProofsAreScoped, was, is
<1> QED
  BY <1>3, <1>7, <1>11

(* The second look of an assessment lowers no expectation but that of the  *)
(* event its analysis was about, by two thirds at most, keeps what was     *)
(* said and what was learned here over what is shipped, spends no more     *)
(* than it may, says why it did not look, and recommends a candidate that  *)
(* proceeds if there is one: for any portfolio of any size, any rates      *)
(* learned, any budget, and whatever is answered.                          *)
THEOREM NoMoreThanProved == RefineSpec => []RefinedAsProved
<1>1. RefineInit => RefinedInv
  BY RefinementStartsRight
<1>2. RefinedInv /\ [RefineNext]_refining => RefinedInv'
  BY RefinedKept
<1>3. RefinedInv => RefinedAsProved
  <2> SUFFICES ASSUME RefinedInv, at = "done" PROVE RefinedAsProved
    BY DEF RefinedAsProved
  <2>1. /\ portfolio \in Portfolios /\ \A c \in Candidates : ScoreIsRight(c)
        /\ RankingInv /\ ReasonsAreTrue /\ BestInv
    BY DEF RefinedInv
  <2>2. \A c \in Candidates : SaidIsKept(c) /\ ProofsAreScoped(c) /\ SuccessIsEarned(c)
    BY <2>1, NoneIsArguedAway
  <2> QED
    BY <2>1, <2>2 DEF RefinedAsProved, RankingInv, BestInv
<1> QED
  BY <1>1, <1>2, <1>3, PTL DEF RefineSpec

================================================================================
