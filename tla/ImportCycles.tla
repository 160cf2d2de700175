----------------------------- MODULE ImportCycles ------------------------------
(***************************************************************************)
(* Which files lie on an import cycle: Tarjan's strongly connected         *)
(* components, with the recursion turned into a stack of <<node, next      *)
(* neighbour>> so that deep graphs are safe.  One step is one turn of the  *)
(* loop over that stack.                                                   *)
(***************************************************************************)
EXTENDS Integers, Sequences, FiniteSetsExt, SequencesExt

CONSTANTS
  NodeCount,   \* the files, 1..NodeCount in their sorted order
  Adjacencies  \* the graphs to look at: file -> its targets in edge order

(* The edges join files of the graph; what a file imports of itself is     *)
(* left out when it is parsed.                                             *)
ASSUME AdjacenciesAssumption ==
  /\ NodeCount \in Nat
  /\ \A a \in Adjacencies :
       /\ a \in [1..NodeCount -> Seq(1..NodeCount)]
       /\ \A v \in 1..NodeCount : v \notin Range(a[v])

VARIABLES
  adj,      \* the graph searched
  index,    \* file -> when it was met, of the files met
  low,      \* file -> the earliest file it is known to reach on the stack
  stack,    \* files whose component is open
  work,     \* the recursion: files on the way, each with its next neighbour
  cyclic    \* files found on a cycle

searching == <<adj, index, low, stack, work, cyclic>>

Linked == {v \in 1..NodeCount : adj[v] # <<>> \/ \E u \in 1..NodeCount : v \in Range(adj[u])}

Put(map, v, n) == [u \in (DOMAIN map) \cup {v} |-> IF u = v THEN n ELSE map[u]]

CyclesInit ==
  /\ adj \in Adjacencies
  /\ index = <<>> /\ low = <<>>
  /\ stack = <<>> /\ work = <<>> /\ cyclic = {}

(* The outer loop: the first file not met yet.                             *)
Start ==
  /\ work = <<>> /\ Linked \ DOMAIN index # {}
  /\ work' = <<<<Min(Linked \ DOMAIN index), 1>>>>
  /\ UNCHANGED <<adj, index, low, stack, cyclic>>

Top == Last(work)

(* A file is met: it is numbered and its component opened.                 *)
Meet ==
  /\ work # <<>> /\ Top[2] = 1 /\ Top[1] \notin DOMAIN index
  /\ index' = Put(index, Top[1], Cardinality(DOMAIN index))
  /\ low' = Put(low, Top[1], Cardinality(DOMAIN index))
  /\ stack' = Append(stack, Top[1])
  /\ UNCHANGED <<adj, work, cyclic>>

Least(m, n) == IF m <= n THEN m ELSE n

(* A neighbour not met yet is gone into, and one of an open component      *)
(* lowers the link: the scan goes on until it meets one of the first kind. *)
Neighbours == adj[Top[1]]
Unmet == {i \in Top[2]..Len(Neighbours) : Neighbours[i] \notin DOMAIN index}
ScannedTo == IF Unmet = {} THEN Len(Neighbours) ELSE Min(Unmet) - 1

(* Mutant of Lowered: whatever was met lowers the link.                    *)
LoweredByAll ==
  Min({low[Top[1]]} \cup {index[Neighbours[i]] : i \in Top[2]..ScannedTo})

Lowered ==
  Min({low[Top[1]]} \cup
      {index[Neighbours[i]] : i \in {j \in Top[2]..ScannedTo : Neighbours[j] \in Range(stack)}})

Descend ==
  /\ work # <<>> /\ Top[1] \in DOMAIN index /\ Unmet # {}
  /\ low' = [low EXCEPT ![Top[1]] = Lowered]
  /\ work' = Append(Front(work) \o <<<<Top[1], Min(Unmet) + 1>>>>, <<Neighbours[Min(Unmet)], 1>>)
  /\ UNCHANGED <<adj, index, stack, cyclic>>

(* All neighbours are done: a root takes its component off the stack, one  *)
(* of several files is a cycle, and the link goes to the parent.           *)
Finish ==
  /\ work # <<>> /\ Top[1] \in DOMAIN index /\ Unmet = {}
  /\ LET v == Top[1]
         link == Lowered
         root == link = index[v]
         from == CHOOSE i \in DOMAIN stack : stack[i] = v
         component == {stack[i] : i \in from..Len(stack)}
         parent == work[Len(work) - 1][1]
     IN  /\ stack' = IF root THEN SubSeq(stack, 1, from - 1) ELSE stack
         /\ cyclic' = IF root /\ Cardinality(component) > 1 THEN cyclic \cup component ELSE cyclic
         /\ low' = IF Len(work) = 1 THEN [low EXCEPT ![v] = link]
                   ELSE [low EXCEPT ![v] = link, ![parent] = Least(@, link)]
  /\ work' = Front(work)
  /\ UNCHANGED <<adj, index>>

CyclesNext == Start \/ Meet \/ Descend \/ Finish

CyclesSpec == CyclesInit /\ [][CyclesNext]_searching

-----------------------------------------------------------------------------
(* What v reaches in one step or more, and in so many at most.             *)
ReachesIn(v) ==
  LET Within[n \in 1..NodeCount] ==
        IF n = 1 THEN Range(adj[v])
        ELSE Within[n - 1] \cup UNION {Range(adj[u]) : u \in Within[n - 1]}
  IN  Within

Reaches(v) == ReachesIn(v)[NodeCount]

(* When the search is over it has found just the files that reach          *)
(* themselves, with every neighbour of a file in whatever order.           *)
FindsTheCycles ==
  work = <<>> /\ Linked \subseteq DOMAIN index => cyclic = {v \in Linked : v \in Reaches(v)}
================================================================================
