--------------------------------- MODULE Orders ---------------------------------
(***************************************************************************)
(* What is in a set, in the order of its keys: Python's sorted with a      *)
(* tuple for a key, SQL's ORDER BY and LIMIT.  A key is a tuple of numbers *)
(* and no two have the same.                                               *)
(***************************************************************************)
EXTENDS Integers, FiniteSets

(* The order of tuples of numbers, by the first in which they differ.      *)
Precedes(u, v) == \E i \in DOMAIN u : u[i] < v[i] /\ \A j \in 1..(i - 1) : u[j] = v[j]

(* What stands before x in S.                                              *)
Earlier(key, S, x) == {y \in S : Precedes(key[y], key[x])}

(* ORDER BY ... LIMIT: the k that come first.                              *)
Leading(k, S, key) == {x \in S : Cardinality(Earlier(key, S, x)) < k}

(* sorted, ORDER BY: all of them, one after the other.                     *)
InOrder(S, key) ==
  [i \in 1..Cardinality(S) |-> CHOOSE x \in S : Cardinality(Earlier(key, S, x)) = i - 1]
================================================================================
