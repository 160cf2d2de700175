---------------------------- MODULE MCGraphImpact -----------------------------
(***************************************************************************)
(* Four nodes laid out in one or two files, with every way of using each   *)
(* other by at most three edges, and a few edits of them.                  *)
(***************************************************************************)
EXTENDS GraphImpact

CONSTANTS cl, m1, m2, fn, fileA, fileB

ASSUME Nodes = {cl, m1, m2, fn}

(* A class with two methods, a function elsewhere or beside it; an         *)
(* interface or a module in the class's place; methods of one leaf name.   *)
Layout(kind, file, lo, hi, leaf, contains, exported) ==
  [kind |-> kind, file |-> file, lo |-> lo, hi |-> hi, qual |-> [n \in Nodes |-> n],
   leaf |-> leaf, contains |-> contains, exported |-> exported]

On(a, b, d, e) == [n \in Nodes |-> CASE n = cl -> a [] n = m1 -> b [] n = m2 -> d [] n = fn -> e]

Members == {<<cl, m1>>, <<cl, m2>>}

Layouts ==
  {Layout(On("class", "method", "method", "function"), On(fileA, fileA, fileA, fileB),
          On(1, 2, 5, 1), On(7, 3, 6, 4), On("c", "m", "m", "f"), Members, {cl}),
   Layout(On("interface", "method", "method", "function"), On(fileA, fileA, fileA, fileA),
          On(1, 2, 3, 8), On(5, 2, 4, 9), On("c", "m", "n", "f"), Members, {}),
   Layout(On("module", "class", "method", "function"), On(fileA, fileA, fileA, fileB),
          On(1, 2, 3, 2), On(9, 6, 4, 3), On("c", "m", "n", "n"),
          {<<cl, m1>>, <<m1, m2>>}, {m1}),
   Layout(On("file", "function", "function", "function"), On(fileA, fileA, fileA, fileB),
          On(1, 1, 3, 1), On(9, 5, 9, 4), On("c", "m", "n", "f"), Members \cup {<<fn, m2>>}, {})}

UseKind(l, s, t) ==
  IF l.kind[s] \in ClassKinds /\ l.kind[t] \in ClassKinds THEN "extends" ELSE "calls"

Uses(l, pairs) ==
  {[source |-> p[1], target |-> p[2], kind |-> UseKind(l, p[1], p[2])] : p \in pairs}

NodePairs == Nodes \X Nodes
Few == {{}} \cup {{p, q, r} : p \in NodePairs, q \in NodePairs, r \in NodePairs}

MCGraphs ==
  UNION {{[kind |-> l.kind, file |-> l.file, lo |-> l.lo, hi |-> l.hi, qual |-> l.qual,
           leaf |-> l.leaf, contains |-> l.contains, exported |-> l.exported,
           uses |-> Uses(l, pairs)] : pairs \in Few} : l \in Layouts}

Hunk(start, body) == [start |-> start, body |-> body]
Patch(file, hunks) == [file |-> file, hunks |-> hunks]
Symbol(file, qual, leaf) == [file |-> file, qual |-> qual, leaf |-> leaf]
Action(patch, expected, symbols) == [patch |-> patch, expected |-> expected, symbols |-> symbols]

(* Two hunks of one file; one that crosses two symbols; an insertion, with *)
(* a name for another file; names only, one of them ambiguous; a removed   *)
(* line that begins with dashes, as a comment of SQL or Lua does; nothing. *)
MCActions ==
  {Action(<<Patch(fileA, <<Hunk(2, <<"minus", "plus">>), Hunk(5, <<"context", "minus">>)>>)>>, {}, {}),
   Action(<<Patch(fileA, <<Hunk(3, <<"minus", "minus", "minus", "plus">>)>>)>>, {fileA}, {}),
   Action(<<Patch(fileA, <<Hunk(4, <<"context", "plus">>)>>)>>, {fileA, fileB},
          {Symbol(fileB, fn, "f"), Symbol(NoFile, cl, "c")}),
   Action(<<>>, {fileA}, {Symbol(fileA, m1, "m"), Symbol(fileB, fn, "f")}),
   Action(<<>>, {fileA}, {Symbol(fileA, "other", "m")}),
   Action(<<Patch(fileA, <<Hunk(2, <<"dashes", "minus">>), Hunk(5, <<"minus">>)>>)>>, {fileA}, {}),
   Action(<<>>, {}, {})}
===============================================================================
