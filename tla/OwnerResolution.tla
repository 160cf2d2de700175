---------------------------- MODULE OwnerResolution ---------------------------
(***************************************************************************)
(* Which symbols of the graph a proposed edit changes.  The old-side lines *)
(* a unified diff removes are collected per file, merged into ranges, and  *)
(* each range is resolved to its tightest owners; the names the agent      *)
(* declares fill in, or stand in when there is no location at all.         *)
(*                                                                         *)
(* A diff is a sequence of files, each with its hunks; a line of a hunk is *)
(* told apart by how it begins.  "dashes" is a removed line whose text     *)
(* begins with "-- " and "pluses" an added one that begins with "++ ":     *)
(* rendered with their sign they look like the header of a file.           *)
(***************************************************************************)
EXTENDS SequencesExt, Integers

CONSTANTS
  Nodes,   \* the nodes of a graph
  NoFile   \* the file of a symbol that names none

(* The kinds that own a location, and those fan-in is counted for.         *)
ClassKinds == {"class", "interface", "trait"}
CallableKinds == {"function", "method"} \cup ClassKinds
OwnerKinds == CallableKinds \cup {"module"}

-----------------------------------------------------------------------------
(* parse_old_side_ranges                                                   *)

(* A hunk's body is read up to the first line that looks like a header.    *)
BodyRead(body) ==
  SelectInSeq(body, LAMBDA t : t \in {"dashes", "pluses"})

LinesRead(body) ==
  IF BodyRead(body) = 0 THEN body ELSE SubSeq(body, 1, BodyRead(body) - 1)

(* The number a line of a body has in the old file.                        *)
OldLine(h, i) ==
  h.start + Cardinality({j \in 1..(i - 1) : h.body[j] \in {"minus", "dashes", "context"}})

RemovedIn(h, body) ==
  LET removed == {OldLine(h, i) : i \in {j \in DOMAIN body : body[j] = "minus"}}
  IN  IF removed = {} THEN {h.start} ELSE removed

(* What looked like the header of a file takes the hunks that follow.      *)
HunksRead(hunks) ==
  LET misled == SelectInSeq(hunks, LAMBDA h :
                  BodyRead(h.body) # 0 /\ h.body[BodyRead(h.body)] = "dashes")
  IN  IF misled = 0 THEN hunks ELSE SubSeq(hunks, 1, misled)

(* The old-side lines parse_old_side_ranges finds changed, by file.        *)
ParsedLines(f) ==
  UNION {RemovedIn(h, LinesRead(h.body)) : h \in ToSet(HunksRead(f.hunks))}

(* _merge_contiguous                                                       *)
Ranges(lines) ==
  {r \in lines \X lines :
     /\ r[1] <= r[2] /\ r[1]..r[2] \subseteq lines
     /\ r[1] - 1 \notin lines /\ r[2] + 1 \notin lines}

-----------------------------------------------------------------------------
(* Locations and names.  A graph g gives each node a kind, a file, the     *)
(* lines lo..hi, a qualified name and a leaf name.                         *)

Overlapping(g, file, r) ==
  {n \in Nodes : /\ g.kind[n] \in OwnerKinds /\ g.file[n] = file
                 /\ g.lo[n] <= r[2] /\ g.hi[n] >= r[1]}

Within(g, m, n) == g.lo[n] <= g.lo[m] /\ g.hi[m] <= g.hi[n]
Span(g, n) == g.hi[n] - g.lo[n]

(* _owners_at: an owner gives way to a tighter one inside it.              *)
OwnersAt(g, file, r) ==
  {n \in Overlapping(g, file, r) :
     ~\E m \in Overlapping(g, file, r) : Within(g, m, n) /\ Span(g, n) > Span(g, m)}

(* _resolve_named: by qualified name, then by leaf name.                   *)
ResolveNamed(g, s) ==
  LET named == {n \in Nodes : g.file[n] = s.file /\ g.qual[n] = s.qual}
  IN  IF named # {} THEN named
      ELSE {n \in Nodes : g.file[n] = s.file /\ g.leaf[n] = s.leaf}

Ambiguous(g, s) == Cardinality(ResolveNamed(g, s)) > 1

(* The owners of every range of every file of the patch.                   *)
LocatedOwners(g, a) ==
  UNION {UNION {OwnersAt(g, f.file, r) : r \in Ranges(ParsedLines(f))} : f \in ToSet(a.patch)}

(* Names are taken from the files the candidate expects, or else from the  *)
(* files of its patch.                                                     *)
NameInScope(a, s) ==
  /\ s.file # NoFile
  /\ IF a.expected # {} THEN s.file \in a.expected
     ELSE \E f \in ToSet(a.patch) : f.file = s.file

NamedOwners(g, a) ==
  UNION {ResolveNamed(g, s) : s \in {t \in a.symbols : NameInScope(a, t) /\ ~Ambiguous(g, t)}}

(* _name_fallback: every name, the ambiguous ones too.                     *)
FallbackOwners(g, a) == UNION {ResolveNamed(g, s) : s \in a.symbols}

FallbackMethod(g, a) ==
  IF FallbackOwners(g, a) = {} THEN "unresolved"
  ELSE IF \E s \in a.symbols : Ambiguous(g, s) THEN "name_fallback_ambiguous"
  ELSE "name_fallback"

(* _resolve: location first.                                               *)
Resolve(g, a) ==
  IF LocatedOwners(g, a) # {}
  THEN [owners |-> LocatedOwners(g, a) \cup NamedOwners(g, a), method |-> "location"]
  ELSE [owners |-> FallbackOwners(g, a), method |-> FallbackMethod(g, a)]
=============================================================================
