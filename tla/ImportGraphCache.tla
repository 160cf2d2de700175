--------------------------- MODULE ImportGraphCache ----------------------------
(***************************************************************************)
(* The import graph kept under .pebra and rebuilt by content hash.  Every  *)
(* assessment is a process that loads the cache, lists and hashes the      *)
(* files, parses what it must, and saves through one temporary file name   *)
(* all processes share; the files are edited, added and deleted meanwhile. *)
(*                                                                         *)
(* A file's content is the set of files it imports: its hash tells         *)
(* contents apart, and its edges are what of it resolves in the file set.  *)
(***************************************************************************)
EXTENDS Naturals, FiniteSets

CONSTANTS
  Procs,     \* the processes that assess
  Files,     \* the files of the repository
  Inodes,    \* the files the saves write to, before and after they are renamed
  Absent,    \* not there: a file, an inode, a graph
  Garbage,   \* what no loader accepts: nothing, or two writes over each other
  MaxBuilds, \* bound on the assessments
  MaxEdits   \* bound on the edits of the repository

(* The file system always has a file to give.                              *)
ASSUME InodesAssumption ==
  /\ IsFiniteSet(Procs) /\ IsFiniteSet(Inodes) /\ Cardinality(Procs) < Cardinality(Inodes)
  /\ Absent \notin Inodes

VARIABLES
  disk,    \* file -> its content
  cache,   \* the inode at import_graph.json
  temp,    \* the inode at import_graph.json.tmp
  bytes,   \* inode -> what it holds
  build,   \* process -> its call of get_import_graph
  builds,  \* calls so far
  edits    \* edits so far

building == <<disk, cache, temp, bytes, build, builds, edits>>

-----------------------------------------------------------------------------
(* python_files: what is there.                                            *)
Present == {f \in Files : disk[f] # Absent}

Contents == SUBSET Files

(* _parse_file, parse_facts: the imports that resolve are edges to other   *)
(* files, the others are kept without a target.                            *)
Edges(f, content, fileset) == [to |-> (content \cap fileset) \ {f}, unresolved |-> content \ fileset]

(* _assemble: the files' hashes and edges; the degrees, anchors and cycles *)
(* are computed from them.  raced says whose edges are of another content  *)
(* than was hashed: no code knows.                                         *)
Graph(hashes, edges, raced) == [hashes |-> hashes, edges |-> edges, raced |-> raced]
EmptyGraph == Graph(<<>>, <<>>, {})

Only(edges, fs) == [f \in (DOMAIN edges) \cap fs |-> edges[f]]
With(map, f, value) == [g \in (DOMAIN map) \cup {f} |-> IF g = f THEN value ELSE map[g]]

(* load_import_graph: what is there, if it is whole.                       *)
Loaded == IF cache = Absent \/ bytes[cache] = Garbage THEN Absent ELSE bytes[cache]

Resting ==
  [at |-> "idle", prev |-> Absent, files |-> {}, hashes |-> <<>>, todo |-> {}, edges |-> <<>>,
   raced |-> {}, answer |-> "none", graph |-> Absent, inode |-> Absent, touched |-> FALSE]

CacheInit ==
  /\ disk \in [Files -> Contents \cup {Absent}]
  /\ \A f \in Files : disk[f] # Absent => f \notin disk[f]
  /\ cache = Absent /\ temp = Absent
  /\ bytes = [i \in Inodes |-> Garbage]
  /\ build = [p \in Procs |-> Resting]
  /\ builds = 0 /\ edits = 0

At(p, stage) == build[p].at = stage

(* A call answers; of what it went by, only the answer is left.            *)
Answered(p, answer, graph) ==
  [Resting EXCEPT !.at = "answered", !.answer = answer, !.graph = graph, !.touched = build[p].touched]

UNCHANGEDFiles == UNCHANGED <<disk, cache, temp, bytes, edits>>

-----------------------------------------------------------------------------
(* The repository changes under the calls that are on their way.           *)
Edit(f) ==
  /\ edits < MaxEdits
  /\ edits' = edits + 1
  /\ \E content \in {c \in Contents : f \notin c} \cup {Absent} :
       content # disk[f] /\ disk' = [disk EXCEPT ![f] = content]
  /\ build' = [p \in Procs |-> IF At(p, "idle") THEN Resting ELSE [build[p] EXCEPT !.touched = TRUE]]
  /\ UNCHANGED <<cache, temp, bytes, builds>>

(* GraphProvider.get: the first call of an assessment; the others share it.*)
Load(p) ==
  /\ At(p, "idle") /\ builds < MaxBuilds
  /\ builds' = builds + 1
  /\ build' = [build EXCEPT ![p] = [Resting EXCEPT !.at = "list", !.prev = Loaded]]
  /\ UNCHANGEDFiles

List(p) ==
  /\ At(p, "list")
  /\ build' = [build EXCEPT ![p] =
       IF Present = {} THEN Answered(p, "UNKNOWN", EmptyGraph)
       ELSE [@ EXCEPT !.at = "hash", !.files = Present, !.todo = Present]]
  /\ UNCHANGED builds /\ UNCHANGEDFiles

(* The files are taken in their order.                                     *)
First(fs) == CHOOSE f \in fs : TRUE

(* An error of the build: the old graph, if there was one, as stale.       *)
Stale(p) ==
  Answered(p, "STALE", IF build[p].prev = Absent THEN EmptyGraph ELSE build[p].prev)

HashFile(p) ==
  /\ At(p, "hash") /\ build[p].todo # {}
  /\ LET f == First(build[p].todo)
         c == build[p]
     IN  build' = [build EXCEPT ![p] =
           IF disk[f] = Absent THEN Stale(p)
           ELSE [c EXCEPT !.hashes = With(@, f, disk[f]), !.todo = @ \ {f}]]
  /\ UNCHANGED builds /\ UNCHANGEDFiles

Modified(c) == {f \in c.files : f \notin DOMAIN c.prev.hashes \/ c.prev.hashes[f] # c.hashes[f]}

(* Mutant of ToParse: added and deleted files have only themselves parsed. *)
ToParseModified(c) == IF c.prev = Absent THEN c.files ELSE Modified(c)

(* Everything without a graph or when the file set changed, as resolution  *)
(* may have; else what was modified.                                       *)
ToParse(c) ==
  IF c.prev = Absent \/ DOMAIN c.prev.hashes # c.files THEN c.files ELSE Modified(c)

(* The rest is carried over from the graph before.                         *)
Decide(p) ==
  /\ At(p, "hash") /\ build[p].todo = {}
  /\ LET c == build[p]
         kept == c.files \ ToParse(c)
     IN  build' = [build EXCEPT ![p] =
           [c EXCEPT !.at = "parse", !.todo = ToParse(c),
                     !.answer = IF c.prev = Absent \/ kept = DOMAIN c.prev.hashes THEN "FRESH" ELSE "REBUILT",
                     !.edges = IF c.prev = Absent THEN <<>> ELSE Only(c.prev.edges, kept),
                     !.raced = IF c.prev = Absent THEN {} ELSE c.prev.raced \cap kept]]
  /\ UNCHANGED builds /\ UNCHANGEDFiles

ParseFile(p) ==
  /\ At(p, "parse") /\ build[p].todo # {}
  /\ LET f == First(build[p].todo)
         c == build[p]
     IN  build' = [build EXCEPT ![p] =
           IF disk[f] = Absent THEN Stale(p)
           ELSE [c EXCEPT !.edges = With(c.edges, f, Edges(f, disk[f], c.files)),
                          !.raced = IF disk[f] = c.hashes[f] THEN @ ELSE @ \cup {f},
                          !.todo = @ \ {f}]]
  /\ UNCHANGED builds /\ UNCHANGEDFiles

(* get_import_graph saves a first graph and a rebuilt one.                 *)
Assemble(p) ==
  /\ At(p, "parse") /\ build[p].todo = {}
  /\ LET c == build[p]
         graph == Graph(c.hashes, c.edges, c.raced)
     IN  build' = [build EXCEPT ![p] =
           IF c.prev = Absent \/ c.answer = "REBUILT"
           THEN [Answered(p, c.answer, graph) EXCEPT !.at = "open"]
           ELSE Answered(p, c.answer, graph)]
  /\ UNCHANGED builds /\ UNCHANGEDFiles

-----------------------------------------------------------------------------
(* save_import_graph                                                       *)

InUse == {cache, temp} \cup {build[p].inode : p \in Procs}

(* Opening the temporary name empties the file that is there.              *)
OpenTemp(p) ==
  /\ At(p, "open")
  /\ \E i \in IF temp # Absent THEN {temp} ELSE {CHOOSE j \in Inodes : j \notin InUse} :
       /\ temp' = i
       /\ bytes' = [bytes EXCEPT ![i] = Garbage]
       /\ build' = [build EXCEPT ![p] = [@ EXCEPT !.at = "write", !.inode = i]]
  /\ UNCHANGED <<disk, cache, builds, edits>>

(* One write from the start of the file: over a longer one its end stays.  *)
WriteTemp(p) ==
  /\ At(p, "write")
  /\ \E left \in {build[p].graph} \cup (IF bytes[build[p].inode] = Garbage THEN {} ELSE {Garbage}) :
       bytes' = [bytes EXCEPT ![build[p].inode] = left]
  /\ build' = [build EXCEPT ![p] = [@ EXCEPT !.at = "replace", !.inode = Absent]]
  /\ UNCHANGED <<disk, cache, temp, builds, edits>>

(* Another process may have taken the file away: its error is swallowed.   *)
ReplaceCache(p) ==
  /\ At(p, "replace")
  /\ IF temp = Absent THEN UNCHANGED <<cache, temp>> ELSE cache' = temp /\ temp' = Absent
  /\ build' = [build EXCEPT ![p] = [@ EXCEPT !.at = "answered"]]
  /\ UNCHANGED <<disk, bytes, builds, edits>>

(* Any of the three may fail: the graph is still good for this assessment. *)
SaveFails(p) ==
  /\ build[p].at \in {"open", "write", "replace"}
  /\ build' = [build EXCEPT ![p] = [@ EXCEPT !.at = "answered", !.inode = Absent]]
  /\ UNCHANGED builds /\ UNCHANGEDFiles

(* The assessment is over, or its process dies.                            *)
EndBuild(p) ==
  /\ ~At(p, "idle")
  /\ build' = [build EXCEPT ![p] = Resting]
  /\ UNCHANGED builds /\ UNCHANGEDFiles

CacheNext ==
  \/ \E f \in Files : Edit(f)
  \/ \E p \in Procs :
       \/ Load(p) \/ List(p) \/ HashFile(p) \/ Decide(p) \/ ParseFile(p) \/ Assemble(p)
       \/ OpenTemp(p) \/ WriteTemp(p) \/ ReplaceCache(p) \/ SaveFails(p) \/ EndBuild(p)

CacheSpec == CacheInit /\ [][CacheNext]_building

-----------------------------------------------------------------------------
(* A call during which no file changed, and that answers FRESH or REBUILT, *)
(* has the edges every file has now, in the file set of now: whatever the  *)
(* cache it carried edges over from went through, and whoever saved it.    *)
(* Only a file edited between its hashing and its parsing is excused, then *)
(* and for as long as edges so recorded are carried over.                  *)
AnswersAreTrue ==
  \A p \in Procs :
    build[p].answer \in {"FRESH", "REBUILT"} /\ build[p].graph # Absent /\ ~build[p].touched =>
      LET g == build[p].graph
      IN  /\ g.hashes = [f \in Present |-> disk[f]]
          /\ \A f \in Present \ g.raced : g.edges[f] = Edges(f, disk[f], Present)
================================================================================
