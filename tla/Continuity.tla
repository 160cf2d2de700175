------------------------------ MODULE Continuity -------------------------------
(***************************************************************************)
(* Whether a revised candidate that renames an exported function, and      *)
(* leaves a forwarder under the old name, still serves its users: two      *)
(* throwaway trees, before and after the patch, are indexed by the engine  *)
(* and compared.  Only a proof says "available"; everything else keeps the *)
(* assessed risk.  The engine may be upgraded at any moment and the disk   *)
(* cache of answers is shared with whoever else runs as this user.         *)
(*                                                                         *)
(* A place is a file and qualified name.  A node's source is a text, and   *)
(* the name that is renamed if it mentions it: sources that differ in that *)
(* alone are renamings of each other.                                      *)
(***************************************************************************)
EXTENDS Naturals, Sequences, FiniteSets

CONSTANTS
  Edits,       \* the candidates to look at
  Engines,     \* the engine's versions, numbered in the order of release
  Accepted,    \* those whose graphs are trusted
  None,        \* no node, no engine, no version
  MaxEntries,  \* max_cache_entries
  MaxCalls     \* bound on the analyses

VARIABLES
  edit,    \* the candidate at hand
  engine,  \* the engine installed
  known,   \* the version this process has measured, _KNOWN_ENGINE_VERSIONS
  kept,    \* the disk cache: entries, each with its manifest and status
  call,    \* the analysis on its way
  calls    \* analyses so far

analysing == <<edit, engine, known, kept, call, calls>>

-----------------------------------------------------------------------------
(* What the two graphs have to show                                        *)

RunnableKinds == {"function", "method", "class", "struct", "interface", "trait", "protocol"}
ContinuityKinds == {"calls", "instantiates", "references"}

(* witness_for_language: the kinds a forwarder may have, none where no     *)
(* witness was measured.                                                   *)
ForwarderKinds(language) ==
  CASE language \in {"javascript", "jsx", "typescript", "tsx"} -> {"constant", "variable"}
    [] language \in {"java", "scala"} -> {"method"}
    [] language \in {"rust", "go", "dart"} -> {"function", "method"}
    [] OTHER -> {}

(* identifier_only_migration                                               *)
Renamed(old, new) == old.text = new.text /\ old.mentions = "old" /\ new.mentions = "new"

(* same_implementation: but for its own name, which is not in the text.    *)
SameImplementation(old, new) == old.text = new.text /\ old.mentions = new.mentions

(* _same_external_source                                                   *)
SameExternal(old, new) == old = new \/ Renamed(old, new)

(* _trusted_edge_confidence, _continuity_edge_metadata: what a resolver is *)
(* sure of, what it matched exactly, and what it guessed.                  *)
Trusted(us) == \A u \in us : u.trust = "trusted"
Counted(us) == [t \in {"trusted", "exact", "guess"} |-> Cardinality({u \in us : u.trust = t})]
KindsOf(us) == [k \in ContinuityKinds |-> Cardinality({u \in us : u.kind = k})]

(* _binding_target: what the forwarder is sure to refer to.                *)
Strong(e, b) ==
  {u \in e.usesAfter : u.from = b /\ u.trust = "trusted" /\ e.after[u.to].kind \in RunnableKinds}

(* The owners that became forwarders; just one is understood.              *)
Forwarders(e) ==
  {o \in e.owners : /\ e.after[o].kind \in ForwarderKinds(e.language)
                    /\ e.before[o].exported /\ e.after[o].exported}

OwnersStand(e) ==
  \A o \in e.owners :
    /\ e.before[o] # None /\ e.after[o] # None
    /\ e.before[o].language = e.language /\ e.after[o].language = e.language

(* is_safe_forwarder: it does nothing but pass on what it is given.        *)
SafeForwarder(source) == source.text = "forward" /\ source.mentions = "new"

(* patch_is_exhaustive_forwarder: besides one forwarder, the lines added   *)
(* are those removed with the name changed.                                *)
OnlyForwards(patch) ==
  /\ Len(patch.declared) = 1 /\ SafeForwarder(patch.declared[1])
  /\ Renamed(patch.removed, patch.added)

(* The forwarder b stands for t, which is the old owner renamed.           *)
Forwards(e, b, t) ==
  /\ e.before[b].kind \in RunnableKinds /\ e.before[b].signature # None
  /\ e.after[t].language = e.language
  /\ e.after[t].signature = e.before[b].signature
  /\ SameImplementation(e.before[b].source, e.after[t].source)
  /\ OnlyForwards(e.patch)

(* _same_reference_migration and its edges: another owner only follows the *)
(* renaming.                                                               *)
Follows(e, o, b, t) ==
  LET was == {u \in e.usesBefore : u.from = o /\ u.to = b}
      is == {u \in e.usesAfter : u.from = o /\ u.to = t}
  IN  /\ e.before[o].kind = e.after[o].kind /\ e.before[o].signature = e.after[o].signature
      /\ Renamed(e.before[o].source, e.after[o].source)
      /\ was # {} /\ KindsOf(was) = KindsOf(is) /\ Trusted(was \cup is)

External(e) == {u \in e.usesBefore : u.to \in e.owners /\ u.from \notin e.owners}

(* Mutant of Served: that there is some edge is enough.                    *)
ServedSomehow(was, is) == was # {} => is # {}

(* The same edges, neither more nor fewer nor less sure; none a guess.     *)
Served(was, is) ==
  Counted(was) = Counted(is) /\ \A u \in was \cup is : u.trust # "guess"

(* Every group of uses from outside goes where the owner went.             *)
UsersServed(e, b, t) ==
  \A u \in External(e) :
    LET was == {v \in External(e) : v.from = u.from /\ v.to = u.to /\ v.kind = u.kind}
        is == {v \in e.usesAfter : /\ v.from = u.from /\ v.kind = u.kind
                                   /\ v.to \in IF u.to = b THEN {b, t} ELSE {u.to}}
    IN  /\ e.before[u.from] # None /\ e.after[u.from] # None
        /\ e.before[u.from].kind = e.after[u.from].kind
        /\ SameExternal(e.before[u.from].source, e.after[u.from].source)
        /\ Served(was, is)

(* _facts: is continuity established?                                      *)
Continuous(e) ==
  /\ OwnersStand(e)
  /\ Cardinality({u.from : u \in External(e)}) = e.consumers
  /\ \E b \in Forwarders(e) :
       /\ Forwarders(e) = {b}
       /\ \E u \in Strong(e, b) :
            /\ Strong(e, b) = {u}
            /\ Forwards(e, b, u.to)
            /\ \A o \in e.owners \ {b} : Follows(e, o, b, u.to)
            /\ UsersServed(e, b, u.to)

(* Versions are numbers.  A graph says how sure it is of a use, and has    *)
(* the forwarder as the patch declares it.                                 *)
ASSUME EnginesAssumption == Engines \subseteq Nat /\ None \notin Engines
ASSUME EditsAssumption ==
  \A e \in Edits :
    /\ IsFiniteSet(e.usesBefore) /\ IsFiniteSet(e.usesAfter)
    /\ \A u \in e.usesBefore \cup e.usesAfter : u.trust \in {"trusted", "exact", "guess"}
    /\ OwnersStand(e) /\ Len(e.patch.declared) = 1 =>
         \A b \in Forwarders(e) : e.after[b].source = e.patch.declared[1]

-----------------------------------------------------------------------------
Idle ==
  [at |-> "idle", late |-> FALSE, version |-> None, file |-> None, before |-> None, after |-> None,
   status |-> "none", hit |-> FALSE, retry |-> FALSE]

ContinuityInit ==
  /\ edit \in Edits
  /\ engine \in Engines \cup {None}
  /\ known = None
  /\ \E status \in {"available", "ambiguous"} :
       kept \in {{}, {[manifest |-> <<engine, engine>>, status |-> status]}}
  /\ call = Idle /\ calls = 0

(* Another engine is installed, always a later release.                    *)
Upgrade ==
  /\ \E v \in Engines : (engine \in Engines => v > engine) /\ engine' = v
  /\ UNCHANGED <<edit, known, kept, call, calls>>

(* Another analysis of this process measures the version first.            *)
OtherMeasures ==
  /\ known = None /\ engine # None
  /\ known' = engine
  /\ UNCHANGED <<edit, engine, kept, call, calls>>

(* Time passes: the deadline of the analysis is over.                      *)
Overdue ==
  /\ call.at \notin {"idle", "done"} /\ ~call.late
  /\ call' = [call EXCEPT !.late = TRUE]
  /\ UNCHANGED <<edit, engine, known, kept, calls>>

Done(status, retry) == [call EXCEPT !.at = "done", !.status = status, !.retry = retry]
Goes(stage) == call' = [call EXCEPT !.at = stage]

(* analyze: only a patch with owners, a supported event and a witness.     *)
Begin ==
  /\ call.at = "idle" /\ calls < MaxCalls
  /\ calls' = calls + 1
  /\ IF ~edit.applies \/ ForwarderKinds(edit.language) = {}
     THEN call' = Done("not_applicable", FALSE)
     ELSE Goes("context")
  /\ UNCHANGED <<edit, engine, known, kept>>

(* _context: the files are within the caps and can be read, or not.  Then  *)
(* the deadline is looked at for the first time.                           *)
ReadContext ==
  /\ call.at = "context"
  /\ \/ \E retry \in BOOLEAN : call' = Done("unavailable", retry)
     \/ IF call.late THEN call' = Done("unavailable", TRUE) ELSE Goes("patch")
  /\ UNCHANGED <<edit, engine, known, kept, calls>>

(* The patch is applied to the copies.  An owner that is gone is noticed   *)
(* at once, unless its name is still somewhere in the file.                *)
Materialize ==
  /\ call.at = "patch"
  /\ \/ call' = Done("unavailable", FALSE)
     \/ (\E o \in edit.owners : edit.after[o] = None) /\ call' = Done("ambiguous", FALSE)
     \/ Goes("identify")
  /\ UNCHANGED <<edit, engine, known, kept, calls>>

(* known_engine_version: measured once in the life of the process.         *)
Measure(v) == engine # None /\ v = (IF known = None THEN engine ELSE known)

(* _engine_identity: the version, none if it cannot be measured, and the   *)
(* launcher's file, both as they are now.                                  *)
Identify ==
  /\ call.at = "identify"
  /\ \/ \E v \in Engines :
          /\ Measure(v) /\ known' = v
          /\ call' = [call EXCEPT !.at = "lookup", !.version = v, !.file = engine]
     \/ /\ (known = None \/ engine = None) /\ UNCHANGED known
        /\ call' = [call EXCEPT !.at = "lookup", !.file = engine]
  /\ UNCHANGED <<edit, engine, kept, calls>>

(* _manifest_hash: of that identity, once for the whole analysis.  The     *)
(* rest of it, the sources and the patch, is the one edit's.               *)
Manifest == <<call.version, call.file>>

(* _load_cache: evidence that lowers a risk is never taken from disk.      *)
Trustworthy(entry) == entry.status # "available"

LookUp ==
  /\ call.at = "lookup"
  /\ \/ \E entry \in kept :
          /\ entry.manifest = Manifest /\ Trustworthy(entry)
          /\ call' = [Done(entry.status, FALSE) EXCEPT !.hit = TRUE]
     \/ /\ ~\E entry \in kept : entry.manifest = Manifest /\ Trustworthy(entry)
        /\ Goes("version before")
  /\ UNCHANGED <<edit, engine, known, kept, calls>>

-----------------------------------------------------------------------------
(* index_temp_tree, for the tree before and for the tree after             *)

Unindexed == call' = Done("unavailable", TRUE) \/ call' = Done("unavailable", FALSE)

NeedVersion(stage, next) ==
  /\ call.at = stage
  /\ \/ Unindexed /\ UNCHANGED known
     \/ \E v \in Engines :
          /\ Measure(v) /\ known' = v
          /\ IF v \in Accepted THEN Goes(next) ELSE Unindexed
  /\ UNCHANGED <<edit, engine, kept, calls>>

(* codegraph init: by the engine that is there now.                        *)
BuildIndex(tree, stage, next) ==
  /\ call.at = stage
  /\ \/ Unindexed
     \/ /\ engine # None
        /\ call' = [call EXCEPT !.at = next, ![tree] = engine]
  /\ UNCHANGED <<edit, engine, known, kept, calls>>

(* Mutant of StatusAgrees: any version that is trusted will do.            *)
StatusAgreesLoosely == engine \in Accepted

(* codegraph status: by the engine that is there then, and in the tree.    *)
StatusAgrees == engine \in Accepted /\ engine = known

(* After each index the deadline is looked at.                             *)
ReadStatus(stage, next) ==
  /\ call.at = stage
  /\ \/ Unindexed
     \/ StatusAgrees /\ ~call.late /\ Goes(next)
  /\ UNCHANGED <<edit, engine, known, kept, calls>>

(* _save_cache: what is conservative is kept, and old entries go.          *)
Save(status) ==
  IF status = "available" THEN UNCHANGED kept
  ELSE \E gone \in SUBSET kept :
         LET left == (kept \ gone) \cup {[manifest |-> Manifest, status |-> status]}
         IN  Cardinality(left) <= MaxEntries /\ kept' = left

(* _facts; an error of either graph is an answer without one.              *)
Compare ==
  /\ call.at = "compare"
  /\ \/ Unindexed /\ UNCHANGED kept
     \/ LET status == IF Continuous(edit) THEN "available" ELSE "ambiguous"
        IN  call' = Done(status, FALSE) /\ Save(status)
  /\ UNCHANGED <<edit, engine, known, calls>>

Leave ==
  /\ call.at = "done"
  /\ call' = Idle
  /\ UNCHANGED <<edit, engine, known, kept, calls>>

(* The process dies: what it measured goes with it.                        *)
Restart ==
  /\ call' = Idle /\ known' = None
  /\ UNCHANGED <<edit, engine, kept, calls>>

ContinuityNext ==
  \/ Upgrade \/ OtherMeasures \/ Overdue
  \/ Begin \/ ReadContext \/ Materialize \/ Identify \/ LookUp
  \/ NeedVersion("version before", "init before")
  \/ BuildIndex("before", "init before", "status before")
  \/ ReadStatus("status before", "version after")
  \/ NeedVersion("version after", "init after")
  \/ BuildIndex("after", "init after", "status after")
  \/ ReadStatus("status after", "compare")
  \/ Compare \/ Leave \/ Restart

ContinuitySpec == ContinuityInit /\ [][ContinuityNext]_analysing

-----------------------------------------------------------------------------
Proved == call.at = "done" /\ call.status = "available"

(* Continuity is only ever reported from two graphs that this call had     *)
(* built, both by the one trusted version it names if it names any:        *)
(* whatever the cache holds, and whenever the engine is replaced.          *)
EarnedHere ==
  Proved =>
    /\ ~call.hit
    /\ call.before = call.after /\ call.after \in Accepted
    /\ call.version \in {None, call.after}

(* What a use of place p runs in the graph after: what a forwarder is sure *)
(* to refer to, else what is there.                                        *)
Runs(p) ==
  IF p \in Forwarders(edit) /\ edit.after[p].source.text = "forward"
  THEN {edit.after[u.to].source.text : u \in Strong(edit, p)}
  ELSE {edit.after[p].source.text}

(* When continuity is reported, everyone outside the changed owners that   *)
(* used one of them is there, says the same, and has as many uses of each  *)
(* kind as before that run what that owner ran.                            *)
UsersRunTheSame ==
  Proved =>
    \A u \in External(edit) :
      LET Alike(us) == {v \in us : v.from = u.from /\ v.kind = u.kind}
          was == {v \in Alike(edit.usesBefore) : v.to = u.to}
          is == {v \in Alike(edit.usesAfter) : Runs(v.to) = {edit.before[u.to].source.text}}
      IN  /\ edit.after[u.from].source.text = edit.before[u.from].source.text
          /\ Cardinality(is) >= Cardinality(was)
================================================================================
