------------------------------ MODULE GraphViews -------------------------------
(***************************************************************************)
(* What the dashboard draws of the index: the neighbourhood of an          *)
(* assessment's symbols, the map of hot files, the whole graph by symbol   *)
(* or, when it is large, by file, and two lists.  Every view is bounded    *)
(* and says when it leaves something out.  It is read by several SELECTs,  *)
(* each of the index as it is then: the engine may sync between any two.   *)
(*                                                                         *)
(* Symbols and files are numbers, in the order of their ids and paths.     *)
(***************************************************************************)
EXTENDS Orders, Sequences

CONSTANTS
  KindOf,        \* symbol -> "callable", another "owner", or "other"
  FileOf,        \* symbol -> the file it is in, or NoPath
  NoPath,        \* no file
  Indexes,       \* those to look at, each [nodes, edges]
  Resynced,      \* what a sync may make of one
  Requests,      \* what is asked for
  EdgesPerNode,  \* edges a neighbourhood may show for each node it may show
  MaxSyncs       \* bound on the syncs during one read

ASSUME ViewsAssumption ==
  /\ EdgesPerNode \in Nat
  /\ \A g \in Indexes \cup Resynced :
       /\ IsFiniteSet(g.nodes) /\ g.nodes \subseteq Int
       /\ IsFiniteSet(g.edges) /\ g.edges \subseteq [from : g.nodes, to : g.nodes, kind : STRING]
       /\ \A n \in g.nodes : FileOf[n] \in Int \cup {NoPath}
  /\ \A r \in Requests :
       \/ r.view = "hot" /\ r.names \in Seq(SUBSET Int) /\ {r.depth, r.maxNodes} \subseteq Nat
       \/ r.view = "godmap" /\ {r.maxFiles, r.perFile, r.maxNodes, r.maxEdges} \subseteq Nat
       \/ r.view = "full" /\ {r.maxNodes, r.maxEdges, r.collapseAfter} \subseteq Nat
       \/ r.view = "overview" /\ r.maxFiles \in Nat
       \/ r.view = "file" /\ r.perFile \in Nat

VARIABLES
  database,  \* the index that is in it
  view,      \* the view on its way
  syncs      \* syncs since it was asked for

viewing == <<database, view, syncs>>

-----------------------------------------------------------------------------
(* What the SELECTs select                                                 *)

StructuralKinds == {"callable", "owner"}
FaninKinds == {"calls"}
DrawnKinds == {"calls", "extends"}

Structural(g) == {n \in g.nodes : KindOf[n] \in StructuralKinds}
Callable(g) == {n \in g.nodes : KindOf[n] = "callable"}
SymbolsIn(g, f) == {n \in Structural(g) : FileOf[n] = f}
Paths(ns) == {FileOf[n] : n \in ns} \ {NoPath}

Impacts(g) == {e \in g.edges : e.kind \in DrawnKinds}
Fanin(g) == {e \in g.edges : e.kind \in FaninKinds}
Between(g, ns) == {e \in Impacts(g) : e.from \in ns /\ e.to \in ns}
Sources(g, ns) == {e.from : e \in {x \in Impacts(g) : x.to \in ns}}

FirstIds(k, ns) == Leading(k, ns, [n \in ns |-> <<n>>])
FirstEdges(k, es) ==
  Leading(k, es, [e \in es |-> <<e.from, e.to, IF e.kind = "calls" THEN 0 ELSE 1>>])

(* Distinct callers of what can be called in a file.                       *)
CallersIn(g, f) ==
  Cardinality({e.from : e \in {x \in Fanin(g) : x.to \in Callable(g) /\ FileOf[x.to] = f}})

HotFiles(g) == {f \in Paths(Callable(g)) : CallersIn(g, f) > 0}
HotSymbols(g) == {n \in Structural(g) : FileOf[n] \in HotFiles(g)}
FileHeat(g, fs) == [f \in fs |-> <<-CallersIn(g, f), f>>]
HottestFiles(k, g) == Leading(k, HotFiles(g), FileHeat(g, HotFiles(g)))

Inbound(g, n) ==
  Cardinality({e.from : e \in {x \in Fanin(g) : x.to = n /\ x.from \in Structural(g)}})
Outbound(g, n) ==
  Cardinality({e.to : e \in {x \in Fanin(g) : x.from = n /\ x.to \in Structural(g)}})
HottestSymbols(k, g, ns) ==
  Leading(k, ns, [n \in ns |-> <<-Inbound(g, n), -Outbound(g, n), n>>])

(* Files in the order of the collapsed view, by all that points into them. *)
Pointing(g, f) ==
  Cardinality({e.from : e \in {x \in Impacts(g) : x.to \in SymbolsIn(g, f) /\ x.from \in Structural(g)}})
DensestFiles(k, g) ==
  LET fs == Paths(Structural(g))
  IN  Leading(k, fs, [f \in fs |-> <<-Pointing(g, f), -Cardinality(SymbolsIn(g, f)), f>>])

(* Impact edges between different files of fs, one for each pair.          *)
FilePairs(g, fs) ==
  {<<FileOf[e.from], FileOf[e.to]>> :
      e \in {x \in Impacts(g) : FileOf[x.from] \in fs /\ FileOf[x.to] \in fs}}
    \ {<<f, f>> : f \in fs}
FirstPairs(k, ps) == Leading(k, ps, [p \in ps |-> p])

-----------------------------------------------------------------------------
(* A view: what it shows, what it says it leaves out, how much there is,   *)
(* and what the read remembers.  starved notes that a level of the         *)
(* neighbourhood used its rows up on symbols already there; no code knows. *)
Blank(request) ==
  [at |-> "idle", request |-> request, nodes |-> {}, files |-> {}, edges |-> {}, spokes |-> {},
   pairs |-> {}, truncated |-> FALSE, total |-> 0, totalEdges |-> 0,
   names |-> <<>>, rows |-> <<>>, around |-> {}, level |-> 0, inFile |-> 0, starved |-> FALSE]

NoRequest == [view |-> "none"]

ViewsInit == database \in Indexes /\ view = Blank(NoRequest) /\ syncs = 0

(* codegraph sync, by anyone.                                              *)
Sync ==
  /\ view.at \notin {"idle", "done"} /\ syncs < MaxSyncs
  /\ database' \in Resynced \ {database}
  /\ syncs' = syncs + 1
  /\ UNCHANGED view

Asked == view.request
Reading(stage) == view.at = stage
Steps(changed) == view' = changed /\ UNCHANGED <<database, syncs>>
Unavailable == Steps([Blank(Asked) EXCEPT !.at = "done"])

(* _open: what the engine says of the index and the database of its schema *)
(* may each forbid it.                                                     *)
Open ==
  /\ Reading("idle")
  /\ \E r \in Requests :
       \/ Steps([Blank(r) EXCEPT !.at = "done"])
       \/ Steps([Blank(r) EXCEPT !.at = r.view,
                                  !.names = IF r.view = "hot" THEN r.names ELSE <<>>])

(* A query fails, and with it the whole view.                              *)
QueryFails == ~Reading("idle") /\ ~Reading("done") /\ Unavailable

-----------------------------------------------------------------------------
(* hot_subgraph                                                            *)

(* _resolve_ids: what the next name stands for, as far as there is room.   *)
ResolveName ==
  /\ Reading("hot") /\ view.names # <<>>
  /\ LET matches == (Head(view.names) \cap database.nodes) \ view.nodes
         added == FirstIds(Asked.maxNodes - Cardinality(view.nodes), matches)
     IN  Steps([view EXCEPT !.nodes = @ \cup added, !.names = Tail(@),
                            !.truncated = @ \/ added # matches])

(* The names are found: an empty view, or the search begins.               *)
StartSearch ==
  /\ Reading("hot") /\ view.names = <<>>
  /\ IF view.nodes = {} THEN Unavailable
     ELSE Steps([view EXCEPT !.at = "search", !.around = view.nodes,
                             !.truncated = @ \/ Cardinality(view.nodes) >= Asked.maxNodes])

Searching ==
  view.level < Asked.depth /\ view.around # {} /\ Cardinality(view.nodes) < Asked.maxNodes

(* One level of the loop: the rows are limited before those already there  *)
(* are left out.                                                           *)
SearchLevel ==
  /\ Reading("search") /\ Searching
  /\ LET room == Asked.maxNodes - Cardinality(view.nodes)
         unseen == FirstIds(room + 1, Sources(database, view.around)) \ view.nodes
         added == FirstIds(room, unseen)
     IN  Steps([view EXCEPT !.nodes = @ \cup added, !.around = added, !.level = @ + 1,
                            !.truncated = @ \/ added # unseen,
                            !.starved = @ \/ unseen # Sources(database, view.around) \ view.nodes])

(* Those found are fetched, if they are still there.                       *)
FetchNodes ==
  /\ Reading("search") /\ ~Searching
  /\ Steps([view EXCEPT !.at = "edges", !.around = view.nodes, !.nodes = @ \cap database.nodes])

(* The edges are asked for between those found, fetched or not.            *)
FetchEdges ==
  /\ Reading("edges")
  /\ LET shown == FirstEdges(EdgesPerNode * Asked.maxNodes, Between(database, view.around))
     IN  Steps([view EXCEPT !.at = "done", !.edges = shown, !.around = {},
                            !.truncated = @ \/ shown # Between(database, view.around),
                            !.total = Cardinality(view.nodes), !.totalEdges = Cardinality(shown)])

-----------------------------------------------------------------------------
(* god_node_map                                                            *)

(* The hot files with the number of their symbols: all count in the        *)
(* totals, the first are drawn.                                            *)
ReadHotFiles ==
  /\ Reading("godmap")
  /\ LET hot == HotFiles(database)
         symbols == HotSymbols(database)
         drawn == HottestFiles(Asked.maxFiles, database)
     IN  Steps([view EXCEPT !.at = "cross", !.rows = InOrder(drawn, FileHeat(database, drawn)),
                            !.around = hot, !.truncated = drawn # hot,
                            !.total = Cardinality(hot) + Cardinality(symbols),
                            !.totalEdges = Cardinality(symbols)])

CountCrossEdges ==
  /\ Reading("cross")
  /\ LET between == Between(database, {n \in Structural(database) : FileOf[n] \in view.around})
     IN  Steps([view EXCEPT !.at = "hub", !.around = {}, !.totalEdges = @ + Cardinality(between)])

Drawn == Cardinality(view.files) + Cardinality(view.nodes)

(* The next hub is drawn, if there is room for it and more, and the        *)
(* symbols of its file are counted.                                        *)
DrawHub ==
  /\ Reading("hub") /\ view.rows # <<>>
  /\ LET file == Head(view.rows)
         withHub == [view EXCEPT !.files = @ \cup {file}]
     IN  IF Drawn >= Asked.maxNodes THEN Steps([view EXCEPT !.at = "spokes", !.truncated = TRUE])
         ELSE IF Drawn + 1 = Asked.maxNodes
              THEN Steps([withHub EXCEPT !.at = "spokes", !.truncated = TRUE])
         ELSE Steps([withHub EXCEPT !.at = "symbols",
                                    !.inFile = Cardinality(SymbolsIn(database, file))])

Smaller(m, n) == IF m < n THEN m ELSE n

(* Its hottest symbols are drawn, as far as there is room.                 *)
DrawSymbols ==
  /\ Reading("symbols")
  /\ LET file == Head(view.rows)
         hottest == HottestSymbols(Smaller(Asked.perFile, Asked.maxNodes - Drawn),
                                   database, SymbolsIn(database, file))
     IN  Steps([view EXCEPT !.at = "hub", !.rows = Tail(@), !.nodes = @ \cup hottest, !.inFile = 0,
                            !.truncated = @ \/ view.inFile > Cardinality(hottest)])

(* Every symbol drawn hangs on its hub, as far as there are edges left;    *)
(* those that are left join the symbols.                                   *)
DrawEdges ==
  /\ Reading("spokes") \/ (Reading("hub") /\ view.rows = <<>>)
  /\ LET spokes == FirstIds(Asked.maxEdges, view.nodes)
         left == Asked.maxEdges - Cardinality(spokes)
         cross == FirstEdges(left, Between(database, view.nodes))
     IN  Steps([view EXCEPT !.at = "done", !.rows = <<>>, !.spokes = spokes, !.edges = cross,
                            !.truncated = \/ @ \/ spokes # view.nodes
                                          \/ /\ view.nodes # {} /\ left > 0
                                             /\ Cardinality(cross) >= left])

-----------------------------------------------------------------------------
(* full_graph, by symbol or by file                                        *)

CountAll ==
  /\ Reading("full")
  /\ Steps([view EXCEPT !.at = "countEdges", !.total = Cardinality(Structural(database))])

CountEdges ==
  /\ Reading("countEdges")
  /\ Steps([view EXCEPT !.at = IF view.total > Asked.collapseAfter
                               THEN "allFiles" ELSE "allSymbols",
                         !.totalEdges = Cardinality(Between(database, Structural(database)))])

ReadAllSymbols ==
  /\ Reading("allSymbols")
  /\ LET shown == FirstIds(Asked.maxNodes, Structural(database))
     IN  Steps([view EXCEPT !.at = "allEdges", !.nodes = shown,
                            !.truncated = shown # Structural(database)])

ReadAllEdges ==
  /\ Reading("allEdges")
  /\ LET shown == FirstEdges(Asked.maxEdges, Between(database, view.nodes))
     IN  Steps([view EXCEPT !.at = "done", !.edges = shown,
                            !.truncated = @ \/ shown # Between(database, view.nodes)])

Densest == DensestFiles(Asked.maxNodes, database)

ReadAllFiles ==
  /\ Reading("allFiles")
  /\ Steps([view EXCEPT !.at = "pairs", !.files = Densest,
                         !.truncated = Densest # Paths(Structural(database))])

(* Mutant of ReadAllPairs: whatever is fetched is shown.                   *)
ReadAllPairsFetched ==
  /\ Reading("pairs")
  /\ LET fetched == FirstPairs(Asked.maxEdges, FilePairs(database, Densest))
     IN  Steps([view EXCEPT !.at = "done", !.pairs = fetched,
                            !.truncated = @ \/ fetched # FilePairs(database, Densest)])

(* The pairs are of the files that would be shown now; those of files that *)
(* were not are left out.                                                  *)
ReadAllPairs ==
  /\ Reading("pairs")
  /\ LET fetched == FirstPairs(Asked.maxEdges, FilePairs(database, Densest))
         shown == fetched \cap (view.files \X view.files)
     IN  Steps([view EXCEPT !.at = "done", !.pairs = shown,
                            !.truncated = @ \/ fetched # FilePairs(database, Densest)])

-----------------------------------------------------------------------------
(* file_overview and top_symbols_in_file                                   *)

ReadOverview ==
  /\ Reading("overview")
  /\ LET shown == HottestFiles(Asked.maxFiles, database)
         total == Cardinality(HotFiles(database))
     IN  Steps([view EXCEPT !.at = "done", !.files = shown, !.total = total,
                            !.truncated = total > Cardinality(shown)])

CountFile ==
  /\ Reading("file")
  /\ Steps([view EXCEPT !.at = "top", !.total = Cardinality(SymbolsIn(database, Asked.file))])

ReadFile ==
  /\ Reading("top")
  /\ LET shown == HottestSymbols(Asked.perFile, database, SymbolsIn(database, Asked.file))
     IN  Steps([view EXCEPT !.at = "done", !.nodes = shown,
                            !.truncated = view.total > Cardinality(shown)])

ViewsNext ==
  \/ Sync \/ Open \/ QueryFails
  \/ ResolveName \/ StartSearch \/ SearchLevel \/ FetchNodes \/ FetchEdges
  \/ ReadHotFiles \/ CountCrossEdges \/ DrawHub \/ DrawSymbols \/ DrawEdges
  \/ CountAll \/ CountEdges \/ ReadAllSymbols \/ ReadAllEdges \/ ReadAllFiles \/ ReadAllPairs
  \/ ReadOverview \/ CountFile \/ ReadFile

ViewsSpec == ViewsInit /\ [][ViewsNext]_viewing

-----------------------------------------------------------------------------
Ready == Reading("done") /\ view # [Blank(Asked) EXCEPT !.at = "done"]

(* Every edge joins what is shown, whenever the index is synced.  Only a   *)
(* neighbourhood may show one that hangs, if a sync takes a symbol away    *)
(* and another brings it back.                                             *)
Joined ==
  \/ Asked.view = "hot" /\ syncs >= 2
  \/ /\ \A e \in view.edges : {e.from, e.to} \subseteq view.nodes
     /\ view.spokes \subseteq view.nodes
     /\ \A n \in view.spokes : FileOf[n] \in view.files
     /\ \A p \in view.pairs : {p[1], p[2]} \subseteq view.files

(* No view is larger than was asked for.                                   *)
Fits ==
  /\ Asked.view \in {"hot", "godmap", "full"} => Drawn <= Asked.maxNodes
  /\ Asked.view \in {"godmap", "full"} =>
       Cardinality(view.edges) + Cardinality(view.spokes) + Cardinality(view.pairs) <= Asked.maxEdges

(* Level by level, callers of ns, their callers, and so on.                *)
Outward(g, ns, depth) ==
  LET reach[d \in 0..depth] == IF d = 0 THEN ns ELSE reach[d - 1] \cup Sources(g, reach[d - 1])
  IN  reach

Named == (UNION {Asked.names[i] : i \in DOMAIN Asked.names}) \cap database.nodes

(* All there is to see in the index.                                       *)
Whole ==
  CASE Asked.view = "hot" ->
         /\ view.nodes = Outward(database, Named, Asked.depth)[Asked.depth]
         /\ view.edges = Between(database, view.nodes)
    [] Asked.view = "godmap" ->
         /\ view.files = HotFiles(database)
         /\ view.nodes = HotSymbols(database) /\ view.spokes = view.nodes
         /\ view.edges = Between(database, view.nodes)
    [] Asked.view = "full" /\ view.total <= Asked.collapseAfter ->
         view.nodes = Structural(database) /\ view.edges = Between(database, view.nodes)
    [] Asked.view = "full" /\ view.total > Asked.collapseAfter ->
         /\ view.files = Paths(Structural(database))
         /\ view.pairs = FilePairs(database, view.files)
    [] Asked.view = "overview" -> view.files = HotFiles(database)
    [] Asked.view = "file" -> view.nodes = SymbolsIn(database, Asked.file)

(* What a view owns to: that it is truncated, a total above what it shows, *)
(* or as many symbols as were asked for.                                   *)
Owned ==
  \/ view.truncated
  \/ Asked.view = "godmap" /\ Cardinality(view.edges) + Cardinality(view.spokes) < view.totalEdges
  \/ Asked.view = "hot" /\ Cardinality(view.nodes) = Asked.maxNodes

(* A view read from one index shows all there is, or owns to leaving       *)
(* something out, but for the neighbourhoods of which a level was starved; *)
(* and whatever is synced meanwhile, it is no larger than asked for and    *)
(* every edge of it joins what it shows.                                   *)
ViewsAreHonest ==
  Ready =>
    /\ Joined /\ Fits
    /\ (syncs = 0 /\ ~view.starved) => (Whole \/ Owned)
================================================================================
