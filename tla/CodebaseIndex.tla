--------------------------- MODULE CodebaseIndex ---------------------------
(***************************************************************************)
(* codebase/__init__.py with dependency_graph.py, symbol_table.py and the  *)
(* chunks of semantic_search.py: indexes of the files of a project, built  *)
(* at once or brought up to date file by file.                             *)
(*                                                                         *)
(* Of a file its imports are kept: the project's files it names, in some   *)
(* order.  An import of a file that is not there is left out of the graph  *)
(* when it is extracted.  remove_file, which nothing calls, is left out,   *)
(* and a file does not import itself.                                      *)
(***************************************************************************)
EXTENDS Integers, Sequences, SequencesExt, FiniteSets

CONSTANTS Files,
          MaxEdits     \* bound on the changes of files

ASSUME IndexAssumption == IsFiniteSet(Files) /\ MaxEdits \in Nat

VARIABLES disk,        \* [files there are -> what each imports]
          astIndex,    \* [files -> what each imported when it was indexed]; the symbol
                       \* table is built from it anew at every change
          graph,       \* the dependency graph
          chunked,     \* the files the search knows
          edits

indexVars == <<disk, astIndex, graph, chunked, edits>>

NoGraph == [nodes |-> {}, imports |-> [f \in Files |-> {}], importedBy |-> [f \in Files |-> {}],
            circular |-> {}]

IndexInit == /\ disk \in UNION {[F -> SUBSET Files] : F \in SUBSET Files}
             /\ \A f \in DOMAIN disk : f \notin disk[f]
             /\ astIndex = <<>> /\ graph = NoGraph /\ chunked = {} /\ edits = 0

\* _resolve_import
Resolved(f) == disk[f] \cap DOMAIN disk

\* add_file: the file's imports are replaced, and the file is noted as an
\* importer of the files that import it.
AddFile(g, f) ==
  LET imports == [g.imports EXCEPT ![f] = Resolved(f)]
  IN [g EXCEPT !.nodes = @ \cup {f}, !.imports = imports,
               !.importedBy = [n \in Files |-> IF n \in g.nodes \cup {f} /\ f \in imports[n]
                                               THEN @[n] \cup {f} ELSE @[n]]]

\* Mutant of OnPath: the way back to where the search came from is no cycle.
OnPath_ButLast(path, m) == \E k \in 1..Len(path) - 2 : path[k] = m

\* rec_stack holds what is on the path.
OnPath(path, m) == m \in Range(path)

\* The search enters a file, and looks at an import of the file it is in.
Enter(search, n) == [search EXCEPT !.visited = @ \cup {n}, !.path = Append(@, n)]
Follow(search, n, m) ==
  LET seen == [search EXCEPT !.ahead = @ \ {<<n, m>>}]
      Index == CHOOSE k \in DOMAIN search.path : search.path[k] = m
  IN IF m \notin search.visited THEN Enter(seen, m)
     ELSE IF OnPath(search.path, m)
     THEN [seen EXCEPT !.cycles = @ \cup {SubSeq(search.path, Index, Len(search.path))}]
     ELSE seen

\* One move of the depth-first search: in at a file not visited yet, on by an
\* import of the file at the end of the path, or back when it has no more.
SearchStep(g, search) ==
  LET n == Last(search.path)
      imports == {m \in g.nodes : <<n, m>> \in search.ahead}
  IN IF search.path = <<>>
     THEN IF search.visited = g.nodes THEN search ELSE Enter(search, CHOOSE f \in g.nodes \ search.visited : TRUE)
     ELSE IF imports = {} THEN [search EXCEPT !.path = Front(@)]
     ELSE Follow(search, n, CHOOSE m \in imports : TRUE)

\* detect_circular_dependencies: the cycles, each without its first file
\* repeated at the end.  A file is entered once and left once.
Imports(g) == {e \in g.nodes \X g.nodes : e[2] \in g.imports[e[1]]}
NewSearch(g) == [visited |-> {}, path |-> <<>>, ahead |-> Imports(g), cycles |-> {}]
SearchSteps(g) == 2 * Cardinality(g.nodes) + Cardinality(Imports(g))
Searched(g) ==
  LET search[k \in 0..SearchSteps(g)] == IF k = 0 THEN NewSearch(g) ELSE SearchStep(g, search[k - 1])
  IN search[SearchSteps(g)]
Cycles(g) == Searched(g).cycles

\* The files one after the other; one that cannot be read is passed over.
Updated(g, files) ==
  LET after[k \in 0..Len(files)] ==
        IF k = 0 THEN g
        ELSE IF files[k] \in DOMAIN disk THEN AddFile(after[k - 1], files[k]) ELSE after[k - 1]
  IN after[Len(files)]

\* build, with the files in some order; then their cycles are marked.
Build(order) ==
  LET g == Updated([NoGraph EXCEPT !.nodes = DOMAIN disk], order)
  IN [g EXCEPT !.circular = UNION {Range(c) : c \in Cycles(g)}]

Initialize == /\ \E order \in SetToSeqs(DOMAIN disk) : graph' = Build(order)
              /\ astIndex' = disk /\ chunked' = DOMAIN disk
              /\ UNCHANGED <<disk, edits>>

\* reindex
Reindex(changed) ==
  LET read == Range(changed) \cap DOMAIN disk
  IN /\ graph' = Updated(graph, changed)
     /\ astIndex' = [f \in DOMAIN astIndex \cup read |-> IF f \in read THEN disk[f] ELSE astIndex[f]]
     /\ chunked' = chunked \ read
     /\ UNCHANGED <<disk, edits>>

\* Somebody writes a file, or removes it.
Edit == /\ edits < MaxEdits /\ edits' = edits + 1
        /\ \E f \in Files :
             \/ \E imports \in SUBSET (Files \ {f}) :
                  disk' = [g \in DOMAIN disk \cup {f} |-> IF g = f THEN imports ELSE disk[g]]
             \/ f \in DOMAIN disk /\ disk' = [g \in DOMAIN disk \ {f} |-> disk[g]]
        /\ UNCHANGED <<astIndex, graph, chunked>>

IndexNext == \/ Edit \/ Initialize
             \/ \E f, g \in Files : Reindex(IF f = g THEN <<f>> ELSE <<f, g>>)

IndexSpec == IndexInit /\ [][IndexNext]_indexVars
-----------------------------------------------------------------------------
DepGraphs == [nodes : SUBSET Files, imports : [Files -> SUBSET Files],
              importedBy : [Files -> SUBSET Files], circular : SUBSET Files]

IndexTypeOK ==
  /\ \A f \in DOMAIN disk : f \in Files /\ disk[f] \subseteq Files
  /\ \A f \in DOMAIN astIndex : f \in Files /\ astIndex[f] \subseteq Files
  /\ graph \in DepGraphs /\ graph.circular \subseteq graph.nodes
  /\ chunked \subseteq Files /\ edits \in 0..MaxEdits

IsCycle(g, c) ==
  /\ Len(c) > 0 /\ Range(c) \subseteq g.nodes
  /\ \A k \in 1..Len(c) : c[IF k = Len(c) THEN 1 ELSE k + 1] \in g.imports[c[k]]

\* Files each of which imports one of them: there are some iff there is a cycle.
Circular(g) == \E S \in SUBSET g.nodes : S # {} /\ \A f \in S : g.imports[f] \cap S # {}

\* The search for circular dependencies, which shares its path between all of
\* its branches, reports no cycle that is none, and reports one if there is
\* any, however the graph came about.
CyclesAreFound ==
  /\ \A c \in Cycles(graph) : IsCycle(graph, c)
  /\ Circular(graph) <=> Cycles(graph) # {}

\* get_dependents: "Get files that directly import this file".
DependentsAreImporters ==
  \A f \in graph.nodes : \A d \in graph.importedBy[f] \cap graph.nodes : f \in graph.imports[d]
=============================================================================
