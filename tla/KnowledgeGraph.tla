--------------------------- MODULE KnowledgeGraph ---------------------------
(***************************************************************************)
(* context/graphify_provider.py: the graph of a project, built when it is  *)
(* first asked for, kept in graph.json and enriched with what a language   *)
(* model finds, with a marker of the files that are done.                  *)
(*                                                                         *)
(* Several providers share one directory: main makes one, the context      *)
(* manager another and every request for an enrichment its own, in a       *)
(* worker thread.  A graph is the set of files whose semantic edges it     *)
(* has; what it holds from the syntax is in every graph.  A chunk is one   *)
(* file; tokens are not counted, so that the budget may be spent after any *)
(* chunk.  The ranking and the text of answers to queries are left out,    *)
(* and with them god_nodes, community_hint and blast_radius, which only    *)
(* read the graph.                                                         *)
(***************************************************************************)
EXTENDS Naturals

CONSTANTS Threads,
          SharedProviders,    \* those of main and of the context manager
          Sources,      \* the files that an enrichment reads
          MaxDeaths, MaxEnrichments   \* bounds: ends of the process, requests for an enrichment

VARIABLES graphFile,    \* graph.json: a graph, NoGraphFile or Unreadable
          marker,       \* semantic_done.json
          provider,     \* [providers, and threads for their own -> what each has loaded and tried]
          call,         \* [threads -> the call each is in]
          answered,     \* history: files for which the model named edges when last asked
          disturbed,    \* history: writers overlapped, or a write of the graph was cut short
          deaths, enrichments

knowledgeVars == <<graphFile, marker, provider, call, answered, disturbed, deaths, enrichments>>

NoGraphFile == {"missing"}
Unreadable == {"unreadable"}
NoGraphYet == {"not_loaded"}

\* A thread stands for the provider of its own request, and a source is none
\* of the words for a graph that is not there.
ASSUME KnowledgeAssumption == /\ SharedProviders \cap Threads = {}
                              /\ Sources \cap (NoGraphFile \cup Unreadable \cup NoGraphYet) = {}

NewProvider == [graph |-> NoGraphYet, attempted |-> FALSE, failed |-> FALSE, builds |-> 0]
Idle == [at |-> "idle", on |-> "no_provider", enrich |-> FALSE, already |-> {},
         left |-> {}, done |-> {}, found |-> {}]

KnowledgeInit == /\ graphFile = NoGraphFile /\ marker = {} /\ answered = {} /\ disturbed = FALSE
                 /\ deaths = 0 /\ enrichments = 0
                 /\ provider = [p \in SharedProviders \cup Threads |-> NewProvider] /\ call = [t \in Threads |-> Idle]

Loaded(p) == provider[p].graph # NoGraphYet
\* _load_graph, which is None for what cannot be read.
LoadGraph == IF graphFile \in {NoGraphFile, Unreadable} THEN NoGraphYet ELSE graphFile

Goes(t, at) == call' = [call EXCEPT ![t] = IF at = "idle" THEN Idle ELSE [@ EXCEPT !.at = at]]
\* What a call goes on to once _ensure_graph has answered.
Ensured(t, there) == Goes(t, IF there /\ call[t].enrich THEN "begin" ELSE "idle")

\* A query: nothing is done while the provider is in its failed state.
Query(t, p) == /\ call[t].at = "idle" /\ ~provider[p].failed /\ ~Loaded(p)
               /\ call' = [call EXCEPT ![t] = [Idle EXCEPT !.at = "lock", !.on = p]]
               /\ UNCHANGED <<graphFile, marker, provider, answered, deaths, enrichments>>
\* A request for an enrichment through the API makes a provider of its own.
Enrich(t) ==
  /\ call[t].at = "idle" /\ enrichments < MaxEnrichments /\ enrichments' = enrichments + 1
  /\ provider' = [provider EXCEPT ![t] = NewProvider]
  /\ call' = [call EXCEPT ![t] = [Idle EXCEPT !.at = "lock", !.on = t, !.enrich = TRUE]]
  /\ UNCHANGED <<graphFile, marker, answered, deaths>>

\* Mutant of TriedBefore: only the graph is looked at again inside the lock.
TriedBefore_Loaded(p) == Loaded(p)
\* Whether another thread has loaded the graph or tried in vain.
TriedBefore(p) == Loaded(p) \/ provider[p].attempted

\* _ensure_graph, under the lock, which is held while the graph is built.
EnsureGraph(t) ==
  LET p == call[t].on
  IN /\ call[t].at = "lock"
     /\ \A u \in Threads : call[u].on = p => call[u].at \notin {"build", "write", "load"}
     /\ IF TriedBefore(p) THEN Ensured(t, Loaded(p)) /\ UNCHANGED provider
        ELSE /\ provider' = [provider EXCEPT ![p].attempted = TRUE, ![p].graph = LoadGraph]
             /\ IF LoadGraph # NoGraphYet THEN Ensured(t, TRUE) ELSE Goes(t, "build")
     /\ UNCHANGED <<graphFile, marker, answered, deaths, enrichments>>

\* _build_graph: no package, too small a project, no code or an exception; or
\* a graph, whose file is opened before it is written.
BuildGraph(t) ==
  /\ call[t].at = "build"
  /\ \/ /\ provider' = [provider EXCEPT ![call[t].on].failed = TRUE]
        /\ Ensured(t, FALSE) /\ UNCHANGED graphFile
     \/ /\ provider' = [provider EXCEPT ![call[t].on].builds = @ + 1]
        /\ graphFile' = Unreadable /\ Goes(t, "write")
  /\ UNCHANGED <<marker, answered, deaths, enrichments>>
\* A write that stops short is a failure to build.
WriteBuilt(t) == /\ call[t].at = "write"
                 /\ \/ graphFile' = {} /\ Goes(t, "load") /\ UNCHANGED provider
                    \/ /\ provider' = [provider EXCEPT ![call[t].on].failed = TRUE]
                       /\ Ensured(t, FALSE) /\ UNCHANGED graphFile
                 /\ UNCHANGED <<marker, answered, deaths, enrichments>>
LoadBuilt(t) == /\ call[t].at = "load"
                /\ provider' = [provider EXCEPT ![call[t].on].graph = LoadGraph]
                /\ Ensured(t, LoadGraph # NoGraphYet)
                /\ UNCHANGED <<graphFile, marker, answered, deaths, enrichments>>

\* enrich_semantic: the files that are not in the marker.
BeginEnrichment(t) ==
  LET left == Sources \ marker
  IN /\ call[t].at = "begin"
     /\ call' = [call EXCEPT ![t].at = IF left = {} THEN "mark" ELSE "chunk",
                             ![t].already = marker, ![t].left = left]
     /\ UNCHANGED <<graphFile, marker, provider, answered, deaths, enrichments>>

\* One chunk: it fails and is left for another time, or it is done, with or
\* without edges in the answer.
AskModel(t) ==
  /\ call[t].at = "chunk" /\ call[t].left # {}
  /\ \E f \in call[t].left :
       \/ call' = [call EXCEPT ![t].left = @ \ {f}] /\ UNCHANGED answered
       \/ \E edges \in {{}, {f}} :
            /\ call' = [call EXCEPT ![t].left = @ \ {f}, ![t].done = @ \cup {f}, ![t].found = @ \cup edges]
            /\ answered' = (answered \ {f}) \cup edges
  /\ UNCHANGED <<graphFile, marker, provider, deaths, enrichments>>

\* Mutant of AfterTheModel: the marker is written before the graph is.
AfterTheModel_MarkerFirst(t) ==
  /\ call[t].at = "chunk"
  /\ marker' = call[t].already \cup call[t].done
  /\ provider' = [provider EXCEPT ![call[t].on].graph = @ \cup call[t].found]
  /\ Goes(t, IF call[t].found = {} THEN "mark" ELSE "open")
  /\ UNCHANGED <<graphFile, answered, deaths, enrichments>>
\* The chunks are through, or the budget is; _merge_into_graph, into the
\* provider's own graph.
AfterTheModel(t) ==
  /\ call[t].at = "chunk"
  /\ provider' = [provider EXCEPT ![call[t].on].graph = @ \cup call[t].found]
  /\ Goes(t, IF call[t].found = {} THEN "mark" ELSE "open")
  /\ UNCHANGED <<graphFile, marker, answered, deaths, enrichments>>
\* It is then written over graph.json; an exception on the way is dropped.
OpenGraph(t) == /\ call[t].at = "open"
                /\ \/ graphFile' = Unreadable /\ Goes(t, "save")
                   \/ Goes(t, "mark") /\ UNCHANGED graphFile
                /\ UNCHANGED <<marker, provider, answered, deaths, enrichments>>
SaveGraph(t) == /\ call[t].at = "save"
                /\ graphFile' \in {provider[call[t].on].graph, Unreadable} /\ Goes(t, "mark")
                /\ UNCHANGED <<marker, provider, answered, deaths, enrichments>>
\* A marker that could not be opened stays, and one that was written in part
\* is read as empty.  The end of the request is also that of its provider.
WriteMarker(t) == /\ call[t].at = "mark" /\ Goes(t, "idle")
                  /\ marker' \in {call[t].already \cup call[t].done, marker, {}}
                  /\ provider' = [provider EXCEPT ![t] = NewProvider]
                  /\ UNCHANGED <<graphFile, answered, deaths, enrichments>>

\* The process ends and is started again.
Die == /\ deaths < MaxDeaths /\ deaths' = deaths + 1
       /\ provider' = [p \in SharedProviders \cup Threads |-> NewProvider] /\ call' = [t \in Threads |-> Idle]
       /\ UNCHANGED <<graphFile, marker, answered, enrichments>>

\* What the history records of a step.
Writing(t) == call[t].at \notin {"idle", "lock"}
WriteFailed(t) == \/ call[t].at = "open" /\ call'[t].at = "mark"
                  \/ call[t].at = "save" /\ graphFile' = Unreadable
Disturb == disturbed' = (\/ disturbed
                         \/ \E t \in Threads : WriteFailed(t)
                         \/ \E t, u \in Threads : t # u /\ Writing(t)' /\ Writing(u)'
                         \/ deaths' > deaths /\ graphFile = Unreadable)

Step == \/ \E t \in Threads : \/ \E p \in SharedProviders : Query(t, p)
                              \/ Enrich(t)
                              \/ EnsureGraph(t) \/ BuildGraph(t) \/ WriteBuilt(t) \/ LoadBuilt(t)
                              \/ BeginEnrichment(t) \/ AskModel(t) \/ AfterTheModel(t)
                              \/ OpenGraph(t) \/ SaveGraph(t) \/ WriteMarker(t)
        \/ Die
KnowledgeNext == Step /\ Disturb

KnowledgeSpec == KnowledgeInit /\ [][KnowledgeNext]_knowledgeVars
-----------------------------------------------------------------------------
\* However many threads ask a provider at once, and whether or not the graph
\* that it built could be read back, it builds one at most.
BuiltOnce == \A p \in DOMAIN provider : provider[p].builds <= 1

\* A file that the marker holds is never read again.  So its edges are in
\* graph.json, whenever the process ends, unless enrichments overlapped or
\* the writing of the graph itself failed.
MarkedIsEnriched == ~disturbed => marker \cap answered \subseteq graphFile \/ \E t \in Threads : call[t].at = "save"
=============================================================================
