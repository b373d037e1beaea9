------------------------------ MODULE KnowledgeIndex ------------------------------
(***************************************************************************)
(* The index that routes a word to the domain that owns it, and the graph  *)
(* of concepts. The server loads the two files of the index when it starts, *)
(* or builds and saves an index if one is missing; a run of the daemon     *)
(* builds another one and saves it over the files, in place and one after  *)
(* the other. The scheduler of the server has no loader for domains, so    *)
(* that what the daemon indexes is the stand-in domain without a glossary. *)
(* An index is the set of domains it was built from; domains are numbered  *)
(* in the order of the registry.                                           *)
(***************************************************************************)
EXTENDS Naturals, FiniteSetsExt

CONSTANTS
  NDomains,   (* domains of the registry                                     *)
  Words,      (* terms and aliases                                           *)
  Concepts,   (* nodes of the graph of a domain                              *)
  MaxDepth,   (* bound: the depth of a query                                 *)
  NoFile, Cut

VARIABLES
  glossary,   (* domain -> what each word is in its glossary               *)
  tableFile,  (* glossary_table.json                                       *)
  graphFile,  (* concept_graph.json                                        *)
  index,      (* [table, graph] of the server                              *)
  started,    (* the server has started                                    *)
  saving,     (* [by, step, index]: the save under way                     *)
  spoilt,     (* history: a save was cut short                             *)
  query       (* the last query of the graph, and what it found            *)

vars == <<glossary, tableFile, graphFile, index, started, saving, spoilt, query>>

DomainIds == 1..NDomains
Indexes == SUBSET DomainIds
NoSave == [by |-> "nobody", step |-> "done", index |-> {}]
NoQuery == [edges |-> {}, nodes |-> {}, from |-> NoFile, depth |-> 0, found |-> {}]

TypeOK ==
  /\ glossary \in [DomainIds -> [Words -> {"no", "term", "alias"}]]
  /\ tableFile \in Indexes \cup {NoFile, Cut} /\ graphFile \in Indexes \cup {NoFile, Cut}
  /\ index \in [table: Indexes, graph: Indexes]
  /\ started \in BOOLEAN /\ spoilt \in BOOLEAN
  /\ saving \in [by: {"nobody", "server", "daemon"}, index: Indexes,
                 step: {"done", "table", "in table", "graph", "in graph"}]
  /\ query.found \subseteq Concepts

(* --- Pure parts ---------------------------------------------------------------- *)

(* _index_glossary: a word that several domains have goes to the last one,  *)
(* and only a term has a node.                                              *)
Owners(built, w) == {d \in built : glossary[d][w] # "no"}
Route(built) == [w \in {v \in Words : Owners(built, v) # {}} |-> Max(Owners(built, w))]
TermNodes(built) == {n \in built \X Words : glossary[n[1]][n[2]] = "term"}

(* get_related: hop by hop, what was not visited and is not the start; what *)
(* has no node of its own is passed through, and not returned.              *)
Related(edges, nodes, from, depth) ==
  LET Search[k \in 0..depth] ==
        IF k = 0 THEN [visited |-> {}, frontier |-> {from}]
        ELSE LET last == Search[k - 1]
                 next == {e[2] : e \in {e \in edges : /\ e[1] \in last.frontier
                                                      /\ e[2] \notin last.visited /\ e[2] # from}}
             IN [visited |-> last.visited \cup next, frontier |-> next]
  IN Search[depth].visited \cap nodes

(* ---- Actions -------------------------------------------------------------------- *)

(* The server starts: it loads both files, or, without them, builds from    *)
(* the domains whose context can be loaded, and saves if there is one. A    *)
(* file that does not parse keeps it from starting.                         *)
Start(loadable) ==
  IF NoFile \in {tableFile, graphFile}
  THEN /\ index' = [table |-> loadable, graph |-> loadable]
       /\ saving' = IF loadable = {} THEN NoSave ELSE [by |-> "server", step |-> "table", index |-> loadable]
       /\ started' = (loadable = {})
  ELSE /\ index' = IF Cut \in {tableFile, graphFile} THEN [table |-> {}, graph |-> {}]
                   ELSE [table |-> tableFile, graph |-> graphFile]
       /\ saving' = NoSave
       /\ started' = (Cut \notin {tableFile, graphFile})

Init ==
  /\ glossary \in [DomainIds -> [Words -> {"no", "term", "alias"}]]
  /\ tableFile = NoFile /\ graphFile = NoFile
  /\ index = [table |-> DomainIds, graph |-> DomainIds]
  /\ saving = [by |-> "server", step |-> "table", index |-> DomainIds]
  /\ started = FALSE /\ spoilt = FALSE
  /\ query = NoQuery

Restart ==
  /\ \E loadable \in Indexes : Start(loadable)
  /\ spoilt' = (spoilt \/ saving.step \in {"in table", "graph", "in graph"})
  /\ query' = NoQuery
  /\ UNCHANGED <<glossary, tableFile, graphFile>>

(* knowledge_graph_rebuild.                                                 *)
StartRun ==
  /\ started /\ saving = NoSave
  /\ saving' = [by |-> "daemon", step |-> "table", index |-> {}]
  /\ UNCHANGED <<glossary, tableFile, graphFile, index, started, spoilt, query>>

(* save: each file is opened, which empties it, and written.                *)
OpenFile ==
  /\ \/ /\ saving.step = "table"
        /\ tableFile' = Cut
        /\ saving' = [saving EXCEPT !.step = "in table"]
        /\ UNCHANGED graphFile
     \/ /\ saving.step = "graph"
        /\ graphFile' = Cut
        /\ saving' = [saving EXCEPT !.step = "in graph"]
        /\ UNCHANGED tableFile
  /\ UNCHANGED <<glossary, index, started, spoilt, query>>

WriteFile ==
  /\ \/ /\ saving.step = "in table"
        /\ tableFile' = saving.index
        /\ saving' = [saving EXCEPT !.step = "graph"]
        /\ UNCHANGED <<graphFile, started>>
     \/ /\ saving.step = "in graph"
        /\ graphFile' = saving.index
        /\ saving' = NoSave
        /\ started' = TRUE
        /\ UNCHANGED tableFile
  /\ UNCHANGED <<glossary, index, spoilt, query>>

(* A write fails: the run of the daemon with it, the start of the server    *)
(* goes on with the index it has built.                                     *)
WriteFails ==
  /\ saving.step \in {"in table", "in graph"}
  /\ saving' = NoSave
  /\ started' = TRUE
  /\ spoilt' = TRUE
  /\ UNCHANGED <<glossary, tableFile, graphFile, index, query>>

(* A query of any graph.                                                    *)
get_related(edges, nodes, from, depth) ==
  /\ query' = [edges |-> edges, nodes |-> nodes, from |-> from, depth |-> depth,
               found |-> Related(edges, nodes, from, depth)]
  /\ UNCHANGED <<glossary, tableFile, graphFile, index, started, saving, spoilt>>

Keep == StartRun \/ OpenFile \/ WriteFile \/ WriteFails

Ask ==
  /\ query = NoQuery
  /\ \E edges \in SUBSET (Concepts \X Concepts), nodes \in SUBSET Concepts, from \in Concepts, depth \in 0..MaxDepth :
       get_related(edges, nodes, from, depth)

Next == Keep \/ Ask

Spec == Init /\ [][Next \/ Restart]_vars

(* ---- Properties -------------------------------------------------------------------- *)

(* The references that ground a turn (retrieve_grounding): a word is taken  *)
(* for a node of the domain it is routed to.                                *)
References(words) == {<<Route(index.table)[w], w>> : w \in words \cap DOMAIN Route(index.table)}

(* A reference is a node of the graph, or is an alias, whatever was cut     *)
(* short between the two files.                                             *)
ReferencesExist ==
  started => \A r \in References(Words) : glossary[r[1]][r[2]] = "alias" \/ r \in TermNodes(index.graph)

(* The server fails to start only after a save of the index was cut short.  *)
StartsUnlessCut == ~started /\ saving = NoSave => spoilt

(* The table and the graph of the server are of one build, unless a save    *)
(* was cut short.                                                           *)
OneBuild == started /\ ~spoilt => index.table = index.graph

(* A query finds the nodes that are at most that many edges away.           *)
FindsWithinDepth ==
  LET Away[k \in 0..query.depth] ==
        IF k = 0 THEN {query.from} ELSE Away[k - 1] \cup {e[2] : e \in {e \in query.edges : e[1] \in Away[k - 1]}}
  IN query.found = (query.nodes \cap Away[query.depth]) \ {query.from}
=============================================================================
