-------------------------------- MODULE Retrieval --------------------------------
(***************************************************************************)
(* The vector stores behind retrieval: one for each pack and one for the   *)
(* rest. On disk a store is two files, the vectors and the chunks that they *)
(* stand for, written in place one after the other; in the memory of the   *)
(* server it is two lists that a search takes as parallel. The stores are  *)
(* loaded when the server starts, built then if one is missing, loaded by a *)
(* turn that finds its store empty, and built again in the night with      *)
(* stores of the night's own. A store's content is the sequence of texts   *)
(* of the documents it was built from.                                     *)
(***************************************************************************)
EXTENDS Naturals, Sequences, FiniteSets

CONSTANTS
  Stores,      (* the packs and _global                                       *)
  Registered,  (* the domains of the registry, which are packs                *)
  Editions,    (* sequences of texts that the documents of a pack may have    *)
  Turns,       (* threads in which turns search                               *)
  Missing,     (* a file that is not there                                    *)
  Garbled,     (* one that was cut while it was written                       *)
  NoRegistry,  (* no vector registry is set in the server                     *)
  NoStore,
  MaxChanges   (* bound: changes of documents                                 *)

VARIABLES
  documents,  (* store -> the texts of its documents                       *)
  changes,    (* changes of documents                                      *)
  vectors,    (* store -> vectors.npz                                      *)
  chunks,     (* store -> metadata.json                                    *)
  registry,   (* store -> [vectors, chunks] in the server                  *)
  loading,    (* turn -> the store of which it has loaded the vectors      *)
  rebuild,    (* [by, left, store, step, texts]: what builds stores        *)
  built,      (* history: store -> texts its files are to have             *)
  cut,        (* history: stores of which a save was cut short             *)
  crossed     (* history: stores that were loaded while they were saved,   *)
              (*          or after their save was cut                      *)

vars == <<documents, changes, vectors, chunks, registry, loading, rebuild, built, cut, crossed>>

NoRebuild == [by |-> "nobody", left |-> {}, store |-> NoStore, step |-> "next", texts |-> <<>>]

Empty == [vectors |-> <<>>, chunks |-> <<>>]

StoreFiles == Editions \cup {Missing, Garbled}
Registry == [Stores -> [vectors: Editions, chunks: Editions]]
Rebuild ==
  [by: {"nobody", "server", "night"}, left: SUBSET Stores, store: Stores \cup {NoStore},
   step: {"next", "vectors", "open", "between", "chunks"}, texts: Editions]

(* A pack may have no text; what stands for nothing is none of the things.  *)
RetrievalAssumption ==
  /\ <<>> \in Editions /\ {Missing, Garbled} \cap Editions = {} /\ Missing # Garbled
  /\ NoStore \notin Stores /\ NoRegistry \notin Registry
  /\ MaxChanges \in Nat

TypeOK ==
  /\ documents \in [Stores -> Editions] /\ changes \in 0..MaxChanges
  /\ vectors \in [Stores -> StoreFiles] /\ chunks \in [Stores -> StoreFiles]
  /\ registry = NoRegistry \/ registry \in Registry
  /\ loading \in [Turns -> Stores \cup {NoStore}]
  /\ rebuild \in Rebuild
  /\ cut \subseteq Stores /\ crossed \subseteq Stores

Serving == rebuild.by # "server"

(* A save of s is somewhere between its first and its last write.           *)
InSave(s) == rebuild.store = s /\ rebuild.step # "vectors"

(* --- Start of the server ------------------------------------------------------ *)

Exists(s) == vectors[s] # Missing

(* load: nothing without both files; what does not parse raises.            *)
Unreadable(s) == chunks[s] # Missing /\ Garbled \in {vectors[s], chunks[s]}

Loaded(s) == IF Missing \in {vectors[s], chunks[s]} THEN Empty ELSE [vectors |-> vectors[s], chunks |-> chunks[s]]

(* load_all: one store that cannot be read leaves the server without any;   *)
(* otherwise, all are built if a registered domain has none.                *)
StartServer ==
  IF \E s \in Stores : Exists(s) /\ Unreadable(s)
  THEN /\ registry' = NoRegistry
       /\ rebuild' = NoRebuild
       /\ crossed' = {}
  ELSE /\ registry' = [s \in Stores |-> Loaded(s)]
       /\ rebuild' = IF \E s \in Registered : ~Exists(s)
                     THEN [NoRebuild EXCEPT !.by = "server", !.left = Stores] ELSE NoRebuild
       /\ crossed' = {s \in Stores : s \in cut \/ InSave(s)}

Init ==
  /\ documents \in [Stores -> Editions] /\ changes = 0
  /\ vectors = [s \in Stores |-> Missing]
  /\ chunks = [s \in Stores |-> Missing]
  /\ registry = [s \in Stores |-> Empty]
  /\ loading = [t \in Turns |-> NoStore]
  /\ rebuild = [NoRebuild EXCEPT !.by = "server", !.left = Stores]
  /\ built = [s \in Stores |-> Missing]
  /\ cut = {} /\ crossed = {}

(* The process stops, and starts again.                                     *)
Restart ==
  /\ cut' = IF \E s \in Stores : InSave(s) THEN cut \cup {rebuild.store} ELSE cut
  /\ StartServer
  /\ loading' = [t \in Turns |-> NoStore]
  /\ UNCHANGED <<documents, changes, vectors, chunks, built>>

(* --- Building stores ------------------------------------------------------------ *)

(* trigger_async: a run of the scheduler ends with the full reindex.        *)
StartNight ==
  /\ rebuild = NoRebuild
  /\ rebuild' = [NoRebuild EXCEPT !.by = "night", !.left = Stores]
  /\ UNCHANGED <<documents, changes, vectors, chunks, registry, loading, built, cut, crossed>>

(* rebuild_domain_index: the store is cleared in memory, and the documents  *)
(* are read and embedded. Without any text nothing is saved.                *)
Fill(s, content) ==
  registry' = IF rebuild.by = "server" THEN [registry EXCEPT ![s] = content] ELSE registry

Read(s) ==
  /\ rebuild.by # "nobody" /\ rebuild.step = "next" /\ s \in rebuild.left
  /\ rebuild' = IF documents[s] = <<>> THEN [rebuild EXCEPT !.left = @ \ {s}]
                ELSE [rebuild EXCEPT !.step = "vectors", !.store = s, !.texts = documents[s]]
  /\ Fill(s, [vectors |-> documents[s], chunks |-> documents[s]])
  /\ UNCHANGED <<documents, changes, vectors, chunks, loading, built, cut, crossed>>

(* The embedder fails: so does the whole run, with this store cleared.      *)
EmbedFails(s) ==
  /\ rebuild.by # "nobody" /\ rebuild.step = "next" /\ s \in rebuild.left
  /\ documents[s] # <<>>
  /\ rebuild' = NoRebuild
  /\ Fill(s, Empty)
  /\ UNCHANGED <<documents, changes, vectors, chunks, loading, built, cut, crossed>>

(* save: vectors.npz is opened, written and closed, and then metadata.json. *)
At(step) == rebuild.step = step

OpenVectors ==
  /\ At("vectors")
  /\ vectors' = [vectors EXCEPT ![rebuild.store] = Garbled]
  /\ rebuild' = [rebuild EXCEPT !.step = "open"]
  /\ built' = [built EXCEPT ![rebuild.store] = rebuild.texts]
  /\ UNCHANGED <<documents, changes, chunks, registry, loading, cut, crossed>>

CloseVectors ==
  /\ At("open")
  /\ vectors' = [vectors EXCEPT ![rebuild.store] = rebuild.texts]
  /\ rebuild' = [rebuild EXCEPT !.step = "between"]
  /\ UNCHANGED <<documents, changes, chunks, registry, loading, built, cut, crossed>>

OpenChunks ==
  /\ At("between")
  /\ chunks' = [chunks EXCEPT ![rebuild.store] = Garbled]
  /\ rebuild' = [rebuild EXCEPT !.step = "chunks"]
  /\ UNCHANGED <<documents, changes, vectors, registry, loading, built, cut, crossed>>

CloseChunks ==
  /\ At("chunks")
  /\ chunks' = [chunks EXCEPT ![rebuild.store] = rebuild.texts]
  /\ rebuild' = [rebuild EXCEPT !.step = "next", !.left = @ \ {rebuild.store}, !.store = NoStore, !.texts = <<>>]
  /\ cut' = cut \ {rebuild.store}
  /\ UNCHANGED <<documents, changes, vectors, registry, loading, built, crossed>>

(* A write fails, and with it the run.                                      *)
SaveFails ==
  /\ rebuild.step \in {"open", "chunks"}
  /\ rebuild' = NoRebuild
  /\ cut' = cut \cup {rebuild.store}
  /\ UNCHANGED <<documents, changes, vectors, chunks, registry, loading, built, crossed>>

EndRun ==
  /\ rebuild.by # "nobody" /\ rebuild.step = "next" /\ rebuild.left = {}
  /\ rebuild' = NoRebuild
  /\ UNCHANGED <<documents, changes, vectors, chunks, registry, loading, built, cut, crossed>>

(* --- Searching --------------------------------------------------------------------- *)

(* search_domain: a store that is empty in memory is loaded first, in two   *)
(* reads; what cannot be read raises, and the turn goes on without hits.    *)
LoadVectors(t, s) ==
  /\ Serving /\ registry # NoRegistry /\ loading[t] = NoStore
  /\ registry[s].chunks = <<>>
  /\ Missing \notin {vectors[s], chunks[s]} /\ vectors[s] # Garbled
  /\ registry' = [registry EXCEPT ![s].vectors = vectors[s]]
  /\ loading' = [loading EXCEPT ![t] = s]
  /\ crossed' = IF s \in cut \/ InSave(s) THEN crossed \cup {s} ELSE crossed
  /\ UNCHANGED <<documents, changes, vectors, chunks, rebuild, built, cut>>

LoadChunks(t) ==
  /\ loading[t] # NoStore
  /\ LET s == loading[t]
     IN /\ registry' = IF chunks[s] = Garbled THEN registry ELSE [registry EXCEPT ![s].chunks = chunks[s]]
        /\ crossed' = IF s \in cut \/ InSave(s) \/ vectors[s] # registry[s].vectors
                      THEN crossed \cup {s} ELSE crossed
  /\ loading' = [loading EXCEPT ![t] = NoStore]
  /\ UNCHANGED <<documents, changes, vectors, chunks, rebuild, built, cut>>

(* The documents of a pack are changed, by a deployment or an ingestion.    *)
Change(s, texts) ==
  /\ changes < MaxChanges
  /\ texts # documents[s]
  /\ documents' = [documents EXCEPT ![s] = texts]
  /\ changes' = changes + 1
  /\ UNCHANGED <<vectors, chunks, registry, loading, rebuild, built, cut, crossed>>

Next ==
  \/ StartNight \/ OpenVectors \/ CloseVectors \/ OpenChunks \/ CloseChunks \/ SaveFails \/ EndRun
  \/ \E s \in Stores :
       \/ Read(s) \/ EmbedFails(s)
       \/ \E t \in Turns : LoadVectors(t, s)
       \/ \E texts \in Editions : Change(s, texts)
  \/ \E t \in Turns : LoadChunks(t)

Spec == Init /\ [][Next \/ Restart]_vars

(* ---- Properties ------------------------------------------------------------------------ *)

(* What a search of the server returns, with the vector it was scored by:   *)
(* it pairs the lists by their places, and raises on a chunk without one.   *)
Hits(s) ==
  LET store == registry[s]
  IN IF store.vectors = <<>> \/ Len(store.chunks) > Len(store.vectors) THEN {}
     ELSE {<<store.vectors[i], store.chunks[i]>> : i \in DOMAIN store.chunks}

(* A search ranks each text by its own vector, unless the store was loaded  *)
(* while it was saved, or after a save of it that was cut short.            *)
HitsAreTrue ==
  Serving /\ registry # NoRegistry =>
    \A s \in Stores \ crossed : \A hit \in Hits(s) : hit[1] = hit[2]

(* Whenever no save is under way the files of a store belong together, and  *)
(* are what it was last built from, unless that save was cut short.         *)
FilesAgree ==
  \A s \in Stores : ~InSave(s) /\ s \notin cut => vectors[s] = built[s] /\ chunks[s] = built[s]

(* The server is without retrieval only after a save was cut short; and the *)
(* next run that ends repairs the files, not the server.                    *)
OnlyCutDisables == registry # NoRegistry /\ registry' = NoRegistry => cut' # {}
=============================================================================
