------------------------------- MODULE Persistence -------------------------------
(***************************************************************************)
(* The two persistence backends: the log records with the commit guard,    *)
(* and documents that are saved whole.                                     *)
(*                                                                         *)
(* An endpoint under requires_log_commit changes its state and appends up  *)
(* to two records, from the event loop or from a thread. On the event loop *)
(* the SQLite backend only schedules the insert; ids are UNIQUE there, and *)
(* a later version of a record keeps its id.                               *)
(*                                                                         *)
(* A profile, module state or session state is loaded, changed and saved   *)
(* whole by threads that take no lock. A file is written to a temporary    *)
(* name all its savers share, and renamed over the old one; the SQLite     *)
(* backend upserts a row.                                                  *)
(***************************************************************************)
EXTENDS Naturals, Sequences, SequencesExt, FiniteSets

CONSTANTS
  Ids,         (* record ids                                               *)
  Endpoints,   (* requests that append records                             *)
  MaxVersions, (* bound on the versions of a record                        *)
  Savers,      (* threads that save the document                           *)
  Mixed,       (* content of a file two savers wrote at once               *)
  NoFile,      (* no such file, or no such row                             *)
  MaxSaves     (* bound on the documents saved                             *)

VARIABLES
  backend,     (* "filesystem" or "sqlite"                                 *)
  rows,        (* the records stored, in order                             *)
  tasks,       (* inserts the event loop has still to run                  *)
  endpoint,    (* the requests being served, with their commit signal      *)
  answered,    (* auxiliary: the appends of each request that answered     *)
  issued,      (* auxiliary: versions of the records so far                *)
  document,    (* the document: the savers whose change it holds           *)
  partial,     (* the temporary file                                       *)
  saver,       (* where each saver is                                      *)
  kept,        (* auxiliary: savers that saved, since the last deletion    *)
  saves,       (* auxiliary: documents saved so far                        *)
  crossed      (* auxiliary: a save began before another had finished      *)

recordVars == <<rows, tasks, endpoint, answered, issued>>
documentVars == <<document, partial, saver, kept, saves, crossed>>
vars == <<backend, recordVars, documentVars>>

Record == [id: Ids, version: Nat]
Place == {"loop", "thread"}
(* swallows: the endpoint appends under `except Exception'.                 *)
NoCall == [pc |-> "idle", place |-> "loop", swallows |-> FALSE, satisfied |-> FALSE, appended |-> {}]
NoSave == [pc |-> "idle", copy |-> {}, inode |-> "none"]

TypeOK ==
  /\ backend \in {"filesystem", "sqlite"}
  /\ rows \in Seq(Record) /\ tasks \subseteq Record
  /\ endpoint \in [Endpoints -> [pc: {"idle", "changed", "appended"}, place: Place, swallows: BOOLEAN, satisfied: BOOLEAN,
                                 appended: SUBSET Record]]
  /\ answered \subseteq [place: Place, appended: SUBSET Record]
  /\ issued \in [Ids -> Nat]
  /\ document \in (SUBSET Savers) \cup {Mixed, NoFile}
  /\ partial \in (SUBSET Savers) \cup {Mixed, NoFile}
  /\ saver \in [Savers -> [pc: {"idle", "loaded", "opened", "dumped"}, copy: SUBSET Savers, inode: {"none", "partial", "document", "gone"}]]
  /\ kept \subseteq Savers
  /\ saves \in Nat /\ crossed \in BOOLEAN

Init ==
  /\ backend \in {"filesystem", "sqlite"}
  /\ rows = << >> /\ tasks = {} /\ answered = {}
  /\ endpoint = [e \in Endpoints |-> NoCall]
  /\ issued = [i \in Ids |-> 0]
  /\ document = NoFile /\ partial = NoFile
  /\ saver = [s \in Savers |-> NoSave]
  /\ kept = {} /\ saves = 0 /\ crossed = FALSE

(* --- Records and the commit guard ---------------------------------------- *)

Stored(rec) == rec \in ToSet(rows)
IdIsTaken(rec) == \E row \in ToSet(rows) : row.id = rec.id

(* requires_log_commit sets a fresh signal; the endpoint changes its state. *)
requires_log_commit(e, place, swallows) ==
  /\ endpoint[e].pc = "idle"
  /\ endpoint' = [endpoint EXCEPT ![e] = [NoCall EXCEPT !.pc = "changed", !.place = place, !.swallows = swallows]]
  /\ UNCHANGED <<backend, rows, tasks, answered, issued>>

notify_log_commit(e, rec) ==
  endpoint' = [endpoint EXCEPT ![e].satisfied = TRUE, ![e].pc = "appended", ![e].appended = @ \cup {rec}]

(* An append that raised: swallowed, or the request ends with an error.     *)
AppendFailed(e, rec) ==
  /\ endpoint' = [endpoint EXCEPT ![e] = IF @.swallows THEN [@ EXCEPT !.pc = "appended", !.appended = @ \cup {rec}] ELSE NoCall]
  /\ UNCHANGED <<rows, tasks>>

FilesystemAppend(e, rec) ==
  /\ backend = "filesystem"
  /\ \/ rows' = Append(rows, rec) /\ notify_log_commit(e, rec) /\ UNCHANGED tasks
     \/ AppendFailed(e, rec)

SQLiteAppend(e, rec) ==
  /\ backend = "sqlite"
  /\ IF endpoint[e].place = "loop"
     THEN tasks' = tasks \cup {rec} /\ notify_log_commit(e, rec) /\ UNCHANGED rows
     ELSE \/ AppendFailed(e, rec)
          \/ ~IdIsTaken(rec) /\ rows' = Append(rows, rec) /\ notify_log_commit(e, rec) /\ UNCHANGED tasks

append_log_record(e, i) ==
  LET rec == [id |-> i, version |-> issued[i] + 1] IN
  /\ endpoint[e].pc # "idle" /\ Cardinality(endpoint[e].appended) < 2
  /\ issued[i] < MaxVersions
  /\ issued' = [issued EXCEPT ![i] = @ + 1]
  /\ FilesystemAppend(e, rec) \/ SQLiteAppend(e, rec)
  /\ UNCHANGED <<backend, answered>>

(* _append_log_record_async as a task: nobody sees it fail.                 *)
RunInsert(rec) ==
  /\ rec \in tasks
  /\ tasks' = tasks \ {rec}
  /\ rows' = IF IdIsTaken(rec) THEN rows ELSE Append(rows, rec)
  /\ UNCHANGED <<backend, endpoint, answered, issued>>

ReturnResult_unguarded(e) ==
  /\ endpoint[e].pc # "idle"
  /\ answered' = answered \cup {[place |-> endpoint[e].place, appended |-> endpoint[e].appended]}
  /\ endpoint' = [endpoint EXCEPT ![e] = NoCall]
  /\ UNCHANGED <<backend, rows, tasks, issued>>

(* The wrapper: LogCommitMissing unless the signal was satisfied.           *)
ReturnResult(e) ==
  /\ endpoint[e].pc # "idle"
  /\ answered' = IF endpoint[e].satisfied THEN answered \cup {[place |-> endpoint[e].place, appended |-> endpoint[e].appended]}
                 ELSE answered
  /\ endpoint' = [endpoint EXCEPT ![e] = NoCall]
  /\ UNCHANGED <<backend, rows, tasks, issued>>

(* query_escalations: SQLite lists the newest first, and of the rows of one *)
(* id both backends keep the last listed.                                   *)
Shown(i) ==
  LET listed == SelectSeq(IF backend = "sqlite" THEN Reverse(rows) ELSE rows, LAMBDA row : row.id = i)
  IN  IF listed = << >> THEN 0 ELSE listed[Len(listed)].version

(* --- Documents ------------------------------------------------------------ *)

Saving(s) == saver[s].pc # "idle"

(* load_profile and its like; a document that does not parse raises.        *)
Load(s) ==
  /\ ~Saving(s) /\ saves < MaxSaves /\ document # Mixed
  /\ saver' = [saver EXCEPT ![s] = [NoSave EXCEPT !.pc = "loaded", !.copy = (IF document = NoFile THEN {} ELSE document) \cup {s}]]
  /\ saves' = saves + 1
  /\ crossed' = (crossed \/ \E o \in Savers \ {s} : Saving(o))
  /\ UNCHANGED <<backend, document, partial, kept>>

(* One upsert.                                                              *)
Upsert(s) ==
  /\ backend = "sqlite" /\ saver[s].pc = "loaded"
  /\ document' = saver[s].copy
  /\ kept' = kept \cup {s}
  /\ saver' = [saver EXCEPT ![s] = NoSave]
  /\ UNCHANGED <<backend, partial, saves, crossed>>

OpenPartial(s) ==
  /\ backend = "filesystem" /\ saver[s].pc = "loaded"
  /\ partial' = Mixed
  /\ saver' = [saver EXCEPT ![s].pc = "opened", ![s].inode = "partial"]
  /\ UNCHANGED <<backend, document, kept, saves, crossed>>

(* The write goes to the file that was opened, even when another saver has  *)
(* renamed it meanwhile.                                                    *)
DumpPartial(s) ==
  /\ saver[s].pc = "opened"
  /\ LET Written(old) == {saver[s].copy} \cup (IF old = Mixed THEN {} ELSE {Mixed}) IN
     CASE saver[s].inode = "partial"  -> partial' \in Written(partial) /\ UNCHANGED document
       [] saver[s].inode = "document" -> document' \in Written(document) /\ UNCHANGED partial
       [] saver[s].inode = "gone"     -> UNCHANGED <<document, partial>>
  /\ saver' = [saver EXCEPT ![s].pc = "dumped"]
  /\ UNCHANGED <<backend, kept, saves, crossed>>

Lost(o) == [o EXCEPT !.inode = IF @ = "document" THEN "gone" ELSE @]
Renamed(o) == [o EXCEPT !.inode = CASE @ = "partial" -> "document" [] @ = "document" -> "gone" [] OTHER -> @]

(* FileNotFoundError when another saver has renamed the temporary file.     *)
RenamePartial(s) ==
  /\ saver[s].pc = "dumped"
  /\ IF partial = NoFile
     THEN saver' = [saver EXCEPT ![s] = NoSave] /\ UNCHANGED <<document, partial, kept>>
     ELSE /\ document' = partial /\ partial' = NoFile
          /\ kept' = kept \cup {s}
          /\ saver' = [o \in Savers |-> IF o = s THEN NoSave ELSE Renamed(saver[o])]
  /\ UNCHANGED <<backend, saves, crossed>>

(* delete_profile and delete_module_state.                                  *)
Delete ==
  /\ document # NoFile
  /\ document' = NoFile /\ kept' = {}
  /\ saver' = [s \in Savers |-> Lost(saver[s])]
  /\ crossed' = (crossed \/ \E s \in Savers : Saving(s))
  /\ UNCHANGED <<backend, partial, saves>>

(* Scheduled inserts are lost with the process, and so are saves under way. *)
Restart ==
  /\ tasks' = {}
  /\ endpoint' = [e \in Endpoints |-> NoCall]
  /\ saver' = [s \in Savers |-> NoSave]
  /\ UNCHANGED <<backend, rows, answered, issued, document, partial, kept, saves, crossed>>

(* What moves the records, and what moves the document.                     *)
Serve ==
  \/ \E e \in Endpoints :
       \/ \E place \in Place, swallows \in BOOLEAN : requires_log_commit(e, place, swallows)
       \/ \E i \in Ids : append_log_record(e, i)
       \/ ReturnResult(e)
  \/ \E rec \in tasks : RunInsert(rec)

Save ==
  \/ \E s \in Savers : Load(s) \/ Upsert(s) \/ OpenPartial(s) \/ DumpPartial(s) \/ RenamePartial(s)
  \/ Delete

Next == (Serve /\ UNCHANGED documentVars) \/ (Save /\ UNCHANGED recordVars)

Spec == Init /\ [][Next \/ Restart]_vars

(* ---- Properties ---------------------------------------------------------- *)

(* A guarded endpoint that answered has left a record, although it swallows *)
(* failed appends and another append may have satisfied the guard. With     *)
(* SQLite this is not so for an endpoint that appended on the event loop.   *)
AnsweredIsWritten ==
  \A a \in answered : (backend = "sqlite" /\ a.place = "loop") \/ \E rec \in a.appended : Stored(rec)

(* What an escalation is shown as is the last version that was stored, for  *)
(* either backend: listing the newest first would show the first version,   *)
(* were it not that SQLite stores no other.                                 *)
LatestIsShown ==
  \A i \in Ids : \A row \in ToSet(rows) : row.id = i => row.version <= Shown(i)

(* A document changed by one saver after the other always parses and holds  *)
(* the changes of all of them, whatever crashes leave in the temporary      *)
(* file; it takes overlapping saves to lose one.                            *)
DocumentIsWhole ==
  ~crossed => document # Mixed /\ kept \subseteq (IF document = NoFile THEN {} ELSE document)
=============================================================================
