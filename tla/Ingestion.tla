-------------------------------- MODULE Ingestion --------------------------------
(***************************************************************************)
(* Documents that are uploaded, interpreted, reviewed and committed to the *)
(* System Log. The records are kept in memory. Reviews run on the event    *)
(* loop in one piece, as do commits, but extractions run in threads of the *)
(* pool, which change a record whatever the loop is doing to it.           *)
(***************************************************************************)
EXTENDS Naturals

CONSTANTS
  Documents,     (* ingestion ids, uuids: never used twice                 *)
  Extractors,    (* threads that extract                                   *)
  NoDocument,    (* nothing is being extracted or committed                *)
  MaxVersions    (* interpretations made in one behaviour                  *)

IngestionAssumption == MaxVersions \in Nat

VARIABLES
  status,        (* status of a document's record; "none" before there is  *)
                 (* one, "lost" when a restart has lost it                 *)
  interps,       (* the interpretations in its record, by number           *)
  selected,      (* selected_interpretation_id, 0 for None                 *)
  decision,      (* review_decision                                        *)
  extractor,     (* the document each thread extracts, and whether it has  *)
                 (* set the interpretations                                *)
  commit,        (* the commit the loop is in, and what it has picked      *)
  versions,      (* number of interpretations made so far                  *)
  ledger,        (* the commitment records, <<document, interpretation>>   *)
  approved       (* auxiliary: what reviews have approved, likewise        *)

vars == <<status, interps, selected, decision, extractor, commit, versions, ledger, approved>>

NoCommit == [document |-> NoDocument, pick |-> 0]
Free == [document |-> NoDocument, interpreted |-> FALSE]
Version == 1..MaxVersions

TypeOK ==
  /\ status \in [Documents -> {"none", "lost", "pending_extraction", "extracting", "extraction_complete",
                               "approved", "rejected", "committed"}]
  /\ interps \in [Documents -> SUBSET Version]
  /\ selected \in [Documents -> Version \cup {0}]
  /\ decision \in [Documents -> {"none", "approve", "edit", "reject"}]
  /\ extractor \in [Extractors -> [document: Documents \cup {NoDocument}, interpreted: BOOLEAN]]
  /\ commit \in [document: Documents \cup {NoDocument}, pick: Version \cup {0}]
  /\ versions \in 0..MaxVersions
  /\ ledger \subseteq Documents \X Version /\ approved \subseteq Documents \X Version

Init ==
  /\ status = [d \in Documents |-> "none"]
  /\ interps = [d \in Documents |-> {}]
  /\ selected = [d \in Documents |-> 0]
  /\ decision = [d \in Documents |-> "none"]
  /\ extractor = [x \in Extractors |-> Free]
  /\ commit = NoCommit
  /\ versions = 0
  /\ ledger = {} /\ approved = {}

LoopIsFree == commit = NoCommit
Exists(d) == status[d] \notin {"none", "lost"}
Status(d, new) == status' = [status EXCEPT ![d] = new]

accept_document(d) ==
  /\ LoopIsFree /\ status[d] = "none"
  /\ Status(d, "pending_extraction")
  /\ UNCHANGED <<interps, selected, decision, extractor, commit, versions, ledger, approved>>

(* --- extract_interpretations, in a thread -------------------------------- *)

(* No status is refused: a document may be extracted again at any time.     *)
ExtractStart(x, d) ==
  /\ extractor[x] = Free /\ Exists(d)
  /\ extractor' = [extractor EXCEPT ![x].document = d]
  /\ Status(d, "extracting")
  /\ UNCHANGED <<interps, selected, decision, commit, versions, ledger, approved>>

(* The interpretations are replaced before the status is.                   *)
ExtractInterpretations(x) ==
  LET d == extractor[x].document IN
  /\ d # NoDocument /\ ~extractor[x].interpreted /\ versions < MaxVersions
  /\ versions' = versions + 1
  /\ interps' = [interps EXCEPT ![d] = {versions + 1}]
  /\ extractor' = [extractor EXCEPT ![x].interpreted = TRUE]
  /\ UNCHANGED <<status, selected, decision, commit, ledger, approved>>

ExtractComplete(x) ==
  /\ extractor[x].interpreted
  /\ Status(extractor[x].document, "extraction_complete")
  /\ extractor' = [extractor EXCEPT ![x] = Free]
  /\ UNCHANGED <<interps, selected, decision, commit, versions, ledger, approved>>

(* extract_text or the model raises: the record stays at "extracting".      *)
ExtractFails(x) ==
  /\ extractor[x].document # NoDocument /\ ~extractor[x].interpreted
  /\ extractor' = [extractor EXCEPT ![x] = Free]
  /\ UNCHANGED <<status, interps, selected, decision, commit, versions, ledger, approved>>

(* --- review_interpretation ------------------------------------------------ *)

Decide(d, what, selection) ==
  /\ LoopIsFree /\ Exists(d)
  /\ decision' = [decision EXCEPT ![d] = what]
  /\ selected' = [selected EXCEPT ![d] = selection]
  /\ Status(d, IF what = "reject" THEN "rejected" ELSE "approved")
  /\ approved' = IF what = "reject" \/ selection = 0 THEN approved ELSE approved \cup {<<d, selection>>}

(* The interpretation has to be in the record; its status does not matter.  *)
Approve(d, v) ==
  /\ v \in interps[d]
  /\ Decide(d, "approve", v)
  /\ UNCHANGED <<interps, extractor, commit, versions, ledger>>

(* An edit adds an interpretation. Without any edits, and in a rejection,   *)
(* the id of the request is taken as it is, whatever the record has.        *)
Edit(d) ==
  /\ \/ /\ versions < MaxVersions
        /\ versions' = versions + 1
        /\ interps' = [interps EXCEPT ![d] = @ \cup {versions + 1}]
        /\ Decide(d, "edit", versions + 1)
     \/ (\E v \in 0..versions : Decide(d, "edit", v)) /\ UNCHANGED <<versions, interps>>
  /\ UNCHANGED <<extractor, commit, ledger>>

Reject(d) ==
  /\ \E v \in 0..versions : Decide(d, "reject", v)
  /\ UNCHANGED <<interps, extractor, commit, versions, ledger>>

(* --- commit_ingestion ----------------------------------------------------- *)

(* 400 unless approved, with a selected interpretation that is still there. *)
CommitStart(d) ==
  /\ LoopIsFree
  /\ status[d] = "approved" /\ selected[d] \in interps[d]
  /\ commit' = [document |-> d, pick |-> selected[d]]
  /\ UNCHANGED <<status, interps, selected, decision, extractor, versions, ledger, approved>>

(* A failure to append the record is logged and swallowed.                  *)
CommitEnd ==
  /\ ~LoopIsFree
  /\ Status(commit.document, "committed")
  /\ ledger' \in {ledger, ledger \cup {<<commit.document, commit.pick>>}}
  /\ commit' = NoCommit
  /\ UNCHANGED <<interps, selected, decision, extractor, versions, approved>>

Restart ==
  /\ status' = [d \in Documents |-> IF Exists(d) THEN "lost" ELSE status[d]]
  /\ interps' = [d \in Documents |-> {}]
  /\ selected' = [d \in Documents |-> 0]
  /\ decision' = [d \in Documents |-> "none"]
  /\ extractor' = [x \in Extractors |-> Free]
  /\ commit' = NoCommit
  /\ UNCHANGED <<versions, ledger, approved>>

Next ==
  \/ \E d \in Documents : \/ accept_document(d) \/ Edit(d) \/ Reject(d) \/ CommitStart(d)
                          \/ \E v \in Version : Approve(d, v)
  \/ \E x \in Extractors : \/ ExtractInterpretations(x) \/ ExtractComplete(x) \/ ExtractFails(x)
                           \/ \E d \in Documents : ExtractStart(x, d)
  \/ CommitEnd

Spec == Init /\ [][Next \/ Restart]_vars

(* ---- Properties ---------------------------------------------------------- *)

(* Only an interpretation that a reviewer approved for that document, or    *)
(* edited, is committed, whatever extractions change meanwhile.             *)
CommittedWasReviewed == ledger \subseteq approved

(* What a commit records is the selection of the last review, and that was  *)
(* no rejection: neither an extraction nor a review can come in between.    *)
RecordsLastReview ==
  \A d \in Documents, v \in Version :
    <<d, v>> \in ledger' \ ledger => selected[d] = v /\ decision[d] \in {"approve", "edit"}
=============================================================================
