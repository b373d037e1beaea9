---------------------------- MODULE EscalationLedger ----------------------------
(***************************************************************************)
(* The escalation queue: EscalationRecords live in append-only ledger files *)
(* of three tiers, a decision on one appends a changed copy of it, and     *)
(* query_escalations rebuilds the queue by scanning the files in the order *)
(* of their tiers and names, sorting by timestamp (a stable sort) and      *)
(* keeping the last version of each record_id.                             *)
(*                                                                         *)
(* A handler of the event loop suspends while it queries and appends       *)
(* without suspending afterwards; turns append from other threads at any   *)
(* time.  A query is taken as one step, and so are taking the time of a    *)
(* record and appending it.                                                *)
(***************************************************************************)
EXTENDS Naturals, Sequences, FiniteSets

CONSTANTS
  Escalations,     (* the record_ids                                         *)
  origin,          (* who writes an escalation                               *)
  session_ledger,  (* rank, in scan order, of the system-tier ledger of the  *)
                   (* record's session_id                                    *)
  turn_ledger,     (* rank of the system-tier ledger of the session in which *)
                   (* it is written                                          *)
  admin_ledger,    (* rank of system/session-admin.jsonl                     *)
  domain_ledger,   (* rank of the domain tier's ledger                       *)
  page,            (* the default limit of query_escalations, 100            *)
  Requests,        (* the requests the event loop is serving                 *)
  MaxRecords       (* bound: versions of escalations in all ledgers          *)

ASSUME LedgerAssumption ==
  /\ origin \in [Escalations -> {"chat", "staged", "journal", "precedent"}]
  /\ session_ledger \in [Escalations -> Nat]
  /\ turn_ledger \in [Escalations -> Nat]
  /\ \A e \in Escalations : origin[e] = "journal" => session_ledger[e] = turn_ledger[e]
  /\ admin_ledger \in Nat /\ domain_ledger \in Nat
  /\ page \in Nat /\ MaxRecords \in Nat

VARIABLES
  written,    (* the EscalationRecords of all ledgers, in the order of writing *)
  committed,  (* escalations with a CommitmentRecord of their resolution       *)
  settled,    (* escalations a handler has answered to be resolved             *)
  decided,    (* staged commands the gate has no open entry of                 *)
  req         (* what each request holds of the queue it has read              *)

vars == <<written, committed, settled, decided, req>>

Status == {"open", "pending", "resolved", "expired"}
Closed == {"resolved", "expired"}

(* A version: its ledger and timestamp, and the ledger of its session_id.  *)
Version == [id: Escalations, status: Status, ts: Nat, ledger: Nat, session: Nat]

(* The ledger each writer appends to, and the status it starts with.       *)
home == [e \in Escalations |->
  IF origin[e] = "chat" THEN domain_ledger
  ELSE IF origin[e] = "staged" THEN admin_ledger ELSE turn_ledger[e]]

initial(e) == IF origin[e] = "chat" THEN "open" ELSE "pending"

Idle == [pc |-> "idle"]
Holding == [pc: {"found", "marking"}, target: Version]
Clearing == [pc: {"read", "clearing"}, stale: SUBSET Escalations]

TypeOK ==
  /\ written \in Seq(Version)
  /\ committed \subseteq Escalations
  /\ settled \subseteq Escalations
  /\ decided \subseteq Escalations
  /\ req \in [Requests -> {Idle} \cup Holding \cup Clearing]

Init ==
  /\ written = <<>>
  /\ committed = {} /\ settled = {} /\ decided = {}
  /\ req = [r \in Requests |-> Idle]

-----------------------------------------------------------------------------
(* The queue.                                                              *)

Versions(e) == {i \in DOMAIN written : written[i].id = e}
Recorded == {e \in Escalations : Versions(e) # {}}

(* Timestamp first, then the order of the scan: the ledgers one after the  *)
(* other, each from its beginning.                                         *)
Before(i, j) ==
  \/ written[i].ts < written[j].ts
  \/ written[i].ts = written[j].ts /\ written[i].ledger < written[j].ledger
  \/ written[i].ts = written[j].ts /\ written[i].ledger = written[j].ledger /\ i < j

(* The versions of one id overwrite each other in this order.              *)
IsLast(i, e) == i \in Versions(e) /\ \A j \in Versions(e) \ {i} : Before(j, i)

current(e) == written[CHOOSE i \in Versions(e) : IsLast(i, e)]
status(e) == current(e).status

(* An id keeps the place of its first version in the list; the records are *)
(* numbered by the time they were made.                                    *)
Older(f, e) == \E i \in Versions(f) : \A j \in Versions(e) : i < j

(* query_escalations() without a filter returns the first page.            *)
query_escalations == {e \in Recorded : Cardinality({f \in Recorded : Older(f, e)}) < page}

append_log_record(version) ==
  /\ Len(written) < MaxRecords
  /\ written' = Append(written, version)

(* Mutant: the decision becomes the status.                                *)
Resolved_decision(version, ledger) == [version EXCEPT !.status = "approve", !.ledger = ledger]

(* dict(target) with its status replaced: id, time and session stay.       *)
Resolved(version, ledger) == [version EXCEPT !.status = "resolved", !.ledger = ledger]

-----------------------------------------------------------------------------
(* Writers.                                                                *)

Escalate(e) ==
  /\ e \notin Recorded
  /\ append_log_record([id |-> e, status |-> initial(e), ts |-> Len(written) + 1,
                        ledger |-> home[e], session |-> session_ledger[e]])
  /\ UNCHANGED <<committed, settled, decided, req>>

-----------------------------------------------------------------------------
(* Handlers of the event loop.                                             *)

(* Between two appends a request keeps the event loop to itself.           *)
HoldsLoop(r) == req[r].pc \in {"marking", "clearing"}
MayRun(r) == \A q \in Requests \ {r} : ~HoldsLoop(q)

(* resolve_escalation: the first page is searched, whatever the status.    *)
Lookup(r, e) ==
  /\ req[r] = Idle /\ MayRun(r)
  /\ e \in query_escalations
  /\ req' = [req EXCEPT ![r] = [pc |-> "found", target |-> current(e)]]
  /\ UNCHANGED <<written, committed, settled, decided>>

(* Mutant: a request claims what it has found by appending it once more.   *)
Commit_claims(r) ==
  /\ req[r].pc = "found" /\ MayRun(r)
  /\ append_log_record([req[r].target EXCEPT !.ledger = admin_ledger])
  /\ committed' = committed \cup {req[r].target.id}
  /\ req' = [req EXCEPT ![r].pc = "marking"]
  /\ UNCHANGED <<settled, decided>>

Commit(r) ==
  /\ req[r].pc = "found" /\ MayRun(r)
  /\ committed' = committed \cup {req[r].target.id}
  /\ req' = [req EXCEPT ![r].pc = "marking"]
  /\ UNCHANGED <<written, settled, decided>>

(* Mutant: the copy is appended before the CommitmentRecord.               *)
Mark_first(r) ==
  /\ req[r].pc \in {"found", "marking"} /\ MayRun(r)
  /\ append_log_record(Resolved(req[r].target, req[r].target.session))
  /\ settled' = settled \cup {req[r].target.id}
  /\ req' = [req EXCEPT ![r] = Idle]
  /\ UNCHANGED <<committed, decided>>

(* Mutant: the copy goes to the ledger of session "admin".                 *)
Mark_admin(r) ==
  /\ req[r].pc = "marking"
  /\ append_log_record(Resolved(req[r].target, admin_ledger))
  /\ settled' = settled \cup {req[r].target.id}
  /\ req' = [req EXCEPT ![r] = Idle]
  /\ UNCHANGED <<committed, decided>>

Mark(r) ==
  /\ req[r].pc = "marking"
  /\ append_log_record(Resolved(req[r].target, req[r].target.session))
  /\ settled' = settled \cup {req[r].target.id}
  /\ req' = [req EXCEPT ![r] = Idle]
  /\ UNCHANGED <<committed, decided>>

(* Mutant: the status is not looked at.                                    *)
ReadStale_any(r) ==
  /\ req[r] = Idle /\ MayRun(r)
  /\ \E cutoff \in 1 .. Len(written) + 1 :
       req' = [req EXCEPT ![r] = [pc |-> "read", stale |->
         {e \in Recorded : status(e) \notin Closed /\ current(e).ts < cutoff}]]
  /\ UNCHANGED <<written, committed, settled, decided>>

(* clear_stale_escalations: the open ones older than some cutoff.          *)
ReadStale(r) ==
  /\ req[r] = Idle /\ MayRun(r)
  /\ \E cutoff \in 1 .. Len(written) + 1 :
       req' = [req EXCEPT ![r] = [pc |-> "read", stale |->
         {e \in Recorded : status(e) = "open" /\ current(e).ts < cutoff}]]
  /\ UNCHANGED <<written, committed, settled, decided>>

(* One stale id after the other, oldest first: a new record with little    *)
(* more than the id, in the ledger of the session "admin".                 *)
Expire(r) ==
  /\ req[r].pc \in {"read", "clearing"} /\ MayRun(r)
  /\ \E e \in req[r].stale :
       /\ \A f \in req[r].stale : ~Older(f, e)
       /\ append_log_record([id |-> e, status |-> "expired", ts |-> Len(written) + 1,
                             ledger |-> admin_ledger, session |-> admin_ledger])
       /\ req' = [req EXCEPT ![r] = [pc |-> "clearing", stale |-> req[r].stale \ {e}]]
  /\ UNCHANGED <<committed, settled, decided>>

Cleared(r) ==
  /\ req[r].pc \in {"read", "clearing"} /\ req[r].stale = {}
  /\ req' = [req EXCEPT ![r] = Idle]
  /\ UNCHANGED <<written, committed, settled, decided>>

(* An append raises and the request fails.                                 *)
AppendRaises(r) ==
  /\ req[r].pc \in {"found", "marking", "read", "clearing"} /\ MayRun(r)
  /\ req' = [req EXCEPT ![r] = Idle]
  /\ UNCHANGED <<written, committed, settled, decided>>

(* The gate decides a staged command. After an accepted one has run it     *)
(* appends the CommitmentRecord and, in the same breath, a resolved copy of*)
(* the escalation, if the page has it; any append may fail. A rejected one *)
(* leaves the escalation alone.                                            *)
GateDecides(e) ==
  /\ origin[e] = "staged" /\ e \in Recorded \ decided
  /\ \A r \in Requests : ~HoldsLoop(r)
  /\ decided' = decided \cup {e}
  /\ \/ UNCHANGED <<written, committed, settled>>
     \/ /\ committed' = committed \cup {e}
        /\ UNCHANGED <<written, settled>>
     \/ /\ e \in query_escalations
        /\ committed' = committed \cup {e}
        /\ append_log_record(Resolved(current(e), admin_ledger))
        /\ settled' = settled \cup {e}
  /\ UNCHANGED req

(* The ledgers stay; the staged commands do not.                           *)
Restart ==
  /\ req' = [r \in Requests |-> Idle]
  /\ decided' = decided \cup {e \in Recorded : origin[e] = "staged"}
  /\ UNCHANGED <<written, committed, settled>>

Handler(r) ==
  \/ \E e \in Escalations : Lookup(r, e)
  \/ Commit(r) \/ Mark(r) \/ ReadStale(r) \/ Expire(r) \/ Cleared(r) \/ AppendRaises(r)

Next ==
  \/ \E e \in Escalations : Escalate(e) \/ GateDecides(e)
  \/ \E r \in Requests : Handler(r)
  \/ Restart

Spec == Init /\ [][Next]_vars

-----------------------------------------------------------------------------
(* Properties.                                                             *)

(* A resolved or expired escalation is never shown as open or pending      *)
(* again, whatever stale copy of it a slower handler appends.              *)
NeverReopened ==
  [][\A e \in Recorded : status(e) \in Closed => status(e)' \in Closed]_vars

(* Whoever sees a resolved escalation finds a CommitmentRecord that says   *)
(* who resolved it, even if an append failed or the server went down.      *)
ResolutionIsCommitted ==
  \A e \in Recorded : status(e) = "resolved" => e \in committed

(* Only escalations of the chat are ever cleared as stale; what waits for a*)
(* person's decision never expires.                                        *)
PendingNeverExpires ==
  \A e \in Recorded : status(e) = "expired" => initial(e) = "open"

(* An escalation whose ledger is not scanned after the one its resolution  *)
(* goes to is closed once a handler has answered that it is resolved.      *)
SettledInOrder ==
  \A e \in settled : home[e] <= session_ledger[e] => status(e) \in Closed

-----------------------------------------------------------------------------
(* What a comment says and the code does not do.                           *)

(* "Mark original EscalationRecord as resolved": afterwards it is not      *)
(* listed as open or pending any more.                                     *)
SettledIsClosed == \A e \in settled : status(e) \in Closed
=============================================================================
