---------------------------- MODULE StagedCommands ----------------------------
(***************************************************************************)
(* The human-in-the-loop gate of administrative commands: a command is     *)
(* staged with a log record and a pending escalation, and a person accepts,*)
(* modifies or rejects it before its time to live runs out.                *)
(*                                                                         *)
(* _stage_command runs in a thread of the pool when it comes from a chat   *)
(* turn, so each of its effects is a step.  Resolve requests are coroutines*)
(* of the event loop: everything up to the first suspension is one step    *)
(* (the accepted operation suspends), and everything after it is another.  *)
(* Requests refused with 403, 404, 409 or 422 change nothing: stuttering.  *)
(* Command ids are uuids and never used twice.                             *)
(***************************************************************************)
EXTENDS Naturals

CONSTANTS
  Commands,   (* the staged ids of one behaviour                           *)
  Requests,   (* resolve requests served at the same time                  *)
  NoCommand   (* an idle request's command                                 *)

ASSUME GateAssumption == NoCommand \notin Commands

Decision == {"hitl_command_accepted", "hitl_command_modified"}
Commitment == {"hitl_command_staged", "hitl_command_rejected"} \cup Decision

VARIABLES
  stage,      (* how far the _stage_command call of a command has come     *)
  store,      (* the keys of _STAGED_COMMANDS                              *)
  expired,    (* commands whose expires_at has passed                      *)
  resolved,   (* commands whose entry object has resolved = True           *)
  txn,        (* state of the transaction in a command's entry object (its *)
              (* last state once nothing refers to the object any more)    *)
  log,        (* the types of a command's CommitmentRecords in the ledger  *)
  esc,        (* status of a command's EscalationRecord as last appended,  *)
              (* a resolved one by the commitment it names                 *)
  req,        (* the resolve requests being served                         *)
  applied     (* auxiliary: executions that changed something, by command  *)

Kernel == INSTANCE StateTransaction WITH Transactions <- Commands, snapshot <- txn

vars == <<stage, store, expired, resolved, txn, log, esc, req, applied>>

Request == [pc: {"idle", "execute", "return"}, cmd: Commands \cup {NoCommand}, decision: Decision]
Idle == [pc |-> "idle", cmd |-> NoCommand, decision |-> "hitl_command_accepted"]

TypeOK ==
  /\ stage \in [Commands -> {"new", "logged", "escalated", "proposed", "inserted", "stopped"}]
  /\ store \subseteq {c \in Commands : stage[c] = "inserted"}
  /\ expired \subseteq {c \in Commands : stage[c] # "new"}
  /\ resolved \subseteq {c \in Commands : stage[c] = "inserted"}
  /\ txn \in [Commands -> Kernel!TransactionState \cup {Kernel!Unborn}]
  /\ log \in [Commands -> SUBSET Commitment]
  /\ esc \in [Commands -> {"none", "pending", "by_gate", "by_dashboard"}]
  /\ req \in [Requests -> Request]
  /\ applied \in [Commands -> Nat]

Init ==
  /\ stage = [c \in Commands |-> "new"]
  /\ store = {} /\ expired = {} /\ resolved = {}
  /\ log = [c \in Commands |-> {}]
  /\ txn = [c \in Commands |-> Kernel!Unborn]
  /\ esc = [c \in Commands |-> "none"]
  /\ req = [r \in Requests |-> Idle]
  /\ applied = [c \in Commands |-> 0]

Executing(c) == \E r \in Requests : req[r].cmd = c /\ req[r].pc # "idle"
append_log_record(c, type) == log' = [log EXCEPT ![c] = @ \cup {type}]
advance(c, target) == txn' = [txn EXCEPT ![c] = target]
Stages(c, from, to) == stage[c] = from /\ stage' = [stage EXCEPT ![c] = to]

(* --- _stage_command ----------------------------------------------------- *)

(* The first append may raise: then nothing is staged.                      *)
StageLog(c) ==
  /\ Stages(c, "new", "logged")
  /\ append_log_record(c, "hitl_command_staged")
  /\ UNCHANGED <<store, expired, resolved, txn, esc, req, applied>>

(* The entry is shown to resolvers before its escalation is written.       *)
StageEscalation_inserts_early(c) ==
  /\ Stages(c, "logged", "escalated")
  /\ esc' = [esc EXCEPT ![c] = "pending"]
  /\ store' = store \cup {c}
  /\ UNCHANGED <<expired, resolved, txn, log, req, applied>>

(* A failure to append the EscalationRecord is logged and swallowed.        *)
StageEscalation(c) ==
  /\ Stages(c, "logged", "escalated")
  /\ \E status \in {"pending", "none"} : esc' = [esc EXCEPT ![c] = status]
  /\ UNCHANGED <<store, expired, resolved, txn, log, req, applied>>

StagePropose(c) ==
  /\ Stages(c, "escalated", "proposed")
  /\ advance(c, "PROPOSED")
  /\ UNCHANGED <<store, expired, resolved, log, esc, req, applied>>

StageInsert(c) ==
  /\ Stages(c, "proposed", "inserted")
  /\ advance(c, "VALIDATED")
  /\ store' = store \cup {c}
  /\ UNCHANGED <<expired, resolved, log, esc, req, applied>>

(* --- The event loop ----------------------------------------------------- *)

(* Listing the staged commands, or dispatching any command, purges.         *)
_purge_expired_staged_commands ==
  /\ store \cap expired # {}
  /\ store' = store \ expired
  /\ UNCHANGED <<stage, expired, resolved, txn, log, esc, req, applied>>

(* 410: the entry is popped.                                                *)
ResolveExpired(c) ==
  /\ c \in store \cap expired
  /\ store' = store \ {c}
  /\ UNCHANGED <<stage, expired, resolved, txn, log, esc, req, applied>>

Resolvable(c) == c \in store /\ c \notin expired /\ c \notin resolved

(* A rejection forgets to mark the entry resolved.                         *)
Reject_stays_open(c) ==
  /\ Resolvable(c)
  /\ advance(c, "ROLLED_BACK")
  /\ append_log_record(c, "hitl_command_rejected")
  /\ UNCHANGED <<stage, store, expired, resolved, esc, req, applied>>

(* The append may raise, which leaves the rejection without its record.     *)
Reject(c) ==
  /\ Resolvable(c)
  /\ advance(c, "ROLLED_BACK")
  /\ resolved' = resolved \cup {c}
  /\ append_log_record(c, "hitl_command_rejected") \/ UNCHANGED log
  /\ UNCHANGED <<stage, store, expired, esc, req, applied>>

(* The entry is marked only after the operation has run.                   *)
Approve_marks_later(r, c, decision) ==
  /\ req[r].pc = "idle"
  /\ Resolvable(c)
  /\ req' = [req EXCEPT ![r] = [pc |-> "execute", cmd |-> c, decision |-> decision]]
  /\ UNCHANGED <<stage, store, expired, resolved, txn, log, esc, applied>>

(* The accepted record is written when execution is triggered.             *)
Approve_logs_first(r, c, decision) ==
  /\ req[r].pc = "idle"
  /\ Resolvable(c)
  /\ resolved' = resolved \cup {c}
  /\ advance(c, "COMMITTED")
  /\ append_log_record(c, decision)
  /\ req' = [req EXCEPT ![r] = [pc |-> "execute", cmd |-> c, decision |-> decision]]
  /\ UNCHANGED <<stage, store, expired, esc, applied>>

(* Expiry is left to the purge.                                            *)
Approve_trusts_purge(r, c, decision) ==
  /\ req[r].pc = "idle"
  /\ c \in store /\ c \notin resolved
  /\ resolved' = resolved \cup {c}
  /\ advance(c, "COMMITTED")
  /\ req' = [req EXCEPT ![r] = [pc |-> "execute", cmd |-> c, decision |-> decision]]
  /\ UNCHANGED <<stage, store, expired, log, esc, applied>>

(* The transaction is advanced only once the operation has returned.       *)
Approve_commits_later(r, c, decision) ==
  /\ req[r].pc = "idle"
  /\ Resolvable(c)
  /\ resolved' = resolved \cup {c}
  /\ req' = [req EXCEPT ![r] = [pc |-> "execute", cmd |-> c, decision |-> decision]]
  /\ UNCHANGED <<stage, store, expired, txn, log, esc, applied>>

(* Accept, or modify with a schema that validates.                          *)
Approve(r, c, decision) ==
  /\ req[r].pc = "idle"
  /\ Resolvable(c)
  /\ resolved' = resolved \cup {c}
  /\ advance(c, "COMMITTED")
  /\ req' = [req EXCEPT ![r] = [pc |-> "execute", cmd |-> c, decision |-> decision]]
  /\ UNCHANGED <<stage, store, expired, log, esc, applied>>

(* _execute_admin_operation: the operation's changes, and its return...     *)
Execute(r) ==
  /\ req[r].pc = "execute"
  /\ applied' = [applied EXCEPT ![req[r].cmd] = @ + 1]
  /\ req' = [req EXCEPT ![r].pc = "return"]
  /\ UNCHANGED <<stage, store, expired, resolved, txn, log, esc>>

(* ...or an exception, before any change or after the first ones.           *)
ExecuteRaises(r) ==
  /\ req[r].pc # "idle"
  /\ req' = [req EXCEPT ![r] = Idle]
  /\ UNCHANGED <<stage, store, expired, resolved, txn, log, esc, applied>>

(* What follows the execution.  The append of the CommitmentRecord may      *)
(* raise; failures to update the escalation are swallowed.                  *)
Finish(r) ==
  LET c == req[r].cmd
  IN /\ req[r].pc = "return"
     /\ advance(c, "FINALIZED")
     /\ \/ UNCHANGED <<log, esc>>
        \/ append_log_record(c, req[r].decision) /\ UNCHANGED esc
        \/ /\ esc[c] # "none"
           /\ append_log_record(c, req[r].decision)
           /\ esc' = [esc EXCEPT ![c] = "by_gate"]
     /\ req' = [req EXCEPT ![r] = Idle]
     /\ UNCHANGED <<stage, store, expired, resolved, applied>>

(* resolve_escalation, the dashboard's endpoint, takes any EscalationRecord *)
(* whatever its status and knows nothing of staged commands.                *)
ResolveEscalation(c) ==
  /\ esc[c] # "none"
  /\ esc' = [esc EXCEPT ![c] = "by_dashboard"]
  /\ UNCHANGED <<stage, store, expired, resolved, txn, log, req, applied>>

(* --- Time and failures -------------------------------------------------- *)

(* expires_at is fixed before the first record is appended.                 *)
Expire(c) ==
  /\ stage[c] # "new" /\ c \notin expired
  /\ expired' = expired \cup {c}
  /\ UNCHANGED <<stage, store, resolved, txn, log, esc, req, applied>>

(* Only the ledger outlives the process.                                    *)
Restart ==
  /\ store' = {} /\ req' = [r \in Requests |-> Idle]
  /\ stage' = [c \in Commands |-> IF stage[c] \in {"new", "inserted"} THEN stage[c] ELSE "stopped"]
  /\ UNCHANGED <<expired, resolved, txn, log, esc, applied>>

Staging == \E c \in Commands : StageLog(c) \/ StageEscalation(c) \/ StagePropose(c) \/ StageInsert(c)

Next ==
  \/ Staging
  \/ _purge_expired_staged_commands
  \/ \E c \in Commands : ResolveExpired(c) \/ Reject(c) \/ ResolveEscalation(c) \/ Expire(c)
  \/ \E r \in Requests, c \in Commands, decision \in Decision : Approve(r, c, decision)
  \/ \E r \in Requests : Execute(r) \/ ExecuteRaises(r) \/ Finish(r)
  \/ Restart

Spec == Init /\ [][Next]_vars

-----------------------------------------------------------------------------
(* Properties.                                                             *)

(* An approval of the command is in the ledger.                            *)
ApprovalRecorded(c) == \E d \in Decision : d \in log[c]

(* Every transaction of the gate follows the kernel: however requests, the *)
(* purge, expiry and restarts interleave, no advance() of _stage_command   *)
(* or admin_command_resolve is illegal, and what was COMMITTED or          *)
(* ROLLED_BACK stays decided.                                              *)
ImplementsKernel == Kernel!Spec

(* Two people who resolve a command at once do not run it twice, although  *)
(* the execution suspends and the entry may be purged meanwhile.           *)
AppliedOnce == \A c \in Commands : applied[c] <= 1

(* Nothing runs that a person did not approve: a command that was rejected,*)
(* expired or is undecided has changed nothing.                            *)
AppliedIsCommitted ==
  \A c \in Commands : applied[c] > 0 => txn[c] \in {"COMMITTED", "FINALIZED"}

(* The ledger never claims more than happened: an accepted or modified     *)
(* record means the operation ran to its end, a rejected one that it never *)
(* will, and an escalation the gate resolved names a record that exists.   *)
TrailIsTrue ==
  \A c \in Commands :
    /\ ApprovalRecorded(c) => applied[c] = 1 /\ txn[c] = "FINALIZED" /\ ~Executing(c)
    /\ "hitl_command_rejected" \in log[c] => applied[c] = 0 /\ txn[c] = "ROLLED_BACK"
    /\ esc[c] = "by_gate" => ApprovalRecorded(c)
    /\ txn[c] # Kernel!Unborn => "hitl_command_staged" \in log[c]

(* A command still undecided when its time to live ran out stays so: it is *)
(* neither executed nor rejected later, whether or not it was purged.      *)
LateIsNever ==
  [][\A c \in expired : txn[c] = "VALIDATED" => txn'[c] = "VALIDATED"]_vars

(* The comment in _stage_command: an EscalationRecord is written "so the   *)
(* dashboard escalation queue shows the pending HITL command awaiting human*)
(* resolution".  A pending record then means a command that is undecided   *)
(* or running.  (Violated: reject and expiry leave it pending.)            *)
PendingAwaitsResolution ==
  \A c \in Commands :
    stage[c] = "inserted" /\ esc[c] = "pending" => c \notin resolved \/ Executing(c)
=============================================================================
