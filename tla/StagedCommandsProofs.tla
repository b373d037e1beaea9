------------------------- MODULE StagedCommandsProofs -------------------------
(***************************************************************************)
(* Theorems about StagedCommands, for any set of commands and any number   *)
(* of resolve requests.                                                    *)
(***************************************************************************)
EXTENDS StagedCommands, TLAPS

USE GateAssumption DEF GateAssumption

-----------------------------------------------------------------------------
(* Type correctness.                                                       *)

LEMMA TypedInit == Init => TypeOK
BY DEF Init, TypeOK, Request, Idle, Decision

LEMMA StagingTyped ==
  ASSUME TypeOK, NEW c \in Commands,
         StageLog(c) \/ StageEscalation(c) \/ StagePropose(c) \/ StageInsert(c)
  PROVE  TypeOK'
<1>1. CASE StageLog(c)
  BY <1>1 DEF StageLog, Stages, append_log_record, TypeOK, Commitment
<1>2. CASE StageEscalation(c)
  BY <1>2 DEF StageEscalation, Stages, TypeOK
<1>3. CASE StagePropose(c)
  BY <1>3 DEF StagePropose, Stages, advance, TypeOK, Kernel!TransactionState
<1>4. CASE StageInsert(c)
  BY <1>4 DEF StageInsert, Stages, advance, TypeOK, Kernel!TransactionState
<1>5. QED
  BY <1>1, <1>2, <1>3, <1>4

LEMMA ApproveTyped ==
  ASSUME TypeOK, NEW r \in Requests, NEW c \in Commands, NEW decision \in Decision,
         Approve(r, c, decision)
  PROVE  TypeOK'
<1>1. [pc |-> "execute", cmd |-> c, decision |-> decision] \in Request
  BY DEF Request
<1>2. req' \in [Requests -> Request]
  BY <1>1 DEF Approve, TypeOK
<1>3. QED
  BY <1>2 DEF Approve, Resolvable, advance, TypeOK, Kernel!TransactionState

LEMMA RequestTyped ==
  ASSUME TypeOK, NEW r \in Requests, Execute(r) \/ ExecuteRaises(r) \/ Finish(r),
         req[r].pc # "idle" => req[r].cmd \in Commands
  PROVE  TypeOK'
<1>0. Idle \in Request
  BY DEF Idle, Request, Decision
<1>1. CASE Execute(r)
  <2>1. [req[r] EXCEPT !.pc = "return"] \in Request
    BY DEF TypeOK, Request
  <2>2. req' \in [Requests -> Request]
    BY <1>1, <2>1 DEF Execute, TypeOK
  <2>3. QED
    BY <1>1, <2>2 DEF Execute, TypeOK
<1>2. CASE ExecuteRaises(r)
  BY <1>0, <1>2 DEF ExecuteRaises, TypeOK
<1>3. CASE Finish(r)
  <2>1. req[r].cmd \in Commands /\ req[r].decision \in Commitment
    BY <1>3 DEF Finish, TypeOK, Request, Commitment
  <2>2. req' \in [Requests -> Request] /\ log' \in [Commands -> SUBSET Commitment]
    BY <1>0, <1>3, <2>1 DEF Finish, append_log_record, TypeOK
  <2>3. QED
    BY <1>3, <2>1, <2>2 DEF Finish, advance, TypeOK, Kernel!TransactionState
<1>4. QED
  BY <1>1, <1>2, <1>3

LEMMA OthersTyped ==
  ASSUME TypeOK,
         \/ _purge_expired_staged_commands \/ Restart
         \/ \E c \in Commands : ResolveExpired(c) \/ Reject(c) \/ ResolveEscalation(c) \/ Expire(c)
  PROVE  TypeOK'
<1>1. CASE _purge_expired_staged_commands
  BY <1>1 DEF _purge_expired_staged_commands, TypeOK
<1>2. ASSUME NEW c \in Commands, ResolveExpired(c) PROVE TypeOK'
  BY <1>2 DEF ResolveExpired, TypeOK
<1>3. ASSUME NEW c \in Commands, Reject(c) PROVE TypeOK'
  BY <1>3 DEF Reject, Resolvable, append_log_record, advance, TypeOK, Kernel!TransactionState,
             Commitment
<1>4. ASSUME NEW c \in Commands, ResolveEscalation(c) PROVE TypeOK'
  BY <1>4 DEF ResolveEscalation, TypeOK
<1>5. ASSUME NEW c \in Commands, Expire(c) PROVE TypeOK'
  BY <1>5 DEF Expire, TypeOK
<1>6. CASE Restart
  <2>1. Idle \in Request
    BY DEF Idle, Request, Decision
  <2>2. QED
    BY <1>6, <2>1 DEF Restart, TypeOK
<1>7. QED
  BY <1>1, <1>2, <1>3, <1>4, <1>5, <1>6

-----------------------------------------------------------------------------
(* The inductive invariant: what the marks in an entry say about its       *)
(* transaction, and the transaction about everything else.                 *)

(* The transaction follows _stage_command until the entry is inserted, and *)
(* from then on "resolved" tells whether it is decided.                    *)
TxnInv ==
  \A c \in Commands :
    /\ stage[c] \in {"new", "logged", "escalated"} => txn[c] = Kernel!Unborn
    /\ stage[c] = "proposed" => txn[c] = "PROPOSED"
    /\ stage[c] = "stopped" => txn[c] \in {Kernel!Unborn, "PROPOSED"}
    /\ stage[c] = "inserted" =>
         /\ txn[c] \in {"VALIDATED", "COMMITTED", "FINALIZED", "ROLLED_BACK"}
         /\ c \in resolved <=> txn[c] # "VALIDATED"

(* A command being executed is COMMITTED, by one request, which has not    *)
(* applied it yet or has applied it once.                                  *)
RequestInv ==
  \A r \in Requests :
    req[r].pc # "idle" =>
      /\ req[r].cmd \in Commands
      /\ txn[req[r].cmd] = "COMMITTED"
      /\ applied[req[r].cmd] = IF req[r].pc = "execute" THEN 0 ELSE 1
      /\ \A q \in Requests \ {r} : req[q].pc # "idle" => req[q].cmd # req[r].cmd

AppliedInv ==
  \A c \in Commands :
    \/ applied[c] = 0
    \/ applied[c] = 1 /\ txn[c] \in {"COMMITTED", "FINALIZED"}

LedgerInv ==
  \A c \in Commands :
    /\ stage[c] # "new" => "hitl_command_staged" \in log[c]
    /\ ApprovalRecorded(c) => applied[c] = 1 /\ txn[c] = "FINALIZED"
    /\ "hitl_command_rejected" \in log[c] => txn[c] = "ROLLED_BACK"
    /\ esc[c] = "by_gate" => ApprovalRecorded(c)

IInv == TypeOK /\ TxnInv /\ RequestInv /\ AppliedInv /\ LedgerInv

LEMMA InvInit == Init => IInv
<1> SUFFICES ASSUME Init PROVE IInv
  OBVIOUS
<1>1. TxnInv
  BY DEF Init, TxnInv
<1>2. AppliedInv
  BY DEF Init, AppliedInv
<1>3. RequestInv
  BY DEF Init, RequestInv, Idle
<1>4. LedgerInv
  BY DEF Init, LedgerInv, ApprovalRecorded
<1>5. QED
  BY <1>1, <1>2, <1>3, <1>4, TypedInit DEF IInv

LEMMA StagingKeepsInv ==
  ASSUME IInv, NEW c \in Commands,
         StageLog(c) \/ StageEscalation(c) \/ StagePropose(c) \/ StageInsert(c)
  PROVE  IInv'
<1> USE DEF IInv
<1>0. TypeOK'
  BY StagingTyped
<1>1. CASE StageLog(c)
  <2>1. TxnInv'
    BY <1>1 DEF StageLog, Stages, TypeOK, TxnInv
  <2>2. RequestInv' /\ AppliedInv'
    BY <1>1 DEF StageLog, RequestInv, AppliedInv
  <2>3. LedgerInv'
    BY <1>1 DEF StageLog, Stages, append_log_record, TypeOK, LedgerInv, ApprovalRecorded,
                Decision
  <2>4. QED
    BY <1>0, <2>1, <2>2, <2>3
<1>2. CASE StageEscalation(c)
  <2>1. TxnInv'
    BY <1>2 DEF StageEscalation, Stages, TypeOK, TxnInv
  <2>2. RequestInv' /\ AppliedInv'
    BY <1>2 DEF StageEscalation, RequestInv, AppliedInv
  <2>3. LedgerInv'
    BY <1>2 DEF StageEscalation, Stages, TypeOK, LedgerInv, ApprovalRecorded
  <2>4. QED
    BY <1>0, <2>1, <2>2, <2>3
<1>3. CASE StagePropose(c)
  <2>0. txn[c] = Kernel!Unborn /\ txn' = [txn EXCEPT ![c] = "PROPOSED"] /\ stage[c] = "escalated"
    BY <1>3 DEF StagePropose, Stages, advance, TxnInv
  <2>1. TxnInv'
    BY <1>3, <2>0 DEF StagePropose, Stages, TypeOK, TxnInv
  <2>2. RequestInv' /\ AppliedInv'
    BY <1>3, <2>0 DEF StagePropose, RequestInv, AppliedInv, TypeOK, Kernel!TransactionState, Kernel!Unborn
  <2>3. LedgerInv'
    BY <1>3, <2>0 DEF StagePropose, Stages, TypeOK, LedgerInv, ApprovalRecorded, Kernel!TransactionState, Kernel!Unborn
  <2>4. QED
    BY <1>0, <2>1, <2>2, <2>3
<1>4. CASE StageInsert(c)
  <2>0. txn[c] = "PROPOSED" /\ txn' = [txn EXCEPT ![c] = "VALIDATED"] /\ stage[c] = "proposed"
    BY <1>4 DEF StageInsert, Stages, advance, TxnInv
  <2>1. TxnInv'
    BY <1>4, <2>0 DEF StageInsert, Stages, TypeOK, TxnInv
  <2>2. RequestInv' /\ AppliedInv'
    BY <1>4, <2>0 DEF StageInsert, RequestInv, AppliedInv, TypeOK
  <2>3. LedgerInv'
    BY <1>4, <2>0 DEF StageInsert, Stages, TypeOK, LedgerInv, ApprovalRecorded
  <2>4. QED
    BY <1>0, <2>1, <2>2, <2>3
<1>5. QED
  BY <1>1, <1>2, <1>3, <1>4

(* Deciding: the entry is inserted and VALIDATED, so no request executes   *)
(* the command and nothing was applied.                                    *)
LEMMA ResolvableIsOpen ==
  ASSUME IInv, NEW c \in Commands, Resolvable(c)
  PROVE  /\ stage[c] = "inserted" /\ txn[c] = "VALIDATED" /\ applied[c] = 0
         /\ \A r \in Requests : req[r].pc # "idle" => req[r].cmd # c
BY DEF IInv, Resolvable, TypeOK, TxnInv, RequestInv, AppliedInv

LEMMA RejectKeepsInv ==
  ASSUME IInv, NEW c \in Commands, Reject(c)
  PROVE  IInv'
<1> USE DEF IInv
<1>0. TypeOK'
  BY OthersTyped
<1>1. /\ stage[c] = "inserted" /\ txn[c] = "VALIDATED" /\ applied[c] = 0
      /\ \A r \in Requests : req[r].pc # "idle" => req[r].cmd # c
  BY ResolvableIsOpen DEF Reject
<1>2. txn' = [txn EXCEPT ![c] = "ROLLED_BACK"]
  BY DEF Reject, advance
<1>3. TxnInv'
  BY <1>1, <1>2 DEF Reject, TypeOK, TxnInv
<1>4. RequestInv'
  BY <1>1, <1>2 DEF Reject, TypeOK, RequestInv
<1>5. AppliedInv'
  BY <1>1, <1>2 DEF Reject, TypeOK, AppliedInv
<1>6. LedgerInv'
  <2>1. /\ \A b \in Commands \ {c} : log'[b] = log[b]
        /\ log'[c] \subseteq log[c] \cup {"hitl_command_rejected"} /\ log[c] \subseteq log'[c]
    BY DEF Reject, append_log_record, TypeOK
  <2>2. \A b \in Commands : ApprovalRecorded(b)' <=> ApprovalRecorded(b)
    BY <2>1 DEF ApprovalRecorded, Decision
  <2>3. stage' = stage /\ applied' = applied /\ esc' = esc
    BY DEF Reject
  <2>4. QED
    BY <1>1, <1>2, <2>1, <2>2, <2>3 DEF TypeOK, LedgerInv
<1>7. QED
  BY <1>0, <1>3, <1>4, <1>5, <1>6

LEMMA ApproveKeepsInv ==
  ASSUME IInv, NEW r \in Requests, NEW c \in Commands, NEW decision \in Decision,
         Approve(r, c, decision)
  PROVE  IInv'
<1> USE DEF IInv
<1>0. TypeOK'
  BY ApproveTyped
<1>1. /\ stage[c] = "inserted" /\ txn[c] = "VALIDATED" /\ applied[c] = 0
      /\ \A q \in Requests : req[q].pc # "idle" => req[q].cmd # c
  BY ResolvableIsOpen DEF Approve
<1>2. txn' = [txn EXCEPT ![c] = "COMMITTED"]
  BY DEF Approve, advance
<1>3. TxnInv'
  BY <1>1, <1>2 DEF Approve, TypeOK, TxnInv
<1>4. RequestInv'
  <2>1. /\ req'[r].pc = "execute" /\ req'[r].cmd = c
        /\ \A q \in Requests \ {r} : req'[q] = req[q]
    BY DEF Approve, TypeOK
  <2>2. applied' = applied
    BY DEF Approve
  <2>3. QED
    BY <1>1, <1>2, <2>1, <2>2 DEF TypeOK, RequestInv
<1>5. AppliedInv'
  BY <1>1, <1>2 DEF Approve, TypeOK, AppliedInv
<1>6. LedgerInv'
  BY <1>1, <1>2 DEF Approve, TypeOK, LedgerInv, ApprovalRecorded
<1>7. QED
  BY <1>0, <1>3, <1>4, <1>5, <1>6

LEMMA ExecutionKeepsInv ==
  ASSUME IInv, NEW r \in Requests, Execute(r) \/ ExecuteRaises(r) \/ Finish(r)
  PROVE  IInv'
<1> USE DEF IInv
<1>c. PICK c \in Commands : req[r].cmd = c
  BY DEF Execute, ExecuteRaises, Finish, RequestInv
<1>0. /\ req[r].pc # "idle" /\ txn[c] = "COMMITTED"
      /\ applied[c] = IF req[r].pc = "execute" THEN 0 ELSE 1
      /\ \A q \in Requests \ {r} : req[q].pc # "idle" => req[q].cmd # c
  BY <1>c DEF Execute, ExecuteRaises, Finish, RequestInv
<1>1. TypeOK'
  BY <1>c, RequestTyped
<1>2. \A q \in Requests \ {r} : req'[q] = req[q]
  BY DEF Execute, ExecuteRaises, Finish, TypeOK
<1>3. CASE Execute(r)
  <2>1. /\ req[r].pc = "execute" /\ req'[r].pc = "return" /\ req'[r].cmd = c
        /\ applied' = [applied EXCEPT ![c] = 1]
    BY <1>0, <1>c, <1>3 DEF Execute, TypeOK, Request
  <2>2. TxnInv'
    BY <1>3 DEF Execute, TxnInv
  <2>3. RequestInv'
    BY <1>0, <1>2, <1>3, <2>1 DEF Execute, TypeOK, RequestInv
  <2>4. AppliedInv'
    BY <1>0, <1>3, <2>1 DEF Execute, TypeOK, AppliedInv
  <2>5. LedgerInv'
    BY <1>0, <1>3, <2>1 DEF Execute, TypeOK, LedgerInv, ApprovalRecorded
  <2>6. QED
    BY <1>1, <2>2, <2>3, <2>4, <2>5
<1>4. CASE ExecuteRaises(r)
  <2>1. req'[r].pc = "idle"
    BY <1>4 DEF ExecuteRaises, TypeOK, Idle
  <2>2. RequestInv'
    BY <1>2, <1>4, <2>1 DEF ExecuteRaises, RequestInv
  <2>3. TxnInv' /\ AppliedInv' /\ LedgerInv'
    BY <1>4 DEF ExecuteRaises, TxnInv, AppliedInv, LedgerInv, ApprovalRecorded
  <2>4. QED
    BY <1>1, <2>2, <2>3
<1>5. CASE Finish(r)
  <2>1. /\ req'[r].pc = "idle" /\ applied[c] = 1
        /\ txn' = [txn EXCEPT ![c] = "FINALIZED"]
    BY <1>0, <1>c, <1>5 DEF Finish, TypeOK, Idle, advance
  <2>2. TxnInv'
    BY <1>0, <1>5, <2>1 DEF Finish, TypeOK, TxnInv, Kernel!TransactionState, Kernel!Unborn
  <2>3. RequestInv'
    BY <1>0, <1>2, <1>5, <2>1 DEF Finish, TypeOK, RequestInv
  <2>4. AppliedInv'
    BY <1>5, <2>1 DEF Finish, TypeOK, AppliedInv
  <2>5. LedgerInv'
    <3>1. req[r].decision \in Decision
      BY DEF TypeOK, Request
    <3>2. /\ \A b \in Commands \ {c} : log'[b] = log[b] /\ esc'[b] = esc[b]
          /\ \/ log'[c] = log[c] /\ esc'[c] = esc[c]
             \/ /\ log'[c] = log[c] \cup {req[r].decision}
                /\ esc'[c] \in {esc[c], "by_gate"}
      BY <1>c, <1>5 DEF Finish, append_log_record, TypeOK
    <3>3. stage' = stage /\ applied' = applied
      BY <1>5 DEF Finish
    <3>4. \A b \in Commands \ {c} : ApprovalRecorded(b)' <=> ApprovalRecorded(b)
      BY <3>2 DEF ApprovalRecorded
    <3>5. /\ ApprovalRecorded(c) => ApprovalRecorded(c)'
          /\ "hitl_command_rejected" \notin log'[c]
          /\ esc'[c] = "by_gate" => ApprovalRecorded(c)'
          /\ stage[c] # "new" => "hitl_command_staged" \in log'[c]
      BY <1>0, <3>1, <3>2 DEF ApprovalRecorded, LedgerInv, Decision
    <3>6. QED
      BY <1>0, <2>1, <3>2, <3>3, <3>4, <3>5 DEF TypeOK, LedgerInv
  <2>6. QED
    BY <1>1, <2>2, <2>3, <2>4, <2>5
<1>6. QED
  BY <1>3, <1>4, <1>5

LEMMA OthersKeepInv ==
  ASSUME IInv,
         \/ _purge_expired_staged_commands \/ Restart
         \/ \E c \in Commands : ResolveExpired(c) \/ ResolveEscalation(c) \/ Expire(c)
  PROVE  IInv'
<1> USE DEF IInv
<1>0. TypeOK'
  BY OthersTyped
<1>1. CASE _purge_expired_staged_commands \/ \E c \in Commands : ResolveExpired(c) \/ Expire(c)
  BY <1>0, <1>1 DEF _purge_expired_staged_commands, ResolveExpired, Expire,
                    TxnInv, RequestInv, AppliedInv, LedgerInv, ApprovalRecorded
<1>2. CASE \E c \in Commands : ResolveEscalation(c)
  BY <1>0, <1>2 DEF ResolveEscalation, TypeOK, TxnInv, RequestInv, AppliedInv, LedgerInv,
                    ApprovalRecorded
<1>3. CASE Restart
  <2>1. TxnInv'
    BY <1>3 DEF Restart, TypeOK, TxnInv
  <2>2. RequestInv'
    BY <1>3 DEF Restart, RequestInv, Idle
  <2>3. AppliedInv' /\ LedgerInv'
    BY <1>3 DEF Restart, TypeOK, AppliedInv, LedgerInv, ApprovalRecorded
  <2>4. QED
    BY <1>0, <2>1, <2>2, <2>3
<1>4. QED
  BY <1>1, <1>2, <1>3

LEMMA NextKeepsInv == IInv /\ [Next]_vars => IInv'
<1> SUFFICES ASSUME IInv, [Next]_vars PROVE IInv'
  OBVIOUS
<1>1. CASE Staging
  BY <1>1, StagingKeepsInv DEF Staging
<1>2. CASE _purge_expired_staged_commands \/ Restart
  BY <1>2, OthersKeepInv
<1>3. ASSUME NEW c \in Commands, ResolveExpired(c) \/ ResolveEscalation(c) \/ Expire(c)
      PROVE  IInv'
  BY <1>3, OthersKeepInv
<1>4. ASSUME NEW c \in Commands, Reject(c)
      PROVE  IInv'
  BY <1>4, RejectKeepsInv
<1>5. ASSUME NEW r \in Requests, NEW c \in Commands, NEW decision \in Decision,
             Approve(r, c, decision)
      PROVE  IInv'
  BY <1>5, ApproveKeepsInv
<1>6. ASSUME NEW r \in Requests, Execute(r) \/ ExecuteRaises(r) \/ Finish(r)
      PROVE  IInv'
  BY <1>6, ExecutionKeepsInv
<1>7. CASE UNCHANGED vars
  BY <1>7 DEF vars, IInv, TypeOK, TxnInv, RequestInv, AppliedInv, LedgerInv, ApprovalRecorded
<1>8. QED
  BY <1>1, <1>2, <1>3, <1>4, <1>5, <1>6, <1>7 DEF Next

LEMMA Invariance == Spec => []IInv
BY InvInit, NextKeepsInv, PTL DEF Spec

-----------------------------------------------------------------------------
(* The theorems.                                                           *)

(* Every store keeps its shape: in particular only inserted commands are   *)
(* offered for resolution, and only they are ever resolved.                *)
THEOREM TypeCorrect == Spec => []TypeOK
<1>1. IInv => TypeOK
  BY DEF IInv
<1>2. QED
  BY <1>1, Invariance, PTL

(* However resolve requests, purges and restarts interleave, no command's  *)
(* operation runs twice.                                                   *)
THEOREM RunsOnce == Spec => []AppliedOnce
<1>1. IInv => AppliedOnce
  <2> SUFFICES ASSUME IInv, NEW c \in Commands PROVE applied[c] <= 1
    BY DEF AppliedOnce
  <2>1. applied[c] = 0 \/ applied[c] = 1
    BY DEF IInv, AppliedInv
  <2>2. QED
    BY <2>1
<1>2. QED
  BY <1>1, Invariance, PTL

(* Only a command that somebody approved changes anything.                 *)
THEOREM RunsApproved == Spec => []AppliedIsCommitted
<1>1. IInv => AppliedIsCommitted
  BY DEF IInv, AppliedInv, AppliedIsCommitted
<1>2. QED
  BY <1>1, Invariance, PTL

(* No record in the ledger, and no escalation resolved by the gate, claims *)
(* something that did not happen.                                          *)
THEOREM TrailCorrect == Spec => []TrailIsTrue
<1>1. IInv => TrailIsTrue
  <2> SUFFICES ASSUME IInv, NEW c \in Commands
               PROVE  /\ ApprovalRecorded(c)
                           => applied[c] = 1 /\ txn[c] = "FINALIZED" /\ ~Executing(c)
                      /\ "hitl_command_rejected" \in log[c]
                           => applied[c] = 0 /\ txn[c] = "ROLLED_BACK"
                      /\ esc[c] = "by_gate" => ApprovalRecorded(c)
                      /\ txn[c] # Kernel!Unborn => "hitl_command_staged" \in log[c]
    BY DEF TrailIsTrue
  <2>1. txn[c] = "FINALIZED" => ~Executing(c)
    BY DEF IInv, RequestInv, Executing
  <2>2. txn[c] = "ROLLED_BACK" => applied[c] = 0
    BY DEF IInv, AppliedInv
  <2>3. txn[c] # Kernel!Unborn => stage[c] # "new"
    BY DEF IInv, TxnInv
  <2>4. QED
    BY <2>1, <2>2, <2>3 DEF IInv, LedgerInv
<1>2. QED
  BY <1>1, Invariance, PTL

(* A command whose time ran out before anyone decided is never decided.    *)
THEOREM LateStaysUndecided == Spec => LateIsNever
<1>1. IInv /\ [Next]_vars
      => [\A c \in expired : txn[c] = "VALIDATED" => txn'[c] = "VALIDATED"]_vars
  <2> SUFFICES ASSUME IInv, Next, NEW c \in expired, txn[c] = "VALIDATED"
               PROVE  txn'[c] = "VALIDATED"
    OBVIOUS
  <2>0. /\ c \in Commands /\ txn \in [Commands -> Kernel!TransactionState \cup {Kernel!Unborn}]
        /\ stage[c] \in {"inserted"}
    BY DEF IInv, TypeOK, TxnInv, Kernel!TransactionState, Kernel!Unborn
  <2>1. CASE Staging
    BY <2>0, <2>1 DEF Staging, StageLog, StageEscalation, StagePropose, StageInsert, Stages, advance
  <2>2. ASSUME NEW b \in Commands, Reject(b)
        PROVE  txn'[c] = "VALIDATED"
    BY <2>0, <2>2 DEF Reject, Resolvable, advance
  <2>3. ASSUME NEW r \in Requests, NEW b \in Commands, NEW decision \in Decision,
               Approve(r, b, decision)
        PROVE  txn'[c] = "VALIDATED"
    BY <2>0, <2>3 DEF Approve, Resolvable, advance
  <2>4. ASSUME NEW r \in Requests, Finish(r)
        PROVE  txn'[c] = "VALIDATED"
    BY <2>0, <2>4 DEF Finish, advance, IInv, RequestInv
  <2>5. txn' = txn \/ Staging \/ (\E b \in Commands : Reject(b))
        \/ (\E r \in Requests, b \in Commands, decision \in Decision : Approve(r, b, decision))
        \/ (\E r \in Requests : Finish(r))
    BY DEF Next, _purge_expired_staged_commands, ResolveExpired, ResolveEscalation, Expire,
           Execute, ExecuteRaises, Restart
  <2>6. QED
    BY <2>1, <2>2, <2>3, <2>4, <2>5
<1>2. QED
  BY <1>1, Invariance, PTL DEF Spec, LateIsNever

(* The gate implements the kernel: it never asks advance() for a           *)
(* transition the table does not have.                                     *)
THEOREM GateImplementsKernel == Spec => ImplementsKernel
<1>1. Init => Kernel!Init
  BY DEF Init, Kernel!Init
<1>2. IInv /\ [Next]_vars => [Kernel!Next]_txn
  <2> SUFFICES ASSUME IInv, Next
               PROVE  Kernel!Next \/ txn' = txn
    BY DEF vars
  <2>0. txn \in [Commands -> Kernel!TransactionState \cup {Kernel!Unborn}]
    BY DEF IInv, TypeOK
  <2>1. ASSUME NEW c \in Commands, NEW target, advance(c, target),
               txn[c] \in Kernel!TransactionState, Kernel!can_advance(txn[c], target)
        PROVE  Kernel!Next
    <3>1. target \in Kernel!TransactionState
      BY <2>1 DEF Kernel!can_advance, Kernel!LEGAL_TRANSITIONS, Kernel!TransactionState
    <3>2. Kernel!advance(c, target)
      BY <2>1 DEF advance, Kernel!advance
    <3>3. QED
      BY <3>1, <3>2 DEF Kernel!Next, Kernel!TransactionState
  <2>2. ASSUME NEW c \in Commands, StagePropose(c)
        PROVE  Kernel!Next
    BY <2>2 DEF StagePropose, Stages, advance, IInv, TxnInv, Kernel!Next, Kernel!Propose
  <2>3. ASSUME NEW c \in Commands, StageInsert(c)
        PROVE  Kernel!Next
    BY <2>1, <2>3 DEF StageInsert, Stages, IInv, TxnInv, Kernel!can_advance, Kernel!LEGAL_TRANSITIONS,
                      Kernel!TransactionState
  <2>4. ASSUME NEW c \in Commands, Reject(c)
        PROVE  Kernel!Next
    BY <2>1, <2>4, ResolvableIsOpen DEF Reject, Kernel!can_advance, Kernel!LEGAL_TRANSITIONS, Kernel!TransactionState
  <2>5. ASSUME NEW r \in Requests, NEW c \in Commands, NEW decision \in Decision,
               Approve(r, c, decision)
        PROVE  Kernel!Next
    BY <2>1, <2>5, ResolvableIsOpen DEF Approve, Kernel!can_advance, Kernel!LEGAL_TRANSITIONS, Kernel!TransactionState
  <2>6. ASSUME NEW r \in Requests, Finish(r)
        PROVE  Kernel!Next
    BY <2>1, <2>6 DEF Finish, IInv, RequestInv, Kernel!can_advance, Kernel!LEGAL_TRANSITIONS, Kernel!TransactionState
  <2>7. QED
    BY <2>2, <2>3, <2>4, <2>5, <2>6
       DEF Next, Staging, StageLog, StageEscalation, _purge_expired_staged_commands,
           ResolveExpired, ResolveEscalation, Expire, Execute, ExecuteRaises, Restart
<1>3. QED
  BY <1>1, <1>2, Invariance, PTL DEF Spec, ImplementsKernel, Kernel!Spec

-----------------------------------------------------------------------------
(* What the kernel promises of the transactions it is asked to advance.    *)

(* Every snapshot is of a known state: advance() never invents one.        *)
LEMMA KernelTyped == Kernel!Spec => []Kernel!TypeOK
<1>1. Kernel!Init => Kernel!TypeOK
  BY DEF Kernel!Init, Kernel!TypeOK
<1>2. ASSUME Kernel!TypeOK, [Kernel!Next]_txn PROVE Kernel!TypeOK'
  <2>1. ASSUME NEW t \in Commands, Kernel!Propose(t) PROVE Kernel!TypeOK'
    BY <1>2, <2>1 DEF Kernel!TypeOK, Kernel!Propose, Kernel!TransactionState
  <2>2. ASSUME NEW t \in Commands, NEW target \in Kernel!TransactionState, Kernel!advance(t, target)
        PROVE  Kernel!TypeOK'
    BY <1>2, <2>2 DEF Kernel!TypeOK, Kernel!advance
  <2>3. QED
    BY <1>2, <2>1, <2>2 DEF Kernel!Next, Kernel!TypeOK
<1>3. QED
  BY <1>1, <1>2, PTL DEF Kernel!Spec

LEMMA KernelGoesForward == Kernel!Spec => Kernel!CommittedGoesForward
<1>1. Kernel!TypeOK /\ [Kernel!Next]_txn
      => [\A t \in Commands :
            /\ txn[t] = "COMMITTED" => txn'[t] \in {"COMMITTED", "FINALIZED"}
            /\ txn[t] \in {"FINALIZED", "ROLLED_BACK"} => txn'[t] = txn[t]]_txn
  <2> SUFFICES ASSUME Kernel!TypeOK, Kernel!Next, NEW t \in Commands
               PROVE  /\ txn[t] = "COMMITTED" => txn'[t] \in {"COMMITTED", "FINALIZED"}
                      /\ txn[t] \in {"FINALIZED", "ROLLED_BACK"} => txn'[t] = txn[t]
    OBVIOUS
  <2>1. PICK u \in Commands :
          Kernel!Propose(u) \/ \E target \in Kernel!TransactionState : Kernel!advance(u, target)
    BY DEF Kernel!Next
  <2>2. CASE Kernel!Propose(u)
    BY <2>2 DEF Kernel!Propose, Kernel!TypeOK, Kernel!Unborn
  <2>3. CASE \E target \in Kernel!TransactionState : Kernel!advance(u, target)
    BY <2>3 DEF Kernel!advance, Kernel!can_advance, Kernel!LEGAL_TRANSITIONS, Kernel!TypeOK,
               Kernel!TransactionState
  <2>4. QED
    BY <2>1, <2>2, <2>3
<1>2. QED
  BY <1>1, KernelTyped, PTL DEF Kernel!Spec, Kernel!CommittedGoesForward

(* "Once COMMITTED, a transaction cannot be rolled back -- only forward to *)
(* FINALIZED", and a terminal state is never left, whatever the gate does. *)
THEOREM NoWayBack == Spec => Kernel!CommittedGoesForward
BY GateImplementsKernel, KernelGoesForward DEF ImplementsKernel
=============================================================================
