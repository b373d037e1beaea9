------------------------------- MODULE FileStaging -------------------------------
(***************************************************************************)
(* Staged files: an envelope per file in the staging directory, reviewed   *)
(* by a person, and on approval the payload written to its target path.    *)
(*                                                                         *)
(* Every operation runs on the event loop without suspending, so one at a  *)
(* time; what can come between its writes is a crash, or an OSError that   *)
(* ends it. A target is replaced atomically, an envelope is overwritten in *)
(* place. Two files may have the same target path.                         *)
(***************************************************************************)
CONSTANTS
  Files,        (* staged ids, uuids: never used twice                     *)
  Targets,      (* target paths                                            *)
  NoTarget,     (* no final_path                                           *)
  NoFile,       (* no job's file, and a target that was never written      *)
  NoEnvelope,   (* no such envelope                                        *)
  Cut           (* an envelope that does not parse                         *)

VARIABLES
  envelope,     (* the envelopes on disk                                   *)
  target,       (* the file whose payload is at a target path              *)
  job,          (* the operation that is being served                      *)
  interrupted   (* auxiliary: files with an operation cut short            *)

vars == <<envelope, target, job, interrupted>>

(* The file's latest transaction: the one the operation has in memory, or   *)
(* the one in the envelope, or nothing that can be read.                    *)
snapshot == [f \in Files |->
  IF job.file = f THEN job.next.transaction
  ELSE IF envelope[f] \in {NoEnvelope, Cut} THEN "unborn" ELSE envelope[f].transaction]

Kernel == INSTANCE StateTransaction WITH Transactions <- Files

Envelope == [approval_status: {"pending", "approved", "rejected"},
             final_path: Targets \cup {NoTarget}, transaction: Kernel!TransactionState]

(* What stands for nothing is none of the things.                           *)
StagingAssumption == NoFile \notin Files /\ Cut \notin Envelope /\ NoEnvelope \notin Envelope \cup {Cut}

Idle == [pc |-> "idle", file |-> NoFile, next |-> Cut]
Job == [pc: {"idle", "validate", "place", "finalize", "open", "write"},
        file: Files \cup {NoFile}, next: Envelope \cup {Cut}]

TypeOK ==
  /\ envelope \in [Files -> Envelope \cup {NoEnvelope, Cut}]
  /\ target \in [Targets -> Files \cup {NoFile}]
  /\ job \in Job
  /\ interrupted \subseteq Files

Init ==
  /\ envelope = [f \in Files |-> NoEnvelope]
  /\ target = [t \in Targets |-> NoFile]
  /\ job = Idle
  /\ interrupted = {}

Does(pc) == job.pc = pc
Start(pc, f, next) == Does("idle") /\ job' = [pc |-> pc, file |-> f, next |-> next]
Pending_or_resolved(f) == envelope[f] \notin {NoEnvelope, Cut}

Pending(f) == envelope[f] \notin {NoEnvelope, Cut} /\ envelope[f].approval_status = "pending"

(* The envelope the operation will persist, and where it goes on.           *)
Continue(pc, state) ==
  job' = [job EXCEPT !.pc = pc, !.next.transaction = state]

(* --- Operations ---------------------------------------------------------- *)

stage_file(f) ==
  /\ envelope[f] = NoEnvelope /\ f \notin interrupted
  /\ Start("validate", f, [approval_status |-> "pending", final_path |-> NoTarget, transaction |-> "PROPOSED"])
  /\ UNCHANGED <<envelope, target, interrupted>>

Validate ==
  /\ Does("validate")
  /\ Continue("open", "VALIDATED")
  /\ UNCHANGED <<envelope, target, interrupted>>

(* 422 unless the envelope is found and pending.                            *)
approve_staged(f, t) ==
  /\ Pending(f)
  /\ Start("place", f, [approval_status |-> "approved", final_path |-> t, transaction |-> "COMMITTED"])
  /\ UNCHANGED <<envelope, target, interrupted>>

write_from_template ==
  /\ Does("place")
  /\ target' = [target EXCEPT ![job.next.final_path] = job.file]
  /\ job' = [job EXCEPT !.pc = "finalize"]
  /\ UNCHANGED <<envelope, interrupted>>

Finalize ==
  /\ Does("finalize")
  /\ Continue("open", "FINALIZED")
  /\ UNCHANGED <<envelope, target, interrupted>>

reject_staged(f) ==
  /\ Pending(f)
  /\ Start("open", f, [envelope[f] EXCEPT !.approval_status = "rejected", !.transaction = "ROLLED_BACK"])
  /\ UNCHANGED <<envelope, target, interrupted>>

(* path.write_text truncates the envelope, and then writes it.              *)
OpenEnvelope ==
  /\ Does("open")
  /\ envelope' = [envelope EXCEPT ![job.file] = Cut]
  /\ job' = [job EXCEPT !.pc = "write"]
  /\ UNCHANGED <<target, interrupted>>

_persist_envelope ==
  /\ Does("write")
  /\ envelope' = [envelope EXCEPT ![job.file] = job.next]
  /\ job' = Idle
  /\ UNCHANGED <<target, interrupted>>

(* A crash, or an OSError from the write that is next: nothing is undone.   *)
Interrupt ==
  /\ ~Does("idle")
  /\ job' = Idle
  /\ interrupted' = interrupted \cup {job.file}
  /\ UNCHANGED <<envelope, target>>

Restart ==
  \/ Interrupt
  \/ Does("idle") /\ UNCHANGED vars

Next ==
  \/ \E f \in Files : stage_file(f) \/ reject_staged(f) \/ \E t \in Targets : approve_staged(f, t)
  \/ Validate \/ write_from_template \/ Finalize \/ OpenEnvelope \/ _persist_envelope
  \/ Interrupt

Spec == Init /\ [][Next]_vars

(* ---- Properties ---------------------------------------------------------- *)

Resolved(f) == envelope[f] \notin {NoEnvelope, Cut} /\ envelope[f].approval_status # "pending"

(* What is at a target path was approved, or is being approved, unless an   *)
(* interrupted approval put it there: only then can a file in place be      *)
(* pending or rejected.                                                     *)
InPlaceIsApproved ==
  \A t \in Targets, f \in Files :
    target[t] = f /\ f \notin interrupted =>
      \/ job.file = f /\ job.next.approval_status = "approved"
      \/ Resolved(f) /\ envelope[f].approval_status = "approved"

(* The target of an approved file holds it, or a file placed later.         *)
ApprovedIsInPlace ==
  \A f \in Files : Resolved(f) /\ envelope[f].approval_status = "approved" => target[envelope[f].final_path] # NoFile

(* A resolved envelope keeps its resolution, and one that an interruption   *)
(* cut is never read again, whatever is approved or rejected afterwards.    *)
KeepsResolutions ==
  \A f \in Files :
    /\ Resolved(f) => envelope'[f] = envelope[f]
    /\ envelope[f] = Cut /\ job.file # f => envelope'[f] = Cut

(* Every advance() is legal: a step of the kernel or none, except that an   *)
(* interruption takes a transaction back to what the envelope says.         *)
AdvancesLegally == UNCHANGED snapshot \/ Interrupt \/ Kernel!Next
=============================================================================
