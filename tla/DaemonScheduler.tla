---------------------------- MODULE DaemonScheduler ----------------------------
(***************************************************************************)
(* DaemonScheduler: batch runs that take the one slot of the scheduler in  *)
(* turn, collect the proposals their tasks make, enter a bounded history,  *)
(* and wait there for the decisions of the domain authorities.             *)
(*                                                                         *)
(* A run is one call of _execute, in a thread of its own; what it does     *)
(* under _lock is one step, and so is everything a caller can tell apart   *)
(* outside it.  Decisions are coroutines of the event loop and take _lock. *)
(* The number of tasks and of domains does not matter here: a task step    *)
(* may add proposals or a failure, and the loop may end after any step.    *)
(***************************************************************************)
EXTENDS Naturals, Sequences, FiniteSets

CONSTANTS
  Runs,               (* the runs triggered in one behaviour               *)
  NoRun,              (* _current_run is None                              *)
  max_history,        (* _max_history, 50 in the code                      *)
  Proposals,          (* the proposal ids                                  *)
  Domains,            (* the domains whose authorities decide              *)
  NoDomain,           (* a decision that names no domain                   *)
  required_approvers  (* Proposal.required_approvers, empty when unset     *)

ASSUME SchedulerAssumption ==
  /\ NoRun \notin Runs
  /\ max_history \in Nat \ {0}
  /\ NoDomain \notin Domains
  /\ required_approvers \in [Proposals -> SUBSET Domains]

Decision == {"approved", "rejected"}

(* A run triggered without domain_ids is a full one, whoever triggers it:   *)
(* an opportunistic run of a single task is no exception.                   *)
Kind == {"full", "targeted"}

VARIABLES
  pc,         (* where the _execute call of a run is                       *)
  kind,       (* how a run was triggered                                   *)
  current,    (* _current_run                                              *)
  history,    (* _runs, most recent first                                  *)
  report,     (* DaemonReport.status                                       *)
  failed,     (* the runs with a TaskResult that is not a success          *)
  home,       (* the run whose results hold a proposal                     *)
  status,     (* Proposal.status                                           *)
  approvals,  (* Proposal.approvals                                        *)
  unkeyed     (* auxiliary: proposals decided without naming a domain      *)

runVars == <<pc, kind, current, history, report, failed>>
proposalVars == <<home, status, approvals, unkeyed>>
vars == <<runVars, proposalVars>>

Working == {"load", "tasks", "cross", "finish", "release"}
Recorded == {history[i] : i \in DOMAIN history}

TypeOK ==
  /\ pc \in [Runs -> Working \cup {"new", "triggered", "refused", "ended"}]
  /\ kind \in [Runs -> Kind]
  /\ current \in Runs \cup {NoRun}
  /\ history \in Seq(Runs) /\ Len(history) <= max_history
  /\ report \in [Runs -> {"running", "completed", "failed"}]
  /\ failed \subseteq Runs
  /\ home \in [Proposals -> Runs \cup {NoRun}]
  /\ status \in [Proposals -> Decision \cup {"pending"}]
  /\ approvals \in [Proposals -> [Domains -> Decision \cup {"none"}]]
  /\ unkeyed \subseteq Proposals

Init ==
  /\ pc = [r \in Runs |-> "new"]
  /\ kind = [r \in Runs |-> "full"]
  /\ current = NoRun
  /\ history = <<>>
  /\ report = [r \in Runs |-> "running"]
  /\ failed = {}
  /\ home = [p \in Proposals |-> NoRun]
  /\ status = [p \in Proposals |-> "pending"]
  /\ approvals = [p \in Proposals |-> [d \in Domains |-> "none"]]
  /\ unkeyed = {}

Moves(r, from, to) == pc[r] = from /\ pc' = [pc EXCEPT ![r] = to]

(* DaemonReport.finish: the status is recomputed from the results.          *)
finish(r) == report' = [report EXCEPT ![r] = IF r \in failed THEN "failed" ELSE "completed"]

(* --- A run ---------------------------------------------------------------- *)

Trigger(r, k) ==
  /\ Moves(r, "new", "triggered")
  /\ kind' = [kind EXCEPT ![r] = k]
  /\ UNCHANGED <<current, history, report, failed, proposalVars>>

(* The slot is taken without looking whether it is free.                    *)
Acquire_unchecked(r) ==
  /\ Moves(r, "triggered", "load")
  /\ current' = r
  /\ UNCHANGED <<kind, history, report, failed, proposalVars>>

Acquire(r) ==
  /\ current = NoRun
  /\ Moves(r, "triggered", "load")
  /\ current' = r
  /\ UNCHANGED <<kind, history, report, failed, proposalVars>>

(* The slot is taken: "failed" is set and then recomputed by finish(), and  *)
(* the report goes to the caller of _execute only.                          *)
Refuse(r) ==
  /\ current # NoRun
  /\ Moves(r, "triggered", "refused")
  /\ finish(r)
  /\ UNCHANGED <<kind, current, history, failed, proposalVars>>

Load(r) ==
  /\ Moves(r, "load", "tasks")
  /\ UNCHANGED <<kind, current, history, report, failed, proposalVars>>

(* domain_loader raises: straight to the finally clause, past finish().     *)
LoadRaises(r) ==
  /\ Moves(r, "load", "release")
  /\ UNCHANGED <<kind, current, history, report, failed, proposalVars>>

(* One TaskResult is appended: a failure, or new proposals.  Only the       *)
(* cross-domain tasks make proposals with required approvers.               *)
Fail(r) ==
  /\ failed' = failed \cup {r}
  /\ UNCHANGED home

Emit(r, fresh) ==
  /\ home' = [p \in Proposals |-> IF p \in fresh THEN r ELSE home[p]]
  /\ UNCHANGED failed

Unborn == {p \in Proposals : home[p] = NoRun}
Solo == {p \in Proposals : required_approvers[p] = {}}

Task(r) ==
  /\ pc[r] = "tasks"
  /\ Fail(r) \/ \E fresh \in SUBSET (Unborn \cap Solo) : Emit(r, fresh)
  /\ UNCHANGED <<pc, kind, current, history, report, status, approvals, unkeyed>>

CrossDomainTask(r) ==
  /\ pc[r] = "cross"
  /\ Fail(r) \/ \E fresh \in SUBSET Unborn : Emit(r, fresh)
  /\ UNCHANGED <<pc, kind, current, history, report, status, approvals, unkeyed>>

(* domain_ids is None in every run but the targeted ones.                   *)
TasksDone(r) ==
  /\ Moves(r, "tasks", IF kind[r] = "targeted" THEN "finish" ELSE "cross")
  /\ UNCHANGED <<kind, current, history, report, failed, proposalVars>>

CrossDone(r) ==
  /\ Moves(r, "cross", "finish")
  /\ UNCHANGED <<kind, current, history, report, failed, proposalVars>>

(* max_duration_minutes have passed: no further task of either sort.        *)
Deadline(r) ==
  /\ Moves(r, "tasks", "finish")
  /\ UNCHANGED <<kind, current, history, report, failed, proposalVars>>

Finish(r) ==
  /\ Moves(r, "finish", "release")
  /\ finish(r)
  /\ UNCHANGED <<kind, current, history, failed, proposalVars>>

(* The history is cut one too late.                                         *)
Newest_plus_one(runs) == IF Len(runs) > max_history + 1 THEN SubSeq(runs, 1, max_history) ELSE runs

Newest(runs) == IF Len(runs) > max_history THEN SubSeq(runs, 1, max_history) ELSE runs

(* A run that never got to finish() is not recorded.                        *)
Release_if_finished(r) ==
  /\ Moves(r, "release", "ended")
  /\ current' = NoRun
  /\ history' = IF report[r] = "running" THEN history ELSE Newest(<<r>> \o history)
  /\ UNCHANGED <<kind, report, failed, proposalVars>>

(* The slot is given back only by a run that got to finish().               *)
Release_finished_only(r) ==
  /\ report[r] # "running"
  /\ Moves(r, "release", "ended")
  /\ current' = NoRun
  /\ history' = Newest(<<r>> \o history)
  /\ UNCHANGED <<kind, report, failed, proposalVars>>

(* The finally clause: the slot is free, and the run is the newest one.     *)
Release(r) ==
  /\ Moves(r, "release", "ended")
  /\ current' = NoRun
  /\ history' = Newest(<<r>> \o history)
  /\ UNCHANGED <<kind, report, failed, proposalVars>>

(* --- Decisions ------------------------------------------------------------ *)

(* Any approval is enough.                                                  *)
resolve_approval_any(p, d, decision) ==
  /\ approvals' = [approvals EXCEPT ![p][d] = decision]
  /\ status' = [status EXCEPT ![p] = decision]

(* Proposal.resolve_approval: the last decision decides, with the others.   *)
resolve_approval(p, d, decision) ==
  /\ approvals' = [approvals EXCEPT ![p][d] = decision]
  /\ status' = [status EXCEPT ![p] =
       IF decision = "rejected" THEN "rejected"
       ELSE IF \A a \in required_approvers[p] : approvals'[p][a] = "approved"
         THEN "approved" ELSE "pending"]

(* Running runs are searched as well.                                       *)
resolve_proposal_early(p, decision, d) ==
  /\ home[p] # NoRun
  /\ IF required_approvers[p] # {} /\ d # NoDomain
       THEN resolve_approval(p, d, decision) /\ UNCHANGED unkeyed
       ELSE /\ status' = [status EXCEPT ![p] = decision]
            /\ unkeyed' = unkeyed \cup {p}
            /\ UNCHANGED approvals
  /\ UNCHANGED <<runVars, home>>

(* Only the history is searched; the present status is not looked at.       *)
resolve_proposal(p, decision, d) ==
  /\ home[p] \in Recorded
  /\ IF required_approvers[p] # {} /\ d # NoDomain
       THEN resolve_approval(p, d, decision) /\ UNCHANGED unkeyed
       ELSE /\ status' = [status EXCEPT ![p] = decision]
            /\ unkeyed' = unkeyed \cup {p}
            /\ UNCHANGED approvals
  /\ UNCHANGED <<runVars, home>>

_execute(r) ==
  \/ Acquire(r) \/ Refuse(r) \/ Load(r) \/ LoadRaises(r) \/ Task(r) \/ TasksDone(r)
  \/ Deadline(r) \/ CrossDomainTask(r) \/ CrossDone(r) \/ Finish(r) \/ Release(r)

Next ==
  \/ \E r \in Runs : _execute(r)
  \/ \E r \in Runs, k \in Kind : Trigger(r, k)
  \/ \E p \in Proposals, decision \in Decision, d \in Domains \cup {NoDomain} :
       resolve_proposal(p, decision, d)

(* A started thread keeps running, and every task returns or raises.        *)
Fairness == \A r \in Runs : WF_vars(_execute(r))

Spec == Init /\ [][Next]_vars /\ Fairness

(* --- What should hold ------------------------------------------------------ *)

(* Whoever is between taking the slot and giving it back is _current_run:   *)
(* two runs never work at the same time, and no refused run has any result. *)
OneRunWorks ==
  /\ \A r \in Runs : pc[r] \in Working <=> current = r
  /\ \A r \in Runs : pc[r] = "refused" => r \notin failed \cup {home[p] : p \in Proposals}

(* A run that worked is in the history, even if its domains could not be    *)
(* loaded; it leaves only when max_history younger ones have come.          *)
HistoryIsComplete ==
  \A r \in Runs : pc[r] = "ended" => r \in Recorded \/ Len(history) = max_history

(* Nobody decides a proposal while the run that made it still works on its  *)
(* results.                                                                 *)
DecidedAfterTheRun ==
  \A p \in Proposals :
    status[p] # "pending" => home[p] \in Runs /\ pc[home[p]] = "ended"

(* As long as every decision names its domain, a cross-domain proposal is   *)
(* approved only with the approval of every required approver, and a        *)
(* rejection by any of them is never outvoted.                              *)
KeysAreCounted ==
  \A p \in Proposals \ unkeyed :
    required_approvers[p] # {} /\ status[p] = "approved"
      => \A d \in required_approvers[p] : approvals[p][d] = "approved"

(* Decisions come after the run and count every key.                        *)
DecisionsAreSound == DecidedAfterTheRun /\ KeysAreCounted

(* The slot is given back whatever happens in the run, and every triggered  *)
(* run is either refused or over in the end.                                *)
SlotIsFreed ==
  \A r \in Runs :
    /\ current = r ~> current # r
    /\ pc[r] = "triggered" ~> pc[r] \in {"refused", "ended"}

(* --- What is said of the code and does not hold --------------------------- *)

(* "domain_ids that must independently approve before status can become     *)
(* approved".                                                               *)
BothKeysTurned ==
  \A p \in Proposals :
    required_approvers[p] # {} /\ status[p] = "approved"
      => \A d \in required_approvers[p] : approvals[p][d] = "approved"
=============================================================================
