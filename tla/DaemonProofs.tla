------------------------------ MODULE DaemonProofs ------------------------------
(***************************************************************************)
(* Theorems about the two halves of the daemon: DaemonScheduler, for any   *)
(* number of runs, proposals, domains and approvers, and any length of the *)
(* history; and ResourceMonitor, for any number of tasks, domains and      *)
(* dispatches.                                                             *)
(***************************************************************************)
EXTENDS DaemonScheduler, ResourceMonitor, SequenceTheorems, TLAPS

(* ---- The scheduler ------------------------------------------------------ *)

USE SchedulerAssumption DEF SchedulerAssumption

Held(runs) == {runs[i] : i \in DOMAIN runs}

(* Pushing a run onto a history: the run is in front, nothing is invented,  *)
(* the bound holds, and below the bound nothing is dropped.                 *)
LEMMA PushRun ==
  ASSUME NEW runs \in Seq(Runs), NEW r \in Runs, Len(runs) <= max_history,
         NEW pushed, pushed = Newest(<<r>> \o runs)
  PROVE  /\ pushed \in Seq(Runs) /\ Len(pushed) <= max_history
         /\ r \in Held(pushed)
         /\ Held(pushed) \subseteq Held(runs) \cup {r}
         /\ Len(pushed) = max_history \/ Held(runs) \subseteq Held(pushed)
         /\ Len(runs) = max_history => Len(pushed) = max_history
<1> DEFINE all == <<r>> \o runs
<1>1. Len(runs) \in Nat /\ <<r>> \in Seq(Runs) /\ Len(<<r>>) = 1 /\ <<r>>[1] = r
  OBVIOUS
<1>2. /\ all \in Seq(Runs) /\ Len(all) = Len(runs) + 1
      /\ \A i \in 1 .. Len(all) : all[i] = IF i <= 1 THEN r ELSE runs[i - 1]
  BY <1>1, ConcatProperties
<1> HIDE DEF all
<1>3. pushed = IF Len(all) > max_history THEN SubSeq(all, 1, max_history) ELSE all
  BY DEF Newest, all
<1>4. /\ pushed \in Seq(Runs)
      /\ Len(pushed) = IF Len(all) > max_history THEN max_history ELSE Len(all)
      /\ \A i \in 1 .. Len(pushed) : pushed[i] = all[i]
  <2>1. CASE Len(all) > max_history
    <3>1. \A i \in 1 .. max_history : all[i] \in Runs
      BY <1>2, <2>1
    <3>2. /\ SubSeq(all, 1, max_history) \in Seq(Runs)
          /\ Len(SubSeq(all, 1, max_history)) = max_history
          /\ \A i \in 1 .. max_history : SubSeq(all, 1, max_history)[i] = all[i]
      BY <3>1, SubSeqProperties
    <3>3. QED
      BY <1>3, <2>1, <3>2
  <2>2. CASE ~(Len(all) > max_history)
    BY <1>2, <1>3, <2>2
  <2>3. QED
    BY <2>1, <2>2
<1>5. pushed[1] = r /\ 1 \in DOMAIN pushed
  BY <1>1, <1>2, <1>4
<1>6. Held(pushed) \subseteq Held(runs) \cup {r}
  <2> SUFFICES ASSUME NEW i \in DOMAIN pushed, pushed[i] # r
               PROVE  \E j \in DOMAIN runs : pushed[i] = runs[j]
    BY DEF Held
  <2>1. i \in 2 .. Len(runs) + 1 /\ pushed[i] = runs[i - 1]
    BY <1>1, <1>2, <1>4, <1>5
  <2>2. QED
    BY <1>1, <2>1
<1>7. Len(pushed) = max_history \/ Held(runs) \subseteq Held(pushed)
  <2> SUFFICES ASSUME Len(pushed) # max_history, NEW i \in DOMAIN runs
               PROVE  \E j \in DOMAIN pushed : runs[i] = pushed[j]
    BY DEF Held
  <2>1. Len(pushed) = Len(runs) + 1
    BY <1>2, <1>4
  <2>2. i \in 1 .. Len(runs)
    BY <1>1
  <2>3. i + 1 \in 1 .. Len(pushed) /\ i + 1 \in 1 .. Len(all)
    BY <1>1, <1>2, <2>1, <2>2
  <2>4. all[i + 1] = runs[i]
    BY <1>1, <1>2, <2>2, <2>3
  <2>5. pushed[i + 1] = runs[i]
    BY <1>4, <2>3, <2>4
  <2>6. i + 1 \in DOMAIN pushed
    BY <1>4, <2>3
  <2>7. QED
    BY <2>5, <2>6
<1>8. r \in Held(pushed)
  BY <1>5 DEF Held
<1>9. Len(pushed) <= max_history /\ (Len(runs) = max_history => Len(pushed) = max_history)
  BY <1>1, <1>2, <1>4
<1>10. QED
  BY <1>4, <1>6, <1>7, <1>8, <1>9

-----------------------------------------------------------------------------
(* Type correctness.                                                       *)

LEMMA TypedInit == Init => TypeOK
BY DEF Init, TypeOK, Kind

LEMMA ReleaseTyped ==
  ASSUME TypeOK, NEW r \in Runs, Release(r)
  PROVE  TypeOK'
<1>1. history' \in Seq(Runs) /\ Len(history') <= max_history
  BY PushRun DEF TypeOK, Release
<1>2. QED
  BY <1>1 DEF TypeOK, Release, Moves, Working, proposalVars

LEMMA RunTyped ==
  ASSUME TypeOK, NEW r \in Runs, _execute(r)
  PROVE  TypeOK'
<1>1. CASE Acquire(r) \/ Load(r) \/ LoadRaises(r) \/ TasksDone(r) \/ Deadline(r) \/ CrossDone(r)
  BY <1>1 DEF Acquire, Load, LoadRaises, TasksDone, Deadline, CrossDone, Moves, TypeOK, Working, proposalVars
<1>2. CASE Refuse(r) \/ Finish(r)
  BY <1>2 DEF Refuse, Finish, finish, Moves, TypeOK, Working, proposalVars
<1>3. CASE Task(r) \/ CrossDomainTask(r)
  BY <1>3 DEF Task, CrossDomainTask, Fail, Emit, TypeOK
<1>4. QED
  BY <1>1, <1>2, <1>3, ReleaseTyped DEF _execute

LEMMA DecisionTyped ==
  ASSUME TypeOK, NEW p \in Proposals, NEW decision \in Decision, NEW d \in Domains \cup {NoDomain},
         resolve_proposal(p, decision, d)
  PROVE  TypeOK'
<1>1. CASE required_approvers[p] # {} /\ d # NoDomain
  <2>1. approvals' = [approvals EXCEPT ![p][d] = decision] /\ d \in Domains
    BY <1>1 DEF resolve_proposal, resolve_approval
  <2>2. approvals' \in [Proposals -> [Domains -> Decision \cup {"none"}]]
    BY <2>1 DEF TypeOK
  <2>3. status' \in [Proposals -> Decision \cup {"pending"}]
    BY <1>1 DEF resolve_proposal, resolve_approval, TypeOK, Decision
  <2>4. QED
    BY <1>1, <2>2, <2>3 DEF resolve_proposal, TypeOK, runVars
<1>2. CASE ~(required_approvers[p] # {} /\ d # NoDomain)
  BY <1>2 DEF resolve_proposal, TypeOK, runVars
<1>3. QED
  BY <1>1, <1>2

(* The scheduler's fields, the reports and the proposals keep their types,  *)
(* and the history never grows beyond its bound.                            *)
THEOREM TypeCorrect == Spec => []TypeOK
<1>1. TypeOK /\ [Next]_vars => TypeOK'
  <2> SUFFICES ASSUME TypeOK, [Next]_vars PROVE TypeOK'
    OBVIOUS
  <2>1. ASSUME NEW r \in Runs, NEW k \in Kind, Trigger(r, k) PROVE TypeOK'
    BY <2>1 DEF Trigger, Moves, TypeOK, Working, proposalVars
  <2>2. CASE UNCHANGED vars
    BY <2>2 DEF TypeOK, vars, runVars, proposalVars
  <2>3. QED
    BY <2>1, <2>2, RunTyped, DecisionTyped DEF Next
<1>2. QED
  BY <1>1, TypedInit, PTL DEF Spec

-----------------------------------------------------------------------------
(* The slot.  What OneRunWorks says of refused runs needs to know that      *)
(* only runs that held the slot have results; and it is inductive then.     *)

ResultsInv ==
  /\ \A r \in failed : pc[r] \in Working \cup {"ended"}
  /\ \A p \in Proposals : home[p] # NoRun => pc[home[p]] \in Working \cup {"ended"}

SlotInv == \A r \in Runs : pc[r] \in Working <=> current = r

RecordedInv ==
  /\ HistoryIsComplete
  /\ \A r \in Recorded : pc[r] = "ended"

IInv == TypeOK /\ SlotInv /\ ResultsInv /\ RecordedInv /\ DecidedAfterTheRun

LEMMA InitIInv == Init => IInv
<1> SUFFICES ASSUME Init PROVE IInv
  OBVIOUS
<1>1. SlotInv /\ ResultsInv /\ DecidedAfterTheRun
  BY DEF Init, SlotInv, ResultsInv, DecidedAfterTheRun, Working
<1>2. RecordedInv
  BY DEF Init, RecordedInv, HistoryIsComplete, Recorded
<1>3. QED
  BY <1>1, <1>2, TypedInit DEF IInv

LEMMA RunKeepsIInv ==
  ASSUME IInv, TypeOK', NEW r \in Runs,
         Acquire(r) \/ Refuse(r) \/ Load(r) \/ LoadRaises(r) \/ TasksDone(r) \/ Deadline(r)
           \/ CrossDone(r) \/ Finish(r) \/ \E k \in Kind : Trigger(r, k)
  PROVE  IInv'
<1> USE DEF IInv
<1>1. /\ UNCHANGED <<history, failed, proposalVars>>
      /\ \E from, to \in Working \cup {"new", "triggered", "refused"} : Moves(r, from, to)
      /\ pc[r] \notin {"refused", "ended"} /\ pc'[r] # "ended"
  BY DEF Acquire, Refuse, Load, LoadRaises, TasksDone, Deadline, CrossDone, Finish, Trigger, Moves,
         Working, TypeOK
<1>2. \A q \in Runs : q # r => pc'[q] = pc[q]
  BY <1>1 DEF Moves, TypeOK
<1>3. SlotInv'
  <2>1. CASE Acquire(r)
    BY <2>1, <1>2 DEF Acquire, Moves, SlotInv, TypeOK, Working
  <2>2. CASE ~Acquire(r)
    <3>1. UNCHANGED current
      BY <2>2 DEF Refuse, Load, LoadRaises, TasksDone, Deadline, CrossDone, Finish, Trigger
    <3>2. pc[r] \in Working <=> pc'[r] \in Working
      BY <2>2 DEF Refuse, Load, LoadRaises, TasksDone, Deadline, CrossDone, Finish, Trigger, Moves,
                  Working, TypeOK
    <3>3. QED
      BY <3>1, <3>2, <1>2 DEF SlotInv
  <2>3. QED
    BY <2>1, <2>2
<1>4. ResultsInv'
  <2>1. pc[r] \in Working => pc'[r] \in Working
    BY DEF Acquire, Refuse, Load, LoadRaises, TasksDone, Deadline, CrossDone, Finish, Trigger, Moves,
           Working, TypeOK
  <2>2. pc[r] # "ended"
    BY <1>1
  <2>3. \A q \in Runs : pc[q] \in Working \cup {"ended"} => pc'[q] \in Working \cup {"ended"}
    BY <1>2, <2>1, <2>2
  <2>4. failed' = failed /\ failed \subseteq Runs /\ home' = home
    BY <1>1 DEF proposalVars, TypeOK
  <2>5. \A p \in Proposals : home[p] # NoRun => home[p] \in Runs
    BY DEF TypeOK
  <2>6. QED
    BY <2>3, <2>4, <2>5 DEF ResultsInv
<1>5. RecordedInv'
  <2>1. UNCHANGED <<history, Recorded>>
    BY <1>1 DEF Recorded
  <2>2. \A q \in Runs : pc'[q] = "ended" <=> pc[q] = "ended"
    BY <1>1, <1>2
  <2>3. Recorded \subseteq Runs
    BY DEF TypeOK, Recorded
  <2>4. QED
    BY <2>1, <2>2, <2>3 DEF RecordedInv, HistoryIsComplete
<1>6. DecidedAfterTheRun'
  BY <1>1, <1>2 DEF DecidedAfterTheRun, proposalVars, TypeOK
<1>7. QED
  BY <1>3, <1>4, <1>5, <1>6

LEMMA TaskKeepsIInv ==
  ASSUME IInv, TypeOK', NEW r \in Runs, Task(r) \/ CrossDomainTask(r)
  PROVE  IInv'
<1> USE DEF IInv
<1>0. \/ Fail(r)
      \/ \E fresh \in SUBSET Unborn : Emit(r, fresh)
  BY DEF Task, CrossDomainTask
<1>1. /\ UNCHANGED <<pc, current, history, status>>
      /\ pc[r] \in Working
      /\ failed' \subseteq failed \cup {r}
      /\ \A p \in Proposals : home'[p] = home[p] \/ (home[p] = NoRun /\ home'[p] = r)
  <2>1. UNCHANGED <<pc, current, history, status>> /\ pc[r] \in Working
    BY DEF Task, CrossDomainTask, Working
  <2>2. CASE Fail(r)
    BY <2>1, <2>2 DEF Fail
  <2>3. CASE \E fresh \in SUBSET Unborn : Emit(r, fresh)
    BY <2>1, <2>3 DEF Emit, Unborn
  <2>4. QED
    BY <1>0, <2>2, <2>3
<1>2. SlotInv' /\ RecordedInv'
  BY <1>1 DEF SlotInv, RecordedInv, HistoryIsComplete, Recorded
<1>3. ResultsInv'
  BY <1>1 DEF ResultsInv
<1>4. DecidedAfterTheRun'
  BY <1>1 DEF DecidedAfterTheRun
<1>5. QED
  BY <1>2, <1>3, <1>4

LEMMA ReleaseKeepsIInv ==
  ASSUME IInv, TypeOK', NEW r \in Runs, Release(r)
  PROVE  IInv'
<1> USE DEF IInv
<1>1. /\ pc[r] = "release" /\ pc' = [pc EXCEPT ![r] = "ended"] /\ current' = NoRun
      /\ UNCHANGED <<failed, home, status>>
  BY DEF Release, Moves, proposalVars
<1>2. /\ r \in Recorded' /\ Recorded' \subseteq Recorded \cup {r}
      /\ Len(history') = max_history \/ Recorded \subseteq Recorded'
      /\ Len(history) = max_history => Len(history') = max_history
  <2>1. Recorded = Held(history) /\ Recorded' = Held(history')
    BY DEF Recorded, Held
  <2>2. QED
    BY <2>1, PushRun DEF TypeOK, Release
<1>3. SlotInv'
  BY <1>1 DEF SlotInv, Working, TypeOK
<1>4. ResultsInv'
  BY <1>1 DEF ResultsInv, TypeOK
<1>5. RecordedInv'
  BY <1>1, <1>2 DEF RecordedInv, HistoryIsComplete, TypeOK
<1>6. DecidedAfterTheRun'
  BY <1>1 DEF DecidedAfterTheRun, TypeOK
<1>7. QED
  BY <1>3, <1>4, <1>5, <1>6

LEMMA DecisionKeepsIInv ==
  ASSUME IInv, TypeOK', NEW p \in Proposals, NEW decision \in Decision,
         NEW d \in Domains \cup {NoDomain}, resolve_proposal(p, decision, d)
  PROVE  IInv'
<1> USE DEF IInv
<1>1. /\ UNCHANGED <<pc, current, history, failed, home>>
      /\ home[p] \in Recorded
      /\ \A q \in Proposals : q # p => status'[q] = status[q]
  BY DEF resolve_proposal, resolve_approval, runVars, TypeOK
<1>2. SlotInv' /\ ResultsInv' /\ RecordedInv'
  BY <1>1 DEF SlotInv, ResultsInv, RecordedInv, HistoryIsComplete, Recorded
<1>3. DecidedAfterTheRun'
  <2>1. home[p] \in Runs /\ pc[home[p]] = "ended"
    BY <1>1 DEF RecordedInv, Recorded, TypeOK
  <2>2. QED
    BY <1>1, <2>1 DEF DecidedAfterTheRun
<1>4. QED
  BY <1>2, <1>3

LEMMA InvariantHolds == Spec => []IInv
<1>1. IInv /\ TypeOK' /\ [Next]_vars => IInv'
  <2> SUFFICES ASSUME IInv, TypeOK', [Next]_vars PROVE IInv'
    OBVIOUS
  <2>1. CASE UNCHANGED vars
    BY <2>1 DEF IInv, SlotInv, ResultsInv, RecordedInv, HistoryIsComplete, DecidedAfterTheRun, Recorded,
                TypeOK, vars, runVars, proposalVars
  <2>2. QED
    BY <2>1, RunKeepsIInv, TaskKeepsIInv, ReleaseKeepsIInv, DecisionKeepsIInv DEF Next, _execute
<1>2. QED
  BY <1>1, InitIInv, TypeCorrect, PTL DEF Spec

(* Two runs never work at the same time, and a run that was refused has     *)
(* neither a result nor a proposal.                                         *)
THEOREM OneAtATime == Spec => []OneRunWorks
<1>1. IInv => OneRunWorks
  BY DEF IInv, SlotInv, ResultsInv, OneRunWorks, Working, TypeOK
<1>2. QED
  BY <1>1, InvariantHolds, PTL

(* No run that worked is missing from a history with room for it.           *)
THEOREM HistoryComplete == Spec => []HistoryIsComplete
<1>1. IInv => HistoryIsComplete
  BY DEF IInv, RecordedInv
<1>2. QED
  BY <1>1, InvariantHolds, PTL

(* A decision never meets a run that still works on its results.            *)
THEOREM DecidedLate == Spec => []DecidedAfterTheRun
<1>1. IInv => DecidedAfterTheRun
  BY DEF IInv
<1>2. QED
  BY <1>1, InvariantHolds, PTL

-----------------------------------------------------------------------------
(* The keys.  KeysAreCounted is inductive on its own: an approval with a    *)
(* domain recomputes the status from all approvals, one without a domain    *)
(* takes the proposal out of its reach.                                     *)

LEMMA DecisionCounts ==
  ASSUME TypeOK, KeysAreCounted, NEW p \in Proposals, NEW decision \in Decision,
         NEW d \in Domains \cup {NoDomain}, resolve_proposal(p, decision, d)
  PROVE  KeysAreCounted'
<1> SUFFICES ASSUME NEW q \in Proposals \ unkeyed', required_approvers[q] # {},
                    status'[q] = "approved", NEW a \in required_approvers[q]
             PROVE  approvals'[q][a] = "approved"
  BY DEF KeysAreCounted
<1>1. CASE required_approvers[p] # {} /\ d # NoDomain
  <2>1. resolve_approval(p, d, decision) /\ unkeyed' = unkeyed
    BY <1>1 DEF resolve_proposal
  <2>2. CASE q = p
    BY <2>1, <2>2 DEF resolve_approval, TypeOK
  <2>3. CASE q # p
    BY <2>1, <2>3 DEF resolve_approval, TypeOK, KeysAreCounted
  <2>4. QED
    BY <2>2, <2>3
<1>2. CASE ~(required_approvers[p] # {} /\ d # NoDomain)
  <2>1. /\ unkeyed' = unkeyed \cup {p} /\ UNCHANGED approvals
        /\ status' = [status EXCEPT ![p] = decision]
    BY <1>2 DEF resolve_proposal
  <2>2. QED
    BY <2>1 DEF KeysAreCounted, TypeOK
<1>3. QED
  BY <1>1, <1>2

(* When every decision names its domain, a cross-domain proposal is         *)
(* approved only with the keys of all its required approvers.               *)
THEOREM KeysCounted == Spec => []KeysAreCounted
<1>1. Init => KeysAreCounted
  BY DEF Init, KeysAreCounted
<1>2. TypeOK /\ KeysAreCounted /\ [Next]_vars => KeysAreCounted'
  <2> SUFFICES ASSUME TypeOK, KeysAreCounted, [Next]_vars PROVE KeysAreCounted'
    OBVIOUS
  <2>1. CASE UNCHANGED <<status, approvals, unkeyed>>
    BY <2>1 DEF KeysAreCounted
  <2>2. ASSUME NEW r \in Runs, _execute(r) PROVE UNCHANGED <<status, approvals, unkeyed>>
    BY <2>2 DEF _execute, Acquire, Refuse, Load, LoadRaises, Task, CrossDomainTask, TasksDone, CrossDone,
                Deadline, Finish, Release, proposalVars
  <2>3. ASSUME NEW r \in Runs, NEW k \in Kind, Trigger(r, k)
        PROVE  UNCHANGED <<status, approvals, unkeyed>>
    BY <2>3 DEF Trigger, proposalVars
  <2>4. CASE UNCHANGED vars
    BY <2>4 DEF vars, proposalVars, KeysAreCounted
  <2>5. QED
    BY <2>1, <2>2, <2>3, <2>4, DecisionCounts DEF Next
<1>3. QED
  BY <1>1, <1>2, TypeCorrect, PTL DEF Spec

(* Both of what is said of decisions.                                       *)
THEOREM DecisionsSound == Spec => []DecisionsAreSound
<1>1. DecidedAfterTheRun /\ KeysAreCounted => DecisionsAreSound
  BY DEF DecisionsAreSound
<1>2. QED
  BY <1>1, DecidedLate, KeysCounted, PTL

-----------------------------------------------------------------------------
(* ---- The resource monitor ----------------------------------------------- *)

HIDE SchedulerAssumption DEF SchedulerAssumption
USE MonitorAssumption DEF MonitorAssumption

LEMMA IndexStays ==
  ASSUME NEW i \in Nat PROVE (i + 1) % task_count \in 0 .. task_count - 1
OBVIOUS

LEMMA ZeroStays == 0 \in 0 .. task_count - 1 /\ 0 \in 0 .. domain_count
OBVIOUS

-----------------------------------------------------------------------------
(* Type correctness.                                                       *)

LEMMA MonitorTypedInit == MonitorInit => MonitorTypeOK
<1> SUFFICES ASSUME MonitorInit PROVE MonitorTypeOK
  OBVIOUS
<1>1. /\ left \in [Dispatches -> 0 .. domain_count]
      /\ task \in [Dispatches -> {"none", "created", "waiting"}]
      /\ task_index \in 0 .. task_count - 1
  BY ZeroStays DEF MonitorInit
<1>2. QED
  BY <1>1 DEF MonitorInit, MonitorTypeOK, DaemonState

LEMMA StartTyped == MonitorTypeOK /\ start => MonitorTypeOK'
<1> SUFFICES ASSUME MonitorTypeOK, start PROVE MonitorTypeOK'
  OBVIOUS
<1>1. task_index' \in 0 .. task_count - 1
  BY ZeroStays DEF start
<1>2. QED
  BY <1>1 DEF start, MonitorTypeOK, DaemonState, taskVars

LEMMA PollTyped ==
  ASSUME MonitorTypeOK, NEW load \in SampledLoad, _poll_once(load)
  PROVE  MonitorTypeOK'
<1>1. CASE PollWaits(load)
  BY <1>1 DEF _poll_once, PollWaits, Waits, Dispatching, MonitorTypeOK, DaemonState
<1>2. CASE PollNotIdle(load) \/ PollIdle(load)
  BY <1>2 DEF _poll_once, PollNotIdle, PollIdle, MonitorTypeOK, DaemonState, taskVars
<1>3. ASSUME NEW d \in Dispatches, _dispatch_next_task(d) PROVE MonitorTypeOK'
  <2>1. task_index' \in 0 .. task_count - 1 /\ task_name' \in 0 .. task_count - 1
    BY <1>3, IndexStays DEF _dispatch_next_task, MonitorTypeOK
  <2>2. QED
    BY <1>3, <2>1 DEF _poll_once, _dispatch_next_task, MonitorTypeOK, DaemonState
<1>4. QED
  BY <1>1, <1>2, <1>3 DEF _poll_once, PollDispatches

LEMMA TaskTyped ==
  ASSUME MonitorTypeOK, NEW d \in Dispatches, _run_dispatched(d) \/ DomainDone(d)
  PROVE  MonitorTypeOK'
<1>1. CASE BeginDomain(d)
  BY <1>1 DEF BeginDomain, MonitorTypeOK, objectVars
<1>2. CASE EndTask(d)
  BY <1>2 DEF EndTask, TaskEnds, MonitorTypeOK, DaemonState
<1>3. CASE DomainDone(d)
  BY <1>3 DEF DomainDone, MonitorTypeOK, objectVars
<1>4. QED
  BY <1>1, <1>2, <1>3 DEF _run_dispatched

(* Every field of the daemon, its tasks, tokens and threads keeps its type; *)
(* the round-robin index stays within the priority list.                    *)
THEOREM MonitorTypeCorrect == MonitorSpec => []MonitorTypeOK
<1>2. MonitorTypeOK /\ [MonitorNext]_monitorVars => MonitorTypeOK'
  <2> SUFFICES ASSUME MonitorTypeOK, [MonitorNext]_monitorVars PROVE MonitorTypeOK'
    OBVIOUS
  <2>1. CASE stop \/ StopLoop
    BY <2>1 DEF stop, StopLoop, MonitorTypeOK, DaemonState, objectVars, taskVars
  <2>2. CASE StopDispatch
    BY <2>2 DEF StopDispatch, MonitorTypeOK, DaemonState
  <2>3. CASE LoopBegins \/ Wake
    BY <2>3 DEF LoopBegins, Wake, MonitorTypeOK, DaemonState, objectVars, taskVars
  <2>4. CASE GraceOver \/ IdleSustained
    BY <2>4 DEF GraceOver, IdleSustained, MonitorTypeOK, objectVars, taskVars
  <2>5. CASE UNCHANGED monitorVars
    BY <2>5 DEF monitorVars, MonitorTypeOK, objectVars, taskVars
  <2>6. QED
    BY <2>1, <2>2, <2>3, <2>4, <2>5, StartTyped, PollTyped, TaskTyped DEF MonitorNext, PollLoop
<1>3. QED
  BY MonitorTypedInit, <1>2, PTL DEF MonitorSpec

-----------------------------------------------------------------------------
(* State and dispatch.  The invariant adds to StateIsDispatch what stop()   *)
(* and start() rely on, and what makes an idle time an undisturbed one.     *)

LifeInv ==
  /\ loop = "none" /\ stopping = "none" => dispatch_task = None
  /\ stopping = "loop" => loop # "none"
  /\ stopping = "dispatch" => loop = "none" /\ dispatch_task # None
  /\ loop = "new" \/ (loop # "none" /\ grace) => dispatch_task = None /\ idle_since = "none"

YieldInv ==
  /\ \A d \in Dispatches : d \in yields /\ task[d] # "none" => state = "PREEMPTING"
  /\ state = "PREEMPTING" => token \in yields

DispatchInv ==
  /\ \A d \in Dispatches : task[d] # "none" <=> dispatch_task = d
  /\ dispatch_task # None => Busy /\ token = dispatch_task /\ task_name # None
  /\ Busy => dispatch_task # None

IdleInv == loop # "none" /\ dispatch_task = None /\ idle_since # "none" => ~disturbed

MonitorInv == MonitorTypeOK /\ LifeInv /\ YieldInv /\ DispatchInv /\ IdleInv

LEMMA MonitorInitInv == MonitorInit => MonitorInv
BY MonitorTypedInit DEF MonitorInit, MonitorInv, LifeInv, YieldInv, DispatchInv, IdleInv, Busy

LEMMA LifeKeepsInv ==
  ASSUME MonitorInv, MonitorTypeOK', start \/ stop \/ StopLoop \/ LoopBegins \/ Wake \/ GraceOver \/ IdleSustained
  PROVE  MonitorInv'
<1> USE DEF MonitorInv, LifeInv, YieldInv, DispatchInv, IdleInv, Busy
<1>1. CASE start
  BY <1>1 DEF start, taskVars, MonitorTypeOK
<1>2. CASE stop
  BY <1>2 DEF stop, taskVars, objectVars
<1>3. CASE StopLoop
  BY <1>3 DEF StopLoop, taskVars
<1>4. CASE LoopBegins
  BY <1>4 DEF LoopBegins, taskVars
<1>5. CASE Wake
  BY <1>5 DEF Wake, taskVars, objectVars
<1>6. CASE GraceOver
  BY <1>6 DEF GraceOver, taskVars, objectVars
<1>7. CASE IdleSustained
  BY <1>7 DEF IdleSustained, taskVars
<1>8. QED
  BY <1>1, <1>2, <1>3, <1>4, <1>5, <1>6, <1>7

LEMMA StopKeepsInv ==
  ASSUME MonitorInv, MonitorTypeOK', StopDispatch
  PROVE  MonitorInv'
<1>1. /\ loop' = "none" /\ stopping' = "none" /\ state' = "STOPPED" /\ dispatch_task' = None
      /\ dispatch_task \in Dispatches /\ task' = [task EXCEPT ![dispatch_task] = "none"]
      /\ yields' = yields
  BY DEF StopDispatch, MonitorInv, LifeInv, MonitorTypeOK
<1>2. \A d \in Dispatches : task'[d] = "none"
  BY <1>1 DEF MonitorInv, DispatchInv, MonitorTypeOK
<1>3. QED
  BY <1>1, <1>2 DEF MonitorInv, LifeInv, YieldInv, DispatchInv, IdleInv, Busy

LEMMA PollKeepsInv ==
  ASSUME MonitorInv, MonitorTypeOK', NEW load \in SampledLoad, _poll_once(load)
  PROVE  MonitorInv'
<1> USE DEF MonitorInv
<1>0. /\ loop = "sample" /\ loop' = "sleep" /\ stopping = "none" /\ stopping' = "none"
      /\ UNCHANGED grace
  BY DEF _poll_once
<1>1. CASE PollWaits(load)
  <2>1. UNCHANGED <<token, dispatch_task, task, task_name, idle_since>>
    BY <1>1 DEF PollWaits
  <2>2. CASE ~grace /\ Dispatching /\ load = "busy"
    <3>1. state' = "PREEMPTING" /\ yields' = yields \cup {token} /\ state = "DISPATCHING"
      BY <1>1, <2>2 DEF PollWaits, Dispatching
    <3>2. dispatch_task # None
      BY <3>1 DEF DispatchInv, Busy
    <3>3. QED
      BY <1>0, <2>1, <3>1, <3>2 DEF LifeInv, YieldInv, DispatchInv, IdleInv, Busy
  <2>3. CASE ~(~grace /\ Dispatching /\ load = "busy")
    <3>1. UNCHANGED <<state, yields>>
      BY <1>1, <2>3 DEF PollWaits
    <3>2. IdleInv'
      BY <1>0, <1>1, <2>1 DEF LifeInv, IdleInv, PollWaits, Waits, Dispatching, DispatchInv, Busy
    <3>3. QED
      BY <1>0, <2>1, <3>1, <3>2 DEF LifeInv, YieldInv, DispatchInv, Busy
  <2>4. QED
    BY <2>2, <2>3
<1>2. CASE PollNotIdle(load)
  BY <1>0, <1>2 DEF PollNotIdle, LifeInv, YieldInv, DispatchInv, IdleInv, Busy, taskVars
<1>3. CASE PollIdle(load)
  BY <1>0, <1>3 DEF PollIdle, Waits, LifeInv, YieldInv, DispatchInv, IdleInv, Busy, taskVars, MonitorTypeOK
<1>4. ASSUME NEW d \in Dispatches, _dispatch_next_task(d), ~Waits PROVE MonitorInv'
  <2>1. dispatch_task = None /\ ~grace
    BY <1>4 DEF Waits, Dispatching, DispatchInv, Busy
  <2>2. /\ task' = [task EXCEPT ![d] = "created"] /\ yields' = yields \ {d}
        /\ state' = "DISPATCHING" /\ token' = d /\ dispatch_task' = d
        /\ task_name' \in Nat
    BY <1>4 DEF _dispatch_next_task, MonitorTypeOK
  <2>3. \A e \in Dispatches : task[e] = "none"
    BY <2>1 DEF DispatchInv
  <2>4. QED
    BY <1>0, <2>1, <2>2, <2>3 DEF LifeInv, YieldInv, DispatchInv, IdleInv, Busy, MonitorTypeOK
<1>5. QED
  BY <1>1, <1>2, <1>3, <1>4 DEF _poll_once, PollDispatches

LEMMA DispatchKeepsInv ==
  ASSUME MonitorInv, MonitorTypeOK', NEW d \in Dispatches, BeginDomain(d) \/ EndTask(d) \/ DomainDone(d)
  PROVE  MonitorInv'
<1> USE DEF MonitorInv
<1>1. CASE BeginDomain(d)
  <2>1. /\ UNCHANGED <<objectVars, yields, loop, stopping, grace>>
        /\ \A e \in Dispatches : task'[e] # "none" <=> task[e] # "none"
    BY <1>1 DEF BeginDomain, MayRun, MonitorTypeOK
  <2>2. QED
    BY <2>1 DEF LifeInv, YieldInv, DispatchInv, IdleInv, Busy, objectVars
<1>2. CASE EndTask(d)
  <2>1. /\ task' = [task EXCEPT ![d] = "none"] /\ dispatch_task' = None /\ idle_since' = "none"
        /\ state' = "MONITORING" /\ UNCHANGED <<yields, loop, stopping, grace>>
        /\ dispatch_task = d /\ stopping # "dispatch"
    BY <1>2 DEF EndTask, TaskEnds, MayRun, Cancelled, DispatchInv
  <2>2. \A e \in Dispatches : task'[e] = "none"
    BY <2>1 DEF DispatchInv, MonitorTypeOK
  <2>3. QED
    BY <2>1, <2>2 DEF LifeInv, YieldInv, DispatchInv, IdleInv, Busy
<1>3. CASE DomainDone(d)
  BY <1>3 DEF DomainDone, objectVars, LifeInv, YieldInv, DispatchInv, IdleInv, Busy
<1>4. QED
  BY <1>1, <1>2, <1>3

LEMMA MonitorInvHolds == MonitorSpec => []MonitorInv
<1>1. MonitorInv /\ MonitorTypeOK' /\ [MonitorNext]_monitorVars => MonitorInv'
  <2> SUFFICES ASSUME MonitorInv, MonitorTypeOK', [MonitorNext]_monitorVars PROVE MonitorInv'
    OBVIOUS
  <2>1. CASE UNCHANGED monitorVars
    BY <2>1 DEF monitorVars, objectVars, taskVars, MonitorInv, MonitorTypeOK, LifeInv, YieldInv, DispatchInv, IdleInv, Busy
  <2>2. QED
    BY <2>1, LifeKeepsInv, StopKeepsInv, PollKeepsInv, DispatchKeepsInv DEF MonitorNext, PollLoop, _run_dispatched
<1>2. QED
  BY <1>1, MonitorInitInv, MonitorTypeCorrect, PTL DEF MonitorSpec

(* The daemon is dispatching or preempting exactly while the one coroutine  *)
(* it would preempt is alive, and preempting exactly after its token was    *)
(* asked to yield.                                                          *)
THEOREM StateMatchesDispatch == MonitorSpec => []StateIsDispatch
<1>1. MonitorInv => StateIsDispatch
  BY DEF MonitorInv, DispatchInv, YieldInv, StateIsDispatch, Busy, MonitorTypeOK
<1>2. QED
  BY <1>1, MonitorInvHolds, PTL

(* After a request to yield no further domain is begun.                     *)
THEOREM PreemptionIsPrompt == MonitorSpec => YieldsAtCheckpoint
<1>1. MonitorTypeOK /\ [MonitorNext]_monitorVars => [\A d \in yields : left'[d] >= left[d]]_monitorVars
  <2> SUFFICES ASSUME MonitorTypeOK, MonitorNext, NEW d \in yields PROVE left'[d] >= left[d]
    BY DEF monitorVars
  <2>1. left[d] \in 0 .. domain_count
    BY DEF MonitorTypeOK
  <2>2. ASSUME NEW e \in Dispatches, BeginDomain(e) PROVE left'[d] >= left[d]
    BY <2>1, <2>2 DEF BeginDomain, MonitorTypeOK
  <2>3. ASSUME NEW e \in Dispatches, _dispatch_next_task(e) PROVE left'[d] >= left[d]
    BY <2>1, <2>3 DEF _dispatch_next_task, MonitorTypeOK
  <2>4. CASE UNCHANGED left
    BY <2>1, <2>4
  <2>5. QED
    BY <2>2, <2>3, <2>4
       DEF MonitorNext, start, stop, StopLoop, StopDispatch, PollLoop, LoopBegins, Wake, _poll_once, PollWaits,
           PollNotIdle, PollIdle, PollDispatches, _run_dispatched, EndTask, DomainDone, GraceOver,
           IdleSustained, taskVars
<1>2. QED
  BY <1>1, MonitorTypeCorrect, PTL DEF MonitorSpec, YieldsAtCheckpoint

(* Maintenance begins only at the end of an idle time that no sample        *)
(* disturbed, and never in the grace period.                                *)
THEOREM DispatchWhenIdle == MonitorSpec => SustainedIdleFirst
<1>1. MonitorInv /\ [MonitorNext]_monitorVars =>
        [dispatch_task = None /\ dispatch_task' # None
           => idle_since = "sustained" /\ ~disturbed /\ ~grace]_monitorVars
  <2> SUFFICES ASSUME MonitorInv, MonitorNext, dispatch_task = None, dispatch_task' # None
               PROVE  idle_since = "sustained" /\ ~disturbed /\ ~grace
    BY DEF monitorVars
  <2>1. PICK load \in SampledLoad : _poll_once(load) /\ PollDispatches(load)
    BY DEF MonitorNext, start, stop, StopLoop, StopDispatch, PollLoop, LoopBegins, Wake, _poll_once, PollWaits,
           PollNotIdle, PollIdle, _run_dispatched, BeginDomain, EndTask, TaskEnds, DomainDone, GraceOver,
           IdleSustained, objectVars
  <2>2. QED
    BY <2>1 DEF _poll_once, PollDispatches, Waits, MonitorInv, IdleInv
<1>2. QED
  BY <1>1, MonitorInvHolds, PTL DEF MonitorSpec, SustainedIdleFirst
================================================================================
