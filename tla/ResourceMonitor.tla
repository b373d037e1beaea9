---------------------------- MODULE ResourceMonitor ----------------------------
(***************************************************************************)
(* ResourceMonitorDaemon with its preemption tokens and task adapter: the  *)
(* poll loop samples the load, dispatches the next maintenance task after  *)
(* a sustained idle time, and asks it to yield when the load comes back.   *)
(*                                                                         *)
(* Poll loop, dispatched task and stop() are coroutines of one event loop; *)
(* a step is what one of them does between two suspensions.  The work on a *)
(* domain runs in a thread, which no cancellation can stop.  Time is what  *)
(* the code compares: the grace period is over or not, and _idle_since is  *)
(* None, recent, or idle_sustain_seconds old.  Each start follows an init, *)
(* as in the server's lifespan, so that the daemon object is a new one.    *)
(* The loop is gone before stop() goes on, hence one step for both, and so *)
(* for the dispatched task that stop() cancels.                            *)
(***************************************************************************)
EXTENDS Naturals

CONSTANTS
  Dispatches,  (* dispatched tasks that can exist, or be remembered by a   *)
               (* thread, at one time; a finished one is used again        *)
  None,        (* Python's None                                            *)
  task_count,  (* the length of _task_priority                             *)
  domain_count (* how many domains the adapter goes through                *)

ASSUME MonitorAssumption ==
  /\ None \notin Dispatches /\ None \notin Nat
  /\ task_count \in Nat \ {0}
  /\ domain_count \in Nat \ {0}

DaemonState == {"STOPPED", "STARTING", "MONITORING", "IDLE_DETECTED", "DISPATCHING", "PREEMPTING"}
SampledLoad == {"idle", "moderate", "busy"}   (* below idle_threshold, above busy_threshold *)

VARIABLES
  state,          (* _state                                                *)
  loop,           (* the poll loop, _task                                  *)
  stopping,       (* what a stop() call waits for                          *)
  grace,          (* the grace period is not over                          *)
  last_snapshot,  (* _last_snapshot's load                                 *)
  idle_since,     (* the age of _idle_since                                *)
  disturbed,      (* auxiliary: a sample since then was not idle           *)
  task_index,     (* _task_index                                           *)
  task_name,      (* _current_task_name, by its index                      *)
  token,          (* _current_token, by its dispatch                       *)
  dispatch_task,  (* _dispatch_task                                        *)
  task,           (* the _run_dispatched coroutines                        *)
  yields,         (* tokens whose yield is requested                       *)
  left,           (* domains the adapter of a dispatch has not begun       *)
  worker          (* dispatches with a thread working on a domain          *)

objectVars == <<state, task_index, task_name, token, dispatch_task, idle_since, disturbed>>
taskVars == <<task, yields, left, worker>>
monitorVars == <<objectVars, taskVars, loop, stopping, grace, last_snapshot>>

MonitorTypeOK ==
  /\ state \in DaemonState
  /\ loop \in {"none", "new", "sleep", "sample"}
  /\ stopping \in {"none", "loop", "dispatch"}
  /\ grace \in BOOLEAN
  /\ last_snapshot \in SampledLoad \cup {None}
  /\ idle_since \in {"none", "recent", "sustained"}
  /\ disturbed \in BOOLEAN
  /\ task_index \in 0 .. task_count - 1
  /\ task_name \in (0 .. task_count - 1) \cup {None}
  /\ token \in Dispatches \cup {None}
  /\ dispatch_task \in Dispatches \cup {None}
  /\ task \in [Dispatches -> {"none", "created", "waiting"}]
  /\ yields \subseteq Dispatches
  /\ left \in [Dispatches -> 0 .. domain_count]
  /\ worker \subseteq Dispatches

MonitorInit ==
  /\ state = "STOPPED" /\ loop = "none" /\ stopping = "none" /\ grace = TRUE
  /\ last_snapshot = None /\ idle_since = "none" /\ disturbed = FALSE
  /\ task_index = 0 /\ task_name = None /\ token = None /\ dispatch_task = None
  /\ task = [d \in Dispatches |-> "none"]
  /\ left = [d \in Dispatches |-> 0]
  /\ yields = {} /\ worker = {}

(* --- Lifecycle -------------------------------------------------------------- *)

(* init() makes a new object; threads of an earlier one may still be there. *)
start ==
  /\ loop = "none" /\ stopping = "none"
  /\ loop' = "new" /\ state' = "STARTING" /\ grace' = TRUE
  /\ last_snapshot' = None /\ idle_since' = "none" /\ disturbed' = FALSE
  /\ task_index' = 0 /\ task_name' = None /\ token' = None /\ dispatch_task' = None
  /\ UNCHANGED <<taskVars, stopping>>

stop ==
  /\ loop # "none" /\ stopping = "none"
  /\ stopping' = "loop"
  /\ UNCHANGED <<objectVars, taskVars, loop, grace, last_snapshot>>

StopLoop ==
  /\ stopping = "loop"
  /\ loop' = "none"
  /\ IF dispatch_task = None
       THEN stopping' = "none" /\ state' = "STOPPED"
       ELSE stopping' = "dispatch" /\ UNCHANGED state
  /\ UNCHANGED <<task_index, task_name, token, dispatch_task, idle_since, disturbed,
                 taskVars, grace, last_snapshot>>

(* A task that waits for its thread runs its finally clause; one that was   *)
(* not yet scheduled never starts, and the token and name stay.             *)
StopDispatch ==
  /\ stopping = "dispatch"
  /\ stopping' = "none" /\ state' = "STOPPED"
  /\ task' = [task EXCEPT ![dispatch_task] = "none"]
  /\ dispatch_task' = None
  /\ IF task[dispatch_task] = "waiting"
       THEN token' = None /\ task_name' = None /\ idle_since' = "none"
       ELSE UNCHANGED <<token, task_name, idle_since>>
  /\ UNCHANGED <<task_index, disturbed, yields, left, worker, loop, grace, last_snapshot>>

(* --- The poll loop ---------------------------------------------------------- *)

LoopBegins ==
  /\ loop = "new" /\ stopping = "none"
  /\ loop' = "sleep" /\ state' = "MONITORING"
  /\ UNCHANGED <<task_index, task_name, token, dispatch_task, idle_since, disturbed,
                 taskVars, stopping, grace, last_snapshot>>

Wake ==
  /\ loop = "sleep" /\ stopping = "none"
  /\ loop' = "sample"
  /\ UNCHANGED <<objectVars, taskVars, stopping, grace, last_snapshot>>

Busy == state \in {"DISPATCHING", "PREEMPTING"}
Dispatching == state = "DISPATCHING" /\ token # None
Waits == grace \/ Dispatching \/ state = "PREEMPTING"

(* A poll in the grace period, or with a task under way.                    *)
PollWaits(load) ==
  /\ Waits
  /\ disturbed' = (disturbed \/ load # "idle")
  /\ IF ~grace /\ Dispatching /\ load = "busy"
       THEN state' = "PREEMPTING" /\ yields' = yields \cup {token}
       ELSE UNCHANGED <<state, yields>>
  /\ UNCHANGED <<task_index, task_name, token, dispatch_task, idle_since, task, left, worker>>

PollNotIdle(load) ==
  /\ ~Waits /\ load # "idle"
  /\ idle_since' = "none" /\ disturbed' = TRUE
  /\ state' = IF Busy THEN state ELSE "MONITORING"
  /\ UNCHANGED <<task_index, task_name, token, dispatch_task, taskVars>>

PollIdle(load) ==
  /\ ~Waits /\ load = "idle" /\ idle_since # "sustained"
  /\ idle_since' = "recent"
  /\ disturbed' = (disturbed /\ idle_since # "none")
  /\ UNCHANGED <<state, task_index, task_name, token, dispatch_task, taskVars>>

(* The next task is looked up, but the index stays.                         *)
_dispatch_next_task_stays(d) ==
  /\ task[d] = "none" /\ d \notin worker
  /\ task_name' = task_index /\ UNCHANGED task_index
  /\ token' = d /\ dispatch_task' = d /\ state' = "DISPATCHING"
  /\ task' = [task EXCEPT ![d] = "created"]
  /\ yields' = yields \ {d}
  /\ left' = [left EXCEPT ![d] = domain_count]
  /\ UNCHANGED <<idle_since, disturbed, worker>>

(* The index is not taken modulo the length of the list.                    *)
_dispatch_next_task_unbounded(d) ==
  /\ task[d] = "none" /\ d \notin worker
  /\ task_name' = task_index
  /\ task_index' = task_index + 1
  /\ token' = d /\ dispatch_task' = d /\ state' = "DISPATCHING"
  /\ task' = [task EXCEPT ![d] = "created"]
  /\ yields' = yields \ {d}
  /\ left' = [left EXCEPT ![d] = domain_count]
  /\ UNCHANGED <<idle_since, disturbed, worker>>

(* IDLE_DETECTED is set and overwritten within the same step.               *)
_dispatch_next_task(d) ==
  /\ task[d] = "none" /\ d \notin worker
  /\ task_name' = task_index
  /\ task_index' = (task_index + 1) % task_count
  /\ token' = d /\ dispatch_task' = d /\ state' = "DISPATCHING"
  /\ task' = [task EXCEPT ![d] = "created"]
  /\ yields' = yields \ {d}
  /\ left' = [left EXCEPT ![d] = domain_count]
  /\ UNCHANGED <<idle_since, disturbed, worker>>

PollDispatches(load) ==
  /\ ~Waits /\ load = "idle" /\ idle_since = "sustained"
  /\ \E d \in Dispatches : _dispatch_next_task(d)

_poll_once(load) ==
  /\ loop = "sample" /\ stopping = "none"
  /\ loop' = "sleep" /\ last_snapshot' = load
  /\ PollWaits(load) \/ PollNotIdle(load) \/ PollIdle(load) \/ PollDispatches(load)
  /\ UNCHANGED <<stopping, grace>>

(* --- The dispatched task ------------------------------------------------------ *)

Cancelled(d) == stopping = "dispatch" /\ dispatch_task = d
MayRun(d) == task[d] # "none" /\ d \notin worker /\ ~Cancelled(d)

(* The idle timer is not reset after the task.                              *)
TaskEnds_keeps_idle(d) ==
  /\ task' = [task EXCEPT ![d] = "none"]
  /\ token' = None /\ task_name' = None /\ dispatch_task' = None
  /\ state' = "MONITORING"
  /\ UNCHANGED idle_since

(* The task is over, but the state is left as it was.                       *)
TaskEnds_keeps_state(d) ==
  /\ task' = [task EXCEPT ![d] = "none"]
  /\ token' = None /\ task_name' = None /\ dispatch_task' = None
  /\ idle_since' = "none"
  /\ UNCHANGED state

(* The finally clause of _run_dispatched.                                   *)
TaskEnds(d) ==
  /\ task' = [task EXCEPT ![d] = "none"]
  /\ token' = None /\ task_name' = None /\ dispatch_task' = None
  /\ idle_since' = "none" /\ state' = "MONITORING"

(* The token is looked at only before the first domain.                     *)
BeginDomain_checks_once(d) ==
  /\ MayRun(d)
  /\ left[d] > 0 /\ (left[d] = domain_count => d \notin yields)
  /\ left' = [left EXCEPT ![d] = @ - 1]
  /\ worker' = worker \cup {d}
  /\ task' = [task EXCEPT ![d] = "waiting"]
  /\ UNCHANGED <<objectVars, yields, loop, stopping, grace, last_snapshot>>

(* The checkpoint lets the next domain pass into a thread.                  *)
BeginDomain(d) ==
  /\ MayRun(d)
  /\ left[d] > 0 /\ d \notin yields
  /\ left' = [left EXCEPT ![d] = @ - 1]
  /\ worker' = worker \cup {d}
  /\ task' = [task EXCEPT ![d] = "waiting"]
  /\ UNCHANGED <<objectVars, yields, loop, stopping, grace, last_snapshot>>

(* A task that has to yield pauses at its checkpoint.                       *)
EndTask_pauses(d) ==
  /\ MayRun(d)
  /\ left[d] = 0 \/ task[d] = "created"
  /\ TaskEnds(d)
  /\ UNCHANGED <<task_index, disturbed, yields, left, worker, loop, stopping, grace, last_snapshot>>

(* All domains are done, the checkpoint raises TaskPreempted, or the task   *)
(* is unknown or its domains cannot be loaded.                              *)
EndTask(d) ==
  /\ MayRun(d)
  /\ left[d] = 0 \/ d \in yields \/ task[d] = "created"
  /\ TaskEnds(d)
  /\ UNCHANGED <<task_index, disturbed, yields, left, worker, loop, stopping, grace, last_snapshot>>

DomainDone(d) ==
  /\ d \in worker
  /\ worker' = worker \ {d}
  /\ UNCHANGED <<objectVars, task, yields, left, loop, stopping, grace, last_snapshot>>

(* --- Time --------------------------------------------------------------------- *)

GraceOver ==
  /\ grace /\ loop # "none"
  /\ grace' = FALSE
  /\ UNCHANGED <<objectVars, taskVars, loop, stopping, last_snapshot>>

IdleSustained ==
  /\ idle_since = "recent"
  /\ idle_since' = "sustained"
  /\ UNCHANGED <<state, task_index, task_name, token, dispatch_task, disturbed, taskVars,
                 loop, stopping, grace, last_snapshot>>

PollLoop == LoopBegins \/ Wake \/ \E load \in SampledLoad : _poll_once(load)
_run_dispatched(d) == BeginDomain(d) \/ EndTask(d)

MonitorNext ==
  \/ start \/ stop \/ StopLoop \/ StopDispatch \/ PollLoop
  \/ \E d \in Dispatches : _run_dispatched(d) \/ DomainDone(d)
  \/ GraceOver \/ IdleSustained

(* The event loop runs what is ready, time passes, and the work on a domain *)
(* comes to an end.  Nobody has to start or stop the daemon.                *)
MonitorFairness ==
  /\ WF_monitorVars(PollLoop) /\ WF_monitorVars(StopLoop) /\ WF_monitorVars(StopDispatch)
  /\ \A d \in Dispatches : WF_monitorVars(_run_dispatched(d)) /\ WF_monitorVars(DomainDone(d))
  /\ WF_monitorVars(GraceOver) /\ WF_monitorVars(IdleSustained)

MonitorSpec == MonitorInit /\ [][MonitorNext]_monitorVars /\ MonitorFairness

(* --- What should hold ---------------------------------------------------------- *)

(* The daemon's state, its token and its dispatch agree: it is dispatching  *)
(* or preempting exactly while the coroutine it would preempt is alive, and *)
(* there is no other coroutine.                                             *)
StateIsDispatch ==
  /\ \A d \in Dispatches : task[d] # "none" <=> dispatch_task = d
  /\ dispatch_task # None => Busy /\ token = dispatch_task /\ task_name # None
  /\ Busy => dispatch_task # None
  /\ state = "PREEMPTING" <=> Busy /\ token \in yields

(* Once a yield is requested, the dispatch begins no further domain:        *)
(* preemption takes at most the domain under way.                           *)
YieldsAtCheckpoint ==
  [][\A d \in yields : left'[d] >= left[d]]_monitorVars

(* A task is dispatched only at the end of an idle time without a single    *)
(* sample that was not idle, those taken during another task included, and  *)
(* never in the grace period.                                               *)
SustainedIdleFirst ==
  [][dispatch_task = None /\ dispatch_task' # None
       => idle_since = "sustained" /\ ~disturbed /\ ~grace]_monitorVars

(* A preempted task ends, and stop() returns.                               *)
RequestsAreServed ==
  /\ state = "PREEMPTING" ~> state # "PREEMPTING"
  /\ stopping # "none" ~> state = "STOPPED"

(* If the system stays idle and nobody stops the daemon, every task of the  *)
(* priority list is dispatched again and again.                             *)
EveryTaskGetsATurn ==
  <>[](last_snapshot = "idle" /\ loop # "none" /\ stopping = "none")
    => \A i \in 0 .. task_count - 1 : []<>(task_name = i)
=============================================================================
