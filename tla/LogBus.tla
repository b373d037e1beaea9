--------------------------------- MODULE LogBus ---------------------------------
(***************************************************************************)
(* The log bus and the router behind it: events are emitted by coroutines  *)
(* of the event loop and by threads, queued, and handed one by one to the  *)
(* routes that are subscribed. Shutting down puts a sentinel in the queue. *)
(* The routes are synchronous, so a dispatch is one step of the loop.      *)
(***************************************************************************)
EXTENDS Naturals, Sequences, SequencesExt

CONSTANTS
  OnLoop,        (* events that coroutines emit                            *)
  InThreads,     (* events that threads emit                               *)
  Alerts,        (* events at ERROR or CRITICAL; the others are warnings   *)
  Sentinel,      (* None, in the queue                                     *)
  MaxKept,       (* capacity of alert_store and of warning_store           *)
  MaxStarts      (* times the application is started in one process        *)

Events == OnLoop \cup InThreads

CapacityAssumption == MaxKept \in Nat \ {0} /\ Sentinel \notin Events

VARIABLES
  running,       (* _running                                               *)
  task,          (* the dispatch loop's task                               *)
  routed,        (* the router's _started                                  *)
  subscribed,    (* how many times each of its routes is subscribed        *)
  ready,         (* events the loop is yet to put in the queue             *)
  entered,       (* events whose thread is past the test of _running       *)
  queue,         (* _queue                                                 *)
  alerts,        (* alert_store                                            *)
  warnings,      (* warning_store                                          *)
  starts,        (* auxiliary: number of starts                            *)
  emitted,       (* auxiliary: events emitted, in order                    *)
  handled,       (* auxiliary: events dispatched, in order                 *)
  drained        (* auxiliary: what the queue held when it was stopped     *)

vars == <<running, task, routed, subscribed, ready, entered, queue, alerts, warnings, starts, emitted, handled, drained>>

TypeOK ==
  /\ running \in BOOLEAN /\ task \in {"none", "running", "ended"} /\ routed \in BOOLEAN
  /\ subscribed \in Nat /\ starts \in 0..MaxStarts
  /\ ready \in Seq(OnLoop) /\ entered \subseteq InThreads
  /\ queue \in Seq(Events \cup {Sentinel})
  /\ alerts \in Seq(Alerts) /\ warnings \in Seq(Events \ Alerts)
  /\ Len(alerts) <= MaxKept /\ Len(warnings) <= MaxKept
  /\ emitted \in Seq(Events) /\ handled \in Seq(Events) /\ drained \in SUBSET Events

Init ==
  /\ running = FALSE /\ task = "none" /\ routed = FALSE
  /\ subscribed = 0 /\ starts = 0
  /\ ready = << >> /\ entered = {} /\ queue = << >>
  /\ alerts = << >> /\ warnings = << >>
  /\ emitted = << >> /\ handled = << >> /\ drained = {}

(* The router subscribes its routes unless it is started; subscriptions are *)
(* never taken back.                                                        *)
Startup ==
  /\ ~running /\ task = "none" /\ starts < MaxStarts
  /\ starts' = starts + 1
  /\ routed' = TRUE
  /\ subscribed' = IF routed THEN subscribed ELSE subscribed + 1
  /\ running' = TRUE /\ task' = "running"
  /\ UNCHANGED <<ready, entered, queue, alerts, warnings, emitted, handled, drained>>

(* Nothing is queued while the bus is not running.                          *)
Emit(e) ==
  /\ running /\ e \notin ToSet(emitted)
  /\ emitted' = Append(emitted, e)
  /\ IF e \in OnLoop THEN ready' = Append(ready, e) /\ UNCHANGED entered
     ELSE entered' = entered \cup {e} /\ UNCHANGED ready
  /\ UNCHANGED <<running, task, routed, subscribed, queue, alerts, warnings, starts, handled, drained>>

PutReady ==
  /\ ready # << >>
  /\ queue' = Append(queue, Head(ready))
  /\ ready' = Tail(ready)
  /\ UNCHANGED <<running, task, routed, subscribed, entered, alerts, warnings, starts, emitted, handled, drained>>

PutInThread(e) ==
  /\ e \in entered
  /\ queue' = Append(queue, e)
  /\ entered' = entered \ {e}
  /\ UNCHANGED <<running, task, routed, subscribed, ready, alerts, warnings, starts, emitted, handled, drained>>

Latest_one_more(buffer) ==
  IF Len(buffer) > MaxKept + 1 THEN SubSeq(buffer, Len(buffer) - MaxKept, Len(buffer)) ELSE buffer

Latest(buffer) == IF Len(buffer) > MaxKept THEN SubSeq(buffer, Len(buffer) - MaxKept + 1, Len(buffer)) ELSE buffer

Times(e) == [i \in 1..subscribed |-> e]

Dispatch ==
  LET e == Head(queue) IN
  /\ task = "running" /\ queue # << >> /\ e # Sentinel
  /\ queue' = Tail(queue)
  /\ handled' = handled \o Times(e)
  /\ IF e \in Alerts THEN alerts' = Latest(alerts \o Times(e)) /\ UNCHANGED warnings
     ELSE warnings' = Latest(warnings \o Times(e)) /\ UNCHANGED alerts
  /\ UNCHANGED <<running, task, routed, subscribed, ready, entered, starts, emitted, drained>>

DispatchEnds ==
  /\ task = "running" /\ queue # << >> /\ Head(queue) = Sentinel
  /\ queue' = Tail(queue)
  /\ task' = "ended"
  /\ UNCHANGED <<running, routed, subscribed, ready, entered, alerts, warnings, starts, emitted, handled, drained>>

(* stop(): the sentinel goes to the end of the queue, and the task is       *)
(* waited for.                                                              *)
Stop ==
  /\ running
  /\ running' = FALSE
  /\ drained' = ToSet(queue)
  /\ queue' = Append(queue, Sentinel)
  /\ UNCHANGED <<task, routed, subscribed, ready, entered, alerts, warnings, starts, emitted, handled>>

(* The task is over: the router is stopped.                                 *)
Stopped ==
  /\ ~running /\ task = "ended"
  /\ task' = "none"
  /\ routed' = FALSE
  /\ UNCHANGED <<running, subscribed, ready, entered, queue, alerts, warnings, starts, emitted, handled, drained>>

(* The bus and the stores are in memory: a new process starts afresh.       *)
Restart ==
  /\ running' = FALSE /\ task' = "none" /\ routed' = FALSE
  /\ subscribed' = 0 /\ starts' = 0
  /\ ready' = << >> /\ entered' = {} /\ queue' = << >>
  /\ alerts' = << >> /\ warnings' = << >>
  /\ emitted' = << >> /\ handled' = << >> /\ drained' = {}

Next ==
  \/ Startup \/ Stop \/ Stopped
  \/ PutReady \/ Dispatch \/ DispatchEnds
  \/ \E e \in Events : Emit(e)
  \/ \E e \in InThreads : PutInThread(e)

Spec == Init /\ [][Next \/ Restart]_vars

(* ---- Properties ---------------------------------------------------------- *)

(* "Gracefully drain queued events and stop": what was in the queue when the*)
(* bus was stopped is handled before the dispatch ends. What a coroutine or *)
(* a thread had emitted but not yet put there is left behind the sentinel.  *)
StopDrains == task = "ended" => drained \subseteq ToSet(handled)

(* An event is handled once for every start there was when it was handled:  *)
(* once, if the application is started once.                                *)
HandledOncePerStart ==
  \A e \in Events : Cardinality({i \in DOMAIN handled : handled[i] = e}) <= starts

(* Emitted events are handled or still wait, whatever is started or stopped.*)
NothingIsDropped ==
  ToSet(emitted) \subseteq ToSet(handled) \cup ToSet(queue) \cup ToSet(ready) \cup entered

(* What coroutines emit is handled in the order in which they emitted it.   *)
HandledInOrder ==
  \A i, j \in DOMAIN emitted :
    i < j /\ {emitted[i], emitted[j]} \subseteq OnLoop /\ emitted[j] \in ToSet(handled) =>
      \A m \in DOMAIN handled : handled[m] = emitted[j] => \E k \in 1..(m - 1) : handled[k] = emitted[i]
=============================================================================
