------------------------------ MODULE Confirmations ------------------------------
(***************************************************************************)
(* Decisions that a person confirms: a thread route, and a decision        *)
(* precedent whose tier requires a confirmation. Both keep the decisions   *)
(* that wait and the ones that were confirmed in memory, for five minutes, *)
(* and write what happened to a ledger.                                    *)
(*                                                                         *)
(* Handlers are coroutines: they change the stores on the event loop and   *)
(* await the appends, which threads of the pool make. A client knows a     *)
(* decision by its id once its evaluation is recorded. Refused requests    *)
(* (403, 404, 409, 422) do no more than prune.                             *)
(***************************************************************************)
EXTENDS Naturals

CONSTANTS
  Decisions,       (* ids of decisions, uuids: never used twice            *)
  Routes,          (* the decisions about a thread; the rest are precedents*)
  Escalated,       (* precedents of the tier mandatory_escalation          *)
  Threads,         (* thread ids                                           *)
  NoThread,        (* a precedent is about no thread                       *)
  Confirmers,      (* requests served at the same time                     *)
  NoDecision       (* an idle request's decision                           *)

(* "About no thread" is not a thread.                                       *)
ConfirmationsAssumption == NoThread \notin Threads

VARIABLES
  pending,         (* _pending_decisions and _pending_confirmations        *)
  consumed,        (* _consumed_decision_ids and _consumed_confirmation_ids*)
  late,            (* pending decisions whose time has passed              *)
  forgotten,       (* consumed decisions whose time has passed             *)
  bound,           (* threads with a persisted ThreadSessionBinding        *)
  evaluated,       (* decisions with their record of the evaluation        *)
  escalations,     (* precedents with their EscalationRecord               *)
  confirmed,       (* the threads that confirmation events name, as        *)
                   (* pairs <<decision, thread>>                           *)
  serving,         (* the requests being served                            *)
  answers          (* auxiliary: confirmations answered with success       *)

vars == <<pending, consumed, late, forgotten, bound, evaluated, escalations, confirmed, serving, answers>>

Idle == [pc |-> "idle", decision |-> NoDecision, thread |-> NoThread]
Serving == [pc: {"idle", "record", "evaluate", "escalate", "wait", "confirm", "answer"},
            decision: Decisions \cup {NoDecision}, thread: Threads \cup {NoThread}]

TypeOK ==
  /\ pending \subseteq Decisions /\ consumed \subseteq Decisions
  /\ late \subseteq pending /\ forgotten \subseteq consumed
  /\ bound \subseteq Threads
  /\ evaluated \subseteq Decisions /\ escalations \subseteq Escalated
  /\ confirmed \subseteq Decisions \X (Threads \cup {NoThread})
  /\ serving \in [Confirmers -> Serving]
  /\ answers \in [Decisions -> Nat]

Init ==
  /\ pending = {} /\ consumed = {} /\ late = {} /\ forgotten = {}
  /\ bound = {} /\ evaluated = {} /\ escalations = {} /\ confirmed = {}
  /\ serving = [r \in Confirmers |-> Idle]
  /\ answers = [d \in Decisions |-> 0]

At(r, pc) == serving[r].pc = pc
Enter(r, pc, d, t) == serving' = [serving EXCEPT ![r] = [pc |-> pc, decision |-> d, thread |-> t]]
Leave(r) == serving' = [serving EXCEPT ![r] = Idle]

(* The decisions of one endpoint's stores: they are pruned separately.      *)
SameStore(d) == IF d \in Routes THEN Routes ELSE Decisions \ Routes

Fresh(d) == d \notin evaluated /\ \A r \in Confirmers : serving[r].decision # d

(* --- Preflight ----------------------------------------------------------- *)

(* A route is pending before its record is appended.                        *)
preflight_route(r, d) ==
  /\ At(r, "idle") /\ d \in Routes /\ Fresh(d)
  /\ Enter(r, "record", d, NoThread)
  /\ pending' = (pending \ (late \cap Routes)) \cup {d}
  /\ late' = late \ Routes
  /\ consumed' = consumed \ (forgotten \cap Routes)
  /\ forgotten' = forgotten \ Routes
  /\ UNCHANGED <<bound, evaluated, escalations, confirmed, answers>>

RecordRoute(r) ==
  /\ At(r, "record")
  /\ evaluated' = evaluated \cup {serving[r].decision}
  /\ Leave(r)
  /\ UNCHANGED <<pending, consumed, late, forgotten, bound, escalations, confirmed, answers>>

preflight_precedent(r, d) ==
  /\ At(r, "idle") /\ d \in Decisions \ Routes /\ Fresh(d)
  /\ Enter(r, "evaluate", d, NoThread)
  /\ UNCHANGED <<pending, consumed, late, forgotten, bound, evaluated, escalations, confirmed, answers>>

(* The trace event, and what the tier asks for: an escalation that is yet   *)
(* to be appended, or a confirmation that is waited for.                    *)
RecordPrecedent(r) ==
  LET d == serving[r].decision IN
  /\ At(r, "evaluate")
  /\ evaluated' = evaluated \cup {d}
  /\ Enter(r, IF d \in Escalated THEN "escalate" ELSE "wait", d, NoThread)
  /\ UNCHANGED <<pending, consumed, late, forgotten, bound, escalations, confirmed, answers>>

Escalate(r) ==
  /\ At(r, "escalate")
  /\ escalations' = escalations \cup {serving[r].decision}
  /\ Leave(r)
  /\ UNCHANGED <<pending, consumed, late, forgotten, bound, evaluated, confirmed, answers>>

(* _prune_expired_confirmations, then the insertion.                        *)
WaitForConfirmation(r) ==
  /\ At(r, "wait")
  /\ pending' = (pending \ (late \ Routes)) \cup {serving[r].decision}
  /\ late' = late \cap Routes
  /\ consumed' = consumed \ (forgotten \ Routes)
  /\ forgotten' = forgotten \cap Routes
  /\ Leave(r)
  /\ UNCHANGED <<bound, evaluated, escalations, confirmed, answers>>

(* An append raises: 500.                                                   *)
AppendFails(r) ==
  /\ \E pc \in {"record", "evaluate", "escalate", "confirm"} : At(r, pc)
  /\ Leave(r)
  /\ UNCHANGED <<pending, consumed, late, forgotten, bound, evaluated, escalations, confirmed, answers>>

(* --- Confirm ------------------------------------------------------------- *)

(* The consumed decision is looked up after the pruning.                    *)
Prune(d) ==
  /\ consumed' = consumed \ (forgotten \cap SameStore(d))
  /\ forgotten' = forgotten \ SameStore(d)
  /\ pending' = pending \ (late \cap SameStore(d))
  /\ late' = late \ SameStore(d)

(* A precedent that waits and is not late is pruned around; a route's own  *)
(* staleness is looked at first (410).                                      *)
confirm(r, d, t) ==
  /\ At(r, "idle")
  /\ d \in evaluated /\ d \in pending \ late
  /\ d \notin consumed \ forgotten
  /\ (t = NoThread) <=> d \notin Routes
  /\ Prune(d)
  /\ bound' = IF t = NoThread THEN bound ELSE bound \cup {t}
  /\ Enter(r, "confirm", d, t)
  /\ UNCHANGED <<evaluated, escalations, confirmed, answers>>

(* 404, 409 or 410. A refused confirmation of a route prunes the consumed   *)
(* ones, and the decision itself when it is stale; one of a precedent       *)
(* prunes everything.                                                       *)
Refused(d) ==
  /\ d \in consumed \ forgotten \/ d \notin pending \ late
  /\ d \in pending => d \in evaluated
  /\ IF d \notin Routes THEN Prune(d)
     ELSE /\ consumed' = consumed \ (forgotten \cap Routes)
          /\ forgotten' = forgotten \ Routes
          /\ pending' = IF d \in consumed \ forgotten THEN pending ELSE pending \ ({d} \cap late)
          /\ late' = IF d \in consumed \ forgotten THEN late ELSE late \ {d}
  /\ UNCHANGED <<bound, evaluated, escalations, confirmed, serving, answers>>

AppendConfirmed(r) ==
  /\ At(r, "confirm")
  /\ confirmed' = confirmed \cup {<<serving[r].decision, serving[r].thread>>}
  /\ Enter(r, "answer", serving[r].decision, serving[r].thread)
  /\ UNCHANGED <<pending, consumed, late, forgotten, bound, evaluated, escalations, answers>>

Answer_without_looking(r) ==
  LET d == serving[r].decision IN
  /\ At(r, "answer")
  /\ pending' = pending \ {d} /\ late' = late \ {d}
  /\ consumed' = consumed \cup {d} /\ forgotten' = forgotten \ {d}
  /\ answers' = [answers EXCEPT ![d] = @ + 1]
  /\ Leave(r)
  /\ UNCHANGED <<bound, evaluated, escalations, confirmed>>

(* del raises KeyError when the decision is no longer pending: 500.         *)
Answer(r) ==
  LET d == serving[r].decision IN
  /\ At(r, "answer")
  /\ IF d \in pending
     THEN /\ pending' = pending \ {d} /\ late' = late \ {d}
          /\ consumed' = consumed \cup {d} /\ forgotten' = forgotten \ {d}
          /\ answers' = [answers EXCEPT ![d] = @ + 1]
     ELSE UNCHANGED <<pending, late, consumed, forgotten, answers>>
  /\ Leave(r)
  /\ UNCHANGED <<bound, evaluated, escalations, confirmed>>

(* --- Time and crashes ---------------------------------------------------- *)

PendingExpires(d) ==
  /\ d \in pending \ late
  /\ late' = late \cup {d}
  /\ UNCHANGED <<pending, consumed, forgotten, bound, evaluated, escalations, confirmed, serving, answers>>

ConsumedExpires(d) ==
  /\ d \in consumed \ forgotten
  /\ forgotten' = forgotten \cup {d}
  /\ UNCHANGED <<pending, consumed, late, bound, evaluated, escalations, confirmed, serving, answers>>

Restart ==
  /\ pending' = {} /\ consumed' = {} /\ late' = {} /\ forgotten' = {}
  /\ serving' = [r \in Confirmers |-> Idle]
  /\ UNCHANGED <<bound, evaluated, escalations, confirmed, answers>>

Handle(r) ==
  \/ \E d \in Decisions : preflight_route(r, d) \/ preflight_precedent(r, d)
  \/ RecordRoute(r) \/ RecordPrecedent(r) \/ Escalate(r) \/ WaitForConfirmation(r) \/ AppendFails(r)
  \/ \E d \in Decisions, t \in Threads \cup {NoThread} : confirm(r, d, t)
  \/ AppendConfirmed(r) \/ Answer(r)

Next ==
  \/ \E r \in Confirmers : Handle(r)
  \/ \E d \in Decisions : Refused(d) \/ PendingExpires(d) \/ ConsumedExpires(d)

Spec == Init /\ [][Next \/ Restart]_vars

(* ---- Properties ---------------------------------------------------------- *)

(* However many confirmations of a decision are served at once, and         *)
(* whatever expires or is pruned meanwhile, one of them at most is answered *)
(* with success.                                                            *)
AnsweredOnce == \A d \in Decisions : answers[d] <= 1

(* An answered confirmation is in the ledger: the event is appended before  *)
(* the decision is consumed.                                                *)
AnsweredIsRecorded ==
  \A d \in Decisions : answers[d] > 0 => \E t \in Threads \cup {NoThread} : <<d, t>> \in confirmed

(* Every thread that a confirmation event names is bound to a session,      *)
(* after any crash: the binding is persisted before the event is appended.  *)
ConfirmedIsBound == \A d \in Decisions, t \in Threads : <<d, t>> \in confirmed => t \in bound

Confirming(d) == {r \in Confirmers : serving[r].decision = d /\ serving[r].pc \in {"confirm", "answer"}}

(* Once a confirmation was answered no other one of that decision begins:   *)
(* only those already being served can still append an event.               *)
KeepsAnswers == \A d \in Decisions : answers[d] > 0 => Confirming(d)' \subseteq Confirming(d)
=============================================================================
