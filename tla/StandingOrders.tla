----------------------------- MODULE StandingOrders -----------------------------
(***************************************************************************)
(* The turns of one session: its invariants are evaluated, and the actor   *)
(* resolver picks the standing order that answers a violation, counts how  *)
(* often it was tried, and escalates when it is exhausted. Turns of a      *)
(* session come one after another here; the counters are saved with the    *)
(* session at the end of a turn.                                           *)
(*                                                                         *)
(* The physics is chosen in the initial state. An order is known by its id;*)
(* one that no physics lists is as good as one without a maximum. Counters *)
(* are exact up to one more than the maximum, where they stop.             *)
(***************************************************************************)
EXTENDS Naturals

CONSTANTS
  NInvariants,   (* number of invariants with a check, in their order      *)
  Orders,        (* standing orders                                        *)
  NoOrder,       (* an invariant without an order, and no standing order   *)
  Physics        (* the domain physics to consider                         *)

Invariants == 1..NInvariants

PhysicsType ==
  [severity: [Invariants -> {"critical", "warning"}],
   standing_order_on_violation: [Invariants -> Orders \cup {NoOrder}],
   bounded: SUBSET Orders, max_attempts: [Orders -> Nat],
   escalation_on_exhaust: SUBSET Orders]

PhysicsAssumption ==
  NInvariants \in Nat /\ NoOrder \notin Orders /\ Physics \subseteq PhysicsType

VARIABLES
  physics,       (* the session's domain physics                           *)
  attempts,      (* _standing_order_attempts; 0 stands for no entry        *)
  saved,         (* standing_order_attempts in the persisted session       *)
  turn,          (* the turn being processed                               *)
  applied,       (* auxiliary: answers with an order since an invariant    *)
                 (* that names it last passed                              *)
  alone          (* auxiliary: answers to violations of an order's         *)
                 (* invariants alone, since one of them last passed        *)

vars == <<physics, attempts, saved, turn, applied, alone>>

OrderOf(i) == physics.standing_order_on_violation[i]
Critical(i) == physics.severity[i] = "critical"
Limit(o) == physics.max_attempts[o]
Up(n, o) == IF n > Limit(o) THEN n ELSE n + 1

Result == {"passed", "failed", "skipped"}
Idle == [results |-> [i \in Invariants |-> "skipped"], order |-> NoOrder, escalate |-> FALSE, busy |-> FALSE]

TypeOK ==
  /\ physics \in Physics
  /\ attempts \in [Orders -> Nat] /\ saved \in [Orders -> Nat]
  /\ turn \in [results: [Invariants -> Result], order: Orders \cup {NoOrder}, escalate: BOOLEAN, busy: BOOLEAN]
  /\ applied \in [Orders -> Nat] /\ alone \in [Orders -> Nat]

Init ==
  /\ physics \in Physics
  /\ attempts = [o \in Orders |-> 0] /\ saved = [o \in Orders |-> 0]
  /\ turn = Idle
  /\ applied = [o \in Orders |-> 0] /\ alone = [o \in Orders |-> 0]

Failed(results) == {i \in Invariants : results[i] = "failed"}
(* The orders that a passing invariant names: their counters start again.   *)
Reset(results) == {OrderOf(i) : i \in {j \in Invariants : results[j] = "passed"}}
Counted(count, results) == [o \in Orders |-> IF o \in Reset(results) THEN 0 ELSE count[o]]

(* Critical violations come before warnings, and earlier ones before later. *)
Precedes(i, j) ==
  \/ Critical(i) /\ ~Critical(j)
  \/ (Critical(i) <=> Critical(j)) /\ i < j

Exhausted_one_late(o, count) == o \in physics.bounded /\ count[o] > Limit(o)

(* _resolve_standing_order_action: an attempt is still allowed.             *)
Exhausted(o, count) == o \in physics.bounded /\ count[o] + 1 > Limit(o)

Applies(i, count) == OrderOf(i) # NoOrder /\ ~Exhausted(OrderOf(i), count)

(* The violations that are looked at, up to the first whose order applies.  *)
(* A second look at an exhausted order finds it exhausted.                  *)
Tried(results, count) ==
  {i \in Failed(results) : \A j \in Failed(results) : Precedes(j, i) => ~Applies(j, count)}
Applied(results, count) == {i \in Tried(results, count) : Applies(i, count)}

Escalates(results) ==
  \E i \in Failed(results) : OrderOf(i) \in physics.escalation_on_exhaust

(* check_invariants and resolve. Which invariants have evidence and pass is *)
(* up to the turn, and so is whether the domain library asks for an         *)
(* escalation that it is eligible for.                                      *)
process_turn(results, library) ==
  LET count == Counted(attempts, results) IN
  /\ ~turn.busy
  /\ attempts' = [o \in Orders |-> IF \E i \in Tried(results, count) : OrderOf(i) = o THEN Up(count[o], o) ELSE count[o]]
  /\ \/ \E i \in Applied(results, count) :
          turn' = [results |-> results, order |-> OrderOf(i), escalate |-> FALSE, busy |-> TRUE]
     \/ /\ Applied(results, count) = {}
        /\ turn' = [results |-> results, order |-> NoOrder, busy |-> TRUE,
                    escalate |-> Escalates(results) \/ library]
  /\ applied' = Counted(applied, results) /\ alone' = Counted(alone, results)
  /\ UNCHANGED <<physics, saved>>

(* The violations of the turn are all of order o's invariants.              *)
Alone(o) == Failed(turn.results) # {} /\ \A i \in Failed(turn.results) : OrderOf(i) = o

(* The session is saved, and the client gets its answer.                    *)
answer_turn ==
  /\ turn.busy
  /\ saved' = attempts
  /\ turn' = Idle
  /\ applied' = [o \in Orders |-> IF turn.order = o THEN applied[o] + 1 ELSE applied[o]]
  /\ alone' = [o \in Orders |-> IF Alone(o) THEN Up(alone[o], o) ELSE alone[o]]
  /\ UNCHANGED <<physics, attempts>>

(* An append raises: the counters stay as they are in memory.               *)
TurnFails ==
  /\ turn.busy
  /\ turn' = Idle
  /\ UNCHANGED <<physics, attempts, saved, applied, alone>>

Restart_forgets ==
  /\ attempts' = [o \in Orders |-> 0]
  /\ turn' = Idle
  /\ UNCHANGED <<physics, saved, applied, alone>>

(* set_attempts: the session is built again from what was saved.            *)
Restart ==
  /\ attempts' = saved
  /\ turn' = Idle
  /\ UNCHANGED <<physics, saved, applied, alone>>

Next ==
  \/ \E results \in [Invariants -> Result], library \in BOOLEAN : process_turn(results, library)
  \/ answer_turn \/ TurnFails

Spec == Init /\ [][Next \/ Restart]_vars

(* ---- Properties ---------------------------------------------------------- *)

(* A standing order is applied at most max_attempts times until one of the  *)
(* invariants that name it passes, over failed turns and restarts.          *)
AppliedWithinLimit == \A o \in physics.bounded : applied[o] <= Limit(o)

(* When nothing but the invariants of one order is violated, and none of    *)
(* them passes, the order's maximum is the number of such turns that do not *)
(* escalate.                                                                *)
EscalatesLoneViolation ==
  \A o \in physics.bounded \cap physics.escalation_on_exhaust :
    turn.busy /\ Alone(o) /\ alone'[o] > Limit(o) => turn.escalate
=============================================================================
