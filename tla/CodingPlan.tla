------------------------------- MODULE CodingPlan -------------------------------
(***************************************************************************)
(* The coding agent's plan execution: within its budget a turn dispatches  *)
(* the slices of a plan whose dependencies are completed. The context of   *)
(* the execution is checkpointed in the session's state after every slice, *)
(* and the next turn resumes from it; a turn that is cut short loses its   *)
(* checkpoints, but not what the tools did.                                *)
(***************************************************************************)
EXTENDS Naturals, FiniteSets

CONSTANTS
  Nodes,       (* nodes of the plan: numbers, as they are sorted by id     *)
  MaxSlices,   (* max_slices_per_turn                                      *)
  MaxRetries,  (* max_retries_per_node                                     *)
  MaxCuts,     (* bound on the turns cut short                             *)
  MaxTurns     (* bound on the turns                                       *)

PlanAssumption ==
  /\ Nodes \subseteq Nat /\ IsFiniteSet(Nodes)
  /\ MaxSlices \in Nat \ {0} /\ MaxRetries \in Nat /\ MaxCuts \in Nat /\ MaxTurns \in Nat

VARIABLES
  depends_on,  (* the plan                                                 *)
  checkpoint,  (* the latest checkpoint of the session's state             *)
  context,     (* the context of the turn being served                     *)
  slices,      (* slices this turn has dispatched; 0 .. MaxSlices          *)
  halt,        (* "idle", "running", or the reason the turn halts for      *)
  dispatched,  (* auxiliary: how often the tools of a node ran             *)
  cuts,        (* auxiliary: turns cut short                               *)
  turns,       (* auxiliary: turns so far                                  *)
  bypassed     (* auxiliary: a slice was dispatched without its plan, or   *)
               (* with a context of its own                                *)

vars == <<depends_on, checkpoint, context, slices, halt, dispatched, cuts, turns, bypassed>>

Context == [completed: SUBSET Nodes, failed: SUBSET Nodes, retry_counts: [Nodes -> 0..MaxRetries]]
EmptyContext == [completed |-> {}, failed |-> {}, retry_counts |-> [n \in Nodes |-> 0]]

Free(plan, done) == {n \in Nodes \ done : plan[n] \subseteq done}
Positions == 1..Cardinality(Nodes)
Before(order, i) == {order[j] : j \in 1..(i - 1)}

(* Kahn's algorithm takes the smallest node whose dependencies it has taken;*)
(* it gets through the plan unless there is a cycle.                        *)
Kahn(plan, order) ==
  \A i \in Positions :
    LET free == Free(plan, Before(order, i)) IN order[i] \in free /\ \A n \in free : order[i] <= n

validate_dag(plan) == \E order \in [Positions -> Nodes] : Kahn(plan, order)
Sorted(plan) == CHOOSE order \in [Positions -> Nodes] : Kahn(plan, order)

Reasons == {"slice_limit_reached", "token_budget_exhausted", "time_budget_exhausted", "all_completed",
            "permanent_failure", "no_ready_slices", "retry_scheduled"}

TypeOK ==
  /\ depends_on \in [Nodes -> SUBSET Nodes]
  /\ checkpoint \in Context /\ context \in Context
  /\ slices \in 0..MaxSlices
  /\ halt \in Reasons \cup {"idle", "running"}
  /\ dispatched \in [Nodes -> Nat]
  /\ cuts \in 0..MaxCuts /\ turns \in 0..MaxTurns /\ bypassed \in BOOLEAN

(* decompose_job and the architect's plan are validated before they count.  *)
Init ==
  /\ depends_on \in {plan \in [Nodes -> SUBSET Nodes] : validate_dag(plan)}
  /\ checkpoint = EmptyContext /\ context = EmptyContext
  /\ slices = 0 /\ halt = "idle"
  /\ dispatched = [n \in Nodes |-> 0]
  /\ cuts = 0 /\ turns = 0 /\ bypassed = FALSE

(* --- One slice ----------------------------------------------------------- *)

validate_slice_ready(n, ctx) == n \in Free(depends_on, ctx.completed) /\ n \notin ctx.failed

(* Where they are in the plan.                                              *)
next_ready_slices(ctx) == {i \in Positions : validate_slice_ready(Sorted(depends_on)[i], ctx)}

should_retry(failure, attempts) == attempts < MaxRetries /\ failure = "transient"

(* "blocked" when no tool was allowed, or the slice was not ready.          *)
Status(n, ctx, outcome) ==
  IF outcome \in {"success", "blocked"} THEN outcome
  ELSE IF should_retry(outcome, ctx.retry_counts[n]) THEN "retry_scheduled" ELSE "failed"

_update_execution_context_for_result(ctx, n, status) ==
  CASE status = "success" ->
         [completed |-> ctx.completed \cup {n}, failed |-> ctx.failed \ {n}, retry_counts |-> [ctx.retry_counts EXCEPT ![n] = 0]]
    [] status = "retry_scheduled" -> [ctx EXCEPT !.retry_counts[n] = @ + 1]
    [] status = "failed"          -> [ctx EXCEPT !.failed = @ \cup {n}]
    [] status = "blocked"         -> ctx

Outcomes == {"success", "transient", "permanent", "blocked"}

(* The tools of a slice run unless it is blocked.                           *)
Dispatch(n, ctx, outcome) ==
  /\ context' = _update_execution_context_for_result(ctx, n, Status(n, ctx, outcome))
  /\ dispatched' = IF outcome = "blocked" THEN dispatched ELSE [dispatched EXCEPT ![n] = @ + 1]

(* --- execute_dag_until --------------------------------------------------- *)

Begin == halt = "idle" /\ turns < MaxTurns /\ turns' = turns + 1

StartPlan ==
  /\ Begin
  /\ context' = checkpoint
  /\ slices' = 0 /\ halt' = "running"
  /\ UNCHANGED <<depends_on, checkpoint, dispatched, cuts, bypassed>>

AllCompleted(ctx) == Nodes \subseteq ctx.completed

can_execute_slice_off_by_one == slices <= MaxSlices

can_execute_slice == slices < MaxSlices

(* One iteration: the first ready slice. A blocked slice is dispatched      *)
(* again and again, until the budget ends the turn.                         *)
ExecuteSlice ==
  /\ halt = "running" /\ can_execute_slice
  /\ \E i \in next_ready_slices(context), outcome \in Outcomes :
       LET n == Sorted(depends_on)[i]
           status == Status(n, context, outcome)
       IN /\ \A j \in next_ready_slices(context) : i <= j
          /\ Dispatch(n, context, outcome)
          /\ halt' = CASE status = "failed" -> "permanent_failure"
                       [] status = "retry_scheduled" -> "retry_scheduled"
                       [] OTHER -> "running"
  /\ slices' = slices + 1
  /\ UNCHANGED <<depends_on, checkpoint, cuts, turns, bypassed>>

(* The loop ends: on its budgets, or because nothing is ready. A plan whose *)
(* last slice used the budget up is completed all the same.                 *)
HaltLoop ==
  /\ halt = "running"
  /\ \E reason \in {"slice_limit_reached", "token_budget_exhausted", "time_budget_exhausted", "nothing_ready"} :
       /\ reason = "slice_limit_reached" => ~can_execute_slice
       /\ reason = "nothing_ready" => can_execute_slice /\ next_ready_slices(context) = {}
       /\ halt' = IF AllCompleted(context) THEN "all_completed"
                  ELSE IF reason # "nothing_ready" THEN reason
                  ELSE IF context.failed # {} THEN "permanent_failure" ELSE "no_ready_slices"
  /\ UNCHANGED <<depends_on, checkpoint, context, slices, dispatched, cuts, turns, bypassed>>

(* --- domain_step --------------------------------------------------------- *)

(* A turn with one task_slice. The readiness gate needs the plan, and a     *)
(* context the slice carries takes the place of the checkpoint.             *)
DispatchSlice(n, planned, own) ==
  /\ Begin
  /\ LET ctx == IF own THEN EmptyContext ELSE checkpoint IN
     \E outcome \in Outcomes :
       /\ planned /\ ~validate_slice_ready(n, ctx) => outcome = "blocked"
       /\ Dispatch(n, ctx, outcome)
  /\ halt' = "retry_scheduled" /\ slices' = 1
  /\ bypassed' = (bypassed \/ ~planned \/ own)
  /\ UNCHANGED <<depends_on, checkpoint, cuts>>

(* The turn is answered and the session's state saved.                      *)
SaveState ==
  /\ halt \notin {"idle", "running"}
  /\ checkpoint' = context
  /\ halt' = "idle"
  /\ UNCHANGED <<depends_on, context, slices, dispatched, cuts, turns, bypassed>>

(* The turn fails after its tools ran, or the process dies.                 *)
CutShort ==
  /\ halt # "idle" /\ cuts < MaxCuts
  /\ cuts' = cuts + 1
  /\ halt' = "idle"
  /\ UNCHANGED <<depends_on, checkpoint, context, slices, dispatched, turns, bypassed>>

Restart == CutShort \/ (halt = "idle" /\ UNCHANGED vars)

Next ==
  \/ StartPlan \/ ExecuteSlice \/ HaltLoop \/ SaveState \/ CutShort
  \/ \E n \in Nodes, planned \in BOOLEAN, own \in BOOLEAN : DispatchSlice(n, planned, own)

Spec == Init /\ [][Next]_vars

(* ---- Properties ---------------------------------------------------------- *)

(* A node is completed only after everything it depends on, over turns that *)
(* were cut short, retried and resumed, and is never failed as well.        *)
DependenciesFirst ==
  ~bypassed =>
    /\ \A n \in context.completed : depends_on[n] \subseteq context.completed
    /\ context.completed \cap context.failed = {}

(* The tools of a node run once more than max_retries_per_node at most, and *)
(* once more for every turn that was lost after they ran.                   *)
RetriesAreBounded == ~bypassed => \A n \in Nodes : dispatched[n] <= MaxRetries + 1 + cuts

(* What a turn says of the plan is so: it never ends for want of a ready    *)
(* slice without a failed node to blame, and it reports a completed plan    *)
(* exactly when every node is.                                              *)
HaltIsTrue ==
  /\ halt # "no_ready_slices"
  /\ halt = "permanent_failure" => context.failed # {}
  /\ halt = "all_completed" => AllCompleted(context)

(* What a checkpoint holds as completed stays completed.                    *)
KeepsProgress == ~bypassed' => checkpoint.completed \subseteq checkpoint'.completed
=============================================================================
