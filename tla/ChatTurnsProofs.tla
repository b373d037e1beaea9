---------------------------- MODULE ChatTurnsProofs ----------------------------
(***************************************************************************)
(* Theorems about ChatTurns, for any sets of workers, orders, slices,      *)
(* students and so on. A component's variables are changed by its own      *)
(* steps and by a restart only, so that its invariant is proved from its   *)
(* actions alone.                                                          *)
(***************************************************************************)
EXTENDS ChatTurns, Naturals, Sequences, FiniteSetTheorems, WellFoundedInduction, TLAPS

-----------------------------------------------------------------------------
(* Sets of numbers.                                                        *)

(* A set of naturals has a least element: a minimal initial segment.       *)
LEMMA Least ==
  ASSUME NEW S \in SUBSET Nat, S # {}
  PROVE  \E i \in S : \A j \in S : i <= j
<1> DEFINE T == {1..i : i \in S}
<1>1. T \subseteq FiniteSubsetsOf(Nat) /\ T # {}
  <2>1. ASSUME NEW i \in S PROVE 1..i \in FiniteSubsetsOf(Nat)
    <3>1. IsFiniteSet(1..i)
      BY FS_Interval
    <3>2. 1..i \subseteq Nat
      OBVIOUS
    <3>3. QED
      BY <3>1, <3>2 DEF FiniteSubsetsOf
  <2>2. QED
    BY <2>1
<1>2. PICK x \in T : \A y \in T : ~(<<y, x>> \in StrictSubsetOrdering(Nat))
  <2> HIDE DEF T
  <2>1. QED
    BY <1>1, WFMin, FS_StrictSubsetOrderingWellFounded
<1>3. PICK i \in S : x = 1..i
  BY <1>2
<1>4. ASSUME NEW j \in S, ~(i <= j) PROVE FALSE
  <2>1. 1..j \in T /\ 1..j \subseteq 1..i /\ i \in 1..i /\ i \notin 1..j
    BY <1>4
  <2>2. 1..j \in SUBSET Nat /\ 1..i \in SUBSET Nat
    OBVIOUS
  <2>3. <<1..j, 1..i>> \in StrictSubsetOrdering(Nat)
    BY <2>1, <2>2 DEF StrictSubsetOrdering
  <2>4. QED
    BY <1>2, <1>3, <2>1, <2>3
<1>5. QED
  BY <1>4

-----------------------------------------------------------------------------
(* The coding agent's plans.                                               *)

LEMMA PlanSteps == [Next]_vars => Plan!Next \/ Plan!Restart \/ UNCHANGED planVars
BY DEF Next, vars, ConversationStep, PipelineStep, OrderStep, PlanStep, ProfileStep, LearningStep, JournalStep,
       AdvisoryStep, RecapStep, RoutingStep, TalkStep, CaptureStep, Restart, elsewhere, packVars, turnVars, threadVars

Open(ctx) == Nodes \ (ctx.completed \cup ctx.failed)
Consistent(ctx) ==
  /\ \A n \in ctx.completed : depends_on[n] \subseteq ctx.completed
  /\ ctx.completed \cap ctx.failed = {}
Within(ctx, gone) == \A n \in Open(ctx) : dispatched[n] <= ctx.retry_counts[n] + gone

(* A node that is still open was dispatched once for every retry the        *)
(* context counts and for every turn that was lost; while a turn is being   *)
(* served, it may have been dispatched once more than the checkpoint knows, *)
(* and not yet at all if it is open in a running loop.                      *)
PlanInv ==
  /\ Plan!TypeOK /\ Plan!validate_dag(depends_on) /\ Plan!HaltIsTrue
  /\ ~bypassed =>
       /\ Consistent(context) /\ Consistent(checkpoint)
       /\ \A n \in Nodes : dispatched[n] <= MaxRetries + 1 + cuts
       /\ halt = "idle" => Within(checkpoint, cuts)
       /\ halt # "idle" =>
            /\ Within(context, cuts) /\ Within(checkpoint, cuts + 1)
            /\ checkpoint.completed \subseteq context.completed
       /\ halt = "running" =>
            /\ context.failed = checkpoint.failed
            /\ \A n \in Open(context) : context.retry_counts[n] = checkpoint.retry_counts[n]

LEMMA PlanNumbers ==
  /\ IsFiniteSet(Nodes) /\ Cardinality(Nodes) \in Nat /\ Nodes \subseteq Nat
  /\ MaxSlices \in Nat \ {0} /\ MaxRetries \in Nat /\ MaxCuts \in Nat /\ MaxPlanTurns \in Nat
  /\ Plan!Cardinality(Nodes) = Cardinality(Nodes)
<1>1. IsFiniteSet(Nodes) /\ Nodes \subseteq Nat
      /\ MaxSlices \in Nat \ {0} /\ MaxRetries \in Nat /\ MaxCuts \in Nat /\ MaxPlanTurns \in Nat
  BY SlicesAssumption DEF Plan!PlanAssumption, Plan!IsFiniteSet, IsFiniteSet
<1>2. Plan!Cardinality(Nodes) = Cardinality(Nodes)
  BY DEF Plan!Cardinality, Cardinality, Plan!IsFiniteSet, IsFiniteSet
<1>3. QED
  BY <1>1, <1>2, FS_CardinalityType

(* Kahn's order has every node of the plan.                                 *)
LEMMA OrderIsOnto ==
  ASSUME NEW plan, NEW order \in [Plan!Positions -> Nodes], Plan!Kahn(plan, order)
  PROVE  \A n \in Nodes : \E i \in Plan!Positions : order[i] = n
<1> DEFINE N == Cardinality(Nodes)
<1>1. N \in Nat /\ Plan!Positions = 1..N
  BY PlanNumbers DEF Plan!Positions
<1>2. ASSUME NEW a \in 1..N, NEW b \in 1..N, a < b PROVE order[a] # order[b]
  <2>1. a \in 1..(b - 1)
    BY <1>1, <1>2
  <2>2. order[b] \in Plan!Free(plan, Plan!Before(order, b))
    BY <1>1 DEF Plan!Kahn
  <2>3. QED
    BY <2>1, <2>2 DEF Plan!Free, Plan!Before
<1>3. ASSUME NEW a \in 1..N, NEW b \in 1..N, order[a] = order[b] PROVE a = b
  <2>1. a < b \/ b < a \/ a = b
    BY <1>1
  <2>2. QED
    BY <1>2, <1>3, <2>1
<1>4. order \in Injection(1..N, Nodes)
  BY <1>1, <1>3 DEF Injection, IsInjective
<1>5. Cardinality(1..N) = N
  BY <1>1, FS_Interval
<1>6. order \in Surjection(1..N, Nodes)
  BY <1>4, <1>5, PlanNumbers, FS_Injection
<1>7. QED
  BY <1>1, <1>6 DEF Surjection

(* As long as a node is not completed and none has failed, one is ready.    *)
LEMMA SomethingIsReady ==
  ASSUME Plan!TypeOK, Plan!validate_dag(depends_on), context.failed = {}, ~Plan!AllCompleted(context)
  PROVE  Plan!next_ready_slices(context) # {}
<1> DEFINE order == Plan!Sorted(depends_on)
           Undone == {i \in Plan!Positions : order[i] \notin context.completed}
<1>1. order \in [Plan!Positions -> Nodes] /\ Plan!Kahn(depends_on, order)
  BY DEF Plan!validate_dag, Plan!Sorted
<1> HIDE DEF order
<1>2. Undone # {}
  BY <1>1, OrderIsOnto DEF Plan!TypeOK, Plan!AllCompleted
<1>3. PICK i \in Undone : \A j \in Undone : i <= j
  <2>1. Undone \in SUBSET Nat
    BY PlanNumbers DEF Plan!Positions
  <2>2. QED
    BY <1>2, <2>1, Least
<1>4. Plan!Before(order, i) \subseteq context.completed
  <2>1. \A j \in 1..(i - 1) : j \in Plan!Positions /\ ~(i <= j)
    BY PlanNumbers DEF Plan!Positions
  <2>2. QED
    BY <1>3, <2>1 DEF Plan!Before
<1>5. order[i] \in Plan!Free(depends_on, Plan!Before(order, i))
  BY <1>1 DEF Plan!Kahn
<1>6. Plan!validate_slice_ready(order[i], context)
  BY <1>3, <1>4, <1>5 DEF Plan!Free, Plan!validate_slice_ready
<1>7. QED
  BY <1>6 DEF Plan!next_ready_slices, order

LEMMA PlanInit == Plan!Init => PlanInv
<1> SUFFICES ASSUME Plan!Init PROVE PlanInv
  OBVIOUS
<1>1. Plan!TypeOK
  <2>1. Plan!EmptyContext \in Plan!Context
    BY PlanNumbers DEF Plan!EmptyContext, Plan!Context
  <2>2. dispatched \in [Nodes -> Nat] /\ slices \in 0..MaxSlices /\ cuts \in 0..MaxCuts /\ turns \in 0..MaxPlanTurns
    BY PlanNumbers DEF Plan!Init
  <2>3. QED
    BY <2>1, <2>2 DEF Plan!Init, Plan!TypeOK
<1>2. QED
  BY <1>1, PlanNumbers DEF PlanInv, Plan!Init, Plan!HaltIsTrue, Plan!EmptyContext, Consistent, Within, Open

(* A slice whose tools run is open, and what it depends on is completed.    *)
LEMMA UpdatedContext ==
  ASSUME NEW ctx \in Plan!Context, NEW n \in Nodes, NEW outcome \in Plan!Outcomes,
         NEW new, new = Plan!_update_execution_context_for_result(ctx, n, Plan!Status(n, ctx, outcome))
  PROVE  /\ new \in Plan!Context
         /\ ctx.completed \subseteq new.completed
         /\ Plan!Status(n, ctx, outcome) = "failed" => new.failed # {}
         /\ outcome = "blocked" => new = ctx
         /\ Plan!validate_slice_ready(n, ctx) /\ Consistent(ctx) => Consistent(new)
         /\ Plan!validate_slice_ready(n, ctx) =>
              /\ Open(new) \subseteq Open(ctx)
              /\ \A m \in Open(new) \ {n} : new.retry_counts[m] = ctx.retry_counts[m]
              /\ n \in Open(new) /\ outcome # "blocked" => new.retry_counts[n] = ctx.retry_counts[n] + 1
              /\ Plan!Status(n, ctx, outcome) \in {"success", "blocked"} =>
                   new.failed = ctx.failed /\ (n \in Open(new) => outcome = "blocked")
<1> DEFINE status == Plan!Status(n, ctx, outcome)
<1>0. /\ ctx.completed \in SUBSET Nodes /\ ctx.failed \in SUBSET Nodes /\ ctx.retry_counts \in [Nodes -> 0..MaxRetries]
      /\ ctx = [completed |-> ctx.completed, failed |-> ctx.failed, retry_counts |-> ctx.retry_counts]
  BY DEF Plan!Context
<1>1. CASE outcome = "success"
  <2>1. status = "success"
        /\ new = [completed |-> ctx.completed \cup {n}, failed |-> ctx.failed \ {n}, retry_counts |-> [ctx.retry_counts EXCEPT ![n] = 0]]
    BY <1>1 DEF Plan!Status, Plan!_update_execution_context_for_result
  <2>2. new \in Plan!Context
    BY <1>0, <2>1, PlanNumbers DEF Plan!Context
  <2>3. QED
    BY <1>0, <1>1, <2>1, <2>2, SMTT(30) DEF Consistent, Open, Plan!validate_slice_ready, Plan!Free
<1>2. CASE outcome = "blocked"
  BY <1>2 DEF Plan!Status, Plan!_update_execution_context_for_result, Open
<1>3. CASE outcome \in {"transient", "permanent"} /\ Plan!should_retry(outcome, ctx.retry_counts[n])
  <2>1. status = "retry_scheduled" /\ new = [ctx EXCEPT !.retry_counts[n] = @ + 1]
    BY <1>3 DEF Plan!Status, Plan!_update_execution_context_for_result
  <2>2. ctx.retry_counts[n] + 1 \in 0..MaxRetries
    BY <1>0, <1>3, PlanNumbers DEF Plan!should_retry
  <2>3. new = [completed |-> ctx.completed, failed |-> ctx.failed, retry_counts |-> [ctx.retry_counts EXCEPT ![n] = @ + 1]]
    BY <1>0, <2>1
  <2>4. new \in Plan!Context
    BY <1>0, <2>2, <2>3 DEF Plan!Context
  <2>5. QED
    BY <1>0, <1>3, <2>1, <2>3, <2>4 DEF Consistent, Open
<1>4. CASE outcome \in {"transient", "permanent"} /\ ~Plan!should_retry(outcome, ctx.retry_counts[n])
  <2>1. status = "failed" /\ new = [ctx EXCEPT !.failed = @ \cup {n}]
    BY <1>4 DEF Plan!Status, Plan!_update_execution_context_for_result
  <2>2. new = [completed |-> ctx.completed, failed |-> ctx.failed \cup {n}, retry_counts |-> ctx.retry_counts]
    BY <1>0, <2>1
  <2>3. new \in Plan!Context
    BY <1>0, <2>2 DEF Plan!Context
  <2>4. QED
    BY <1>0, <1>4, <2>1, <2>2, <2>3 DEF Consistent, Open, Plan!validate_slice_ready, Plan!Free
<1>5. QED
  BY <1>1, <1>2, <1>3, <1>4 DEF Plan!Outcomes

LEMMA PlanStarts == PlanInv /\ Plan!StartPlan => PlanInv'
<1> SUFFICES ASSUME PlanInv, Plan!StartPlan PROVE PlanInv'
  OBVIOUS
<1>1. Plan!TypeOK' /\ Plan!HaltIsTrue' /\ Plan!validate_dag(depends_on)'
  BY PlanNumbers DEF PlanInv, Plan!TypeOK, Plan!StartPlan, Plan!Begin, Plan!HaltIsTrue
<1>2. ASSUME ~bypassed
      PROVE  /\ Consistent(context)' /\ Consistent(checkpoint)'
             /\ \A n \in Nodes : dispatched'[n] <= MaxRetries + 1 + cuts
             /\ Within(context, cuts)' /\ Within(checkpoint, cuts + 1)'
  <2>1. Consistent(checkpoint) /\ Within(checkpoint, cuts) /\ \A n \in Nodes : dispatched[n] <= MaxRetries + 1 + cuts
    BY <1>2 DEF PlanInv, Plan!StartPlan, Plan!Begin
  <2>2. Within(checkpoint, cuts + 1)
    BY <2>1, PlanNumbers DEF PlanInv, Plan!TypeOK, Plan!Context, Within, Open
  <2>3. QED
    BY <2>1, <2>2 DEF Plan!StartPlan, Consistent, Within, Open
<1>3. QED
  BY <1>1, <1>2 DEF PlanInv, Plan!StartPlan, Plan!Begin, Within, Open

LEMMA PlanExecutes == PlanInv /\ Plan!ExecuteSlice => PlanInv'
<1> SUFFICES ASSUME PlanInv, Plan!ExecuteSlice PROVE PlanInv'
  OBVIOUS
<1>1. PICK i \in Plan!next_ready_slices(context), outcome \in Plan!Outcomes :
        LET n == Plan!Sorted(depends_on)[i]
            status == Plan!Status(n, context, outcome)
        IN /\ Plan!Dispatch(n, context, outcome)
           /\ halt' = CASE status = "failed" -> "permanent_failure"
                        [] status = "retry_scheduled" -> "retry_scheduled"
                        [] OTHER -> "running"
  BY DEF Plan!ExecuteSlice
<1> DEFINE n == Plan!Sorted(depends_on)[i]
           status == Plan!Status(n, context, outcome)
<1>2. n \in Nodes /\ Plan!validate_slice_ready(n, context) /\ n \in Open(context)
  BY DEF Plan!next_ready_slices, Plan!validate_slice_ready, Plan!Free, Open
<1> HIDE DEF n
<1>3. context' = Plan!_update_execution_context_for_result(context, n, Plan!Status(n, context, outcome))
      /\ dispatched' = IF outcome = "blocked" THEN dispatched ELSE [dispatched EXCEPT ![n] = @ + 1]
  BY <1>1 DEF Plan!Dispatch, n
<1>4. context \in Plan!Context /\ checkpoint \in Plan!Context /\ dispatched \in [Nodes -> Nat]
      /\ cuts \in Nat /\ slices \in Nat /\ cuts' = cuts
  BY PlanNumbers DEF PlanInv, Plan!TypeOK, Plan!ExecuteSlice
<1>5. /\ context' \in Plan!Context
      /\ context.completed \subseteq context'.completed
      /\ status = "failed" => context'.failed # {}
      /\ Consistent(context) => Consistent(context)'
      /\ Open(context') \subseteq Open(context)
      /\ \A m \in Open(context') \ {n} : context'.retry_counts[m] = context.retry_counts[m]
      /\ n \in Open(context') /\ outcome # "blocked" => context'.retry_counts[n] = context.retry_counts[n] + 1
      /\ outcome = "blocked" => context' = context
      /\ status \in {"success", "blocked"} =>
           context'.failed = context.failed /\ (n \in Open(context') => outcome = "blocked")
  BY <1>2, <1>3, <1>4, UpdatedContext DEF Consistent, Plan!ExecuteSlice
<1>6. halt' \in {"permanent_failure", "retry_scheduled", "running"}
      /\ (halt' = "permanent_failure" => status = "failed")
      /\ (halt' = "running" => status \in {"success", "blocked"})
  BY <1>1 DEF Plan!Status, Plan!Outcomes, n
<1>7. Plan!TypeOK' /\ Plan!HaltIsTrue'
  <2>1. dispatched' \in [Nodes -> Nat]
    BY <1>2, <1>3, <1>4
  <2>2. slices' \in 0..MaxSlices
    BY <1>4, PlanNumbers DEF Plan!ExecuteSlice, Plan!can_execute_slice
  <2>3. QED
    BY <1>5, <1>6, <2>1, <2>2 DEF PlanInv, Plan!TypeOK, Plan!HaltIsTrue, Plan!ExecuteSlice, Plan!Reasons
<1>8. ASSUME ~bypassed'
      PROVE  /\ Consistent(context)' /\ Consistent(checkpoint)'
             /\ \A m \in Nodes : dispatched'[m] <= MaxRetries + 1 + cuts
             /\ Within(context, cuts)' /\ Within(checkpoint, cuts + 1)'
             /\ checkpoint'.completed \subseteq context'.completed
             /\ halt' = "running" =>
                  /\ context'.failed = checkpoint'.failed
                  /\ \A m \in Open(context') : context'.retry_counts[m] = checkpoint'.retry_counts[m]
  <2>1. /\ Consistent(context) /\ Consistent(checkpoint)
        /\ \A m \in Nodes : dispatched[m] <= MaxRetries + 1 + cuts
        /\ Within(context, cuts) /\ Within(checkpoint, cuts + 1)
        /\ checkpoint.completed \subseteq context.completed
        /\ context.failed = checkpoint.failed
        /\ \A m \in Open(context) : context.retry_counts[m] = checkpoint.retry_counts[m]
        /\ checkpoint' = checkpoint /\ depends_on' = depends_on
    BY <1>8 DEF PlanInv, Plan!ExecuteSlice
  <2>2. /\ \A m \in Nodes : context.retry_counts[m] \in 0..MaxRetries /\ checkpoint.retry_counts[m] \in 0..MaxRetries
        /\ \A m \in Nodes : dispatched'[m] \in Nat /\ dispatched[m] \in Nat
        /\ \A m \in Nodes \ {n} : dispatched'[m] = dispatched[m]
        /\ dispatched'[n] = IF outcome = "blocked" THEN dispatched[n] ELSE dispatched[n] + 1
    BY <1>2, <1>3, <1>4 DEF Plan!Context
  <2>3. dispatched[n] <= context.retry_counts[n] + cuts /\ dispatched[n] <= checkpoint.retry_counts[n] + cuts
    BY <1>2, <2>1 DEF Within
  <2>4. \A m \in Nodes : dispatched'[m] <= MaxRetries + 1 + cuts
    BY <1>2, <1>4, <2>1, <2>2, <2>3, PlanNumbers
  <2>5. Within(context, cuts)'
    <3>1. \A m \in Open(context') : dispatched'[m] <= context'.retry_counts[m] + cuts
      BY <1>2, <1>4, <1>5, <2>1, <2>2, <2>3 DEF Within, Open
    <3>2. QED
      BY <1>4, <3>1 DEF Within, Open
  <2>6. Within(checkpoint, cuts + 1)'
    <3>1. \A m \in Open(checkpoint) : dispatched'[m] <= checkpoint.retry_counts[m] + (cuts + 1)
      BY <1>2, <1>4, <2>1, <2>2, <2>3 DEF Within, Open
    <3>2. QED
      BY <1>4, <2>1, <3>1 DEF Within, Open
  <2>7. QED
    BY <1>2, <1>5, <1>6, <2>1, <2>4, <2>5, <2>6 DEF Consistent, Open
<1>9. QED
  BY <1>4, <1>6, <1>7, <1>8 DEF PlanInv, Plan!ExecuteSlice, Within, Open

LEMMA PlanHalts == PlanInv /\ Plan!HaltLoop => PlanInv'
<1> SUFFICES ASSUME PlanInv, Plan!HaltLoop PROVE PlanInv'
  OBVIOUS
<1>1. halt = "running" /\ halt' \notin {"idle", "running"}
  BY DEF Plan!HaltLoop
<1>2. Plan!TypeOK'
  BY DEF PlanInv, Plan!TypeOK, Plan!HaltLoop, Plan!Reasons
<1>3. Plan!HaltIsTrue'
  <2>1. halt' = "no_ready_slices" => context.failed = {} /\ Plan!next_ready_slices(context) = {} /\ ~Plan!AllCompleted(context)
    BY DEF Plan!HaltLoop
  <2>2. halt' # "no_ready_slices"
    BY <2>1, SomethingIsReady DEF PlanInv
  <2>3. (halt' = "permanent_failure" => context'.failed # {}) /\ (halt' = "all_completed" => Plan!AllCompleted(context'))
    BY DEF Plan!HaltLoop
  <2>4. QED
    BY <2>2, <2>3 DEF Plan!HaltIsTrue, Plan!AllCompleted
<1>4. QED
  BY <1>1, <1>2, <1>3 DEF PlanInv, Plan!HaltLoop, Consistent, Within, Open

LEMMA PlanDispatches ==
  ASSUME NEW n \in Nodes, NEW planned \in BOOLEAN, NEW own \in BOOLEAN, PlanInv, Plan!DispatchSlice(n, planned, own)
  PROVE  PlanInv'
<1> DEFINE ctx == IF own THEN Plan!EmptyContext ELSE checkpoint
<1>1. PICK outcome \in Plan!Outcomes :
        /\ planned /\ ~Plan!validate_slice_ready(n, ctx) => outcome = "blocked"
        /\ Plan!Dispatch(n, ctx, outcome)
  BY DEF Plan!DispatchSlice
<1>2. ctx \in Plan!Context
  BY PlanNumbers DEF PlanInv, Plan!TypeOK, Plan!EmptyContext, Plan!Context
<1>3. context' = Plan!_update_execution_context_for_result(ctx, n, Plan!Status(n, ctx, outcome))
      /\ dispatched' = IF outcome = "blocked" THEN dispatched ELSE [dispatched EXCEPT ![n] = @ + 1]
  BY <1>1 DEF Plan!Dispatch
<1>4. /\ halt = "idle" /\ halt' = "retry_scheduled" /\ slices' = 1 /\ cuts' = cuts
      /\ checkpoint' = checkpoint /\ depends_on' = depends_on
      /\ bypassed' = (bypassed \/ ~planned \/ own)
      /\ turns < MaxPlanTurns /\ turns' = turns + 1
  BY DEF Plan!DispatchSlice, Plan!Begin
<1>5. dispatched \in [Nodes -> Nat] /\ cuts \in Nat
  BY PlanNumbers DEF PlanInv, Plan!TypeOK
<1> HIDE DEF ctx
<1>6. Plan!TypeOK' /\ Plan!HaltIsTrue'
  <2>1. context' \in Plan!Context
    BY <1>2, <1>3, UpdatedContext
  <2>2. dispatched' \in [Nodes -> Nat]
    BY <1>3, <1>5
  <2>3. slices' \in 0..MaxSlices /\ turns' \in 0..MaxPlanTurns /\ bypassed' \in BOOLEAN
    BY <1>4, PlanNumbers DEF PlanInv, Plan!TypeOK
  <2>4. QED
    BY <1>4, <2>1, <2>2, <2>3 DEF PlanInv, Plan!TypeOK, Plan!Reasons, Plan!HaltIsTrue
<1>7. ASSUME ~bypassed'
      PROVE  /\ Consistent(context)' /\ Consistent(checkpoint)'
             /\ \A m \in Nodes : dispatched'[m] <= MaxRetries + 1 + cuts
             /\ Within(context, cuts)' /\ Within(checkpoint, cuts + 1)'
             /\ checkpoint'.completed \subseteq context'.completed
  <2>1. ctx = checkpoint /\ planned = TRUE /\ ~bypassed
    BY <1>4, <1>7 DEF ctx
  <2>2. /\ Consistent(checkpoint) /\ Within(checkpoint, cuts)
        /\ \A m \in Nodes : dispatched[m] <= MaxRetries + 1 + cuts
    BY <1>4, <2>1 DEF PlanInv
  <2>3. checkpoint \in Plan!Context /\ \A m \in Nodes : checkpoint.retry_counts[m] \in 0..MaxRetries
    BY <1>2, <2>1 DEF Plan!Context
  <2>4. CASE outcome = "blocked"
    <3>1. context' = checkpoint /\ dispatched' = dispatched
      BY <1>2, <1>3, <2>1, <2>4, UpdatedContext
    <3>2. Within(checkpoint, cuts + 1)
      BY <1>5, <2>2, <2>3 DEF Within, Open
    <3>3. QED
      BY <1>4, <2>2, <3>1, <3>2 DEF Consistent, Within, Open
  <2>5. CASE outcome # "blocked"
    <3>1. Plan!validate_slice_ready(n, checkpoint) /\ n \in Open(checkpoint)
      BY <1>1, <2>1, <2>5 DEF Plan!validate_slice_ready, Plan!Free, Open
    <3>2. /\ checkpoint.completed \subseteq context'.completed
          /\ Consistent(context')
          /\ Open(context') \subseteq Open(checkpoint)
          /\ \A m \in Open(context') \ {n} : context'.retry_counts[m] = checkpoint.retry_counts[m]
          /\ n \in Open(context') => context'.retry_counts[n] = checkpoint.retry_counts[n] + 1
      BY <1>2, <1>3, <2>1, <2>2, <2>5, <3>1, UpdatedContext
    <3>3. dispatched' = [dispatched EXCEPT ![n] = @ + 1] /\ dispatched[n] <= checkpoint.retry_counts[n] + cuts
      BY <1>3, <2>2, <2>5, <3>1 DEF Within
    <3>4. \A m \in Nodes : dispatched'[m] <= MaxRetries + 1 + cuts
      BY <1>5, <2>2, <2>3, <3>3, PlanNumbers
    <3>5. Within(context, cuts)' /\ Within(checkpoint, cuts + 1)'
      <4>1. \A m \in Open(context') : dispatched'[m] <= context'.retry_counts[m] + cuts
        BY <1>5, <2>2, <2>3, <3>2, <3>3 DEF Within, Open
      <4>2. \A m \in Open(checkpoint) : dispatched'[m] <= checkpoint.retry_counts[m] + (cuts + 1)
        BY <1>5, <2>2, <2>3, <3>3 DEF Within, Open
      <4>3. QED
        BY <1>4, <4>1, <4>2 DEF Within, Open
    <3>6. QED
      BY <1>4, <2>2, <3>2, <3>4, <3>5 DEF Consistent
  <2>6. QED
    BY <2>4, <2>5
<1>8. QED
  BY <1>4, <1>6, <1>7 DEF PlanInv, Within, Open

LEMMA PlanSaves == PlanInv /\ Plan!SaveState => PlanInv'
<1> SUFFICES ASSUME PlanInv, Plan!SaveState PROVE PlanInv'
  OBVIOUS
<1>1. Plan!TypeOK' /\ Plan!HaltIsTrue' /\ Plan!validate_dag(depends_on)'
  BY DEF PlanInv, Plan!TypeOK, Plan!SaveState, Plan!HaltIsTrue
<1>2. QED
  BY <1>1 DEF PlanInv, Plan!SaveState, Consistent, Within, Open

LEMMA PlanIsCut == PlanInv /\ Plan!CutShort => PlanInv'
<1> SUFFICES ASSUME PlanInv, Plan!CutShort PROVE PlanInv'
  OBVIOUS
<1>1. Plan!TypeOK' /\ Plan!HaltIsTrue' /\ Plan!validate_dag(depends_on)'
  BY PlanNumbers DEF PlanInv, Plan!TypeOK, Plan!CutShort, Plan!HaltIsTrue
<1>2. \A n \in Nodes : dispatched[n] <= MaxRetries + 1 + cuts => dispatched[n] <= MaxRetries + 1 + (cuts + 1)
  BY PlanNumbers DEF PlanInv, Plan!TypeOK
<1>3. QED
  BY <1>1, <1>2 DEF PlanInv, Plan!CutShort, Consistent, Within, Open

(* What a step of the plan, or a restart, leaves true.                      *)
LEMMA PlanStays == PlanInv /\ [Next]_vars => PlanInv'
<1> SUFFICES ASSUME PlanInv, [Next]_vars PROVE PlanInv'
  OBVIOUS
<1>1. CASE UNCHANGED planVars
  BY <1>1 DEF planVars, PlanInv, Plan!TypeOK, Plan!HaltIsTrue, Plan!AllCompleted, Consistent, Within, Open
<1>2. CASE Plan!Restart
  BY <1>1, <1>2, PlanIsCut DEF Plan!Restart, Plan!vars, planVars
<1>3. CASE Plan!Next
  BY <1>3, PlanStarts, PlanExecutes, PlanHalts, PlanDispatches, PlanSaves, PlanIsCut DEF Plan!Next
<1>4. QED
  BY <1>1, <1>2, <1>3, PlanSteps

-----------------------------------------------------------------------------
(* Standing orders.                                                        *)

LEMMA OrderSteps == [Next]_vars => Ord!Next \/ Ord!Restart \/ UNCHANGED orderVars
BY DEF Next, vars, ConversationStep, PipelineStep, OrderStep, PlanStep, ProfileStep, LearningStep, JournalStep,
       AdvisoryStep, RecapStep, RoutingStep, TalkStep, CaptureStep, Restart, elsewhere, packVars, turnVars, threadVars

(* What was applied and saved was counted before; while a turn is being     *)
(* processed, its own attempt is counted already, and not saved yet.        *)
OrderInv ==
  /\ Ord!TypeOK
  /\ \A o \in physics.bounded :
       /\ applied[o] <= saved[o] /\ applied[o] <= attempts[o] /\ applied[o] <= Ord!Limit(o)
       /\ alone[o] <= saved[o] /\ alone[o] <= attempts[o]
       /\ resolving.busy /\ resolving.order = o => applied[o] < attempts[o] /\ applied[o] < Ord!Limit(o)
       /\ resolving.busy /\ Ord!Alone(o) => Ord!Up(alone[o], o) <= attempts[o]
       /\ resolving.busy /\ Ord!Alone(o) /\ alone[o] >= Ord!Limit(o) /\ o \in physics.escalation_on_exhaust
            => resolving.escalate

LEMMA OrderTypes ==
  ASSUME Ord!TypeOK
  PROVE  /\ physics.bounded \subseteq Orders /\ NInvariants \in Nat /\ NoOrder \notin Orders
         /\ \A o \in Orders : Ord!Limit(o) \in Nat
         /\ \A i \in Ord!Invariants : Ord!OrderOf(i) \in Orders \cup {NoOrder}
         /\ attempts \in [Orders -> Nat] /\ saved \in [Orders -> Nat]
         /\ applied \in [Orders -> Nat] /\ alone \in [Orders -> Nat]
         /\ \A o \in Orders, n \in Nat : Ord!Up(n, o) \in Nat
BY OrdersAssumption DEF Ord!TypeOK, Ord!PhysicsAssumption, Ord!PhysicsType, Ord!Limit, Ord!OrderOf, Ord!Invariants, Ord!Up

LEMMA OrderInit == Ord!Init => OrderInv
<1> SUFFICES ASSUME Ord!Init PROVE OrderInv
  OBVIOUS
<1>1. Ord!TypeOK
  BY OrdersAssumption DEF Ord!Init, Ord!TypeOK, Ord!PhysicsAssumption, Ord!Idle, Ord!Result
<1>2. QED
  BY <1>1, OrderTypes DEF OrderInv, Ord!Init, Ord!Idle

(* Counting once more keeps order.                                          *)
LEMMA UpMonotonic ==
  ASSUME Ord!TypeOK, NEW o \in Orders, NEW m \in Nat, NEW n \in Nat, m <= n
  PROVE  Ord!Up(m, o) <= Ord!Up(n, o) /\ n <= Ord!Up(n, o)
BY OrderTypes DEF Ord!Up

(* One of the violations comes before all others: the earliest critical one,*)
(* or the earliest.                                                         *)
LEMMA FirstViolation ==
  ASSUME NInvariants \in Nat, NEW S, S \subseteq Ord!Invariants, S # {}
  PROVE  \E i \in S : \A j \in S : ~Ord!Precedes(j, i)
<1> DEFINE C == {i \in S : Ord!Critical(i)}
<1>1. S \in SUBSET Nat /\ C \in SUBSET Nat
  <2>1. S \subseteq Nat
    BY DEF Ord!Invariants
  <2>2. QED
    BY <2>1
<1>2. CASE C # {}
  <2>1. PICK i \in C : \A j \in C : i <= j
    <3> HIDE DEF C
    <3>1. QED
      BY <1>1, <1>2, Least
  <2>2. QED
    BY <1>1, <2>1 DEF Ord!Precedes
<1>3. CASE C = {}
  <2>1. PICK i \in S : \A j \in S : i <= j
    BY <1>1, Least
  <2>2. QED
    BY <1>1, <1>3, <2>1 DEF Ord!Precedes
<1>4. QED
  BY <1>2, <1>3

LEMMA TurnIsProcessed ==
  ASSUME OrderInv, NEW results \in [Ord!Invariants -> Ord!Result], NEW library \in BOOLEAN,
         Ord!process_turn(results, library)
  PROVE  OrderInv'
<1> DEFINE count == Ord!Counted(attempts, results)
<1>0. Ord!TypeOK /\ physics' = physics /\ saved' = saved /\ ~resolving.busy
      /\ applied' = Ord!Counted(applied, results) /\ alone' = Ord!Counted(alone, results)
      /\ attempts' = [o \in Orders |-> IF \E i \in Ord!Tried(results, count) : Ord!OrderOf(i) = o
                                       THEN Ord!Up(count[o], o) ELSE count[o]]
  BY DEF OrderInv, Ord!process_turn
<1>1. count \in [Orders -> Nat] /\ applied' \in [Orders -> Nat] /\ alone' \in [Orders -> Nat]
  BY <1>0, OrderTypes DEF Ord!Counted
<1>2. attempts' \in [Orders -> Nat] /\ \A o \in Orders : count[o] <= attempts'[o]
  BY <1>0, <1>1, OrderTypes, UpMonotonic
<1>3. \A o \in physics.bounded :
        /\ applied'[o] <= count[o] /\ alone'[o] <= count[o]
        /\ applied'[o] <= saved[o] /\ applied'[o] <= Ord!Limit(o) /\ alone'[o] <= saved[o]
  BY <1>0, OrderTypes DEF OrderInv, Ord!Counted
<1> HIDE DEF count
<1>4. /\ resolving'.results = results /\ resolving'.busy /\ resolving'.order \in Orders \cup {NoOrder}
      /\ resolving'.escalate \in BOOLEAN /\ resolving' \in [results: [Ord!Invariants -> Ord!Result],
                                           order: Orders \cup {NoOrder}, escalate: BOOLEAN, busy: BOOLEAN]
      /\ \/ \E i \in Ord!Applied(results, count) : resolving'.order = Ord!OrderOf(i)
         \/ Ord!Applied(results, count) = {} /\ resolving'.order = NoOrder
            /\ resolving'.escalate = (Ord!Escalates(results) \/ library)
  <2>1. \A i \in Ord!Applied(results, count) : Ord!OrderOf(i) \in Orders \cup {NoOrder}
    BY <1>0, OrderTypes DEF Ord!Applied, Ord!Tried, Ord!Failed
  <2>2. Ord!Escalates(results) \in BOOLEAN
    BY DEF Ord!Escalates
  <2>3. CASE \E i \in Ord!Applied(results, count) :
               resolving' = [results |-> results, order |-> Ord!OrderOf(i), escalate |-> FALSE, busy |-> TRUE]
    <3>1. PICK i \in Ord!Applied(results, count) :
            resolving' = [results |-> results, order |-> Ord!OrderOf(i), escalate |-> FALSE, busy |-> TRUE]
      BY <2>3
    <3>2. Ord!OrderOf(i) \in Orders \cup {NoOrder}
      BY <2>1
    <3>3. QED
      BY <3>1, <3>2
  <2>4. CASE Ord!Applied(results, count) = {} /\ resolving' = [results |-> results, order |-> NoOrder, busy |-> TRUE,
                                                              escalate |-> Ord!Escalates(results) \/ library]
    BY <2>2, <2>4
  <2>5. QED
    BY <2>3, <2>4 DEF Ord!process_turn, count
<1>5. Ord!TypeOK'
  BY <1>0, <1>1, <1>2, <1>4 DEF Ord!TypeOK
<1>6. ASSUME NEW o \in physics.bounded, resolving'.order = o
      PROVE  applied'[o] < attempts'[o] /\ applied'[o] < Ord!Limit(o)
  <2>1. PICK i \in Ord!Applied(results, count) : Ord!OrderOf(i) = o
    BY <1>0, <1>4, <1>6, OrderTypes
  <2>2. count[o] + 1 <= Ord!Limit(o) /\ o \in Orders
    BY <1>0, <1>1, <2>1, OrderTypes DEF Ord!Applied, Ord!Applies, Ord!Exhausted
  <2>3. attempts'[o] = count[o] + 1
    BY <1>0, <1>1, <2>1, <2>2, OrderTypes DEF Ord!Applied, Ord!Up
  <2>4. QED
    BY <1>0, <1>1, <1>3, <2>2, <2>3, OrderTypes
<1>7. ASSUME NEW o \in physics.bounded, Ord!Alone(o)'
      PROVE  /\ Ord!Up(alone'[o], o) <= attempts'[o]
             /\ alone'[o] >= Ord!Limit(o) /\ o \in physics.escalation_on_exhaust => resolving'.escalate
  <2>1. Ord!Failed(results) # {} /\ (\A i \in Ord!Failed(results) : Ord!OrderOf(i) = o) /\ o \in Orders
    BY <1>0, <1>4, <1>7, OrderTypes DEF Ord!Alone, Ord!Failed, Ord!OrderOf
  <2>2. PICK i \in Ord!Failed(results) : \A j \in Ord!Failed(results) : ~Ord!Precedes(j, i)
    BY <1>0, <2>1, FirstViolation, OrderTypes DEF Ord!Failed
  <2>3. attempts'[o] = Ord!Up(count[o], o)
    BY <1>0, <2>1, <2>2 DEF Ord!Tried
  <2>4. Ord!Up(alone'[o], o) <= attempts'[o]
    BY <1>0, <1>1, <1>3, <2>1, <2>3, UpMonotonic
  <2>5. ASSUME alone'[o] >= Ord!Limit(o), o \in physics.escalation_on_exhaust PROVE resolving'.escalate
    <3>1. Ord!Exhausted(o, count)
      BY <1>0, <1>1, <1>3, <2>1, <2>5, OrderTypes DEF Ord!Exhausted
    <3>2. Ord!Applied(results, count) = {}
      BY <2>1, <3>1 DEF Ord!Applied, Ord!Applies, Ord!Tried
    <3>3. QED
      BY <1>4, <2>1, <2>5, <3>2 DEF Ord!Escalates
  <2>6. QED
    BY <2>4, <2>5
<1>8. \A o \in physics.bounded : applied'[o] <= attempts'[o] /\ alone'[o] <= attempts'[o]
  BY <1>0, <1>1, <1>2, <1>3, OrderTypes
<1>9. QED
  BY <1>0, <1>3, <1>5, <1>6, <1>7, <1>8 DEF OrderInv, Ord!Limit, Ord!Up

LEMMA OrderStays ==
  ASSUME OrderInv, Ord!Restart \/ Ord!answer_turn \/ Ord!TurnFails \/ UNCHANGED orderVars
  PROVE  OrderInv'
<1>0. Ord!TypeOK /\ physics.bounded \subseteq Orders
  BY OrderTypes DEF OrderInv
<1>1. Ord!Idle \in [results: [Ord!Invariants -> Ord!Result], order: Orders \cup {NoOrder}, escalate: BOOLEAN, busy: BOOLEAN]
      /\ ~Ord!Idle.busy
  BY DEF Ord!Idle, Ord!Result
<1>2. CASE Ord!Restart
  BY <1>0, <1>1, <1>2, OrderTypes DEF OrderInv, Ord!Restart, Ord!TypeOK, Ord!Limit
<1>3. CASE Ord!TurnFails
  BY <1>0, <1>1, <1>3, OrderTypes DEF OrderInv, Ord!TurnFails, Ord!TypeOK, Ord!Limit
<1>4. CASE Ord!answer_turn
  <2>1. Ord!TypeOK'
    BY <1>0, <1>1, <1>4, OrderTypes DEF Ord!answer_turn, Ord!TypeOK
  <2>2. /\ physics' = physics /\ resolving.busy /\ ~resolving'.busy /\ saved' = attempts /\ attempts' = attempts
    BY <1>1, <1>4 DEF Ord!answer_turn
  <2>3. \A o \in physics.bounded :
          /\ applied'[o] = IF resolving.order = o THEN applied[o] + 1 ELSE applied[o]
          /\ alone'[o] = IF Ord!Alone(o) THEN Ord!Up(alone[o], o) ELSE alone[o]
    BY <1>0, <1>4 DEF Ord!answer_turn
  <2>4. ASSUME NEW o \in physics.bounded
        PROVE  applied'[o] <= attempts[o] /\ applied'[o] <= Ord!Limit(o) /\ alone'[o] <= attempts[o]
    <3>1. applied[o] \in Nat /\ attempts[o] \in Nat /\ alone[o] \in Nat /\ Ord!Limit(o) \in Nat
      BY <1>0, OrderTypes
    <3>2. /\ applied[o] <= attempts[o] /\ applied[o] <= Ord!Limit(o) /\ alone[o] <= attempts[o]
          /\ resolving.order = o => applied[o] < attempts[o] /\ applied[o] < Ord!Limit(o)
          /\ Ord!Alone(o) => Ord!Up(alone[o], o) <= attempts[o]
      BY <2>2 DEF OrderInv
    <3>3. QED
      BY <2>3, <3>1, <3>2
  <2>5. QED
    BY <2>1, <2>2, <2>4 DEF OrderInv, Ord!Limit
<1>5. CASE UNCHANGED orderVars
  BY <1>5 DEF OrderInv, orderVars, Ord!TypeOK, Ord!Limit, Ord!Alone, Ord!Failed, Ord!Up, Ord!OrderOf
<1>6. QED
  BY <1>2, <1>3, <1>4, <1>5

LEMMA OrdersStay == OrderInv /\ [Next]_vars => OrderInv'
BY OrderSteps, OrderStays, TurnIsProcessed DEF Ord!Next

-----------------------------------------------------------------------------
(* Retries are bounded.                                                    *)

LEMMA RetriesInvariant == Spec => [](PlanInv /\ OrderInv)
<1>1. Init => PlanInv /\ OrderInv
  BY PlanInit, OrderInit DEF Init
<1>2. PlanInv /\ OrderInv /\ [Next]_vars => PlanInv' /\ OrderInv'
  BY PlanStays, OrdersStay
<1>3. QED
  BY <1>1, <1>2, PTL DEF Spec

(* However turns fail, are lost and are resumed: a standing order is        *)
(* applied at most max_attempts times, a slice is dispatched at most once   *)
(* more than its retries and the turns that were lost, and after what it    *)
(* depends on, and a plan never ends for want of a ready slice.             *)
THEOREM RetriesBounded == Spec => []RetriesAreBounded
<1>1. PlanInv /\ OrderInv => RetriesAreBounded
  BY DEF PlanInv, OrderInv, RetriesAreBounded, Ord!AppliedWithinLimit, Plan!DependenciesFirst, Plan!RetriesAreBounded,
         Consistent
<1>2. QED
  BY <1>1, RetriesInvariant, PTL

-----------------------------------------------------------------------------
(* The tiers of a student.                                                 *)

LEMMA LearningSteps == [Next]_vars => Learn!Next \/ Learn!Restart \/ UNCHANGED learningVars
BY DEF Next, vars, ConversationStep, PipelineStep, OrderStep, PlanStep, ProfileStep, LearningStep, JournalStep,
       AdvisoryStep, RecapStep, RoutingStep, TalkStep, CaptureStep, Restart, elsewhere, packVars, turnVars, threadVars

Opened(c) == learner[c] # NoContext \/ lesson[c].stage # "idle"

(* A monitors' state, of which only the tier is of interest.                *)
Tiered(l) ==
  /\ l = [attempts |-> l.attempts, outside_run |-> l.outside_run, outside_flags |-> l.outside_flags,
          tier |-> l.tier, run |-> l.run]
  /\ l.tier \in Nat

(* A conversation is not behind what was saved when it last read or wrote   *)
(* the student's state.                                                     *)
TierInv ==
  /\ DOMAIN learner = Learners /\ DOMAIN lesson = Learners /\ DOMAIN base = Learners
  /\ module_state # NoState => Tiered(module_state)
  /\ \A c \in Learners :
       /\ lesson[c] = [stage |-> lesson[c].stage, problem |-> lesson[c].problem, solved |-> lesson[c].solved,
                       second |-> lesson[c].second, decision |-> lesson[c].decision, aligned |-> lesson[c].aligned]
       /\ base[c] # NoState => base[c].tier \in Nat
       /\ Opened(c) =>
            /\ learner[c] = [learning |-> learner[c].learning, nominal |-> learner[c].nominal,
                             problem |-> learner[c].problem]
            /\ Tiered(learner[c].learning)
            /\ base[c] # NoState => learner[c].learning.tier >= base[c].tier

LEMMA TierIsNumber == \A d : Learn!TierOf(d) \in Nat /\ Len(Tiers) \in Nat
<1>1. Len(Tiers) \in Nat
  BY LearningAssumption DEF Learn!LearningAssumption
<1> SUFFICES ASSUME NEW d PROVE Learn!TierOf(d) \in Nat
  BY <1>1
<1> DEFINE F == {t \in Learn!TierIds : Tiers[t].min <= d /\ d < Tiers[t].max}
<1>2. F \in SUBSET Nat
  BY <1>1 DEF Learn!TierIds
<1>3. ASSUME F # {} PROVE Learn!Min(F) \in Nat
  <2> HIDE DEF F
  <2>1. \E i \in F : \A j \in F : i <= j
    BY <1>2, <1>3, Least
  <2>2. QED
    BY <1>2, <2>1 DEF Learn!Min
<1>4. QED
  BY <1>1, <1>3 DEF Learn!TierOf

(* A step of the monitors does not lower the tier.                          *)
LEMMA StepKeepsTier ==
  ASSUME NEW l, Tiered(l), NEW e
  PROVE  Tiered(Learn!DomainStep(l, e).state) /\ Learn!DomainStep(l, e).state.tier >= l.tier
<1> DEFINE z == Learn!ZpdStep(l, e).state
<1>1. Tiered(z) /\ z.tier = l.tier
  BY DEF Tiered, Learn!ZpdStep, Learn!UpdateWindow
<1>2. Learn!DomainStep(l, e).state = Learn!UpdateFluency(z, e).state
  BY DEF Learn!DomainStep
<1> HIDE DEF z
<1>3. Tiered(Learn!UpdateFluency(z, e).state) /\ Learn!UpdateFluency(z, e).state.tier >= z.tier
  <2> DEFINE run == IF e[1].solve = "fast" THEN z.run + 1 ELSE 0
             next == IF run >= Target /\ z.tier < Len(Tiers) THEN z.tier + 1 ELSE 0
             tier == IF next # 0 THEN next ELSE z.tier
             rest == IF run >= Target THEN 0 ELSE run
  <2>1. Learn!UpdateFluency(z, e).state = [z EXCEPT !.run = rest, !.tier = tier]
    BY DEF Learn!UpdateFluency
  <2>2. tier \in Nat /\ tier >= z.tier
    <3> HIDE DEF run
    <3>1. QED
      BY <1>1 DEF Tiered
  <2> HIDE DEF run, next, tier, rest
  <2>3. QED
    BY <1>1, <2>1, <2>2 DEF Tiered
<1>4. QED
  BY <1>1, <1>2, <1>3

LEMMA LearningInit == Learn!Init => TierInv
<1> SUFFICES ASSUME Learn!Init PROVE TierInv
  OBVIOUS
<1>1. DOMAIN learner = Learners /\ DOMAIN lesson = Learners /\ DOMAIN base = Learners /\ module_state = NoState
      /\ \A c \in Learners : learner[c] = NoContext /\ lesson[c] = Learn!Idle /\ base[c] = NoState
  BY DEF Learn!Init
<1>2. Learn!Idle.stage = "idle"
      /\ Learn!Idle = [stage |-> Learn!Idle.stage, problem |-> Learn!Idle.problem, solved |-> Learn!Idle.solved,
                       second |-> Learn!Idle.second, decision |-> Learn!Idle.decision, aligned |-> Learn!Idle.aligned]
  BY DEF Learn!Idle
<1>3. QED
  BY <1>1, <1>2 DEF TierInv, Opened

LEMMA LessonOpens ==
  ASSUME TierInv, NEW c \in Learners, Learn!Open(c)
  PROVE  TierInv'
<1> DEFINE nominal == IF session_state[c] = NoState THEN DefaultDifficulty ELSE session_state[c].nominal
           learning == IF module_state = NoState THEN Learn!Fresh(nominal) ELSE module_state
           problem == IF session_state[c] = NoState THEN Learn!Generate(nominal) ELSE session_state[c].problem
           new == [learning |-> learning, nominal |-> nominal, problem |-> problem]
<1>1. /\ learner' = [learner EXCEPT ![c] = new] /\ base' = [base EXCEPT ![c] = module_state]
      /\ UNCHANGED <<lesson, module_state>>
  BY DEF Learn!Open
<1>2. Tiered(learning) /\ (module_state # NoState => learning = module_state)
  BY TierIsNumber DEF TierInv, Tiered, Learn!Fresh
<1>3. new.learning = learning /\ new = [learning |-> new.learning, nominal |-> new.nominal, problem |-> new.problem]
  OBVIOUS
<1> HIDE DEF nominal, learning, problem, new
<1>4. /\ DOMAIN learner' = Learners /\ learner'[c] = new /\ \A d \in Learners \ {c} : learner'[d] = learner[d]
      /\ DOMAIN base' = Learners /\ base'[c] = module_state /\ \A d \in Learners \ {c} : base'[d] = base[d]
  BY <1>1 DEF TierInv
<1>5. module_state # NoState => Tiered(learning) /\ learning.tier >= module_state.tier /\ module_state.tier \in Nat
  BY <1>2 DEF Tiered
<1>6. ASSUME NEW d \in Learners, Opened(d)'
      PROVE  /\ learner'[d] = [learning |-> learner'[d].learning, nominal |-> learner'[d].nominal,
                             problem |-> learner'[d].problem]
             /\ Tiered(learner'[d].learning)
             /\ base'[d] # NoState => learner'[d].learning.tier >= base'[d].tier
  <2>1. CASE d = c
    BY <1>2, <1>3, <1>4, <1>5, <2>1
  <2>2. CASE d # c
    BY <1>1, <1>4, <1>6, <2>2 DEF TierInv, Opened
  <2>3. QED
    BY <2>1, <2>2
<1>7. QED
  BY <1>1, <1>4, <1>5, <1>6 DEF TierInv, Tiered

LEMMA LessonSteps ==
  ASSUME TierInv, NEW c \in Learners, NEW e, Learn!Step(c, e)
  PROVE  TierInv'
<1> DEFINE step == Learn!DomainStep(learner[c].learning, e)
<1>1. Opened(c) /\ UNCHANGED <<module_state, base>> /\ learner' = [learner EXCEPT ![c].learning = step.state]
      /\ lesson' = [lesson EXCEPT ![c].stage = "stepped", ![c].second = lesson[c].stage = "stepped",
                      ![c].solved = IF lesson[c].stage = "begun" THEN e[1].solved ELSE @, ![c].decision = step.decision]
  BY DEF Learn!Step, Opened
<1>2. Tiered(step.state) /\ step.state.tier >= learner[c].learning.tier
  BY <1>1, StepKeepsTier DEF TierInv
<1> HIDE DEF step
<1>3. /\ \A d \in Learners : lesson'[d] = [stage |-> lesson'[d].stage, problem |-> lesson'[d].problem,
           solved |-> lesson'[d].solved, second |-> lesson'[d].second, decision |-> lesson'[d].decision,
           aligned |-> lesson'[d].aligned]
      /\ DOMAIN lesson' = Learners /\ \A d \in Learners \ {c} : lesson'[d] = lesson[d]
  BY <1>1 DEF TierInv
<1>4. /\ DOMAIN learner' = Learners /\ \A d \in Learners \ {c} : learner'[d] = learner[d]
      /\ learner'[c].learning = step.state
      /\ learner'[c] = [learning |-> learner'[c].learning, nominal |-> learner'[c].nominal,
                             problem |-> learner'[c].problem]
  BY <1>1 DEF TierInv
<1>5. ASSUME NEW d \in Learners, Opened(d)'
      PROVE  /\ learner'[d] = [learning |-> learner'[d].learning, nominal |-> learner'[d].nominal,
                             problem |-> learner'[d].problem]
             /\ Tiered(learner'[d].learning)
             /\ base[d] # NoState => learner'[d].learning.tier >= base[d].tier
  <2>1. CASE d = c
    <3>1. base[c] # NoState => base[c].tier \in Nat /\ learner[c].learning.tier >= base[c].tier
      BY <1>1 DEF TierInv
    <3>2. learner[c].learning.tier \in Nat /\ step.state.tier \in Nat
      BY <1>1, <1>2 DEF TierInv, Tiered
    <3>3. QED
      BY <1>2, <1>4, <2>1, <3>1, <3>2
  <2>2. CASE d # c
    BY <1>3, <1>4, <1>5, <2>2 DEF TierInv, Opened
  <2>3. QED
    BY <2>1, <2>2
<1>6. QED
  BY <1>1, <1>3, <1>4, <1>5 DEF TierInv, Tiered

(* What else a turn does leaves the monitors in memory alone.               *)
LEMMA LessonTurns ==
  ASSUME TierInv, NEW c \in Learners, NEW generated \in BOOLEAN,
         Learn!Sync(c) \/ Learn!Fail(c) \/ Learn!Begin(c, generated) \/ Learn!PostTurn(c, generated)
  PROVE  TierInv'
<1>1. Opened(c) /\ UNCHANGED <<module_state, base>>
  BY DEF Learn!Sync, Learn!Fail, Learn!Begin, Learn!PostTurn, Opened
<1>2. /\ learner[c] = [learning |-> learner[c].learning, nominal |-> learner[c].nominal, problem |-> learner[c].problem]
      /\ DOMAIN learner = Learners /\ DOMAIN lesson = Learners
      /\ lesson[c] = [stage |-> lesson[c].stage, problem |-> lesson[c].problem, solved |-> lesson[c].solved,
                      second |-> lesson[c].second, decision |-> lesson[c].decision, aligned |-> lesson[c].aligned]
  BY <1>1 DEF TierInv
<1>3. /\ DOMAIN learner' = Learners /\ \A d \in Learners \ {c} : learner'[d] = learner[d]
      /\ learner'[c].learning = learner[c].learning
      /\ learner'[c] = [learning |-> learner'[c].learning, nominal |-> learner'[c].nominal,
                        problem |-> learner'[c].problem]
  <2>1. CASE UNCHANGED learner
    BY <1>2, <2>1
  <2>2. CASE Learn!Sync(c)
    BY <1>2, <2>2 DEF Learn!Sync
  <2>3. CASE Learn!PostTurn(c, generated)
    BY <1>2, <2>3 DEF Learn!PostTurn
  <2>4. QED
    BY <2>1, <2>2, <2>3 DEF Learn!Fail, Learn!Begin
<1>4. DOMAIN lesson' = Learners /\ \A d \in Learners \ {c} : lesson'[d] = lesson[d]
  BY <1>2 DEF Learn!Sync, Learn!Fail, Learn!Begin, Learn!PostTurn
<1>5. lesson'[c] = [stage |-> lesson'[c].stage, problem |-> lesson'[c].problem, solved |-> lesson'[c].solved,
                    second |-> lesson'[c].second, decision |-> lesson'[c].decision, aligned |-> lesson'[c].aligned]
  <2>1. CASE Learn!Sync(c)
    BY <1>2, <2>1 DEF Learn!Sync
  <2>2. CASE Learn!Fail(c)
    BY <1>2, <2>2 DEF Learn!Fail, Learn!Idle
  <2>3. CASE Learn!Begin(c, generated)
    BY <1>2, <2>3 DEF Learn!Begin, Learn!Idle
  <2>4. CASE Learn!PostTurn(c, generated)
    BY <1>2, <2>4 DEF Learn!PostTurn
  <2>5. QED
    BY <2>1, <2>2, <2>3, <2>4
<1>6. QED
  BY <1>1, <1>3, <1>4, <1>5 DEF TierInv, Opened, Tiered

LEMMA LessonIsSaved ==
  ASSUME TierInv, NEW c \in Learners, NEW whole \in BOOLEAN, Learn!Serialize(c, whole)
  PROVE  TierInv'
<1>1. /\ Opened(c) /\ UNCHANGED learner /\ lesson' = [lesson EXCEPT ![c] = Learn!Idle]
      /\ module_state' = IF whole THEN learner[c].learning ELSE module_state
      /\ base' = IF whole THEN [base EXCEPT ![c] = learner[c].learning] ELSE base
  BY DEF Learn!Serialize, Opened
<1>2. /\ \A d \in Learners : Opened(d)' => Opened(d)
      /\ \A d \in Learners : lesson'[d] = [stage |-> lesson'[d].stage, problem |-> lesson'[d].problem,
           solved |-> lesson'[d].solved, second |-> lesson'[d].second, decision |-> lesson'[d].decision,
           aligned |-> lesson'[d].aligned]
      /\ DOMAIN lesson' = Learners
  BY <1>1 DEF TierInv, Opened, Learn!Idle
<1>3. Tiered(learner[c].learning) /\ DOMAIN base = Learners
  BY <1>1 DEF TierInv
<1>4. DOMAIN base' = Learners /\ (module_state' # NoState => Tiered(module_state)')
      /\ \A d \in Learners : base'[d] = base[d] \/ (d = c /\ base'[d] = learner[c].learning)
  BY <1>1, <1>3 DEF TierInv, Tiered
<1>5. QED
  BY <1>1, <1>2, <1>3, <1>4 DEF TierInv, Tiered

LEMMA TiersStay == TierInv /\ [Next]_vars => TierInv'
<1> SUFFICES ASSUME TierInv, [Next]_vars PROVE TierInv'
  OBVIOUS
<1>1. CASE UNCHANGED learningVars
  BY <1>1 DEF learningVars, TierInv, Opened, Tiered
<1>2. CASE Learn!Restart
  BY <1>2 DEF Learn!Restart, TierInv, Opened, Tiered, Learn!Idle
<1>3. CASE Learn!Next
  BY <1>3, LessonOpens, LessonSteps, LessonTurns, LessonIsSaved DEF Learn!Next
<1>4. QED
  BY <1>1, <1>2, <1>3, LearningSteps

(* Nobody's saved tier falls, unless another conversation had saved since.  *)
LEMMA TierIsKept == TierInv /\ [Next]_vars => Learn!KeepsTier
<1> SUFFICES ASSUME TierInv, [Next]_vars, module_state # NoState
             PROVE  module_state'.tier >= module_state.tier \/ lost'
  BY DEF Learn!KeepsTier
<1>1. module_state.tier \in Nat
  BY DEF TierInv, Tiered
<1>2. CASE \E c \in Learners, s \in BOOLEAN : Learn!Serialize(c, s)
  <2>1. PICK c \in Learners, s \in BOOLEAN : Learn!Serialize(c, s)
    BY <1>2
  <2>2. Opened(c)
    BY <2>1 DEF Learn!Serialize, Opened
  <2>3. (s /\ base[c] # module_state => lost') /\ module_state' = IF s THEN learner[c].learning ELSE module_state
    BY <2>1, ZenonT(30) DEF Learn!Serialize
  <2>4. CASE base[c] = module_state
    BY <1>1, <2>2, <2>3, <2>4 DEF TierInv
  <2>5. CASE base[c] # module_state
    BY <1>1, <2>3, <2>5
  <2>6. QED
    BY <2>4, <2>5
<1>3. CASE UNCHANGED module_state
  BY <1>1, <1>3
<1>4. QED
  BY <1>2, <1>3, LearningSteps DEF learningVars, Learn!Next, Learn!Restart, Learn!Open, Learn!Begin, Learn!Step,
     Learn!PostTurn, Learn!Sync, Learn!Fail

(* The tier of a difficulty; a tier's middle is a difficulty of it.         *)
LEMMA TierIsOne == \A d : Learn!TierOf(d) \in Learn!TierIds
<1>1. Len(Tiers) \in Nat /\ Len(Tiers) # 0
  BY LearningAssumption DEF Learn!LearningAssumption
<1> SUFFICES ASSUME NEW d PROVE Learn!TierOf(d) \in Learn!TierIds
  OBVIOUS
<1> DEFINE F == {t \in Learn!TierIds : Tiers[t].min <= d /\ d < Tiers[t].max}
<1>2. F \in SUBSET Nat /\ F \subseteq Learn!TierIds
  BY <1>1 DEF Learn!TierIds
<1>3. ASSUME F # {} PROVE Learn!Min(F) \in Learn!TierIds
  <2> HIDE DEF F
  <2>1. \E i \in F : \A j \in F : i <= j
    BY <1>2, <1>3, Least
  <2>2. QED
    BY <1>2, <2>1 DEF Learn!Min
<1>4. Len(Tiers) \in Learn!TierIds
  BY <1>1 DEF Learn!TierIds
<1>5. QED
  BY <1>3, <1>4 DEF Learn!TierOf

LEMMA TierOfMiddle == \A t \in Learn!TierIds : Learn!TierOf(Learn!Middle(t)) = t
<1> SUFFICES ASSUME NEW t \in Learn!TierIds PROVE Learn!TierOf(Learn!Middle(t)) = t
  OBVIOUS
<1> DEFINE d == Learn!Middle(t)
<1>1. /\ Len(Tiers) \in Nat /\ t \in Nat
      /\ \A u \in Learn!TierIds : u \in Nat /\ Tiers[u].min \in Nat /\ Tiers[u].max \in Nat
  <2> DEFINE Ranges == [min: 0..100, max: 0..100]
  <2>1. \A r \in Ranges : r.min \in 0..100 /\ r.max \in 0..100
    OBVIOUS
  <2>2. Tiers \in Seq(Ranges)
    BY LearningAssumption DEF Learn!LearningAssumption
  <2> HIDE DEF Ranges
  <2>3. Len(Tiers) \in Nat /\ \A u \in 1..Len(Tiers) : Tiers[u] \in Ranges
    BY <2>2
  <2>4. \A r \in Ranges : r.min \in Nat /\ r.max \in Nat
    BY <2>1
  <2>5. \A u \in 1..Len(Tiers) : Tiers[u].min \in Nat /\ Tiers[u].max \in Nat
    BY <2>3, <2>4, Zenon
  <2>6. t \in Nat /\ \A u \in 1..Len(Tiers) : u \in Nat
    BY <2>3 DEF Learn!TierIds
  <2>7. QED
    BY <2>3, <2>5, <2>6, Zenon DEF Learn!TierIds
<1>2. /\ \A u \in Learn!TierIds : Tiers[u].min < Tiers[u].max
      /\ \A u \in Learn!TierIds : u < t => Tiers[u].max <= Tiers[t].min
      /\ \A u \in Learn!TierIds : t < u => Tiers[t].max <= Tiers[u].min
  BY LearningAssumption DEF Learn!LearningAssumption
<1>3. d \in Int /\ Tiers[t].min <= d /\ d < Tiers[t].max
  BY <1>1, <1>2 DEF Learn!Middle
<1> HIDE DEF d
<1>4. \A u \in Learn!TierIds : Tiers[u].min <= d /\ d < Tiers[u].max <=> u = t
  <2> TAKE u \in Learn!TierIds
  <2>1. CASE u = t
    BY <1>3, <2>1
  <2>2. CASE u < t
    BY <1>1, <1>2, <1>3, <2>2
  <2>3. CASE t < u
    BY <1>1, <1>2, <1>3, <2>3
  <2>4. QED
    BY <1>1, <2>1, <2>2, <2>3
<1>5. {u \in Learn!TierIds : Tiers[u].min <= d /\ d < Tiers[u].max} = {t}
  BY <1>4
<1>6. Learn!Min({t}) = t
  BY <1>1 DEF Learn!Min
<1>7. Learn!TierOf(d) = t
  BY <1>5, <1>6 DEF Learn!TierOf
<1>8. QED
  BY <1>7 DEF d

LEMMA MinOfTwo == \A a, b \in Int : Learn!Min({a, b}) = IF a <= b THEN a ELSE b
BY DEF Learn!Min

(* What a step of the monitors makes of each part of their state.           *)
Outside(e) == e[2].outside /\ ~e[1].off_task
RunAfter(l, e) == IF e[1].solve = "fast" THEN l.run + 1 ELSE 0
NextTier(l, e) == IF RunAfter(l, e) >= Target /\ l.tier < Len(Tiers) THEN l.tier + 1 ELSE 0

LEMMA MonitorsStep ==
  ASSUME NEW l, Tiered(l), NEW e
  PROVE  LET s == Learn!DomainStep(l, e).state
             flags == <<Outside(e)>> \o l.outside_flags
         IN /\ s.attempts = l.attempts + 1
            /\ s.outside_run = IF Outside(e) THEN l.outside_run + 1 ELSE 0
            /\ s.outside_flags = SubSeq(flags, 1, Learn!Min({WindowTurns, Len(flags)}))
            /\ s.run = IF RunAfter(l, e) >= Target THEN 0 ELSE RunAfter(l, e)
            /\ s.tier = IF NextTier(l, e) # 0 THEN NextTier(l, e) ELSE l.tier
            /\ Learn!DomainStep(l, e).decision.next = NextTier(l, e)
            /\ Learn!DomainStep(l, e).decision.escalates => s.attempts >= DriftWindow
<1> DEFINE z == Learn!UpdateWindow(l, e)
           s == Learn!DomainStep(l, e).state
           flags == <<Outside(e)>> \o l.outside_flags
           window == SubSeq(flags, 1, Learn!Min({WindowTurns, Len(flags)}))
<1>1. Learn!ZpdStep(l, e).state = z
  BY DEF Learn!ZpdStep
<1>2. z = [attempts |-> l.attempts + 1, outside_run |-> IF Outside(e) THEN l.outside_run + 1 ELSE 0,
           outside_flags |-> window, tier |-> l.tier, run |-> l.run]
  <2> HIDE DEF window
  <2>1. z = [l EXCEPT !.attempts = @ + 1, !.outside_run = IF Outside(e) THEN @ + 1 ELSE 0, !.outside_flags = window]
    BY DEF Learn!UpdateWindow, window, Outside
  <2>2. QED
    BY <2>1 DEF Tiered
<1> HIDE DEF window
<1>3. z.tier = l.tier /\ z.run = l.run
  BY <1>2
<1> DEFINE fluency == Learn!UpdateFluency(z, e)
<1>4. s = fluency.state /\ Learn!DomainStep(l, e).decision.next = fluency.next
      /\ (Learn!DomainStep(l, e).decision.escalates => z.attempts >= DriftWindow)
  BY <1>1 DEF Learn!DomainStep
<1> HIDE DEF z
<1> DEFINE rest == IF RunAfter(l, e) >= Target THEN 0 ELSE RunAfter(l, e)
           tier == IF NextTier(l, e) # 0 THEN NextTier(l, e) ELSE l.tier
<1>5. fluency.state = [z EXCEPT !.run = rest, !.tier = tier] /\ fluency.next = NextTier(l, e)
  BY <1>3 DEF Learn!UpdateFluency, RunAfter, NextTier
<1> HIDE DEF fluency, s, rest, tier
<1>6. s = [attempts |-> l.attempts + 1, outside_run |-> IF Outside(e) THEN l.outside_run + 1 ELSE 0,
           outside_flags |-> window, tier |-> tier, run |-> rest]
  BY <1>2, <1>4, <1>5
<1>7. s.attempts = z.attempts
  BY <1>2, <1>6
<1>8. /\ s.attempts = l.attempts + 1 /\ s.outside_run = (IF Outside(e) THEN l.outside_run + 1 ELSE 0)
      /\ s.outside_flags = window /\ s.run = rest /\ s.tier = tier
  BY <1>6
<1>9. Learn!DomainStep(l, e).decision.escalates => s.attempts >= DriftWindow
  BY <1>4, <1>7
<1>10. Learn!DomainStep(l, e).decision.next = NextTier(l, e)
  BY <1>4, <1>5
<1>11. QED
  BY <1>8, <1>9, <1>10, Zenon DEF s, window, rest, tier

(* The run outside is the one the flags show, and they are the last turns'. *)
Primed(l) ==
  /\ l.attempts \in Nat /\ l.outside_run \in Nat /\ l.outside_flags \in Seq(BOOLEAN)
  /\ Len(l.outside_flags) = Learn!Min({l.attempts, WindowTurns})
  /\ \A i \in 1..Len(l.outside_flags) : i <= l.outside_run <=> \A j \in 1..i : l.outside_flags[j]

LEMMA StepKeepsPrimed ==
  ASSUME NEW l, Tiered(l), Primed(l), NEW e
  PROVE  Primed(Learn!DomainStep(l, e).state)
<1> DEFINE s == Learn!DomainStep(l, e).state
           old == l.outside_flags
           flags == <<Outside(e)>> \o old
           m == Learn!Min({WindowTurns, Len(flags)})
           new == SubSeq(flags, 1, m)
           run == IF Outside(e) THEN l.outside_run + 1 ELSE 0
<1>1. s.attempts = l.attempts + 1 /\ s.outside_run = run /\ s.outside_flags = new
  BY MonitorsStep
<1>2. l.attempts \in Nat /\ l.outside_run \in Nat /\ old \in Seq(BOOLEAN) /\ WindowTurns \in Nat
  BY LearningAssumption DEF Primed, Learn!LearningAssumption
<1>3. Outside(e) \in BOOLEAN
  BY DEF Outside
<1> DEFINE out == Outside(e)
<1> HIDE DEF out, old
<1>4. /\ flags \in Seq(BOOLEAN) /\ Len(flags) = Len(old) + 1 /\ Len(old) \in Nat
      /\ flags[1] = out /\ \A i \in 1..Len(old) : flags[i + 1] = old[i]
  <2>1. <<out>> \o old \in Seq(BOOLEAN) /\ Len(<<out>> \o old) = Len(old) + 1 /\ Len(old) \in Nat
        /\ (<<out>> \o old)[1] = out /\ \A i \in 1..Len(old) : (<<out>> \o old)[i + 1] = old[i]
    BY <1>2, <1>3 DEF out
  <2>2. QED
    BY <2>1 DEF out
<1> HIDE DEF flags
<1>5. m \in Nat /\ m <= Len(old) + 1 /\ m = IF WindowTurns <= Len(old) + 1 THEN WindowTurns ELSE Len(old) + 1
  BY <1>2, <1>4, MinOfTwo
<1> HIDE DEF m
<1>6. new \in Seq(BOOLEAN) /\ Len(new) = m /\ \A i \in 1..m : new[i] = flags[i]
  BY <1>4, <1>5
<1> HIDE DEF new
<1>7. Len(old) = IF l.attempts <= WindowTurns THEN l.attempts ELSE WindowTurns
  BY <1>2, MinOfTwo DEF Primed, old
<1>8. m = Learn!Min({l.attempts + 1, WindowTurns})
  <2>1. Learn!Min({l.attempts + 1, WindowTurns}) = IF l.attempts + 1 <= WindowTurns THEN l.attempts + 1 ELSE WindowTurns
    BY <1>2, MinOfTwo
  <2>2. QED
    BY <1>2, <1>5, <1>7, <2>1
<1>9. run \in Nat /\ (out => run = l.outside_run + 1) /\ (~out => run = 0)
  BY <1>2 DEF out
<1> HIDE DEF run
<1>10. ASSUME NEW i \in 1..m PROVE i <= run <=> \A j \in 1..i : new[j]
  <2>1. i \in Nat /\ i >= 1 /\ 1 \in 1..i /\ 1 \in 1..m /\ \A j \in 1..i : j \in 1..m
    BY <1>5
  <2>2. new[1] = out
    BY <1>4, <1>6, <2>1
  <2>3. CASE ~out
    <3>1. ~(i <= run)
      BY <1>9, <2>1, <2>3
    <3>2. QED
      BY <2>1, <2>2, <2>3, <3>1, Zenon
  <2>4. CASE out /\ i = 1
    <3>1. i <= run /\ \A j \in 1..i : j = 1
      BY <1>2, <1>9, <2>4
    <3>2. QED
      BY <2>1, <2>2, <2>4, <3>1, Zenon
  <2>5. CASE out /\ i # 1
    <3>1. i - 1 \in 1..Len(old)
      BY <1>4, <1>5, <2>1, <2>5
    <3>2. i - 1 <= l.outside_run <=> \A j \in 1..(i - 1) : old[j]
      BY <3>1 DEF Primed, old
    <3>3. i <= run <=> i - 1 <= l.outside_run
      BY <1>2, <1>9, <2>1, <2>5
    <3>4. \A j \in 1..(i - 1) : j + 1 \in 1..i /\ new[j + 1] = old[j]
      BY <1>4, <1>5, <1>6, <2>1, <3>1
    <3>5. \A j \in 1..i : j = 1 \/ (j - 1 \in 1..(i - 1) /\ j = (j - 1) + 1)
      BY <2>1
    <3>6. ASSUME \A j \in 1..i : new[j] PROVE \A j \in 1..(i - 1) : old[j]
      BY <3>4, <3>6, Zenon
    <3>7. ASSUME \A j \in 1..(i - 1) : old[j], NEW j \in 1..i PROVE new[j]
      BY <2>2, <2>5, <3>4, <3>5, <3>7, Zenon
    <3>8. QED
      BY <3>2, <3>3, <3>6, <3>7, Zenon
  <2>6. QED
    BY <2>3, <2>4, <2>5
<1>11. s.attempts \in Nat
  BY <1>1, <1>2
<1> HIDE DEF s
<1>12. Primed(s)
  BY <1>1, <1>6, <1>8, <1>9, <1>10, <1>11, Zenon DEF Primed
<1>13. QED
  BY <1>12 DEF s

(* So many fast correct solves a tier and a run take.                       *)
Lowest == Learn!TierOf(DefaultDifficulty)
Earned(tier, run, solves) ==
  tier \in Learn!TierIds /\ run \in Nat /\ (tier - Lowest) * Target + run <= solves

LEMMA OneMore == \A a \in Int, b \in Nat : a * b \in Int /\ (a + 1) * b = a * b + b
OBVIOUS

LEMMA StepEarns ==
  ASSUME NEW l, NEW e, NEW solves \in Nat, Earned(l.tier, l.run, solves), Tiered(l)
  PROVE  LET s == Learn!DomainStep(l, e).state
             next == Learn!DomainStep(l, e).decision.next
             sum == solves + (IF e[1].solve = "fast" THEN 1 ELSE 0)
         IN Earned(s.tier, s.run, sum) /\ (next # 0 => next = s.tier /\ Earned(next, 0, sum))
<1> DEFINE s == Learn!DomainStep(l, e).state
           next == Learn!DomainStep(l, e).decision.next
           sum == solves + (IF e[1].solve = "fast" THEN 1 ELSE 0)
           run == RunAfter(l, e)
<1>1. /\ s.run = (IF run >= Target THEN 0 ELSE run)
      /\ s.tier = IF NextTier(l, e) # 0 THEN NextTier(l, e) ELSE l.tier
      /\ next = NextTier(l, e)
  BY MonitorsStep
<1>2. /\ Target \in Nat /\ Target # 0 /\ Lowest \in Nat /\ Len(Tiers) \in Nat
      /\ l.tier \in 1..Len(Tiers) /\ l.run \in Nat /\ (l.tier - Lowest) * Target + l.run <= solves
  BY LearningAssumption, TierIsNumber DEF Learn!LearningAssumption, Earned, Lowest, Learn!TierIds
<1>3. run \in Nat /\ sum \in Nat /\ (l.tier - Lowest) * Target + run <= sum
  <2>1. (l.tier - Lowest) * Target \in Int
    BY <1>2
  <2>2. CASE e[1].solve = "fast"
    BY <1>2, <2>1, <2>2 DEF RunAfter
  <2>3. CASE e[1].solve # "fast"
    BY <1>2, <2>1, <2>3 DEF RunAfter
  <2>4. QED
    BY <2>2, <2>3
<1> HIDE DEF s, next, sum, run
<1>4. CASE run >= Target /\ l.tier < Len(Tiers)
  <2>1. NextTier(l, e) = l.tier + 1
    BY <1>4 DEF NextTier, run
  <2>2. next = l.tier + 1 /\ s.tier = next /\ s.run = 0 /\ next \in 1..Len(Tiers)
    BY <1>1, <1>2, <1>4, <2>1
  <2>3. next - Lowest = (l.tier - Lowest) + 1
    BY <1>2, <2>2
  <2>4. (next - Lowest) * Target = (l.tier - Lowest) * Target + Target /\ (l.tier - Lowest) * Target \in Int
    BY <1>2, <2>3, OneMore
  <2>5. (next - Lowest) * Target + 0 <= sum
    BY <1>2, <1>3, <1>4, <2>4
  <2>6. QED
    BY <2>2, <2>5 DEF Earned, Learn!TierIds, s, next, sum
<1>5. CASE ~(run >= Target /\ l.tier < Len(Tiers))
  <2>1. NextTier(l, e) = 0
    BY <1>5, Zenon DEF NextTier, run
  <2>2. next = 0 /\ s.tier = l.tier /\ s.run \in Nat /\ s.run <= run
    BY <1>1, <1>2, <1>3, <2>1
  <2>3. (l.tier - Lowest) * Target \in Int
    BY <1>2
  <2>4. (l.tier - Lowest) * Target + s.run <= sum
    BY <1>3, <2>2, <2>3
  <2>5. QED
    BY <1>2, <2>2, <2>4 DEF Earned, Learn!TierIds, s, next, sum
<1>6. QED
  BY <1>4, <1>5

Reached(difficulty, solves) == Earned(Learn!TierOf(difficulty), 0, solves)

(* The task of a conversation is of the tier of the student's monitors.     *)
Fit(problem, difficulty, tier) == problem.tier = tier /\ Learn!TierOf(difficulty) = tier

(* What holds of a conversation, by the stage of the turn it is in: what a  *)
(* turn advances is aligned by the time the turn is saved, unless something *)
(* that dilutes it came between.                                            *)
EarnedInv(c) ==
  /\ Opened(c) =>
       /\ Primed(learner[c].learning)
       /\ Earned(learner[c].learning.tier, learner[c].learning.run, credit)
       /\ Reached(learner[c].nominal, credit)
  /\ session_state[c] # NoState => Reached(session_state[c].nominal, credit)
  /\ lesson[c].decision.next # 0 => Earned(lesson[c].decision.next, 0, credit)
  /\ lesson[c].stage = "stepped" /\ lesson[c].decision.escalates => learner[c].learning.attempts >= DriftWindow

FitInv(c) ==
  /\ lesson[c].stage = "idle" /\ Opened(c) /\ ~diluted[c] =>
       Fit(learner[c].problem, learner[c].nominal, learner[c].learning.tier)
  /\ lesson[c].stage = "begun" =>
       /\ lesson[c].decision.next = 0
       /\ ~diluted[c] => /\ Fit(learner[c].problem, learner[c].nominal, learner[c].learning.tier)
                         /\ Fit(lesson[c].problem, learner[c].nominal, learner[c].learning.tier)
  /\ lesson[c].stage = "stepped" =>
       /\ lesson[c].decision.next # 0 => lesson[c].decision.next = learner[c].learning.tier
       /\ lesson[c].decision.next = 0 /\ ~diluted[c] =>
            Fit(lesson[c].problem, learner[c].nominal, learner[c].learning.tier)
  /\ lesson[c].stage \in {"processed", "synced"} /\ (lesson[c].aligned \/ ~diluted[c]) =>
       Fit(lesson[c].problem, learner[c].nominal, learner[c].learning.tier)
  /\ lesson[c].stage = "synced" =>
       /\ learner[c].problem = lesson[c].problem
       /\ session_state[c].nominal = learner[c].nominal /\ session_state[c].problem = lesson[c].problem
  /\ session_state[c] # NoState /\ ~diluted[c] /\ lesson[c].stage # "synced" =>
       Fit(session_state[c].problem, session_state[c].nominal, base[c].tier)

LearnInv ==
  /\ TierInv
  /\ DOMAIN session_state = Learners /\ DOMAIN diluted = Learners
  /\ credit \in Nat
  /\ module_state # NoState => Primed(module_state) /\ Earned(module_state.tier, module_state.run, credit)
  /\ \A c \in Learners : EarnedInv(c) /\ FitInv(c)

LEMMA LearnInit == Learn!Init => LearnInv
<1> SUFFICES ASSUME Learn!Init PROVE LearnInv
  OBVIOUS
<1>1. /\ DOMAIN session_state = Learners /\ DOMAIN diluted = Learners /\ credit = 0 /\ module_state = NoState
      /\ \A c \in Learners : /\ learner[c] = NoContext /\ lesson[c] = Learn!Idle /\ base[c] = NoState
                             /\ session_state[c] = NoState
  BY DEF Learn!Init
<1>2. Learn!Idle.stage = "idle" /\ Learn!Idle.decision.next = 0
  BY DEF Learn!Idle, Learn!NoDecision
<1>3. QED
  BY <1>1, <1>2, LearningInit DEF LearnInv, EarnedInv, FitInv, Opened

(* The conversations that do not move.                                      *)
Rest(c) ==
  \A d \in Learners \ {c} :
    /\ learner'[d] = learner[d] /\ lesson'[d] = lesson[d] /\ session_state'[d] = session_state[d]
    /\ base'[d] = base[d] /\ diluted'[d] = diluted[d]

LEMMA EarnedLasts ==
  ASSUME NEW tier, NEW run, NEW m \in Nat, NEW k \in Nat, m <= k, Earned(tier, run, m)
  PROVE  Earned(tier, run, k)
<1>1. Lowest \in Nat /\ tier \in Nat /\ Target \in Nat
  BY TierIsNumber, LearningAssumption DEF Earned, Lowest, Learn!TierIds, Learn!LearningAssumption
<1>2. (tier - Lowest) * Target \in Int
  BY <1>1
<1>3. QED
  BY <1>1, <1>2 DEF Earned

LEMMA RestStays ==
  ASSUME LearnInv, NEW c \in Learners, Rest(c), credit' \in Nat, credit <= credit', NEW d \in Learners \ {c}
  PROVE  EarnedInv(d)' /\ FitInv(d)'
<1>1. /\ learner'[d] = learner[d] /\ lesson'[d] = lesson[d] /\ session_state'[d] = session_state[d]
      /\ base'[d] = base[d] /\ diluted'[d] = diluted[d]
  BY DEF Rest
<1>2. EarnedInv(d) /\ FitInv(d) /\ credit \in Nat
  BY DEF LearnInv
<1>3. FitInv(d)'
  BY <1>1, <1>2 DEF FitInv, Opened
<1>4. \A tier, run : Earned(tier, run, credit) => Earned(tier, run, credit')
  BY <1>2, EarnedLasts
<1>5. EarnedInv(d)'
  BY <1>1, <1>2, <1>4 DEF EarnedInv, Opened, Reached
<1>6. QED
  BY <1>3, <1>5

(* One conversation moves, and what holds of it goes on to hold.            *)
Moves(c) ==
  /\ Rest(c) /\ DOMAIN session_state' = Learners /\ DOMAIN diluted' = Learners
  /\ credit' \in Nat /\ credit <= credit'
  /\ EarnedInv(c)' /\ FitInv(c)'
  /\ module_state' # NoState => Primed(module_state') /\ Earned(module_state'.tier, module_state'.run, credit')

LEMMA NewIsPrimed ==
  ASSUME NEW difficulty, NEW solves \in Nat, Reached(difficulty, solves)
  PROVE  LET l == Learn!Fresh(difficulty)
         IN Primed(l) /\ Earned(l.tier, l.run, solves) /\ l.tier = Learn!TierOf(difficulty)
<1> DEFINE l == Learn!Fresh(difficulty)
<1>1. l.attempts = 0 /\ l.outside_run = 0 /\ l.outside_flags = << >> /\ l.run = 0 /\ l.tier = Learn!TierOf(difficulty)
  BY DEF Learn!Fresh
<1> HIDE DEF l
<1>2. Learn!Min({0, WindowTurns}) = 0
  BY MinOfTwo, LearningAssumption DEF Learn!LearningAssumption
<1>3. Primed(l)
  BY <1>1, <1>2 DEF Primed
<1>4. QED
  BY <1>1, <1>3 DEF l, Reached

LEMMA DefaultIsReached == \A solves \in Nat : Reached(DefaultDifficulty, solves)
<1> SUFFICES ASSUME NEW solves \in Nat PROVE Reached(DefaultDifficulty, solves)
  OBVIOUS
<1>1. Lowest \in Nat /\ Lowest \in Learn!TierIds /\ Target \in Nat
  BY TierIsNumber, TierIsOne, LearningAssumption DEF Lowest, Learn!LearningAssumption
<1>2. (Lowest - Lowest) * Target + 0 = 0
  BY <1>1
<1>3. QED
  BY <1>1, <1>2 DEF Reached, Earned, Lowest

LEMMA OpenMoves ==
  ASSUME LearnInv, NEW c \in Learners, Learn!Open(c)
  PROVE  Moves(c)
<1> DEFINE nominal == IF session_state[c] = NoState THEN DefaultDifficulty ELSE session_state[c].nominal
           learning == IF module_state = NoState THEN Learn!Fresh(nominal) ELSE module_state
           problem == IF session_state[c] = NoState THEN Learn!Generate(nominal) ELSE session_state[c].problem
           new == [learning |-> learning, nominal |-> nominal, problem |-> problem]
<1>1. /\ learner' = [learner EXCEPT ![c] = new] /\ base' = [base EXCEPT ![c] = module_state]
      /\ lesson[c].stage = "idle" /\ UNCHANGED <<lesson, session_state, module_state, credit>>
      /\ diluted' = [diluted EXCEPT ![c] =
             \/ session_state[c] = NoState /\ module_state # NoState
             \/ session_state[c] # NoState /\ base[c] # module_state
             \/ @]
  BY DEF Learn!Open
<1>2. /\ DOMAIN learner = Learners /\ DOMAIN base = Learners /\ DOMAIN diluted = Learners
      /\ credit \in Nat /\ EarnedInv(c) /\ FitInv(c)
      /\ module_state # NoState => Primed(module_state) /\ Earned(module_state.tier, module_state.run, credit)
  BY DEF LearnInv, TierInv
<1>3. Reached(nominal, credit)
  BY <1>2, DefaultIsReached DEF EarnedInv
<1>4. Primed(learning) /\ Earned(learning.tier, learning.run, credit)
  BY <1>2, <1>3, NewIsPrimed
<1>5. new.learning = learning /\ new.nominal = nominal /\ new.problem = problem
  OBVIOUS
<1>6. ~diluted'[c] => /\ ~diluted[c]
                      /\ session_state[c] = NoState => module_state = NoState
                      /\ session_state[c] # NoState => base[c] = module_state
  BY <1>1, <1>2
<1>7. ~diluted'[c] => Fit(problem, nominal, learning.tier)
  <2>1. CASE session_state[c] = NoState
    BY <1>3, <1>2, <1>6, <2>1, NewIsPrimed DEF Fit, Learn!Generate
  <2>2. CASE session_state[c] # NoState
    <3>1. ~diluted[c] => Fit(session_state[c].problem, session_state[c].nominal, base[c].tier)
      BY <1>1, <1>2, <2>2 DEF FitInv
    <3>2. CASE module_state = NoState
      BY <1>2, <1>3, <1>6, <2>2, <3>1, <3>2, NewIsPrimed DEF Fit
    <3>3. CASE module_state # NoState
      BY <1>6, <2>2, <3>1, <3>3 DEF Fit
    <3>4. QED
      BY <3>2, <3>3
  <2>3. QED
    BY <2>1, <2>2
<1>8. session_state[c] # NoState /\ ~diluted'[c] => Fit(session_state[c].problem, session_state[c].nominal, module_state.tier)
  BY <1>1, <1>2, <1>6 DEF FitInv
<1> HIDE DEF nominal, learning, problem, new
<1>9. learner'[c] = new /\ base'[c] = module_state
  BY <1>1, <1>2
<1>10. EarnedInv(c)'
  BY <1>1, <1>2, <1>3, <1>4, <1>5, <1>9 DEF EarnedInv
<1>11. FitInv(c)'
  BY <1>1, <1>5, <1>7, <1>8, <1>9 DEF FitInv
<1>12. Rest(c) /\ DOMAIN session_state' = Learners /\ DOMAIN diluted' = Learners
  BY <1>1, <1>2 DEF Rest, LearnInv
<1>13. QED
  BY <1>1, <1>2, <1>10, <1>11, <1>12 DEF Moves

LEMMA StepMoves ==
  ASSUME LearnInv, NEW c \in Learners, NEW e, Learn!Step(c, e)
  PROVE  Moves(c)
<1> DEFINE l == learner[c].learning
           step == Learn!DomainStep(l, e)
<1>1. /\ lesson[c].stage = "begun" \/ lesson[c].stage = "stepped"
      /\ Opened(c) /\ UNCHANGED <<module_state, session_state, base>>
      /\ learner' = [learner EXCEPT ![c].learning = step.state]
      /\ lesson' = [lesson EXCEPT ![c].stage = "stepped", ![c].second = lesson[c].stage = "stepped",
                      ![c].solved = IF lesson[c].stage = "begun" THEN e[1].solved ELSE @, ![c].decision = step.decision]
      /\ diluted' = [diluted EXCEPT ![c] = @ \/ lesson[c].decision.next # 0]
      /\ credit' = credit + (IF e[1].solve = "fast" THEN 1 ELSE 0)
  BY DEF Learn!Step, Opened
<1>2. /\ DOMAIN learner = Learners /\ DOMAIN lesson = Learners /\ DOMAIN diluted = Learners /\ DOMAIN session_state = Learners
      /\ credit \in Nat /\ EarnedInv(c) /\ FitInv(c)
      /\ module_state # NoState => Primed(module_state) /\ Earned(module_state.tier, module_state.run, credit)
      /\ learner[c] = [learning |-> learner[c].learning, nominal |-> learner[c].nominal, problem |-> learner[c].problem]
      /\ lesson[c] = [stage |-> lesson[c].stage, problem |-> lesson[c].problem, solved |-> lesson[c].solved,
                       second |-> lesson[c].second, decision |-> lesson[c].decision, aligned |-> lesson[c].aligned]
      /\ Tiered(l)
  BY <1>1 DEF LearnInv, TierInv
<1>3. credit' \in Nat /\ credit <= credit'
  BY <1>1, <1>2
<1>4. /\ Earned(step.state.tier, step.state.run, credit')
      /\ step.decision.next # 0 => step.decision.next = step.state.tier /\ Earned(step.decision.next, 0, credit')
  BY <1>1, <1>2, StepEarns DEF EarnedInv
<1>5. Primed(step.state) /\ (step.decision.escalates => step.state.attempts >= DriftWindow)
  BY <1>1, <1>2, StepKeepsPrimed, MonitorsStep DEF EarnedInv
<1>6. step.decision.next = 0 => step.state.tier = l.tier
  <2>1. step.decision.next = NextTier(l, e) /\ step.state.tier = IF NextTier(l, e) # 0 THEN NextTier(l, e) ELSE l.tier
    BY <1>2, MonitorsStep
  <2>2. QED
    BY <2>1
<1> HIDE DEF step
<1>7. /\ learner'[c].learning = step.state /\ learner'[c].nominal = learner[c].nominal
      /\ learner'[c].problem = learner[c].problem
      /\ lesson'[c].stage = "stepped" /\ lesson'[c].decision = step.decision
      /\ lesson'[c].problem = lesson[c].problem /\ lesson'[c].aligned = lesson[c].aligned
      /\ diluted'[c] <=> (diluted[c] \/ lesson[c].decision.next # 0)
      /\ session_state'[c] = session_state[c] /\ base'[c] = base[c]
  <2>1. diluted'[c] <=> (diluted[c] \/ lesson[c].decision.next # 0)
    BY <1>1, <1>2
  <2>2. /\ learner'[c].learning = step.state /\ learner'[c].nominal = learner[c].nominal
        /\ learner'[c].problem = learner[c].problem
    BY <1>1, <1>2
  <2>3. /\ lesson'[c].stage = "stepped" /\ lesson'[c].decision = step.decision
        /\ lesson'[c].problem = lesson[c].problem /\ lesson'[c].aligned = lesson[c].aligned
    BY <1>1, <1>2
  <2>4. QED
    BY <1>1, <2>1, <2>2, <2>3
<1>8. \A tier, run : Earned(tier, run, credit) => Earned(tier, run, credit')
  BY <1>2, <1>3, EarnedLasts
<1>9. EarnedInv(c)'
  <2>1. Reached(learner[c].nominal, credit) /\ (session_state[c] # NoState => Reached(session_state[c].nominal, credit))
    BY <1>1, <1>2 DEF EarnedInv
  <2>2. QED
    BY <1>4, <1>5, <1>7, <1>8, <2>1 DEF EarnedInv, Reached
<1>10. FitInv(c)'
  <2>1. session_state[c] # NoState /\ ~diluted[c] => Fit(session_state[c].problem, session_state[c].nominal, base[c].tier)
    BY <1>1, <1>2 DEF FitInv
  <2>2. lesson[c].decision.next = 0 /\ ~diluted[c] => Fit(lesson[c].problem, learner[c].nominal, l.tier)
    BY <1>1, <1>2 DEF FitInv
  <2>3. QED
    BY <1>4, <1>6, <1>7, <2>1, <2>2 DEF FitInv
<1>11. Rest(c) /\ DOMAIN session_state' = Learners /\ DOMAIN diluted' = Learners
  BY <1>1, <1>2 DEF Rest
<1>12. QED
  BY <1>1, <1>2, <1>3, <1>8, <1>9, <1>10, <1>11 DEF Moves

LEMMA BeginMoves ==
  ASSUME LearnInv, NEW c \in Learners, NEW generated \in BOOLEAN, Learn!Begin(c, generated)
  PROVE  Moves(c)
<1> DEFINE q == IF learner[c].problem.completed /\ generated THEN Learn!Generate(learner[c].nominal) ELSE learner[c].problem
<1>1. /\ lesson[c].stage = "idle" /\ Opened(c)
      /\ UNCHANGED <<learner, module_state, session_state, base, diluted, credit>>
      /\ lesson' = [lesson EXCEPT ![c] = [Learn!Idle EXCEPT !.stage = "begun", !.problem = q]]
  BY DEF Learn!Begin, Opened
<1>2. /\ DOMAIN lesson = Learners /\ DOMAIN diluted = Learners /\ DOMAIN session_state = Learners
      /\ credit \in Nat /\ EarnedInv(c) /\ FitInv(c)
      /\ module_state # NoState => Primed(module_state) /\ Earned(module_state.tier, module_state.run, credit)
  BY <1>1 DEF LearnInv, TierInv
<1>3. ~diluted[c] => /\ Fit(learner[c].problem, learner[c].nominal, learner[c].learning.tier)
                     /\ Fit(q, learner[c].nominal, learner[c].learning.tier)
  BY <1>1, <1>2 DEF FitInv, Fit, Learn!Generate
<1> HIDE DEF q
<1>4. lesson'[c].stage = "begun" /\ lesson'[c].problem = q /\ lesson'[c].decision.next = 0
  BY <1>1, <1>2 DEF Learn!Idle, Learn!NoDecision
<1>5. EarnedInv(c)'
  BY <1>1, <1>2, <1>4 DEF EarnedInv, Opened
<1>6. FitInv(c)'
  BY <1>1, <1>2, <1>3, <1>4 DEF FitInv
<1>7. Rest(c)
  BY <1>1, <1>2 DEF Rest
<1>8. QED
  BY <1>1, <1>2, <1>5, <1>6, <1>7 DEF Moves

LEMMA FailMoves ==
  ASSUME LearnInv, NEW c \in Learners, Learn!Fail(c)
  PROVE  Moves(c)
<1>1. /\ lesson[c].stage \in {"begun", "stepped", "processed"} /\ Opened(c)
      /\ UNCHANGED <<learner, module_state, session_state, base, credit>>
      /\ lesson' = [lesson EXCEPT ![c] = Learn!Idle]
      /\ diluted' = [diluted EXCEPT ![c] = @ \/ lesson[c].stage # "begun"]
  BY DEF Learn!Fail, Opened
<1>2. /\ DOMAIN lesson = Learners /\ DOMAIN diluted = Learners /\ DOMAIN session_state = Learners
      /\ credit \in Nat /\ EarnedInv(c) /\ FitInv(c)
      /\ module_state # NoState => Primed(module_state) /\ Earned(module_state.tier, module_state.run, credit)
  BY <1>1 DEF LearnInv, TierInv
<1>3. lesson'[c].stage = "idle" /\ lesson'[c].decision.next = 0 /\ (diluted'[c] <=> diluted[c] \/ lesson[c].stage # "begun")
  BY <1>1, <1>2 DEF Learn!Idle, Learn!NoDecision
<1>4. EarnedInv(c)'
  BY <1>1, <1>2, <1>3 DEF EarnedInv, Opened
<1>5. FitInv(c)'
  BY <1>1, <1>2, <1>3 DEF FitInv
<1>6. Rest(c) /\ DOMAIN diluted' = Learners
  BY <1>1, <1>2 DEF Rest
<1>7. QED
  BY <1>1, <1>2, <1>4, <1>5, <1>6 DEF Moves

LEMMA PostTurnMoves ==
  ASSUME LearnInv, NEW c \in Learners, NEW generated \in BOOLEAN, Learn!PostTurn(c, generated)
  PROVE  Moves(c)
<1> DEFINE next == lesson[c].decision.next
           nominal == IF next # 0 THEN Learn!Middle(next) ELSE learner[c].nominal
           due == next # 0 \/ lesson[c].solved
           solved == [lesson[c].problem EXCEPT !.completed = @ \/ lesson[c].solved]
           q == IF due /\ generated THEN Learn!Generate(nominal) ELSE solved
           tier == learner[c].learning.tier
<1>1. /\ lesson[c].stage = "stepped" /\ Opened(c)
      /\ UNCHANGED <<module_state, session_state, base, credit>>
      /\ learner' = [learner EXCEPT ![c].nominal = nominal]
      /\ lesson' = [lesson EXCEPT ![c].stage = "processed", ![c].aligned = next # 0 /\ generated, ![c].problem = q]
      /\ diluted' = [diluted EXCEPT ![c] = @ \/ (next # 0 /\ ~generated)]
  BY DEF Learn!PostTurn, Opened
<1>2. /\ DOMAIN learner = Learners /\ DOMAIN lesson = Learners /\ DOMAIN diluted = Learners /\ DOMAIN session_state = Learners
      /\ credit \in Nat /\ EarnedInv(c) /\ FitInv(c)
      /\ module_state # NoState => Primed(module_state) /\ Earned(module_state.tier, module_state.run, credit)
      /\ learner[c] = [learning |-> learner[c].learning, nominal |-> learner[c].nominal, problem |-> learner[c].problem]
      /\ lesson[c] = [stage |-> lesson[c].stage, problem |-> lesson[c].problem, solved |-> lesson[c].solved,
                       second |-> lesson[c].second, decision |-> lesson[c].decision, aligned |-> lesson[c].aligned]
  BY <1>1 DEF LearnInv, TierInv
<1>3. next # 0 => next = tier /\ Learn!TierOf(nominal) = next /\ Earned(next, 0, credit)
  <2>1. next # 0 => next = tier /\ Earned(next, 0, credit)
    BY <1>1, <1>2 DEF FitInv, EarnedInv
  <2>2. next # 0 => next \in Learn!TierIds
    BY <2>1 DEF Earned
  <2>3. QED
    BY <2>1, <2>2, TierOfMiddle
<1>4. Reached(nominal, credit)
  BY <1>1, <1>2, <1>3 DEF Reached, EarnedInv
<1>5. ASSUME (next # 0 /\ generated) \/ ~(diluted[c] \/ (next # 0 /\ ~generated))
      PROVE  Fit(q, nominal, tier)
  <2>1. Learn!Generate(nominal).tier = Learn!TierOf(nominal)
    BY DEF Learn!Generate
  <2>2. CASE next # 0
    BY <1>3, <1>5, <2>1, <2>2 DEF Fit
  <2>3. CASE next = 0
    <3>1. Fit(lesson[c].problem, nominal, tier)
      BY <1>1, <1>2, <1>5, <2>3 DEF FitInv
    <3>2. solved.tier = lesson[c].problem.tier
      OBVIOUS
    <3>3. QED
      BY <2>1, <3>1, <3>2 DEF Fit
  <2>4. QED
    BY <2>2, <2>3
<1> HIDE DEF q, nominal
<1>6. /\ learner'[c].learning = learner[c].learning /\ learner'[c].nominal = nominal
      /\ lesson'[c].stage = "processed" /\ lesson'[c].problem = q /\ lesson'[c].decision = lesson[c].decision
  BY <1>1, <1>2
<1>7. /\ lesson'[c].aligned <=> (next # 0 /\ generated)
      /\ diluted'[c] <=> (diluted[c] \/ (next # 0 /\ ~generated))
  BY <1>1, <1>2
<1>8. EarnedInv(c)'
  BY <1>1, <1>2, <1>4, <1>6 DEF EarnedInv
<1>9. FitInv(c)'
  <2>1. session_state[c] # NoState /\ ~diluted[c] => Fit(session_state[c].problem, session_state[c].nominal, base[c].tier)
    BY <1>1, <1>2 DEF FitInv
  <2>2. QED
    BY <1>1, <1>5, <1>6, <1>7, <2>1 DEF FitInv
<1>10. Rest(c) /\ DOMAIN diluted' = Learners
  BY <1>1, <1>2 DEF Rest
<1>11. QED
  BY <1>1, <1>2, <1>8, <1>9, <1>10 DEF Moves

LEMMA SyncMoves ==
  ASSUME LearnInv, NEW c \in Learners, Learn!Sync(c)
  PROVE  Moves(c)
<1> DEFINE q == lesson[c].problem
           saves == [nominal |-> learner[c].nominal, problem |-> q]
<1>1. /\ lesson[c].stage = "processed" /\ Opened(c)
      /\ UNCHANGED <<module_state, base, diluted, credit>>
      /\ learner' = [learner EXCEPT ![c].problem = q]
      /\ session_state' = [session_state EXCEPT ![c] = saves]
      /\ lesson' = [lesson EXCEPT ![c].stage = "synced"]
  BY DEF Learn!Sync, Opened
<1>2. /\ DOMAIN learner = Learners /\ DOMAIN lesson = Learners /\ DOMAIN diluted = Learners /\ DOMAIN session_state = Learners
      /\ credit \in Nat /\ EarnedInv(c) /\ FitInv(c)
      /\ module_state # NoState => Primed(module_state) /\ Earned(module_state.tier, module_state.run, credit)
      /\ learner[c] = [learning |-> learner[c].learning, nominal |-> learner[c].nominal, problem |-> learner[c].problem]
      /\ lesson[c] = [stage |-> lesson[c].stage, problem |-> lesson[c].problem, solved |-> lesson[c].solved,
                       second |-> lesson[c].second, decision |-> lesson[c].decision, aligned |-> lesson[c].aligned]
  BY <1>1 DEF LearnInv, TierInv
<1>3. saves.nominal = learner[c].nominal /\ saves.problem = q
  OBVIOUS
<1> HIDE DEF saves
<1>4. /\ learner'[c].learning = learner[c].learning /\ learner'[c].nominal = learner[c].nominal /\ learner'[c].problem = q
      /\ lesson'[c].stage = "synced" /\ lesson'[c].problem = q /\ lesson'[c].decision = lesson[c].decision
      /\ lesson'[c].aligned = lesson[c].aligned
      /\ session_state'[c].nominal = learner[c].nominal /\ session_state'[c].problem = q
  BY <1>1, <1>2, <1>3
<1>5. EarnedInv(c)'
  BY <1>1, <1>2, <1>4 DEF EarnedInv
<1>6. FitInv(c)'
  BY <1>1, <1>2, <1>4 DEF FitInv
<1>7. Rest(c) /\ DOMAIN session_state' = Learners
  BY <1>1, <1>2 DEF Rest
<1>8. QED
  BY <1>1, <1>2, <1>5, <1>6, <1>7 DEF Moves

LEMMA SerializeMoves ==
  ASSUME LearnInv, NEW c \in Learners, NEW whole \in BOOLEAN, Learn!Serialize(c, whole)
  PROVE  Moves(c)
<1>1. /\ lesson[c].stage = "synced" /\ Opened(c) /\ UNCHANGED <<learner, session_state, credit>>
      /\ module_state' = IF whole THEN learner[c].learning ELSE module_state
      /\ base' = IF whole THEN [base EXCEPT ![c] = learner[c].learning] ELSE base
      /\ diluted' = [diluted EXCEPT ![c] = ~whole \/ (@ /\ ~lesson[c].aligned)]
      /\ lesson' = [lesson EXCEPT ![c] = Learn!Idle]
  BY DEF Learn!Serialize, Opened
<1>2. /\ DOMAIN lesson = Learners /\ DOMAIN diluted = Learners /\ DOMAIN session_state = Learners /\ DOMAIN base = Learners
      /\ credit \in Nat /\ EarnedInv(c) /\ FitInv(c)
      /\ module_state # NoState => Primed(module_state) /\ Earned(module_state.tier, module_state.run, credit)
  BY <1>1 DEF LearnInv, TierInv
<1>3. lesson'[c].stage = "idle" /\ lesson'[c].decision.next = 0
  BY <1>1, <1>2 DEF Learn!Idle, Learn!NoDecision
<1>4. ~diluted'[c] => /\ Fit(lesson[c].problem, learner[c].nominal, learner[c].learning.tier)
                      /\ base'[c] = learner[c].learning
  <2>1. ~diluted'[c] => whole /\ (~diluted[c] \/ lesson[c].aligned)
    BY <1>1, <1>2
  <2>2. whole => base'[c] = learner[c].learning
    BY <1>1, <1>2
  <2>3. QED
    BY <1>1, <1>2, <2>1, <2>2 DEF FitInv
<1>5. /\ learner[c].problem = lesson[c].problem
      /\ session_state[c].nominal = learner[c].nominal /\ session_state[c].problem = lesson[c].problem
  BY <1>1, <1>2 DEF FitInv
<1>6. EarnedInv(c)'
  BY <1>1, <1>2, <1>3 DEF EarnedInv, Opened
<1>7. FitInv(c)'
  BY <1>1, <1>3, <1>4, <1>5 DEF FitInv
<1>8. Rest(c) /\ DOMAIN diluted' = Learners
  BY <1>1, <1>2 DEF Rest
<1>9. module_state' # NoState => Primed(module_state') /\ Earned(module_state'.tier, module_state'.run, credit')
  BY <1>1, <1>2 DEF EarnedInv
<1>10. QED
  BY <1>1, <1>2, <1>6, <1>7, <1>8, <1>9 DEF Moves

LEMMA LearnStays == LearnInv /\ [Next]_vars => LearnInv'
<1> SUFFICES ASSUME LearnInv, [Next]_vars PROVE LearnInv'
  OBVIOUS
<1>1. TierInv'
  BY TiersStay DEF LearnInv
<1>2. ASSUME NEW c \in Learners, Moves(c) PROVE LearnInv'
  <2>1. \A d \in Learners : EarnedInv(d)' /\ FitInv(d)'
    BY <1>2, RestStays DEF Moves
  <2>2. QED
    BY <1>1, <1>2, <2>1 DEF Moves, LearnInv
<1>3. CASE UNCHANGED learningVars
  <2>1. \A d \in Learners : EarnedInv(d)' /\ FitInv(d)'
    BY <1>3 DEF learningVars, LearnInv, EarnedInv, FitInv, Opened
  <2>2. QED
    BY <1>1, <1>3, <2>1 DEF learningVars, LearnInv
<1>4. CASE Learn!Restart
  <2>1. /\ learner' = [c \in Learners |-> NoContext] /\ lesson' = [c \in Learners |-> Learn!Idle]
        /\ diluted' = [c \in Learners |-> diluted[c] \/ lesson[c].stage = "synced"]
        /\ UNCHANGED <<module_state, session_state, credit, base>>
    BY <1>4 DEF Learn!Restart
  <2>2. Learn!Idle.stage = "idle" /\ Learn!Idle.decision.next = 0
    BY DEF Learn!Idle, Learn!NoDecision
  <2>3. ASSUME NEW d \in Learners PROVE EarnedInv(d)' /\ FitInv(d)'
    <3>1. /\ learner'[d] = NoContext /\ lesson'[d] = Learn!Idle
          /\ diluted'[d] <=> (diluted[d] \/ lesson[d].stage = "synced")
      BY <2>1
    <3>2. EarnedInv(d) /\ FitInv(d)
      BY DEF LearnInv
    <3>3. EarnedInv(d)'
      BY <2>1, <2>2, <3>1, <3>2 DEF EarnedInv, Opened
    <3>4. FitInv(d)'
      BY <2>1, <2>2, <3>1, <3>2 DEF FitInv, Opened
    <3>5. QED
      BY <3>3, <3>4
  <2>4. QED
    BY <1>1, <2>1, <2>3 DEF LearnInv
<1>5. CASE Learn!Next
  BY <1>2, <1>5, OpenMoves, StepMoves, BeginMoves, FailMoves, PostTurnMoves, SyncMoves, SerializeMoves DEF Learn!Next
<1>6. QED
  BY <1>3, <1>4, <1>5, LearningSteps

LEMMA LearningIsKept == LearnInv => Learn!TierIsEarned /\ Learn!ProblemFitsTier /\ Learn!EscalationIsPrimed
<1> SUFFICES ASSUME LearnInv PROVE Learn!TierIsEarned /\ Learn!ProblemFitsTier /\ Learn!EscalationIsPrimed
  OBVIOUS
<1>1. ASSUME NEW l \in Learn!States PROVE Primed(l) /\ Earned(l.tier, l.run, credit)
  BY <1>1 DEF Learn!States, LearnInv, EarnedInv, Opened
<1>2. Learn!TierIsEarned
  BY <1>1 DEF Learn!TierIsEarned, Earned, Lowest
<1>3. Learn!ProblemFitsTier
  BY DEF Learn!ProblemFitsTier, LearnInv, FitInv, Fit, Opened
<1>4. ASSUME NEW l \in Learn!States
      PROVE  /\ Len(l.outside_flags) = Learn!Min({l.attempts, WindowTurns})
             /\ \A i \in DOMAIN l.outside_flags : i <= l.outside_run <=> \A j \in 1..i : l.outside_flags[j]
  <2>1. Primed(l)
    BY <1>1
  <2>2. DOMAIN l.outside_flags = 1..Len(l.outside_flags)
    BY <2>1 DEF Primed
  <2>3. QED
    BY <2>1, <2>2 DEF Primed
<1>5. ASSUME NEW c \in Learners, lesson[c].stage = "stepped", lesson[c].decision.escalates
      PROVE  Len(learner[c].learning.outside_flags) >= Learn!Min({DriftWindow, WindowTurns})
  <2> DEFINE l == learner[c].learning
  <2>1. Opened(c) /\ EarnedInv(c)
    BY <1>5 DEF Opened, LearnInv
  <2>2. Primed(l) /\ l.attempts >= DriftWindow
    BY <1>5, <2>1 DEF EarnedInv
  <2> HIDE DEF l
  <2>3. l.attempts \in Nat /\ WindowTurns \in Nat /\ DriftWindow \in Nat
    BY <2>2, LearningAssumption DEF Primed, Learn!LearningAssumption
  <2>4. Len(l.outside_flags) = IF l.attempts <= WindowTurns THEN l.attempts ELSE WindowTurns
    BY <2>2, <2>3, MinOfTwo DEF Primed
  <2>5. Learn!Min({DriftWindow, WindowTurns}) = IF DriftWindow <= WindowTurns THEN DriftWindow ELSE WindowTurns
    BY <2>3, MinOfTwo
  <2>6. Len(l.outside_flags) >= Learn!Min({DriftWindow, WindowTurns})
    BY <2>2, <2>3, <2>4, <2>5
  <2>7. QED
    BY <2>6 DEF l
<1>6. Learn!EscalationIsPrimed
  BY <1>4, <1>5 DEF Learn!EscalationIsPrimed
<1>7. QED
  BY <1>2, <1>3, <1>6

-----------------------------------------------------------------------------
(* The safe person of a student.                                           *)

LEMMA JournalSteps == [Next]_vars => Jour!Next \/ Jour!Restart \/ UNCHANGED journalVars
BY DEF Next, vars, ConversationStep, PipelineStep, OrderStep, PlanStep, ProfileStep, LearningStep, JournalStep,
       AdvisoryStep, RecapStep, RoutingStep, TalkStep, CaptureStep, Restart, elsewhere, packVars, turnVars, threadVars

Charted(p) == p = [samples |-> p.samples, assigned |-> p.assigned, accepted |-> p.accepted]

(* What a turn or an operation has loaded, and will save, is a profile.     *)
ChartInv ==
  /\ Charted(chart)
  /\ entry = [stage |-> entry.stage, tier |-> entry.tier, chart |-> entry.chart]
  /\ entry.stage = "loaded" => Charted(entry.chart)
  /\ DOMAIN handler = Operations
  /\ \A h \in Operations :
       /\ handler[h] = [op |-> handler[h].op, person |-> handler[h].person, chart |-> handler[h].chart]
       /\ handler[h].op \in {"designate", "acknowledge", "revoke"} => Charted(handler[h].chart)

LEMMA ChartInit == Jour!Init => ChartInv
BY DEF Jour!Init, ChartInv, Charted, Jour!Quiet, Jour!Waiting

(* A turn of the conversation.                                              *)
LEMMA EntryStays ==
  ASSUME ChartInv,
         \/ Jour!Build \/ Jour!LoadChart \/ Jour!FailEntry
         \/ \E mentions, spike, concern, critical : Jour!WriteEntry(mentions, spike, concern, critical)
         \/ \E valid, buffered : Jour!Converse(valid, buffered)
  PROVE  ChartInv'
<1>1. UNCHANGED <<chart, handler>>
  BY DEF Jour!Build, Jour!LoadChart, Jour!FailEntry, Jour!WriteEntry, Jour!Converse, Jour!handlerVars
<1>2. CASE Jour!Build
  BY <1>1, <1>2 DEF Jour!Build, ChartInv, Charted
<1>3. CASE Jour!LoadChart
  BY <1>1, <1>3 DEF Jour!LoadChart, ChartInv, Charted
<1>4. CASE Jour!FailEntry
  BY <1>1, <1>4 DEF Jour!FailEntry, ChartInv, Charted, Jour!Quiet
<1>5. ASSUME NEW tier, entry' = [stage |-> "stepped", tier |-> tier, chart |-> Nobody] PROVE ChartInv'
  BY <1>1, <1>5 DEF ChartInv, Charted
<1>6. CASE \E mentions, spike, concern, critical : Jour!WriteEntry(mentions, spike, concern, critical)
  <2>1. PICK mentions, spike, concern, critical : Jour!WriteEntry(mentions, spike, concern, critical)
    BY <1>6
  <2>2. \E tier : entry' = [stage |-> "stepped", tier |-> tier, chart |-> Nobody]
    BY <2>1 DEF Jour!WriteEntry, Jour!Quiet
  <2>3. QED
    BY <1>5, <2>2
<1>7. CASE \E valid, buffered : Jour!Converse(valid, buffered)
  <2>1. entry' = [stage |-> "stepped", tier |-> "ok", chart |-> Nobody]
    BY <1>7 DEF Jour!Converse, Jour!Quiet
  <2>2. QED
    BY <1>5, <2>1
<1>8. QED
  BY <1>2, <1>3, <1>4, <1>6, <1>7

(* The end of a turn keeps what the profile says of the safe person, if it  *)
(* is the profile that was loaded.                                          *)
LEMMA ChartIsSaved ==
  ASSUME ChartInv, NEW whole \in BOOLEAN, Jour!SaveChart(whole)
  PROVE  ChartInv' /\ (chart'.accepted = chart.accepted \/ clobbered')
<1>1. entry.stage = "loaded" /\ UNCHANGED handler /\ entry' = Jour!Quiet
      /\ chart' = IF whole THEN Jour!AddSamples(entry.chart, journal.mentions) ELSE chart
  BY DEF Jour!SaveChart, Jour!handlerVars
<1>2. whole /\ entry.chart # chart => clobbered'
  BY ZenonT(30) DEF Jour!SaveChart
<1>3. Charted(entry.chart)
  BY <1>1 DEF ChartInv
<1>4. Charted(Jour!AddSamples(entry.chart, journal.mentions))
      /\ Jour!AddSamples(entry.chart, journal.mentions).accepted = entry.chart.accepted
  BY <1>3 DEF Jour!AddSamples, Charted
<1>5. ChartInv'
  BY <1>1, <1>4 DEF ChartInv, Charted, Jour!Quiet
<1>6. QED
  BY <1>1, <1>2, <1>4, <1>5

(* The operations on the safe person.                                       *)
LEMMA HandlersStay ==
  ASSUME ChartInv, NEW h \in Operations, NEW person,
         \/ Jour!Handle(h, "designate", person) \/ Jour!Handle(h, "revoke", person)
         \/ Jour!Acknowledge(h, person) \/ Jour!IssueToken(h)
  PROVE  ChartInv'
<1>1. UNCHANGED <<chart, entry>>
  BY DEF Jour!Handle, Jour!Acknowledge, Jour!IssueToken
<1>2. ASSUME NEW op, handler' = [handler EXCEPT ![h] = [op |-> op, person |-> person, chart |-> chart]]
      PROVE  ChartInv'
  BY <1>1, <1>2 DEF ChartInv, Charted
<1>3. CASE UNCHANGED handler
  BY <1>1, <1>3 DEF ChartInv, Charted
<1>4. CASE Jour!IssueToken(h)
  BY <1>1, <1>4 DEF Jour!IssueToken, Jour!Waiting, ChartInv, Charted
<1>5. QED
  BY <1>2, <1>3, <1>4 DEF Jour!Handle, Jour!Acknowledge

LEMMA HandlerSaves ==
  ASSUME ChartInv, NEW h \in Operations, Jour!SaveHandled(h)
  PROVE  ChartInv' /\ (chart'.accepted => handler[h].op = "acknowledge")
<1>1. handler[h].op \in {"designate", "acknowledge", "revoke"} /\ UNCHANGED entry /\ Charted(handler[h].chart)
  BY DEF Jour!SaveHandled, ChartInv
<1>2. Charted(chart') /\ (chart'.accepted => handler[h].op = "acknowledge")
  BY <1>1 DEF Jour!SaveHandled, Charted
<1>3. /\ DOMAIN handler' = Operations /\ \A o \in Operations \ {h} : handler'[o] = handler[o]
      /\ handler'[h] = [op |-> handler'[h].op, person |-> handler'[h].person, chart |-> handler'[h].chart]
      /\ handler'[h].op \in {"none", "issue", "purge"}
  BY <1>1 DEF Jour!SaveHandled, Jour!Waiting, ChartInv
<1>4. QED
  BY <1>1, <1>2, <1>3 DEF ChartInv, Charted

LEMMA ChartsStay == ChartInv /\ [Next]_vars => ChartInv'
<1> SUFFICES ASSUME ChartInv, [Next]_vars PROVE ChartInv'
  OBVIOUS
<1>1. CASE UNCHANGED journalVars
  BY <1>1 DEF journalVars, ChartInv, Charted
<1>2. CASE Jour!Restart
  BY <1>2 DEF Jour!Restart, ChartInv, Charted, Jour!Quiet, Jour!Waiting
<1>3. CASE Jour!ExpireToken
  BY <1>3 DEF Jour!ExpireToken, ChartInv, Charted
<1>4. CASE Jour!Next
  BY <1>3, <1>4, EntryStays, ChartIsSaved, HandlersStay, HandlerSaves DEF Jour!Next
<1>5. QED
  BY <1>1, <1>2, <1>4, JournalSteps

(* Nobody has accepted without an acceptance under way.                     *)
LEMMA RevocationIsKept == ChartInv /\ [Next]_vars => Jour!KeepsRevocation
<1> SUFFICES ASSUME ChartInv, [Next]_vars, ~chart.accepted, chart'.accepted
             PROVE  clobbered' \/ \E h \in Operations : handler[h].op = "acknowledge"
  BY DEF Jour!KeepsRevocation
<1>1. CASE UNCHANGED chart
  BY <1>1
<1>2. CASE \E whole \in BOOLEAN : Jour!SaveChart(whole)
  BY <1>2, ChartIsSaved, ZenonT(30)
<1>3. CASE \E h \in Operations : Jour!SaveHandled(h)
  BY <1>3, HandlerSaves
<1>4. QED
  BY <1>1, <1>2, <1>3, JournalSteps DEF journalVars, Jour!Next, Jour!Restart, Jour!Build, Jour!LoadChart, Jour!FailEntry,
     Jour!ExpireToken, Jour!WriteEntry, Jour!Converse, Jour!Handle, Jour!Acknowledge, Jour!IssueToken

-----------------------------------------------------------------------------
(* What a student writes.                                                  *)

LEMMA JournalActs ==
  Jour!Next <=>
    \/ Jour!Build \/ Jour!LoadChart \/ Jour!FailEntry \/ Jour!ExpireToken
    \/ /\ journal # NoJournal
       /\ \E mentions \in SUBSET Entities, spike \in BOOLEAN, critical \in BOOLEAN :
            \E concern \in Jour!Concerns(journal, mentions) : Jour!WriteEntry(mentions, spike, concern, critical)
    \/ \E valid \in BOOLEAN, buffered \in {MinTurnsIn - 1, MinTurnsIn} : Jour!Converse(valid, buffered)
    \/ \E whole \in BOOLEAN : Jour!SaveChart(whole)
    \/ \E h \in Operations, person \in SafePeople :
         \/ \E op \in {"designate", "revoke"} : Jour!Handle(h, op, person)
         \/ Jour!Acknowledge(h, person)
    \/ \E h \in Operations : Jour!SaveHandled(h) \/ Jour!IssueToken(h)
BY DEF Jour!Next, Jour!Spikes, Jour!Criticals

Writing == journal # NoJournal \/ entry.stage # "idle"

Journaled(j) ==
  j = [remaining |-> j.remaining, sustained |-> j.sustained, pending |-> j.pending, cross |-> j.cross,
       mentions |-> j.mentions, spikes |-> j.spikes]

(* What is left of the warm-up, saved or in memory, is not less than the    *)
(* measurements that are missing.                                           *)
WarmInv ==
  /\ measured \in Int /\ stored \in Int /\ LockSessions - measured <= stored
  /\ Writing =>
       /\ Journaled(journal)
       /\ journal.remaining \in Int /\ LockSessions - measured <= journal.remaining
  /\ Jour!WarmupHolds

LEMMA WarmInit == Jour!Init => WarmInv
<1> SUFFICES ASSUME Jour!Init PROVE WarmInv
  OBVIOUS
<1>1. LockSessions \in Nat
  BY JournalAssumption DEF Jour!JournalAssumption
<1>2. stored \in 0..LockSessions /\ measured = LockSessions - stored /\ journal = NoJournal
      /\ entry.tier = "ok" /\ entry.stage = "idle"
  BY DEF Jour!Init, Jour!Quiet
<1>3. QED
  BY <1>1, <1>2 DEF WarmInv, Writing, Jour!WarmupHolds

LEMMA WarmStays == ChartInv /\ WarmInv /\ [Next]_vars => WarmInv'
<1> SUFFICES ASSUME ChartInv, WarmInv, [Next]_vars PROVE WarmInv'
  OBVIOUS
<1>1. LockSessions \in Nat
  BY JournalAssumption DEF Jour!JournalAssumption
<1> USE DEF Jour!WarmupHolds
<1>2. ASSUME UNCHANGED <<measured, stored, journal>>, entry'.tier \in {"ok", entry.tier},
             entry'.stage # "idle" => entry.stage # "idle"
      PROVE  WarmInv'
  BY <1>2 DEF WarmInv, Writing, Journaled
<1>3. CASE Jour!Build
  <2>1. journal' = [remaining |-> stored, sustained |-> 0, pending |-> FALSE, cross |-> 0, mentions |-> {}, spikes |-> <<>>]
        /\ UNCHANGED <<measured, stored, entry>>
    BY <1>3 DEF Jour!Build
  <2>2. QED
    BY <2>1 DEF WarmInv, Writing, Journaled
<1>4. ASSUME NEW mentions, NEW spike, NEW concern, NEW critical, Jour!WriteEntry(mentions, spike, concern, critical)
      PROVE  WarmInv'
  <2> DEFINE step == Jour!JournalStep(journal, mentions, spike, concern, critical)
  <2>1. journal # NoJournal /\ journal' = step.state /\ entry'.tier = step.tier /\ UNCHANGED <<measured, stored>>
    BY <1>4 DEF Jour!WriteEntry, Jour!Quiet
  <2>2. Journaled(journal) /\ journal.remaining \in Int /\ LockSessions - measured <= journal.remaining
    BY <2>1 DEF WarmInv, Writing
  <2>3. Journaled(step.state) /\ step.state.remaining = journal.remaining
        /\ (journal.remaining > 0 => step.tier = "ok")
    BY <2>2 DEF Journaled, Jour!JournalStep
  <2> HIDE DEF step
  <2>4. QED
    BY <1>1, <2>1, <2>2, <2>3 DEF WarmInv
<1>5. ASSUME NEW valid, NEW buffered, Jour!Converse(valid, buffered) PROVE WarmInv'
  <2> DEFINE sample == valid /\ buffered >= MinTurnsIn
  <2>1. journal # NoJournal /\ journal' = Jour!Measure(journal, valid, buffered) /\ entry'.tier = "ok" /\ stored' = stored
        /\ measured' = measured + (IF sample THEN 1 ELSE 0)
    BY <1>5 DEF Jour!Converse, Jour!Quiet
  <2>2. Journaled(journal) /\ journal.remaining \in Int /\ LockSessions - measured <= journal.remaining
    BY <2>1 DEF WarmInv, Writing
  <2>3. Jour!Measure(journal, valid, buffered) =
          IF sample /\ journal.remaining > 0 THEN [journal EXCEPT !.remaining = @ - 1] ELSE journal
    BY DEF Jour!Measure
  <2> HIDE DEF sample
  <2>4. QED
    BY <1>1, <2>1, <2>2, <2>3 DEF WarmInv, Journaled
<1>6. ASSUME NEW whole, Jour!SaveChart(whole) PROVE WarmInv'
  <2>1. stored' = journal.remaining /\ UNCHANGED <<measured, journal>> /\ entry.stage = "loaded"
        /\ entry'.tier = "ok" /\ entry'.stage = "idle"
    BY <1>6 DEF Jour!SaveChart, Jour!Quiet
  <2>2. QED
    BY <2>1 DEF WarmInv, Writing, Journaled
<1>7. CASE Jour!Restart
  BY <1>7 DEF WarmInv, Writing, Jour!Restart, Jour!Quiet
<1>8. CASE Jour!LoadChart \/ Jour!FailEntry
  <2>1. UNCHANGED <<measured, stored, journal>> /\ entry'.tier \in {"ok", entry.tier} /\ entry.stage # "idle"
    <3>1. CASE Jour!LoadChart
      BY <3>1 DEF ChartInv, Jour!LoadChart
    <3>2. CASE Jour!FailEntry
      BY <3>2 DEF Jour!FailEntry, Jour!Quiet
    <3>3. QED
      BY <1>8, <3>1, <3>2
  <2>2. QED
    BY <1>2, <2>1
<1>9. CASE UNCHANGED <<measured, stored, journal, entry>>
  BY <1>2, <1>9
<1>10. ASSUME NEW h, NEW op, NEW person,
              \/ Jour!Handle(h, op, person) \/ Jour!Acknowledge(h, person) \/ Jour!SaveHandled(h) \/ Jour!IssueToken(h)
              \/ Jour!ExpireToken \/ UNCHANGED journalVars
       PROVE  WarmInv'
  BY <1>9, <1>10 DEF Jour!Handle, Jour!Acknowledge, Jour!SaveHandled, Jour!IssueToken, Jour!ExpireToken, journalVars
<1>11. QED
  BY <1>3, <1>4, <1>5, <1>6, <1>7, <1>8, <1>10, JournalSteps, JournalActs

(* The run of the step is the longest one of spikes at the end.             *)
RunOf(spikes, m) ==
  \A i \in 1..Len(spikes) : i > Len(spikes) - m <=> \A k \in i..Len(spikes) : spikes[k]

LEMMA SpikeExtendsRun ==
  ASSUME NEW spikes \in Seq(BOOLEAN), NEW m \in Nat, NEW spike \in BOOLEAN, RunOf(spikes, m)
  PROVE  RunOf(Append(spikes, spike), IF spike THEN m + 1 ELSE 0)
<1> DEFINE n == Len(spikes)
           longer == Append(spikes, spike)
<1>1. n \in Nat /\ longer \in Seq(BOOLEAN) /\ Len(longer) = n + 1 /\ longer[n + 1] = spike
      /\ \A k \in 1..n : longer[k] = spikes[k]
  OBVIOUS
<1>2. \A i \in 1..n : i > n - m <=> \A k \in i..n : spikes[k]
  BY DEF RunOf
<1> HIDE DEF longer, n
<1> SUFFICES ASSUME NEW i \in 1..(n + 1)
             PROVE  i > n + 1 - (IF spike THEN m + 1 ELSE 0) <=> \A k \in i..(n + 1) : longer[k]
  BY <1>1 DEF RunOf, longer
<1>3. n + 1 \in i..(n + 1) /\ i \in Int
  BY <1>1
<1>4. CASE ~spike
  <2>1. ~(i > n + 1)
    BY <1>1
  <2>2. ~(\A k \in i..(n + 1) : longer[k])
    BY <1>1, <1>3, <1>4, Zenon
  <2>3. n + 1 - 0 = n + 1
    BY <1>1
  <2>4. QED
    BY <1>4, <2>1, <2>2, <2>3, Zenon
<1>5. CASE spike /\ i = n + 1
  <2>1. i > n + 1 - (m + 1)
    BY <1>1, <1>5
  <2>2. \A k \in i..(n + 1) : k = n + 1
    BY <1>1, <1>5
  <2>3. \A k \in i..(n + 1) : longer[k]
    BY <1>1, <1>5, <2>2, Zenon
  <2>4. QED
    BY <1>5, <2>1, <2>3, Zenon
<1>6. CASE spike /\ i # n + 1
  <2>1. i \in 1..n /\ (i > n + 1 - (m + 1) <=> i > n - m)
    BY <1>1, <1>6
  <2>2. \A k \in i..n : k \in i..(n + 1) /\ k \in 1..n
    BY <1>1, <1>3
  <2>3. \A k \in i..(n + 1) : k \in i..n \/ k = n + 1
    BY <1>1, <1>3
  <2>4. (\A k \in i..n : spikes[k]) <=> \A k \in i..(n + 1) : longer[k]
    BY <1>1, <1>6, <2>2, <2>3, Zenon
  <2>5. QED
    BY <1>2, <1>6, <2>1, <2>4, Zenon
<1>7. QED
  BY <1>4, <1>5, <1>6

RunInv ==
  Writing => journal.spikes \in Seq(BOOLEAN) /\ journal.sustained \in Nat /\ RunOf(journal.spikes, journal.sustained)

LEMMA RunStays == WarmInv /\ RunInv /\ [Next]_vars => RunInv'
<1> SUFFICES ASSUME WarmInv, RunInv, [Next]_vars PROVE RunInv'
  OBVIOUS
<1>1. CASE UNCHANGED journal /\ (entry'.stage = "idle" \/ Writing)
  BY <1>1 DEF RunInv, Writing, RunOf
<1>2. CASE Jour!Build
  <2>1. journal'.spikes = << >> /\ journal'.sustained = 0
    BY <1>2 DEF Jour!Build
  <2>2. QED
    BY <2>1 DEF RunInv, RunOf
<1>3. ASSUME NEW mentions, NEW spike \in BOOLEAN, NEW concern, NEW critical,
             Jour!WriteEntry(mentions, spike, concern, critical)
      PROVE  RunInv'
  <2> DEFINE step == Jour!JournalStep(journal, mentions, spike, concern, critical)
  <2>1. journal # NoJournal /\ journal' = step.state
    BY <1>3 DEF Jour!WriteEntry
  <2>2. Journaled(journal) /\ journal.spikes \in Seq(BOOLEAN) /\ journal.sustained \in Nat
        /\ RunOf(journal.spikes, journal.sustained)
    BY <2>1 DEF WarmInv, RunInv, Writing
  <2>3. \/ step.state.spikes = journal.spikes /\ step.state.sustained = journal.sustained
        \/ /\ step.state.spikes = Append(journal.spikes, spike)
           /\ step.state.sustained = IF spike THEN journal.sustained + 1 ELSE 0
    BY <2>2 DEF Journaled, Jour!JournalStep
  <2> HIDE DEF step
  <2>4. RunOf(Append(journal.spikes, spike), IF spike THEN journal.sustained + 1 ELSE 0)
    BY <2>2, SpikeExtendsRun
  <2>5. Append(journal.spikes, spike) \in Seq(BOOLEAN) /\ (IF spike THEN journal.sustained + 1 ELSE 0) \in Nat
    BY <2>2
  <2>6. RunOf(step.state.spikes, step.state.sustained) /\ step.state.spikes \in Seq(BOOLEAN) /\ step.state.sustained \in Nat
    BY <2>2, <2>3, <2>4, <2>5
  <2>7. QED
    BY <2>1, <2>6 DEF RunInv, RunOf
<1>4. ASSUME NEW valid, NEW buffered, Jour!Converse(valid, buffered) PROVE RunInv'
  <2>1. journal # NoJournal /\ journal' = Jour!Measure(journal, valid, buffered)
    BY <1>4 DEF Jour!Converse
  <2>2. Journaled(journal) /\ journal.spikes \in Seq(BOOLEAN) /\ journal.sustained \in Nat
        /\ RunOf(journal.spikes, journal.sustained)
    BY <2>1 DEF WarmInv, RunInv, Writing
  <2>3. journal'.spikes = journal.spikes /\ journal'.sustained = journal.sustained
    BY <2>1, <2>2 DEF Jour!Measure, Journaled
  <2>4. QED
    BY <2>2, <2>3 DEF RunInv, RunOf
<1>5. ASSUME NEW whole, Jour!SaveChart(whole) PROVE RunInv'
  BY <1>1, <1>5 DEF Jour!SaveChart, Jour!Quiet
<1>6. CASE Jour!LoadChart \/ Jour!FailEntry
  BY <1>1, <1>6 DEF Jour!LoadChart, Jour!FailEntry, Writing
<1>7. CASE Jour!Restart
  BY <1>7 DEF RunInv, Writing, Jour!Restart, Jour!Quiet
<1>8. CASE UNCHANGED <<journal, entry>>
  BY <1>8 DEF RunInv, Writing, RunOf
<1>9. ASSUME NEW h, NEW op, NEW person,
             \/ Jour!Handle(h, op, person) \/ Jour!Acknowledge(h, person) \/ Jour!SaveHandled(h) \/ Jour!IssueToken(h)
             \/ Jour!ExpireToken \/ UNCHANGED journalVars
       PROVE  RunInv'
  BY <1>8, <1>9 DEF Jour!Handle, Jour!Acknowledge, Jour!SaveHandled, Jour!IssueToken, Jour!ExpireToken, journalVars
<1>10. QED
  BY <1>2, <1>3, <1>4, <1>5, <1>6, <1>7, <1>9, JournalSteps, JournalActs

(* A profile that is saved, or that a turn or an operation will save.       *)
Held(p) ==
  \/ p = chart
  \/ entry.stage = "loaded" /\ p = entry.chart
  \/ \E h \in Operations : handler[h].op \in {"designate", "acknowledge", "revoke"} /\ p = handler[h].chart

LEMMA HeldWasHeld == ChartInv /\ [Next]_vars => \A p : Held(p)' => Held(p) \/ p = chart'
<1> SUFFICES ASSUME ChartInv, [Next]_vars, NEW p, Held(p)' PROVE Held(p) \/ p = chart'
  OBVIOUS
<1>1. CASE UNCHANGED <<chart, entry, handler>>
  BY <1>1 DEF Held
<1>2. CASE entry'.stage # "loaded" /\ UNCHANGED handler
  BY <1>2 DEF Held
<1>3. CASE Jour!LoadChart
  <2>1. entry'.chart = chart /\ UNCHANGED <<chart, handler>>
    BY <1>3 DEF Jour!LoadChart, Jour!handlerVars, ChartInv
  <2>2. QED
    BY <2>1 DEF Held
<1>4. ASSUME NEW h \in Operations, NEW op, NEW person,
             handler' = [handler EXCEPT ![h] = [op |-> op, person |-> person, chart |-> chart]], UNCHANGED <<chart, entry>>
      PROVE  Held(p) \/ p = chart'
  BY <1>4 DEF Held, ChartInv
<1>5. ASSUME NEW h \in Operations, UNCHANGED entry, DOMAIN handler' = DOMAIN handler,
             \A o \in Operations \ {h} : handler'[o] = handler[o],
             handler'[h].op \in {"none", "issue", "purge"}
      PROVE  Held(p) \/ p = chart'
  BY <1>5 DEF Held
<1>6. ASSUME NEW h \in Operations, Jour!SaveHandled(h) PROVE Held(p) \/ p = chart'
  <2>1. /\ UNCHANGED entry /\ DOMAIN handler' = DOMAIN handler
        /\ \A o \in Operations \ {h} : handler'[o] = handler[o]
        /\ handler'[h].op \in {"none", "issue", "purge"}
    BY <1>6 DEF Jour!SaveHandled, Jour!Waiting, ChartInv
  <2>2. QED
    BY <1>5, <2>1
<1>7. ASSUME NEW h \in Operations, Jour!IssueToken(h) PROVE Held(p) \/ p = chart'
  <2>1. /\ UNCHANGED entry /\ DOMAIN handler' = DOMAIN handler
        /\ \A o \in Operations \ {h} : handler'[o] = handler[o]
        /\ handler'[h].op \in {"none", "issue", "purge"}
    BY <1>7 DEF Jour!IssueToken, Jour!Waiting, ChartInv
  <2>2. QED
    BY <1>5, <2>1
<1>8. CASE Jour!Restart
  BY <1>8 DEF Jour!Restart, Jour!Quiet, Jour!Waiting, Held
<1>9. ASSUME NEW h \in Operations, NEW op, NEW person, Jour!Handle(h, op, person) \/ Jour!Acknowledge(h, person)
      PROVE  Held(p) \/ p = chart'
  BY <1>1, <1>4, <1>9 DEF Jour!Handle, Jour!Acknowledge
<1>10. ASSUME NEW mentions, NEW spike, NEW concern, NEW critical, Jour!WriteEntry(mentions, spike, concern, critical)
       PROVE  Held(p) \/ p = chart'
  BY <1>2, <1>10 DEF Jour!WriteEntry, Jour!handlerVars, Jour!Quiet
<1>11. ASSUME NEW valid, NEW buffered, Jour!Converse(valid, buffered) PROVE Held(p) \/ p = chart'
  BY <1>2, <1>11 DEF Jour!Converse, Jour!handlerVars, Jour!Quiet
<1>12. ASSUME NEW whole, Jour!SaveChart(whole) PROVE Held(p) \/ p = chart'
  BY <1>2, <1>12 DEF Jour!SaveChart, Jour!handlerVars, Jour!Quiet
<1>13. CASE Jour!FailEntry
  BY <1>2, <1>13 DEF Jour!FailEntry, Jour!handlerVars, Jour!Quiet
<1>14. CASE Jour!Build \/ Jour!ExpireToken \/ UNCHANGED journalVars
  BY <1>1, <1>14 DEF Jour!Build, Jour!ExpireToken, Jour!handlerVars, journalVars
<1>15. QED
  BY <1>3, <1>6, <1>7, <1>8, <1>9, <1>10, <1>11, <1>12, <1>13, <1>14, JournalSteps, JournalActs

(* A sample that is due counts as taken.                                    *)
Due(e) == IF entry.stage # "idle" /\ e \in journal.mentions THEN 1 ELSE 0
Sampled(p, e) == p.samples[e] \in Int /\ p.samples[e] + Due(e) <= mentioned[e]

SampleInv ==
  \A e \in Entities : mentioned[e] \in Int /\ \A p : Held(p) => Sampled(p, e)

LEMMA SampleInit == Jour!Init => SampleInv
BY DEF Jour!Init, SampleInv, Held, Sampled, Due, Jour!Quiet, Jour!Waiting

(* A mention is counted in the step that makes a sample due.                *)
LEMMA MentionsAreCounted ==
  ASSUME ChartInv, WarmInv, SampleInv, [Next]_vars, NEW e \in Entities
  PROVE  mentioned'[e] \in Int /\ (Due(e)' - Due(e) <= mentioned'[e] - mentioned[e])
<1>1. mentioned[e] \in Int /\ Due(e) \in {0, 1} /\ Due(e)' \in {0, 1}
  BY DEF SampleInv, Due
<1>2. CASE mentioned' = mentioned /\ (entry'.stage = "idle" \/ UNCHANGED <<entry, journal>>)
  BY <1>1, <1>2 DEF Due
<1>3. ASSUME entry.stage = "idle", mentioned' = [x \in Entities |-> mentioned[x] + (IF x \in journal'.mentions THEN 1 ELSE 0)]
      PROVE  mentioned'[e] \in Int /\ (Due(e)' - Due(e) <= mentioned'[e] - mentioned[e])
  BY <1>1, <1>3 DEF Due
<1>4. CASE Jour!Build
  BY <1>1, <1>4 DEF Jour!Build, Due
<1>5. CASE Jour!LoadChart
  <2>1. entry.stage # "idle" /\ entry'.stage # "idle" /\ journal' = journal /\ mentioned' = mentioned
    BY <1>5 DEF Jour!LoadChart, ChartInv
  <2>2. QED
    BY <1>1, <2>1 DEF Due
<1>6. ASSUME NEW mentions, NEW spike, NEW concern, NEW critical, Jour!WriteEntry(mentions, spike, concern, critical)
      PROVE  mentioned'[e] \in Int /\ (Due(e)' - Due(e) <= mentioned'[e] - mentioned[e])
  BY <1>3, <1>6 DEF Jour!WriteEntry
<1>7. ASSUME NEW valid, NEW buffered, Jour!Converse(valid, buffered)
      PROVE  mentioned'[e] \in Int /\ (Due(e)' - Due(e) <= mentioned'[e] - mentioned[e])
  <2>1. journal # NoJournal /\ entry.stage = "idle" /\ journal' = Jour!Measure(journal, valid, buffered)
        /\ mentioned' = [x \in Entities |-> mentioned[x] + (IF x \in journal.mentions THEN 1 ELSE 0)]
    BY <1>7 DEF Jour!Converse
  <2>2. Journaled(journal)
    BY <2>1 DEF WarmInv, Writing
  <2>3. journal'.mentions = journal.mentions
    BY <2>1, <2>2 DEF Jour!Measure, Journaled
  <2>4. QED
    BY <1>3, <2>1, <2>3
<1>8. ASSUME NEW whole, Jour!SaveChart(whole)
      PROVE  mentioned'[e] \in Int /\ (Due(e)' - Due(e) <= mentioned'[e] - mentioned[e])
  BY <1>2, <1>8 DEF Jour!SaveChart, Jour!Quiet
<1>9. CASE Jour!FailEntry \/ Jour!Restart
  BY <1>2, <1>9 DEF Jour!FailEntry, Jour!Restart, Jour!Quiet
<1>10. ASSUME NEW h, NEW op, NEW person,
              \/ Jour!Handle(h, op, person) \/ Jour!Acknowledge(h, person) \/ Jour!SaveHandled(h) \/ Jour!IssueToken(h)
              \/ Jour!ExpireToken \/ UNCHANGED journalVars
       PROVE  mentioned'[e] \in Int /\ (Due(e)' - Due(e) <= mentioned'[e] - mentioned[e])
  BY <1>2, <1>10 DEF Jour!Handle, Jour!Acknowledge, Jour!SaveHandled, Jour!IssueToken, Jour!ExpireToken, journalVars
<1>11. QED
  BY <1>4, <1>5, <1>6, <1>7, <1>8, <1>9, <1>10, JournalSteps, JournalActs

(* A profile is saved as it was loaded, with the samples that were due, or  *)
(* with another safe person.                                                *)
LEMMA ChartIsHeld ==
  ASSUME ChartInv, [Next]_vars, chart' # chart
  PROVE  \/ /\ entry.stage = "loaded" /\ chart' = Jour!AddSamples(entry.chart, journal.mentions)
            /\ mentioned' = mentioned /\ entry'.stage = "idle"
         \/ \E h \in Operations : Jour!SaveHandled(h)
<1>1. ASSUME NEW whole, Jour!SaveChart(whole)
      PROVE  /\ entry.stage = "loaded" /\ chart' = Jour!AddSamples(entry.chart, journal.mentions)
             /\ mentioned' = mentioned /\ entry'.stage = "idle"
  BY <1>1 DEF Jour!SaveChart, Jour!Quiet
<1>2. QED
  BY <1>1, JournalSteps, JournalActs
     DEF journalVars, Jour!Restart, Jour!Build, Jour!LoadChart, Jour!FailEntry, Jour!ExpireToken, Jour!WriteEntry,
         Jour!Converse, Jour!Handle, Jour!Acknowledge, Jour!IssueToken

LEMMA SamplesStay == ChartInv /\ WarmInv /\ SampleInv /\ [Next]_vars => SampleInv'
<1> SUFFICES ASSUME ChartInv, WarmInv, SampleInv, [Next]_vars, NEW e \in Entities
             PROVE  mentioned'[e] \in Int /\ \A p : Held(p)' => Sampled(p, e)'
  BY DEF SampleInv
<1>1. mentioned[e] \in Int /\ Due(e) \in {0, 1} /\ Due(e)' \in {0, 1}
      /\ mentioned'[e] \in Int /\ (Due(e)' - Due(e) <= mentioned'[e] - mentioned[e])
  BY MentionsAreCounted DEF SampleInv, Due
<1>2. ASSUME NEW p, p.samples[e] \in Int, p.samples[e] + Due(e) <= mentioned[e]
      PROVE  p.samples[e] + Due(e)' <= mentioned'[e]
  <2> DEFINE a == Due(e)
             b == Due(e)'
  <2> HIDE DEF a, b
  <2>1. a \in Int /\ b \in Int /\ b - a <= mentioned'[e] - mentioned[e] /\ p.samples[e] + a <= mentioned[e]
    BY <1>1, <1>2 DEF a, b
  <2>2. p.samples[e] + b <= mentioned'[e]
    BY <1>1, <1>2, <2>1
  <2>3. QED
    BY <2>2 DEF b
<1>3. ASSUME NEW p, Held(p) PROVE Sampled(p, e)'
  BY <1>2, <1>3 DEF SampleInv, Sampled
<1>4. Sampled(chart, e)'
  <2>1. CASE chart' = chart
    BY <1>3, <2>1 DEF Held, Sampled
  <2>2. CASE /\ entry.stage = "loaded" /\ chart' = Jour!AddSamples(entry.chart, journal.mentions)
             /\ mentioned' = mentioned /\ entry'.stage = "idle"
    <3>1. Held(entry.chart) /\ Charted(entry.chart)
      BY <2>2 DEF Held, ChartInv
    <3>4. chart'.samples[e] = entry.chart.samples[e] + (IF e \in journal.mentions THEN 1 ELSE 0)
      BY <2>2, <3>1 DEF Jour!AddSamples, Charted
    <3>5. entry.chart.samples[e] \in Int /\ entry.chart.samples[e] + Due(e) <= mentioned[e]
      BY <3>1 DEF SampleInv, Sampled
    <3>6. QED
      BY <1>1, <2>2, <3>4, <3>5 DEF Sampled, Due
  <2>3. ASSUME NEW h \in Operations, Jour!SaveHandled(h) PROVE Sampled(chart, e)'
    <3>1. handler[h].op \in {"designate", "acknowledge", "revoke"} /\ Charted(handler[h].chart)
      BY <2>3 DEF Jour!SaveHandled, ChartInv
    <3>2. chart'.samples = handler[h].chart.samples /\ Held(handler[h].chart)
      BY <2>3, <3>1 DEF Jour!SaveHandled, Charted, Held
    <3>3. QED
      BY <1>3, <3>2 DEF Sampled
  <2>4. QED
    BY <2>1, <2>2, <2>3, ChartIsHeld
<1>5. QED
  BY <1>1, <1>3, <1>4, HeldWasHeld DEF Sampled

(* Who is held to have accepted did so, and an acceptance is of whom the    *)
(* profile names, or of nobody.                                             *)
ConsentInv ==
  /\ \A p : Held(p) => (p.accepted => p.assigned \in consented \cup {Nobody})
  /\ \A h \in Operations :
       handler[h].op = "acknowledge" => handler[h].chart.assigned \in {Nobody, handler[h].person}

LEMMA ConsentInit == Jour!Init => ConsentInv
BY DEF Jour!Init, ConsentInv, Held, Jour!Quiet, Jour!Waiting

LEMMA ConsentStays == ChartInv /\ ConsentInv /\ [Next]_vars => ConsentInv'
<1> SUFFICES ASSUME ChartInv, ConsentInv, [Next]_vars PROVE ConsentInv'
  OBVIOUS
<1>1. consented \subseteq consented'
  BY JournalSteps, JournalActs
     DEF journalVars, Jour!Restart, Jour!Build, Jour!LoadChart, Jour!FailEntry, Jour!ExpireToken, Jour!WriteEntry,
         Jour!Converse, Jour!Handle, Jour!Acknowledge, Jour!IssueToken, Jour!SaveHandled, Jour!SaveChart, Jour!handlerVars
<1>2. chart'.accepted => chart'.assigned \in consented' \cup {Nobody}
  <2>1. CASE chart' = chart
    BY <1>1, <2>1 DEF ConsentInv, Held
  <2>2. CASE entry.stage = "loaded" /\ chart' = Jour!AddSamples(entry.chart, journal.mentions)
    <3>1. Held(entry.chart) /\ Charted(entry.chart)
      BY <2>2 DEF Held, ChartInv
    <3>2. chart'.accepted = entry.chart.accepted /\ chart'.assigned = entry.chart.assigned
      BY <2>2, <3>1 DEF Jour!AddSamples, Charted
    <3>3. QED
      BY <1>1, <3>1, <3>2 DEF ConsentInv
  <2>3. ASSUME NEW h \in Operations, Jour!SaveHandled(h) PROVE chart'.accepted => chart'.assigned \in consented' \cup {Nobody}
    <3>1. handler[h].op \in {"designate", "acknowledge", "revoke"} /\ Charted(handler[h].chart)
      BY <2>3 DEF Jour!SaveHandled, ChartInv
    <3>2. CASE handler[h].op # "acknowledge"
      BY <2>3, <3>1, <3>2 DEF Jour!SaveHandled, Charted
    <3>3. CASE handler[h].op = "acknowledge"
      <4>1. chart'.assigned = handler[h].chart.assigned /\ handler[h].person \in consented'
        BY <2>3, <3>1, <3>3 DEF Jour!SaveHandled, Charted
      <4>2. QED
        BY <3>3, <4>1 DEF ConsentInv
    <3>4. QED
      BY <3>2, <3>3
  <2>4. QED
    BY <2>1, <2>2, <2>3, ChartIsHeld
<1>3. ASSUME NEW h \in Operations, handler'[h].op = "acknowledge"
      PROVE  handler'[h].chart.assigned \in {Nobody, handler'[h].person}
  <2>1. CASE handler'[h] = handler[h]
    BY <1>3, <2>1 DEF ConsentInv
  <2>2. ASSUME NEW o \in Operations, NEW person, Jour!Acknowledge(o, person)
        PROVE  handler'[h].chart.assigned \in {Nobody, handler'[h].person}
    <3>1. CASE o # h
      BY <2>1, <2>2, <3>1 DEF Jour!Acknowledge, ChartInv
    <3>2. CASE o = h
      BY <2>1, <2>2, <3>2 DEF Jour!Acknowledge, ChartInv
    <3>3. QED
      BY <3>1, <3>2
  <2>3. ASSUME NEW o \in Operations, NEW person, NEW op \in {"designate", "revoke"}, Jour!Handle(o, op, person)
        PROVE  handler'[h].chart.assigned \in {Nobody, handler'[h].person}
    BY <1>3, <2>1, <2>3 DEF Jour!Handle, ChartInv
  <2>4. ASSUME NEW o \in Operations, Jour!SaveHandled(o) \/ Jour!IssueToken(o)
        PROVE  handler'[h].chart.assigned \in {Nobody, handler'[h].person}
    <3>1. o # h => handler'[h] = handler[h]
      BY <2>4 DEF Jour!SaveHandled, Jour!IssueToken, ChartInv
    <3>2. handler'[o].op # "acknowledge"
      BY <2>4 DEF Jour!SaveHandled, Jour!IssueToken, Jour!Waiting, ChartInv
    <3>3. QED
      BY <1>3, <2>1, <3>1, <3>2
  <2>5. CASE Jour!Restart
    BY <1>3, <2>5 DEF Jour!Restart, Jour!Waiting
  <2>6. CASE UNCHANGED handler
    BY <2>1, <2>6
  <2>7. QED
    BY <2>2, <2>3, <2>4, <2>5, <2>6, JournalSteps, JournalActs
       DEF journalVars, Jour!Build, Jour!LoadChart, Jour!FailEntry, Jour!ExpireToken, Jour!WriteEntry, Jour!Converse,
           Jour!SaveChart, Jour!handlerVars
<1>4. QED
  BY <1>1, <1>2, <1>3, HeldWasHeld DEF ConsentInv

JournalInv == ChartInv /\ WarmInv /\ RunInv /\ SampleInv /\ ConsentInv

LEMMA JournalStart == Jour!Init => JournalInv
<1>1. Jour!Init => RunInv
  BY DEF Jour!Init, Jour!Quiet, RunInv, Writing
<1>2. QED
  BY <1>1, ChartInit, WarmInit, SampleInit, ConsentInit DEF JournalInv

LEMMA JournalStays == JournalInv /\ [Next]_vars => JournalInv'
BY ChartsStay, WarmStays, RunStays, SamplesStay, ConsentStays DEF JournalInv

LEMMA JournalIsKept ==
  JournalInv => Jour!WarmupHolds /\ Jour!RunIsOfSpikes /\ Jour!SamplesAreTurns /\ Jour!AcceptedByAssigned
<1> SUFFICES ASSUME JournalInv
             PROVE  Jour!WarmupHolds /\ Jour!RunIsOfSpikes /\ Jour!SamplesAreTurns /\ Jour!AcceptedByAssigned
  OBVIOUS
<1>1. Jour!WarmupHolds
  BY DEF JournalInv, WarmInv
<1>2. Jour!RunIsOfSpikes
  BY DEF JournalInv, RunInv, Writing, RunOf, Jour!RunIsOfSpikes
<1>3. Jour!SamplesAreTurns
  <2> SUFFICES ASSUME NEW e \in Entities PROVE chart.samples[e] <= mentioned[e]
    BY DEF Jour!SamplesAreTurns
  <2>1. mentioned[e] \in Int /\ chart.samples[e] \in Int /\ chart.samples[e] + Due(e) <= mentioned[e]
    BY DEF JournalInv, SampleInv, Held, Sampled
  <2>2. Due(e) \in {0, 1}
    BY DEF Due
  <2>3. QED
    BY <2>1, <2>2
<1>4. Jour!AcceptedByAssigned
  BY DEF JournalInv, ConsentInv, Held, Jour!AcceptedByAssigned
<1>5. QED
  BY <1>1, <1>2, <1>3, <1>4

-----------------------------------------------------------------------------
(* What the profiles of drifting actors count.                             *)

LEMMA AdvisorySteps == [Next]_vars => Adv!Next \/ Adv!Restart \/ UNCHANGED advisoryVars
BY DEF Next, vars, ConversationStep, PipelineStep, OrderStep, PlanStep, ProfileStep, LearningStep, JournalStep,
       AdvisoryStep, RecapStep, RoutingStep, TalkStep, CaptureStep, Restart, elsewhere, packVars, turnVars, threadVars

Counts(p) ==
  /\ p = [sample_count |-> p.sample_count, advisories |-> p.advisories, turns |-> p.turns]
  /\ p.sample_count \in Nat /\ p.turns \in Nat

(* What the scan, or a turn, has loaded, and will save, is a profile.       *)
CountInv ==
  /\ DOMAIN rhythm = Actors /\ DOMAIN saving = Actors
  /\ \A a \in Actors : Counts(rhythm[a]) /\ (saving[a] # NoProfile => Counts(saving[a]))
  /\ scan = [running |-> scan.running, left |-> scan.left, loaded |-> scan.loaded, report |-> scan.report,
             records |-> scan.records]
  /\ scan.left \subseteq Actors
  /\ scan.running => \A a \in Actors : Counts(scan.loaded[a])

LEMMA CountInit == Adv!Init => CountInv
BY DEF Adv!Init, Adv!NoScan, CountInv, Counts

(* A profile is replaced by one that was loaded, with one count more.       *)
LEMMA ScanSaves ==
  ASSUME CountInv, NEW a \in Actors, NEW found, NEW whole \in BOOLEAN, Adv!Analyse(a, found, whole)
  PROVE  /\ CountInv'
         /\ \A b \in Actors : b \in overwritten' \/ (/\ rhythm'[b].turns >= rhythm[b].turns
                                                     /\ rhythm'[b].sample_count >= rhythm[b].sample_count)
<1> DEFINE old == scan.loaded[a] new == Adv!Analysed(old, found)
<1>1. /\ scan.running /\ UNCHANGED saving
      /\ scan' = [scan EXCEPT !.left = @ \ {a}, !.report = @ \cup ({a} \X found)]
      /\ rhythm' = IF whole THEN [rhythm EXCEPT ![a] = new] ELSE rhythm
      /\ overwritten' = IF whole /\ rhythm[a] # old THEN overwritten \cup {a} ELSE overwritten
  BY DEF Adv!Analyse, Adv!turnVars
<1>2. Counts(old)
  BY <1>1 DEF CountInv
<1>3. Counts(new) /\ new.turns = old.turns /\ new.sample_count = old.sample_count + 1
  <2> DEFINE noted == Adv!Upsert(old.advisories, found)
  <2>1. new = [old EXCEPT !.sample_count = old.sample_count + 1, !.advisories = noted]
    BY DEF Adv!Analysed
  <2> HIDE DEF noted, old, new
  <2>2. new = [sample_count |-> old.sample_count + 1, advisories |-> noted, turns |-> old.turns]
    BY <1>2, <2>1 DEF Counts
  <2>3. QED
    BY <1>2, <2>2 DEF Counts
<1>4. \A b \in Actors : Counts(rhythm[b])
  BY DEF CountInv
<1>5. scan' = [running |-> scan'.running, left |-> scan'.left, loaded |-> scan'.loaded, report |-> scan'.report,
               records |-> scan'.records]
      /\ scan'.left \subseteq Actors /\ scan'.loaded = scan.loaded
  BY <1>1 DEF CountInv
<1> HIDE DEF old, new
<1>6. DOMAIN rhythm' = Actors /\ \A b \in Actors : rhythm'[b] = rhythm[b] \/ (b = a /\ whole /\ rhythm'[b] = new)
  BY <1>1 DEF CountInv
<1>7. CountInv'
  BY <1>1, <1>3, <1>4, <1>5, <1>6 DEF CountInv, Counts
<1>8. ASSUME NEW b \in Actors
      PROVE  b \in overwritten' \/ (rhythm'[b].turns >= rhythm[b].turns /\ rhythm'[b].sample_count >= rhythm[b].sample_count)
  <2>1. CASE rhythm'[b] = rhythm[b]
    <3>1. rhythm[b].turns \in Nat /\ rhythm[b].sample_count \in Nat
      BY <1>4 DEF Counts
    <3>2. QED
      BY <2>1, <3>1
  <2>2. CASE b = a /\ whole /\ rhythm'[b] = new
    BY <1>1, <1>2, <1>3, <2>2 DEF Counts
  <2>3. QED
    BY <1>6, <2>1, <2>2
<1>9. QED
  BY <1>7, <1>8

LEMMA TurnSaves ==
  ASSUME CountInv, NEW a \in Actors, NEW whole \in BOOLEAN, Adv!SaveProfile(a, whole)
  PROVE  /\ CountInv'
         /\ \A b \in Actors : b \in overwritten' \/ (/\ rhythm'[b].turns >= rhythm[b].turns
                                                     /\ rhythm'[b].sample_count >= rhythm[b].sample_count)
<1> DEFINE new == [saving[a] EXCEPT !.turns = @ + 1]
<1>1. /\ saving[a] # NoProfile /\ saving' = [saving EXCEPT ![a] = NoProfile] /\ UNCHANGED scan
      /\ rhythm' = IF whole THEN [rhythm EXCEPT ![a] = new] ELSE rhythm
      /\ overwritten' = IF whole /\ rhythm[a] # saving[a] THEN overwritten \cup {a} ELSE overwritten
  BY DEF Adv!SaveProfile, Adv!daemonVars
<1>2. Counts(saving[a]) /\ \A b \in Actors : Counts(rhythm[b])
  BY <1>1 DEF CountInv
<1>3. Counts(new) /\ new.turns = saving[a].turns + 1 /\ new.sample_count = saving[a].sample_count
  BY <1>2 DEF Counts
<1> HIDE DEF new
<1>4. DOMAIN rhythm' = Actors /\ \A b \in Actors : rhythm'[b] = rhythm[b] \/ (b = a /\ whole /\ rhythm'[b] = new)
  BY <1>1 DEF CountInv
<1>5. CountInv'
  BY <1>1, <1>2, <1>3, <1>4 DEF CountInv, Counts
<1>6. ASSUME NEW b \in Actors
      PROVE  b \in overwritten' \/ (rhythm'[b].turns >= rhythm[b].turns /\ rhythm'[b].sample_count >= rhythm[b].sample_count)
  <2>1. CASE rhythm'[b] = rhythm[b]
    <3>1. rhythm[b].turns \in Nat /\ rhythm[b].sample_count \in Nat
      BY <1>2 DEF Counts
    <3>2. QED
      BY <2>1, <3>1
  <2>2. CASE b = a /\ whole /\ rhythm'[b] = new
    BY <1>1, <1>2, <1>3, <2>2 DEF Counts
  <2>3. QED
    BY <1>4, <2>1, <2>2
<1>7. QED
  BY <1>5, <1>6

(* Nothing else writes a profile.                                           *)
LEMMA ProfilesStay ==
  ASSUME CountInv,
         \/ UNCHANGED advisoryVars \/ Adv!Restart \/ Adv!Tick \/ Adv!EndScan
         \/ \E readable \in SUBSET Actors, queried \in BOOLEAN : Adv!StartScan(readable, queried)
         \/ \E a \in Actors : Adv!Skip(a) \/ Adv!LoadProfile(a) \/ Adv!Build(a) \/ Adv!Surface(a)
  PROVE  UNCHANGED rhythm /\ CountInv'
<1>1. UNCHANGED rhythm
  BY DEF advisoryVars, Adv!Restart, Adv!Tick, Adv!EndScan, Adv!StartScan, Adv!Skip, Adv!LoadProfile, Adv!Build, Adv!Surface
<1>2. DOMAIN saving' = Actors /\ \A a \in Actors : saving'[a] \in {saving[a], rhythm[a], NoProfile}
  BY DEF CountInv, advisoryVars, Adv!Restart, Adv!Tick, Adv!EndScan, Adv!StartScan, Adv!Skip, Adv!LoadProfile, Adv!Build,
         Adv!Surface, Adv!turnVars
<1>3. /\ scan' = [running |-> scan'.running, left |-> scan'.left, loaded |-> scan'.loaded, report |-> scan'.report,
                  records |-> scan'.records]
      /\ scan'.left \subseteq Actors
      /\ scan'.running => \A a \in Actors : Counts(scan'.loaded[a])
  <2>1. CASE UNCHANGED scan
    BY <2>1 DEF CountInv
  <2>2. CASE Adv!Restart \/ Adv!EndScan
    BY <2>2 DEF Adv!Restart, Adv!EndScan, Adv!NoScan
  <2>3. CASE \E readable \in SUBSET Actors, queried \in BOOLEAN : Adv!StartScan(readable, queried)
    BY <2>3 DEF CountInv, Adv!StartScan
  <2>4. CASE \E a \in Actors : Adv!Skip(a)
    BY <2>4 DEF CountInv, Adv!Skip
  <2>5. QED
    BY <2>1, <2>2, <2>3, <2>4
       DEF advisoryVars, Adv!Tick, Adv!LoadProfile, Adv!Build, Adv!Surface, Adv!daemonVars
<1>4. QED
  BY <1>1, <1>2, <1>3 DEF CountInv, Counts

(* No count of an actor falls whose profile no save wrote over.             *)
LEMMA CountsAreKept == CountInv /\ [Next]_vars => CountInv' /\ Adv!KeepsCounts
<1> SUFFICES ASSUME CountInv, [Next]_vars PROVE CountInv' /\ Adv!KeepsCounts
  OBVIOUS
<1>1. CASE UNCHANGED rhythm /\ CountInv'
  BY <1>1 DEF CountInv, Counts, Adv!KeepsCounts
<1>2. CASE \E a \in Actors, found \in SUBSET Adv!BandIds, whole \in BOOLEAN : Adv!Analyse(a, found, whole)
  BY <1>2, ScanSaves DEF Adv!KeepsCounts
<1>3. CASE \E a \in Actors, whole \in BOOLEAN : Adv!SaveProfile(a, whole)
  BY <1>3, TurnSaves DEF Adv!KeepsCounts
<1>4. QED
  BY <1>1, <1>2, <1>3, AdvisorySteps, ProfilesStay DEF Adv!Next

LEMMA DaysCardinality == \A S : Adv!Cardinality(S) = Cardinality(S)
BY DEF Adv!Cardinality, Cardinality, Adv!IsFiniteSet, IsFiniteSet

(* A profile that is saved, or that a turn or the scan will save.           *)
Copied(a, p) ==
  p = rhythm[a] \/ (saving[a] # NoProfile /\ p = saving[a]) \/ (scan.running /\ p = scan.loaded[a])

(* What such a profile says of its advisories.                              *)
Mature(a) == folds[a] > MinSamples /\ Cardinality(observed[a]) >= MinDays
Known(a, advisories) == a \notin unreported => \A v \in advisories : <<a, v.band>> \in proposed \cup scan.report

Sound(a, p) ==
  /\ Adv!Single(p.advisories)
  /\ p.sample_count <= folds[a]
  /\ p.advisories # {} => Mature(a)
  /\ Known(a, p.advisories)

(* A conversation shows an advisory once, and keeps those that were live.   *)
Shown(a) ==
  \A i \in DOMAIN chat[a].shown :
    LET unexpired == {v \in chat[a].advisories : v.expires > chat[a].shown[i].on}
    IN unexpired # {} /\ chat[a].shown[i].band = Adv!Min({v.band : v \in unexpired})

ChatInv(a) ==
  /\ chat[a] = [advisories |-> chat[a].advisories, surfaced |-> chat[a].surfaced, shown |-> chat[a].shown]
  /\ Adv!Single(chat[a].advisories)
  /\ ~chat[a].surfaced => chat[a].shown = << >>
  /\ Len(chat[a].shown) <= 1
  /\ Shown(a)

AdvisoryInv ==
  /\ CountInv
  /\ DOMAIN folds = Actors /\ DOMAIN observed = Actors /\ DOMAIN chat = Actors
  /\ \A a \in Actors :
       /\ folds[a] \in Nat /\ IsFiniteSet(observed[a])
       /\ scan.running => scan.records[a] \subseteq observed[a]
       /\ \A p : Copied(a, p) => Sound(a, p)
       /\ chat[a] # NoProfile => ChatInv(a)

LEMMA AdvisoryInit == Adv!Init => AdvisoryInv
<1> SUFFICES ASSUME Adv!Init PROVE AdvisoryInv
  OBVIOUS
<1>1. /\ DOMAIN folds = Actors /\ DOMAIN observed = Actors /\ DOMAIN chat = Actors
      /\ scan = Adv!NoScan
      /\ \A a \in Actors : /\ folds[a] = 0 /\ observed[a] = {} /\ chat[a] = NoProfile /\ saving[a] = NoProfile
                           /\ rhythm[a] = [sample_count |-> 0, advisories |-> {}, turns |-> 0]
  BY DEF Adv!Init
<1>2. ~scan.running
  BY <1>1 DEF Adv!NoScan
<1>3. ASSUME NEW a \in Actors, NEW p, Copied(a, p) PROVE Sound(a, p)
  BY <1>1, <1>2, <1>3 DEF Copied, Sound, Adv!Single, Known
<1>4. IsFiniteSet({})
  BY FS_EmptySet
<1>5. QED
  BY <1>1, <1>2, <1>3, <1>4, CountInit DEF AdvisoryInv

(* More values, signatures and proposals do no harm.                        *)
LEMMA SoundLasts ==
  ASSUME NEW a \in Actors, NEW p, Sound(a, p), p.sample_count \in Nat, folds[a] \in Nat, folds'[a] \in Nat,
         folds[a] <= folds'[a], IsFiniteSet(observed'[a]), observed[a] \subseteq observed'[a],
         a \notin unreported' => /\ a \notin unreported
                                 /\ \A b : <<a, b>> \in proposed \cup scan.report => <<a, b>> \in proposed' \cup scan'.report
  PROVE  /\ p.sample_count <= folds'[a] /\ (p.advisories # {} => Mature(a)') /\ Adv!Single(p.advisories)
         /\ (a \notin unreported' => \A v \in p.advisories : <<a, v.band>> \in proposed' \cup scan'.report)
<1>1. MinSamples \in Nat /\ MinDays \in Nat
  BY AdvisoriesAssumption DEF Adv!AdvisoriesAssumption
<1>2. IsFiniteSet(observed[a]) /\ Cardinality(observed[a]) \in Nat /\ Cardinality(observed'[a]) \in Nat
      /\ Cardinality(observed[a]) <= Cardinality(observed'[a])
  BY FS_Subset, FS_CardinalityType
<1>3. p.advisories # {} => Mature(a)'
  BY <1>1, <1>2 DEF Sound, Mature
<1>4. QED
  BY <1>3 DEF Sound, Known

Grows(a) ==
  /\ folds'[a] \in Nat /\ folds[a] <= folds'[a]
  /\ IsFiniteSet(observed'[a]) /\ observed[a] \subseteq observed'[a]
  /\ a \notin unreported' => /\ a \notin unreported
                             /\ \A b : <<a, b>> \in proposed \cup scan.report => <<a, b>> \in proposed' \cup scan'.report

LEMMA HistoryGrows ==
  ASSUME AdvisoryInv, Adv!Next \/ Adv!Restart \/ UNCHANGED advisoryVars
  PROVE  /\ DOMAIN folds' = Actors /\ DOMAIN observed' = Actors
         /\ \A a \in Actors : Grows(a) /\ (scan'.running => scan'.records[a] \subseteq observed'[a])
<1>1. /\ DOMAIN folds = Actors /\ DOMAIN observed = Actors
      /\ scan = [running |-> scan.running, left |-> scan.left, loaded |-> scan.loaded, report |-> scan.report,
                 records |-> scan.records]
      /\ \A a \in Actors : /\ folds[a] \in Nat /\ folds[a] <= folds[a] /\ IsFiniteSet(observed[a])
                           /\ scan.running => scan.records[a] \subseteq observed[a]
  BY DEF AdvisoryInv, CountInv
<1> DEFINE Goal == /\ DOMAIN folds' = Actors /\ DOMAIN observed' = Actors
                   /\ \A a \in Actors : Grows(a) /\ (scan'.running => scan'.records[a] \subseteq observed'[a])
<1>2. CASE UNCHANGED <<folds, observed, scan, proposed, unreported>>
  BY <1>1, <1>2 DEF Grows
<1>3. ASSUME NEW readable, NEW queried, Adv!StartScan(readable, queried) PROVE Goal
  <2>1. /\ scan.report = {} /\ scan'.report = {} /\ UNCHANGED <<folds, observed, proposed, unreported>>
        /\ \A a \in Actors : scan'.records[a] \in {observed[a], {}}
    BY <1>3 DEF Adv!StartScan, Adv!NoScan, Adv!turnVars
  <2>2. QED
    BY <1>1, <2>1 DEF Grows
<1>4. ASSUME NEW c \in Actors, Adv!Skip(c) PROVE Goal
  <2>1. /\ scan'.report = scan.report /\ scan'.records = scan.records /\ scan'.running = scan.running
        /\ UNCHANGED <<folds, observed, proposed, unreported>>
    BY <1>1, <1>4 DEF Adv!Skip, Adv!turnVars
  <2>2. QED
    BY <1>1, <2>1 DEF Grows
<1>5. ASSUME NEW c \in Actors, NEW found, NEW whole, Adv!Analyse(c, found, whole) PROVE Goal
  <2>1. scan' = [scan EXCEPT !.left = @ \ {c}, !.report = @ \cup ({c} \X found)]
    BY <1>5 DEF Adv!Analyse
  <2>2. scan'.records = scan.records /\ scan'.running = scan.running /\ scan.report \subseteq scan'.report
    BY <1>1, <2>1
  <2>3. folds' = [folds EXCEPT ![c] = @ + 1] /\ UNCHANGED <<observed, proposed, unreported>>
    BY <1>5 DEF Adv!Analyse, Adv!turnVars
  <2>4. DOMAIN folds' = Actors /\ \A a \in Actors : folds'[a] \in Nat /\ folds[a] <= folds'[a]
    BY <1>1, <2>3
  <2>5. QED
    BY <1>1, <2>2, <2>3, <2>4 DEF Grows
<1>6. CASE Adv!EndScan
  <2>1. /\ proposed' = proposed \cup scan.report /\ ~scan'.running /\ UNCHANGED <<folds, observed, unreported>>
    BY <1>6 DEF Adv!EndScan, Adv!NoScan, Adv!turnVars
  <2>2. QED
    BY <1>1, <2>1 DEF Grows
<1>7. ASSUME NEW c \in Actors, Adv!LoadProfile(c) PROVE Goal
  <2>1. observed' = [observed EXCEPT ![c] = @ \cup {day}] /\ UNCHANGED <<folds, scan, proposed, unreported>>
    BY <1>7 DEF Adv!LoadProfile, Adv!daemonVars
  <2>2. DOMAIN observed' = Actors /\ \A a \in Actors : observed'[a] \in {observed[a], observed[a] \cup {day}}
    BY <1>1, <2>1
  <2>3. \A a \in Actors : IsFiniteSet(observed'[a]) /\ observed[a] \subseteq observed'[a]
    BY <1>1, <2>2, FS_AddElement
  <2>4. QED
    BY <1>1, <2>1, <2>2, <2>3 DEF Grows
<1>8. CASE Adv!Restart
  <2>1. /\ unreported' = unreported \cup {f[1] : f \in scan.report} /\ ~scan'.running /\ UNCHANGED <<folds, observed, proposed>>
    BY <1>8 DEF Adv!Restart, Adv!NoScan
  <2>2. ASSUME NEW a \in Actors, a \notin unreported', NEW b, <<a, b>> \in scan.report PROVE FALSE
    BY <2>1, <2>2
  <2>3. QED
    BY <1>1, <2>1, <2>2 DEF Grows
<1>9. QED
  BY <1>2, <1>3, <1>4, <1>5, <1>6, <1>7, <1>8
     DEF Adv!Next, Adv!Tick, Adv!SaveProfile, Adv!Build, Adv!Surface, Adv!turnVars, Adv!daemonVars, advisoryVars

(* What a profile that was loaded says of its advisories holds when it is   *)
(* saved with the findings of the scan: these come from a mature history.   *)
LEMMA FindingsAreSound ==
  ASSUME AdvisoryInv, NEW a \in Actors, NEW found, NEW whole, Adv!Analyse(a, found, whole)
  PROVE  LET p == Adv!Analysed(scan.loaded[a], found)
         IN /\ p.sample_count <= folds'[a] /\ (p.advisories # {} => Mature(a)') /\ Adv!Single(p.advisories)
            /\ (a \notin unreported' => \A v \in p.advisories : <<a, v.band>> \in proposed' \cup scan'.report)
<1> DEFINE old == scan.loaded[a]
           p == Adv!Analysed(old, found)
<1>1. /\ scan.running /\ Adv!Resampled(scan.records[a]) /\ found \in Adv!Findings(old)
      /\ scan' = [scan EXCEPT !.left = @ \ {a}, !.report = @ \cup ({a} \X found)]
      /\ folds' = [folds EXCEPT ![a] = @ + 1] /\ UNCHANGED <<observed, proposed, unreported>>
  BY DEF Adv!Analyse, Adv!turnVars
<1>2. /\ Counts(old) /\ Sound(a, old) /\ DOMAIN folds = Actors
      /\ folds[a] \in Nat /\ IsFiniteSet(observed[a]) /\ scan.records[a] \subseteq observed[a]
      /\ scan = [running |-> scan.running, left |-> scan.left, loaded |-> scan.loaded, report |-> scan.report,
                 records |-> scan.records]
  BY <1>1 DEF AdvisoryInv, CountInv, Copied
<1>3. MinSamples \in Nat /\ MinDays \in Nat
  BY AdvisoriesAssumption DEF Adv!AdvisoriesAssumption
<1>4. folds'[a] = folds[a] + 1 /\ scan'.report = scan.report \cup ({a} \X found)
  BY <1>1, <1>2
<1>5. p.sample_count = old.sample_count + 1 /\ p.advisories = Adv!Upsert(old.advisories, found)
  BY <1>2 DEF Adv!Analysed, Counts
<1>6. p.sample_count <= folds'[a]
  BY <1>2, <1>4, <1>5 DEF Counts, Sound
<1>7. Cardinality(observed[a]) >= MinDays /\ Cardinality(observed[a]) \in Nat
  <2>1. \E S \in SUBSET scan.records[a] : Adv!Cardinality(S) >= MinDays
    BY <1>1 DEF Adv!Resampled
  <2>2. PICK S \in SUBSET observed[a] : Cardinality(S) >= MinDays
    BY <1>2, <2>1, DaysCardinality
  <2>3. Cardinality(S) \in Nat /\ Cardinality(observed[a]) \in Nat /\ Cardinality(S) <= Cardinality(observed[a])
    BY <1>2, FS_Subset, FS_CardinalityType
  <2>4. QED
    BY <1>3, <2>2, <2>3
<1>8. CASE found = {}
  <2>1. p.advisories = old.advisories
    BY <1>5, <1>8 DEF Adv!Upsert
  <2>2. old.advisories # {} => folds[a] > MinSamples /\ Cardinality(observed[a]) >= MinDays
    BY <1>2 DEF Sound, Mature
  <2>3. p.advisories # {} => Mature(a)'
    BY <1>1, <1>2, <1>3, <1>4, <2>1, <2>2 DEF Mature
  <2>4. QED
    BY <1>1, <1>2, <1>4, <1>6, <2>1, <2>3 DEF Sound, Known
<1>9. CASE found # {}
  <2>1. p.advisories = {v \in Adv!Live(old.advisories) : v.band \notin found} \cup {[band |-> b, expires |-> day + Ttl] : b \in found}
    BY <1>5, <1>9 DEF Adv!Upsert
  <2>2. \A v \in p.advisories : \/ v \in old.advisories /\ v.band \notin found
                                \/ \E b \in found : v = [band |-> b, expires |-> day + Ttl] /\ v.band = b
    BY <2>1 DEF Adv!Live
  <2>3. ~(old.sample_count < MinSamples)
    BY <1>1, <1>9 DEF Adv!Findings
  <2>4. Mature(a)'
    BY <1>1, <1>2, <1>3, <1>4, <1>7, <2>3 DEF Mature, Counts, Sound
  <2>5. Adv!Single(p.advisories)
    <3> SUFFICES ASSUME NEW v \in p.advisories, NEW w \in p.advisories, v.band = w.band PROVE v = w
      BY DEF Adv!Single
    <3>1. CASE v.band \in found
      BY <2>2, <3>1
    <3>2. CASE v.band \notin found
      BY <1>2, <2>2, <3>2 DEF Sound, Adv!Single
    <3>3. QED
      BY <3>1, <3>2
  <2>6. ASSUME a \notin unreported', NEW v \in p.advisories PROVE <<a, v.band>> \in proposed' \cup scan'.report
    BY <1>1, <1>2, <1>4, <2>2, <2>6 DEF Sound, Known
  <2>7. QED
    BY <1>6, <2>4, <2>5, <2>6
<1>10. QED
  BY <1>8, <1>9

(* Every profile that is saved, or will be, is one that was, with a turn    *)
(* more, or with the findings of the scan.                                  *)
LEMMA CopiesAreSound ==
  ASSUME AdvisoryInv, Adv!Next \/ Adv!Restart \/ UNCHANGED advisoryVars, NEW a \in Actors, NEW p, Copied(a, p)'
  PROVE  Sound(a, p)'
<1>1. /\ DOMAIN rhythm = Actors /\ DOMAIN saving = Actors
      /\ scan = [running |-> scan.running, left |-> scan.left, loaded |-> scan.loaded, report |-> scan.report,
                 records |-> scan.records]
      /\ Grows(a) /\ folds[a] \in Nat
  BY HistoryGrows DEF AdvisoryInv, CountInv
<1>2. ASSUME NEW q, Copied(a, q), p.advisories = q.advisories, p.sample_count = q.sample_count
      PROVE  Sound(a, p)'
  <2>1. Sound(a, q)
    BY <1>2 DEF AdvisoryInv
  <2>2. q.sample_count \in Nat
    BY <1>2 DEF AdvisoryInv, CountInv, Copied, Counts
  <2>3. QED
    BY <1>1, <1>2, <2>1, <2>2, SoundLasts DEF Sound, Known, Grows
<1>3. CASE UNCHANGED <<rhythm, saving, scan>>
  BY <1>2, <1>3 DEF Copied
<1>4. ASSUME UNCHANGED <<rhythm, saving>>, scan'.running => scan'.loaded = (IF scan.running THEN scan.loaded ELSE rhythm)
      PROVE  Sound(a, p)'
  BY <1>2, <1>4 DEF Copied
<1>5. ASSUME NEW readable, NEW queried, Adv!StartScan(readable, queried) PROVE Sound(a, p)'
  <2>1. ~scan.running /\ scan'.loaded = rhythm /\ UNCHANGED <<rhythm, saving>>
    BY <1>5 DEF Adv!StartScan, Adv!NoScan, Adv!turnVars
  <2>2. QED
    BY <1>4, <2>1
<1>6. ASSUME NEW c, Adv!Skip(c) PROVE Sound(a, p)'
  <2>1. scan.running /\ scan'.loaded = scan.loaded /\ UNCHANGED <<rhythm, saving>>
    BY <1>1, <1>6 DEF Adv!Skip, Adv!turnVars
  <2>2. QED
    BY <1>4, <2>1
<1>7. ASSUME NEW c \in Actors, NEW found, NEW whole \in BOOLEAN, Adv!Analyse(c, found, whole) PROVE Sound(a, p)'
  <2> DEFINE new == Adv!Analysed(scan.loaded[c], found)
  <2>1. /\ scan.running /\ scan' = [scan EXCEPT !.left = @ \ {c}, !.report = @ \cup ({c} \X found)] /\ UNCHANGED saving
        /\ rhythm' = IF whole THEN [rhythm EXCEPT ![c] = new] ELSE rhythm
    BY <1>7 DEF Adv!Analyse, Adv!turnVars
  <2>2. scan'.loaded = scan.loaded /\ scan'.running
    BY <1>1, <2>1
  <2> HIDE DEF new
  <2>3. Copied(a, p) \/ (a = c /\ p = new)
    BY <1>1, <2>1, <2>2 DEF Copied
  <2>4. CASE a = c /\ p = new
    BY <1>7, <2>4, FindingsAreSound DEF new, Sound, Known
  <2>5. QED
    BY <1>2, <2>3, <2>4
<1>8. ASSUME NEW c \in Actors, Adv!LoadProfile(c) PROVE Sound(a, p)'
  <2>1. saving' = [saving EXCEPT ![c] = rhythm[c]] /\ UNCHANGED <<rhythm, scan>>
    BY <1>8 DEF Adv!LoadProfile, Adv!daemonVars
  <2>2. Copied(a, p)
    BY <1>1, <2>1 DEF Copied
  <2>3. QED
    BY <1>2, <2>2
<1>9. ASSUME NEW c \in Actors, NEW whole \in BOOLEAN, Adv!SaveProfile(c, whole) PROVE Sound(a, p)'
  <2> DEFINE new == [saving[c] EXCEPT !.turns = @ + 1]
  <2>1. /\ saving[c] # NoProfile /\ saving' = [saving EXCEPT ![c] = NoProfile] /\ UNCHANGED scan
        /\ rhythm' = IF whole THEN [rhythm EXCEPT ![c] = new] ELSE rhythm
    BY <1>9 DEF Adv!SaveProfile, Adv!daemonVars
  <2>2. new.advisories = saving[c].advisories /\ new.sample_count = saving[c].sample_count
    BY <2>1 DEF AdvisoryInv, CountInv, Counts
  <2> HIDE DEF new
  <2>3. Copied(a, p) \/ (a = c /\ p = new)
    BY <1>1, <2>1 DEF Copied
  <2>4. Copied(c, saving[c])
    BY <2>1 DEF Copied
  <2>5. QED
    BY <1>2, <2>2, <2>3, <2>4
<1>10. CASE Adv!EndScan \/ Adv!Restart
  <2>1. ~scan'.running /\ rhythm' = rhythm /\ saving'[a] \in {saving[a], NoProfile}
    BY <1>10 DEF Adv!EndScan, Adv!Restart, Adv!NoScan, Adv!turnVars
  <2>2. Copied(a, p)
    BY <2>1 DEF Copied
  <2>3. QED
    BY <1>2, <2>2
<1>11. QED
  BY <1>3, <1>5, <1>6, <1>7, <1>8, <1>9, <1>10
     DEF Adv!Next, Adv!Tick, Adv!Build, Adv!Surface, Adv!turnVars, Adv!daemonVars, advisoryVars

LEMMA ChatsStay ==
  ASSUME AdvisoryInv, Adv!Next \/ Adv!Restart \/ UNCHANGED advisoryVars
  PROVE  DOMAIN chat' = Actors /\ \A a \in Actors : chat'[a] # NoProfile => ChatInv(a)'
<1> DEFINE Goal == DOMAIN chat' = Actors /\ \A a \in Actors : chat'[a] # NoProfile => ChatInv(a)'
<1>1. DOMAIN chat = Actors /\ \A a \in Actors : chat[a] # NoProfile => ChatInv(a)
  BY DEF AdvisoryInv
<1>2. CASE UNCHANGED chat
  BY <1>1, <1>2 DEF ChatInv, Shown
<1>3. ASSUME NEW c \in Actors, DOMAIN chat' = Actors, \A a \in Actors \ {c} : chat'[a] = chat[a], ChatInv(c)' PROVE Goal
  <2>1. ASSUME NEW a \in Actors \ {c}, chat'[a] # NoProfile PROVE ChatInv(a)'
    <3>1. chat'[a] = chat[a] /\ ChatInv(a)
      BY <1>1, <1>3, <2>1
    <3>2. Shown(a)'
      BY <3>1 DEF ChatInv, Shown
    <3>3. QED
      BY <3>1, <3>2 DEF ChatInv
  <2>2. QED
    BY <1>3, <2>1
<1>4. ASSUME NEW c \in Actors, Adv!Build(c) PROVE Goal
  <2>1. chat' = [chat EXCEPT ![c] = [advisories |-> rhythm[c].advisories, surfaced |-> FALSE, shown |-> <<>>]]
    BY <1>4 DEF Adv!Build
  <2>2. chat'[c] = [advisories |-> rhythm[c].advisories, surfaced |-> FALSE, shown |-> <<>>]
        /\ DOMAIN chat' = Actors /\ \A a \in Actors \ {c} : chat'[a] = chat[a]
    BY <1>1, <2>1
  <2>3. Adv!Single(rhythm[c].advisories)
    BY DEF AdvisoryInv, Copied, Sound
  <2>4. ChatInv(c)'
    BY <2>2, <2>3 DEF ChatInv, Shown
  <2>5. QED
    BY <1>3, <2>2, <2>4
<1>5. ASSUME NEW c \in Actors, Adv!Surface(c) PROVE Goal
  <2> DEFINE band == Adv!Pull(chat[c].advisories)
             kept0 == Adv!Live(chat[c].advisories)
             entry0 == [band |-> band, on |-> day]
             shows == IF band = 0 THEN chat[c].shown ELSE Append(chat[c].shown, entry0)
             tells == band # 0
  <2>1. chat[c] # NoProfile /\ ~chat[c].surfaced
        /\ chat' = [chat EXCEPT ![c].advisories = kept0, ![c].surfaced = tells, ![c].shown = shows]
    BY <1>5 DEF Adv!Surface
  <2>2. ChatInv(c) /\ chat[c].shown = << >>
    BY <1>1, <2>1 DEF ChatInv
  <2>3. chat[c] = [advisories |-> chat[c].advisories, surfaced |-> chat[c].surfaced, shown |-> chat[c].shown]
        /\ Adv!Single(chat[c].advisories)
    BY <2>2 DEF ChatInv
  <2>4. kept0 = {v \in chat[c].advisories : v.expires > day}
    BY DEF Adv!Live
  <2>5. entry0.band = band /\ entry0.on = day
    OBVIOUS
  <2>6. band # 0 => kept0 # {} /\ band = Adv!Min({v.band : v \in kept0})
    BY DEF Adv!Pull
  <2> HIDE DEF band, kept0, entry0
  <2>7. \/ band = 0 /\ shows = << >>
        \/ band # 0 /\ shows = <<entry0>>
    BY <2>2
  <2> HIDE DEF shows, tells
  <2>8. /\ chat'[c] = [advisories |-> kept0, surfaced |-> tells, shown |-> shows]
        /\ DOMAIN chat' = Actors /\ \A a \in Actors \ {c} : chat'[a] = chat[a]
    BY <1>1, <2>1, <2>3
  <2>9. chat'[c].advisories = kept0 /\ chat'[c].surfaced = tells /\ chat'[c].shown = shows
    BY <2>8
  <2>10. Adv!Single(kept0)
    BY <2>3, <2>4 DEF Adv!Single
  <2>11. \A v \in kept0 : v.expires > day
    BY <2>4
  <2>12. {v \in kept0 : v.expires > day} = kept0
    BY <2>11
  <2>13. ASSUME band # 0 PROVE Shown(c)'
    <3>1. DOMAIN shows = {1} /\ shows[1] = entry0
      BY <2>7, <2>13
    <3>2. QED
      BY <2>5, <2>6, <2>9, <2>12, <2>13, <3>1 DEF Shown
  <2>14. ASSUME band = 0 PROVE Shown(c)'
    BY <2>7, <2>9, <2>14 DEF Shown
  <2>15. Len(shows) <= 1 /\ (~tells => shows = << >>)
    <3>1. Len(<< >>) <= 1 /\ \A x : Len(<<x>>) <= 1
      OBVIOUS
    <3>2. QED
      BY <2>7, <3>1, Zenon DEF tells
  <2>16. ChatInv(c)'
    BY <2>8, <2>9, <2>10, <2>13, <2>14, <2>15 DEF ChatInv
  <2>17. QED
    BY <1>3, <2>8, <2>16
<1>6. CASE Adv!Restart
  BY <1>6 DEF Adv!Restart
<1>7. QED
  BY <1>2, <1>4, <1>5, <1>6
     DEF Adv!Next, Adv!Tick, Adv!EndScan, Adv!StartScan, Adv!Skip, Adv!Analyse, Adv!LoadProfile, Adv!SaveProfile,
         Adv!turnVars, Adv!daemonVars, advisoryVars

LEMMA AdvisoriesStay == AdvisoryInv /\ [Next]_vars => AdvisoryInv'
<1> SUFFICES ASSUME AdvisoryInv, [Next]_vars PROVE AdvisoryInv'
  OBVIOUS
<1>1. Adv!Next \/ Adv!Restart \/ UNCHANGED advisoryVars
  BY AdvisorySteps
<1>2. CountInv'
  BY CountsAreKept DEF AdvisoryInv
<1>3. \A a \in Actors : \A p : Copied(a, p)' => Sound(a, p)'
  BY <1>1, CopiesAreSound
<1>4. /\ DOMAIN folds' = Actors /\ DOMAIN observed' = Actors
      /\ \A a \in Actors : folds'[a] \in Nat /\ IsFiniteSet(observed'[a]) /\ (scan'.running => scan'.records[a] \subseteq observed'[a])
  BY <1>1, HistoryGrows DEF Grows
<1>5. DOMAIN chat' = Actors /\ \A a \in Actors : chat'[a] # NoProfile => ChatInv(a)'
  BY <1>1, ChatsStay
<1>6. QED
  BY <1>2, <1>3, <1>4, <1>5 DEF AdvisoryInv

LEMMA AdvisoriesAreKept ==
  AdvisoryInv => Adv!OnePerBand /\ Adv!AdvisoryIsEarned /\ Adv!AdvisoryIsProposed /\ Adv!ShownOnceWhileLive
<1> SUFFICES ASSUME AdvisoryInv
             PROVE  Adv!OnePerBand /\ Adv!AdvisoryIsEarned /\ Adv!AdvisoryIsProposed /\ Adv!ShownOnceWhileLive
  OBVIOUS
<1>1. \A a \in Actors : Sound(a, rhythm[a]) /\ (chat[a] # NoProfile => ChatInv(a))
  BY DEF AdvisoryInv, Copied
<1>2. Adv!OnePerBand
  BY <1>1 DEF Adv!OnePerBand, Sound, ChatInv
<1>3. Adv!AdvisoryIsEarned
  BY <1>1, DaysCardinality DEF Adv!AdvisoryIsEarned, Sound, Mature
<1>4. Adv!AdvisoryIsProposed
  BY <1>1 DEF Adv!AdvisoryIsProposed, Sound, Known
<1>5. Adv!ShownOnceWhileLive
  BY <1>1 DEF Adv!ShownOnceWhileLive, ChatInv, Shown
<1>6. QED
  BY <1>2, <1>3, <1>4, <1>5

-----------------------------------------------------------------------------
(* What is gained is kept.                                                 *)

KeepingInv == PlanInv /\ OrderInv /\ TierInv /\ ChartInv /\ CountInv

LEMMA KeepingInvariant == Spec => []KeepingInv
<1>1. Init => KeepingInv
  BY PlanInit, OrderInit, LearningInit, ChartInit, CountInit DEF Init, KeepingInv
<1>2. KeepingInv /\ [Next]_vars => KeepingInv'
  BY PlanStays, OrdersStay, TiersStay, ChartsStay, CountsAreKept DEF KeepingInv
<1>3. QED
  BY <1>1, <1>2, PTL DEF Spec

(* A lone violation escalates in the turn that exceeds its order's maximum. *)
LEMMA LoneViolationEscalates == OrderInv /\ [Next]_vars => Ord!EscalatesLoneViolation
<1> SUFFICES ASSUME OrderInv, [Next]_vars, NEW o \in physics.bounded \cap physics.escalation_on_exhaust,
                    resolving.busy, Ord!Alone(o), alone'[o] > Ord!Limit(o)
             PROVE  resolving.escalate
  BY DEF Ord!EscalatesLoneViolation
<1>1. o \in Orders /\ alone[o] \in Nat /\ Ord!Limit(o) \in Nat
  BY OrderTypes DEF OrderInv
<1>2. alone[o] >= Ord!Limit(o) => resolving.escalate
  BY DEF OrderInv
<1>3. CASE UNCHANGED alone
  BY <1>1, <1>2, <1>3
<1>4. CASE Ord!answer_turn
  BY <1>1, <1>2, <1>4, OrderTypes DEF OrderInv, Ord!answer_turn, Ord!Up
<1>5. QED
  BY <1>3, <1>4, OrderSteps DEF Ord!Next, Ord!process_turn, Ord!TurnFails, Ord!Restart, orderVars

(* A checkpoint is replaced by the context of the turn that started from it.*)
LEMMA ProgressIsKept == PlanInv /\ [Next]_vars => Plan!KeepsProgress
<1> SUFFICES ASSUME PlanInv, [Next]_vars, ~bypassed' PROVE checkpoint.completed \subseteq checkpoint'.completed
  BY DEF Plan!KeepsProgress
<1>1. CASE UNCHANGED checkpoint
  BY <1>1
<1>2. CASE Plan!SaveState
  BY <1>2 DEF PlanInv, Plan!SaveState
<1>3. QED
  BY <1>1, <1>2, PlanSteps DEF planVars, Plan!vars, Plan!Next, Plan!Restart, Plan!StartPlan, Plan!ExecuteSlice,
     Plan!HaltLoop, Plan!DispatchSlice, Plan!CutShort

(* No step, no failed turn and no restart takes back what was gained: an    *)
(* order's violation escalates once it is exhausted, what a plan completed  *)
(* stays so, a tier does not fall, a revoked person has to accept anew, and *)
(* what a profile counts does not become fewer.                             *)
THEOREM ExhaustedEscalates == Spec => ExhaustionEscalates
<1>1. KeepingInv /\ [Next]_vars =>
        /\ Ord!EscalatesLoneViolation /\ Plan!KeepsProgress
        /\ Learn!KeepsTier /\ Jour!KeepsRevocation /\ Adv!KeepsCounts
  BY LoneViolationEscalates, ProgressIsKept, TierIsKept, RevocationIsKept, CountsAreKept DEF KeepingInv
<1>2. QED
  BY <1>1, KeepingInvariant, PTL DEF Spec, ExhaustionEscalates

-----------------------------------------------------------------------------
(* The profiles of the people.                                             *)
(*                                                                         *)
(* A step is a save (or skips one), or leaves the profiles alone: Effect   *)
(* and Quiet say what becomes of the operations and the profiles. Between  *)
(* its two saves an operation is the reason why two profiles disagree, and *)
(* the invariants name it: Adds, Guards, Joins, Tells. No other operation  *)
(* has both people meanwhile, or they would be spoilt (OverlapsSpoil).     *)

Adding == {"assign_student", "request_teacher_assignment"}
Rostering == Adding \cup {"remove_student"}

(* The roles an operation has, and the steps it can be at.                  *)
Roles(q) ==
  /\ q.op \in Rostering => /\ q.s \in Students /\ q.t \in Teachers /\ q.at \in 1..7
                           /\ q.at < 6 => q.tell = {}
                           /\ q.at = 6 => q.tell # {}
                           /\ IF q.at = 7 THEN q.a \in Assistants ELSE q.a = NoOne
  /\ q.op \in {"assign_ta", "request_by_assistant"} =>
       q.s \in Students /\ q.a \in Assistants /\ q.at \in 1..2 /\ q.tell = {}
  /\ q.op = "assign_supervised" =>
       q.s \in Students /\ q.t \in Teachers /\ q.a \in Assistants /\ q.at \in 1..6 /\ q.tell = {}
  /\ q.op = "assign_alone" => q.s \in Students /\ q.a \in Assistants /\ q.at = 1 /\ q.tell = {}
  /\ q.op = "request_alone" => q.s \in Students /\ q.a \in Assistants /\ q.at \in 1..3 /\ q.tell = {}
  /\ q.op = "request_ta_assignment" => q.t \in Teachers /\ q.a \in Assistants /\ q.at \in 1..4 /\ q.tell = {}
  /\ q.op = "assign_guardian" => q.s \in Students /\ q.g \in Guardians /\ q.at \in 1..4 /\ q.tell = {}
  /\ q.op \in {"switch_active_module", "turn"} => q.s \in Prof!People /\ q.at \in 1..2 /\ q.tell = {}

RolesInv ==
  /\ profile \in [Prof!People -> Prof!Profile] /\ row \in [Prof!People -> Prof!Profile]
  /\ req \in [Operations -> Prof!Operation]
  /\ \A r \in Operations : Roles(req[r]) /\ (req[r].op = "assign_supervised" => req[r].t \in uncascaded)
  /\ Prof!Overlap \subseteq spoilt

Adds(r, s, t) == req[r].op \in Adding /\ req[r].s = s /\ req[r].t = t /\ req[r].at \in {3, 4}
Guards(r, s, g) == req[r].op = "assign_guardian" /\ req[r].s = s /\ req[r].g = g /\ req[r].at \in {3, 4}

PairInv ==
  /\ \A s \in Students, t \in Teachers :
       s \notin spoilt /\ t \notin spoilt /\ profile[s].teacher = t =>
         s \in profile[t].students \/ \E r \in Operations : Adds(r, s, t)
  /\ \A r \in Operations :
       LET q == req[r] IN
       /\ q.op = "remove_student" /\ q.at >= 3 => profile[q.s].teacher # q.t \/ q.s \in spoilt \/ q.t \in spoilt
       /\ q.op = "assign_supervised" /\ q.at >= 3 => q.s \in profile[q.t].students \/ q.s \in spoilt \/ q.t \in spoilt

GuardInv ==
  /\ \A s \in Students, g \in Guardians :
       s \notin spoilt /\ g \notin spoilt =>
         (g \in profile[s].guardians <=> s \in profile[g].children) \/ \E r \in Operations : Guards(r, s, g)
  /\ \A r \in Operations :
       LET q == req[r] IN
       q.op = "assign_guardian" /\ q.at >= 3 => q.g \in profile[q.s].guardians \/ q.s \in spoilt

Free(a, t) ==
  /\ a \notin spoilt /\ Teachers \cap spoilt = {} /\ t \notin uncascaded
  /\ \A u \in Teachers \ {t} : a \notin profile[u].tas

Joins(r, a, t) == req[r].op = "request_ta_assignment" /\ req[r].a = a /\ req[r].t = t /\ req[r].at = 4
Tells(r, a, t, s) ==
  /\ req[r].op \in Adding /\ req[r].s = s /\ req[r].t = t
  /\ \/ req[r].at = 5 /\ a \in profile[t].tas
     \/ req[r].at \in 6..7 /\ a \in req[r].tell
     \/ req[r].at = 7 /\ a = req[r].a

AssistInv ==
  /\ \A r \in Operations :
       LET q == req[r] IN
       /\ q.op \in Rostering /\ q.at >= 6 /\ q.t \notin spoilt => q.tell \subseteq profile[q.t].tas
       /\ q.op \in Rostering /\ q.at = 7 /\ q.t \notin spoilt => q.a \in profile[q.t].tas
       /\ q.op = "remove_student" /\ q.at >= 5 /\ q.t \notin spoilt => q.s \notin profile[q.t].students
  /\ \A a \in Assistants, t \in Teachers :
       Free(a, t) /\ profile[a].supervisor = t =>
         /\ a \in profile[t].tas \/ \E r \in Operations : Joins(r, a, t)
         /\ \A r \in Operations : Joins(r, a, t) /\ a \notin profile[t].tas => req[r].held[t].students \subseteq profile[a].students
         /\ \A s \in profile[t].students :
              \/ s \in profile[a].students
              \/ \E r \in Operations : Tells(r, a, t, s) \/ (Joins(r, a, t) /\ s \notin req[r].held[t].students)

LEMMA AddingProgram ==
  ASSUME NEW op, op \in Adding
  PROVE  /\ Len(Prof!Program(op)) = 7
         /\ Prof!Program(op)[1] = Prof!Load("s") /\ Prof!Program(op)[2] = Prof!Save("s", "teacher")
         /\ Prof!Program(op)[3] = Prof!Load("t") /\ Prof!Program(op)[4] = Prof!Save("t", "add_student")
         /\ Prof!Program(op)[5] = Prof!Do("cascade", "t") /\ Prof!Program(op)[6] = Prof!Do("tell", "a")
         /\ Prof!Program(op)[7] = Prof!Save("a", "add_student")
<1> DEFINE p == Prof!Program(op)
<1>1. p = <<Prof!Load("s"), Prof!Save("s", "teacher"), Prof!Load("t"), Prof!Save("t", "add_student"),
             Prof!Do("cascade", "t"), Prof!Do("tell", "a"), Prof!Save("a", "add_student")>>
  BY DEF Prof!Program, Adding
<1> HIDE DEF p
<1>2. p[1] = Prof!Load("s")
  BY <1>1
<1>3. p[2] = Prof!Save("s", "teacher")
  BY <1>1
<1>4. p[3] = Prof!Load("t")
  BY <1>1
<1>5. p[4] = Prof!Save("t", "add_student")
  BY <1>1
<1>6. p[5] = Prof!Do("cascade", "t")
  BY <1>1
<1>7. p[6] = Prof!Do("tell", "a")
  BY <1>1
<1>8. p[7] = Prof!Save("a", "add_student")
  BY <1>1
<1>9. Len(p) = 7
  BY <1>1
<1>10. QED
  BY <1>2, <1>3, <1>4, <1>5, <1>6, <1>7, <1>8, <1>9 DEF p

LEMMA RemovalProgram ==
  ASSUME NEW op, op = "remove_student"
  PROVE  /\ Len(Prof!Program(op)) = 7
         /\ Prof!Program(op)[1] = Prof!Load("s") /\ Prof!Program(op)[2] = Prof!Save("s", "no_teacher")
         /\ Prof!Program(op)[3] = Prof!Load("t") /\ Prof!Program(op)[4] = Prof!Save("t", "drop_student")
         /\ Prof!Program(op)[5] = Prof!Do("cascade", "t") /\ Prof!Program(op)[6] = Prof!Do("tell", "a")
         /\ Prof!Program(op)[7] = Prof!Save("a", "drop_student")
<1> DEFINE p == Prof!Program(op)
<1>1. p = <<Prof!Load("s"), Prof!Save("s", "no_teacher"), Prof!Load("t"),
             Prof!Save("t", "drop_student"), Prof!Do("cascade", "t"), Prof!Do("tell", "a"),
             Prof!Save("a", "drop_student")>>
  BY DEF Prof!Program
<1> HIDE DEF p
<1>2. p[1] = Prof!Load("s")
  BY <1>1
<1>3. p[2] = Prof!Save("s", "no_teacher")
  BY <1>1
<1>4. p[3] = Prof!Load("t")
  BY <1>1
<1>5. p[4] = Prof!Save("t", "drop_student")
  BY <1>1
<1>6. p[5] = Prof!Do("cascade", "t")
  BY <1>1
<1>7. p[6] = Prof!Do("tell", "a")
  BY <1>1
<1>8. p[7] = Prof!Save("a", "drop_student")
  BY <1>1
<1>9. Len(p) = 7
  BY <1>1
<1>10. QED
  BY <1>2, <1>3, <1>4, <1>5, <1>6, <1>7, <1>8, <1>9 DEF p

LEMMA LookupProgram ==
  ASSUME NEW op, op \in {"assign_ta", "request_by_assistant"}
  PROVE  /\ Len(Prof!Program(op)) = 2
         /\ Prof!Program(op)[1] = Prof!Load("a") /\ Prof!Program(op)[2] = Prof!Do("supervisor", "a")
<1> DEFINE p == Prof!Program(op)
<1>1. p = <<Prof!Load("a"), Prof!Do("supervisor", "a")>>
  BY DEF Prof!Program
<1> HIDE DEF p
<1>2. p[1] = Prof!Load("a")
  BY <1>1
<1>3. p[2] = Prof!Do("supervisor", "a")
  BY <1>1
<1>4. Len(p) = 2
  BY <1>1
<1>5. QED
  BY <1>2, <1>3, <1>4 DEF p

LEMMA SupervisedProgram ==
  ASSUME NEW op, op = "assign_supervised"
  PROVE  /\ Len(Prof!Program(op)) = 6
         /\ Prof!Program(op)[1] = Prof!Load("t") /\ Prof!Program(op)[2] = Prof!Save("t", "add_student")
         /\ Prof!Program(op)[3] = Prof!Load("s") /\ Prof!Program(op)[4] = Prof!Save("s", "teacher")
         /\ Prof!Program(op)[5] = Prof!Save("t", "role") /\ Prof!Program(op)[6] = Prof!Save("a", "add_student")
<1> DEFINE p == Prof!Program(op)
<1>1. p = <<Prof!Load("t"), Prof!Save("t", "add_student"), Prof!Load("s"), Prof!Save("s", "teacher"),
             Prof!Save("t", "role"), Prof!Save("a", "add_student")>>
  BY DEF Prof!Program
<1> HIDE DEF p
<1>2. p[1] = Prof!Load("t")
  BY <1>1
<1>3. p[2] = Prof!Save("t", "add_student")
  BY <1>1
<1>4. p[3] = Prof!Load("s")
  BY <1>1
<1>5. p[4] = Prof!Save("s", "teacher")
  BY <1>1
<1>6. p[5] = Prof!Save("t", "role")
  BY <1>1
<1>7. p[6] = Prof!Save("a", "add_student")
  BY <1>1
<1>8. Len(p) = 6
  BY <1>1
<1>9. QED
  BY <1>2, <1>3, <1>4, <1>5, <1>6, <1>7, <1>8 DEF p

LEMMA AloneProgram ==
  ASSUME NEW op, op = "assign_alone"
  PROVE  /\ Len(Prof!Program(op)) = 1
         /\ Prof!Program(op)[1] = Prof!Save("a", "add_student")
<1> DEFINE p == Prof!Program(op)
<1>1. p = <<Prof!Save("a", "add_student")>>
  BY DEF Prof!Program
<1> HIDE DEF p
<1>2. p[1] = Prof!Save("a", "add_student")
  BY <1>1
<1>3. Len(p) = 1
  BY <1>1
<1>4. QED
  BY <1>2, <1>3 DEF p

LEMMA RequestAloneProgram ==
  ASSUME NEW op, op = "request_alone"
  PROVE  /\ Len(Prof!Program(op)) = 3
         /\ Prof!Program(op)[1] = Prof!Save("a", "add_student") /\ Prof!Program(op)[2] = Prof!Load("s")
         /\ Prof!Program(op)[3] = Prof!Save("s", "other_fields")
<1> DEFINE p == Prof!Program(op)
<1>1. p = <<Prof!Save("a", "add_student"), Prof!Load("s"), Prof!Save("s", "other_fields")>>
  BY DEF Prof!Program
<1> HIDE DEF p
<1>2. p[1] = Prof!Save("a", "add_student")
  BY <1>1
<1>3. p[2] = Prof!Load("s")
  BY <1>1
<1>4. p[3] = Prof!Save("s", "other_fields")
  BY <1>1
<1>5. Len(p) = 3
  BY <1>1
<1>6. QED
  BY <1>2, <1>3, <1>4, <1>5 DEF p

LEMMA JoinProgram ==
  ASSUME NEW op, op = "request_ta_assignment"
  PROVE  /\ Len(Prof!Program(op)) = 4
         /\ Prof!Program(op)[1] = Prof!Load("a") /\ Prof!Program(op)[2] = Prof!Load("t")
         /\ Prof!Program(op)[3] = Prof!Save("a", "supervised") /\ Prof!Program(op)[4] = Prof!Save("t", "add_ta")
<1> DEFINE p == Prof!Program(op)
<1>1. p = <<Prof!Load("a"), Prof!Load("t"), Prof!Save("a", "supervised"), Prof!Save("t", "add_ta")>>
  BY DEF Prof!Program
<1> HIDE DEF p
<1>2. p[1] = Prof!Load("a")
  BY <1>1
<1>3. p[2] = Prof!Load("t")
  BY <1>1
<1>4. p[3] = Prof!Save("a", "supervised")
  BY <1>1
<1>5. p[4] = Prof!Save("t", "add_ta")
  BY <1>1
<1>6. Len(p) = 4
  BY <1>1
<1>7. QED
  BY <1>2, <1>3, <1>4, <1>5, <1>6 DEF p

LEMMA GuardianProgram ==
  ASSUME NEW op, op = "assign_guardian"
  PROVE  /\ Len(Prof!Program(op)) = 4
         /\ Prof!Program(op)[1] = Prof!Load("s") /\ Prof!Program(op)[2] = Prof!Save("s", "add_guardian")
         /\ Prof!Program(op)[3] = Prof!Load("g") /\ Prof!Program(op)[4] = Prof!Save("g", "add_child")
<1> DEFINE p == Prof!Program(op)
<1>1. p = <<Prof!Load("s"), Prof!Save("s", "add_guardian"), Prof!Load("g"), Prof!Save("g", "add_child")>>
  BY DEF Prof!Program
<1> HIDE DEF p
<1>2. p[1] = Prof!Load("s")
  BY <1>1
<1>3. p[2] = Prof!Save("s", "add_guardian")
  BY <1>1
<1>4. p[3] = Prof!Load("g")
  BY <1>1
<1>5. p[4] = Prof!Save("g", "add_child")
  BY <1>1
<1>6. Len(p) = 4
  BY <1>1
<1>7. QED
  BY <1>2, <1>3, <1>4, <1>5, <1>6 DEF p

LEMMA OtherProgram ==
  ASSUME NEW op, op \in {"switch_active_module", "turn"}
  PROVE  /\ Len(Prof!Program(op)) = 2
         /\ Prof!Program(op)[1] = Prof!Load("s") /\ Prof!Program(op)[2] = Prof!Save("s", "other_fields")
<1> DEFINE p == Prof!Program(op)
<1>1. p = <<Prof!Load("s"), Prof!Save("s", "other_fields")>>
  BY DEF Prof!Program
<1> HIDE DEF p
<1>2. p[1] = Prof!Load("s")
  BY <1>1
<1>3. p[2] = Prof!Save("s", "other_fields")
  BY <1>1
<1>4. Len(p) = 2
  BY <1>1
<1>5. QED
  BY <1>2, <1>3, <1>4 DEF p

(* What an operation becomes as it takes a step and goes on.                *)
Same(q, new) == new.op = q.op /\ new.s = q.s /\ new.t = q.t /\ new.g = q.g
GoesOn(q, new) ==
  \/ /\ new.op = "none"
     /\ q.op \in Rostering => q.at = 7 /\ q.tell = {}
     /\ q.op \in {"request_ta_assignment", "assign_guardian"} => q.at = 4
  \/ /\ Same(q, new) /\ new.a = q.a /\ new.tell = q.tell
     /\ new.at = q.at + 1
  \/ /\ Same(q, new) /\ new.tell = q.tell
     /\ q.op \in Rostering /\ q.at = 7 /\ new.at = 6 /\ q.tell # {}

LEMMA StepFields ==
  /\ \A role : Prof!Load(role).do = "load" /\ Prof!Load(role).role = role
  /\ \A role, change : Prof!Save(role, change).do = "save" /\ Prof!Save(role, change).role = role /\ Prof!Save(role, change).change = change
  /\ \A what, role : Prof!Do(what, role).do = what /\ Prof!Do(what, role).role = role
BY DEF Prof!Load, Prof!Save, Prof!Do

LEMMA IdleIsTyped == Prof!Idle \in Prof!Operation /\ Roles(Prof!Idle) /\ Prof!Idle.op = "none"
<1>1. Prof!Empty \in Prof!Profile
  BY DEF Prof!Empty, Prof!Profile
<1>2. Prof!Nothing \in [Prof!People -> Prof!Profile]
  BY <1>1 DEF Prof!Nothing
<1> DEFINE h == Prof!Nothing
<1>3. h \in [Prof!People -> Prof!Profile]
  BY <1>2
<1>4. Prof!Idle = Prof!Begin("none", NoOne, NoOne, NoOne, NoOne, h)
  BY DEF Prof!Idle
<1> HIDE DEF h
<1>5. QED
  BY <1>3, <1>4 DEF Prof!Begin, Prof!Operation, Roles, Rostering, Adding

(* The last step of each operation.                                         *)
LastStep(op) ==
  CASE op \in Rostering -> 7 [] op = "assign_supervised" -> 6
    [] op \in {"request_ta_assignment", "assign_guardian"} -> 4 [] op = "request_alone" -> 3
    [] op \in {"assign_ta", "request_by_assistant", "switch_active_module", "turn"} -> 2
    [] op = "assign_alone" -> 1

LEMMA LastIsLast == ASSUME NEW op \in Prof!Kinds PROVE Len(Prof!Program(op)) = LastStep(op)
<1>1. CASE op \in Adding
  <2>1. Len(Prof!Program(op)) = 7
    BY <1>1, AddingProgram
  <2>2. LastStep(op) = 7
    BY <1>1 DEF LastStep, Rostering, Adding
  <2>3. QED
    BY <2>1, <2>2
<1>2. CASE op = "remove_student"
  BY <1>2, RemovalProgram DEF LastStep, Rostering
<1>3. CASE op \in {"assign_ta", "request_by_assistant"}
  BY <1>3, LookupProgram DEF LastStep, Rostering, Adding
<1>4. CASE op = "assign_supervised"
  BY <1>4, SupervisedProgram DEF LastStep, Rostering, Adding
<1>5. CASE op = "assign_alone"
  BY <1>5, AloneProgram DEF LastStep, Rostering, Adding
<1>6. CASE op = "request_alone"
  BY <1>6, RequestAloneProgram DEF LastStep, Rostering, Adding
<1>7. CASE op = "request_ta_assignment"
  BY <1>7, JoinProgram DEF LastStep, Rostering, Adding
<1>8. CASE op = "assign_guardian"
  BY <1>8, GuardianProgram DEF LastStep, Rostering, Adding
<1>9. CASE op \in {"switch_active_module", "turn"}
  BY <1>9, OtherProgram DEF LastStep, Rostering, Adding
<1>10. QED
  BY <1>1, <1>2, <1>3, <1>4, <1>5, <1>6, <1>7, <1>8, <1>9 DEF Prof!Kinds, Adding

LEMMA OnlyRosteringTells ==
  ASSUME NEW q \in Prof!Operation, Roles(q), q.op # "none", q.tell # {}
  PROVE  q.op \in Rostering /\ q.at \in 6..7
BY DEF Roles, Prof!Operation, Prof!Kinds, Rostering, Adding

Branching(q) ==
  (q.op \in Rostering /\ q.at \in {5, 6}) \/ (q.op \in {"assign_ta", "request_by_assistant"} /\ q.at = 2)

(* Steps other than the cascade, a telling and a lookup lead to the next    *)
(* step, from the last one to the next assistant, or to the end.            *)
LEMMA Onward ==
  ASSUME NEW q \in Prof!Operation, Roles(q), q.op # "none",
         ~Branching(q)
  PROVE  /\ Prof!After(q) \in Prof!Operation /\ Roles(Prof!After(q)) /\ GoesOn(q, Prof!After(q))
         /\ Prof!After(q).op # "none" => Prof!After(q).held = q.held
<1>1. q.op \in Prof!Kinds /\ q.at \in Nat
  BY DEF Prof!Operation
<1>2. Len(Prof!Program(q.op)) = LastStep(q.op)
  BY <1>1, LastIsLast
<1>3. q.at <= LastStep(q.op)
  BY <1>1 DEF Roles, LastStep, Prof!Kinds, Rostering, Adding
<1>4. CASE q.at < LastStep(q.op)
  <2>1. Prof!After(q) = [q EXCEPT !.at = @ + 1]
    BY <1>2, <1>4 DEF Prof!After
  <2> DEFINE new == Prof!After(q)
  <2>2. /\ new \in Prof!Operation /\ Same(q, new) /\ new.a = q.a /\ new.tell = q.tell /\ new.at = q.at + 1 /\ new.held = q.held
    BY <2>1 DEF Prof!Operation, Same
  <2> HIDE DEF new
  <2>3. Roles(new)
    BY <1>1, <1>4, <2>2 DEF Branching, Roles, Same, LastStep, Prof!Kinds, Rostering, Adding
  <2>4. GoesOn(q, new)
    BY <2>2 DEF GoesOn
  <2>5. QED
    BY <2>2, <2>3, <2>4 DEF new
<1>5. CASE q.at = LastStep(q.op) /\ q.tell # {}
  <2>10. q.op \in Rostering
    BY <1>5, OnlyRosteringTells
  <2>1. q.op \in Rostering /\ q.at = 7
    BY <1>5, <2>10 DEF LastStep, Rostering, Adding
  <2>2. ~(q.at < Len(Prof!Program(q.op)))
    BY <1>1, <1>2, <1>5, <2>1
  <2> DEFINE back == [q EXCEPT !.at = @ - 1]   new == Prof!After(q)
  <2>7. new = [back EXCEPT !.a = NoOne]
    BY <1>5, <2>2 DEF Prof!After
  <2>8. back \in Prof!Operation /\ Same(q, back) /\ back.tell = q.tell /\ back.at = 6 /\ back.held = q.held
    BY <2>1 DEF Prof!Operation, Same
  <2> HIDE DEF back, new
  <2>3. /\ new \in Prof!Operation /\ Same(q, new) /\ new.a = NoOne /\ new.tell = q.tell /\ new.at = 6 /\ new.held = q.held
    BY <2>7, <2>8 DEF Prof!Operation, Same
  <2>4. Roles(new)
    BY <1>5, <2>1, <2>3 DEF Roles, Same, Rostering, Adding
  <2>5. GoesOn(q, new)
    BY <1>5, <2>1, <2>3 DEF GoesOn
  <2>6. QED
    BY <2>3, <2>4, <2>5 DEF new
<1>6. CASE q.at = LastStep(q.op) /\ q.tell = {}
  <2>1. Prof!After(q) = Prof!Idle
    BY <1>1, <1>2, <1>6 DEF Prof!After
  <2>2. q.op \in Rostering => q.at = 7
    BY <1>6 DEF LastStep, Rostering, Adding
  <2>3. q.op \in {"request_ta_assignment", "assign_guardian"} => q.at = 4
    BY <1>6 DEF LastStep, Rostering, Adding
  <2>4. QED
    BY <1>6, <2>1, <2>2, <2>3, IdleIsTyped DEF GoesOn
<1>7. QED
  BY <1>1, <1>3, <1>4, <1>5, <1>6 DEF LastStep, Prof!Kinds, Rostering, Adding

(* What each of the steps does.                                             *)
LEMMA StepKinds ==
  /\ Prof!Load("s").do = "load" /\ Prof!Save("s", "teacher").do = "save" /\ Prof!Load("t").do = "load"
  /\ Prof!Save("t", "add_student").do = "save" /\ Prof!Do("cascade", "t").do = "cascade"
  /\ Prof!Do("tell", "a").do = "tell" /\ Prof!Save("a", "add_student").do = "save"
  /\ Prof!Save("s", "no_teacher").do = "save" /\ Prof!Save("t", "drop_student").do = "save"
  /\ Prof!Save("a", "drop_student").do = "save" /\ Prof!Load("a").do = "load"
  /\ Prof!Do("supervisor", "a").do = "supervisor" /\ Prof!Save("t", "role").do = "save"
  /\ Prof!Save("s", "other_fields").do = "save" /\ Prof!Save("a", "supervised").do = "save"
  /\ Prof!Save("t", "add_ta").do = "save" /\ Prof!Save("s", "add_guardian").do = "save" /\ Prof!Load("g").do = "load"
  /\ Prof!Save("g", "add_child").do = "save"
BY DEF Prof!Load, Prof!Save, Prof!Do

(* Which profile a save changes, and how.                                   *)
Saves(r, ops, n, who, change) ==
  req[r].op \in ops /\ req[r].at = n /\ Prof!Who(r) = who /\ Prof!Change(r) = change

LEMMA SavedIs ==
  ASSUME NEW r \in Operations, NEW role \in {"s", "t", "a", "g"}, NEW change,
         Prof!Program(req[r].op)[req[r].at] = Prof!Save(role, change)
  PROVE  /\ Prof!Change(r) = change
         /\ (role = "s" => Prof!Who(r) = req[r].s) /\ (role = "t" => Prof!Who(r) = req[r].t)
         /\ (role = "a" => Prof!Who(r) = req[r].a) /\ (role = "g" => Prof!Who(r) = req[r].g)
<1>1. Prof!Role(r) = role /\ Prof!Change(r) = change
  BY StepFields DEF Prof!Role, Prof!Change
<1>2. QED
  BY <1>1 DEF Prof!Who

Saved(r) ==
  LET q == req[r] IN
  \/ Saves(r, Adding, 2, q.s, "teacher") \/ Saves(r, Adding, 4, q.t, "add_student")
  \/ Saves(r, Adding, 7, q.a, "add_student")
  \/ Saves(r, {"remove_student"}, 2, q.s, "no_teacher") \/ Saves(r, {"remove_student"}, 4, q.t, "drop_student")
  \/ Saves(r, {"remove_student"}, 7, q.a, "drop_student")
  \/ Saves(r, {"assign_supervised"}, 2, q.t, "add_student") \/ Saves(r, {"assign_supervised"}, 4, q.s, "teacher")
  \/ Saves(r, {"assign_supervised"}, 5, q.t, "role") \/ Saves(r, {"assign_supervised"}, 6, q.a, "add_student")
  \/ Saves(r, {"assign_alone", "request_alone"}, 1, q.a, "add_student")
  \/ Saves(r, {"request_alone"}, 3, q.s, "other_fields")
  \/ Saves(r, {"request_ta_assignment"}, 3, q.a, "supervised") \/ Saves(r, {"request_ta_assignment"}, 4, q.t, "add_ta")
  \/ Saves(r, {"assign_guardian"}, 2, q.s, "add_guardian") \/ Saves(r, {"assign_guardian"}, 4, q.g, "add_child")
  \/ Saves(r, {"switch_active_module", "turn"}, 2, q.s, "other_fields")

LEMMA SaveSteps ==
  ASSUME NEW r \in Operations, Roles(req[r]), req[r].op \in Prof!Kinds, Prof!Doing(r, "save")
  PROVE  Saved(r)
<1> DEFINE q == req[r]
<1>1. CASE q.op \in Adding
  <2>1. q.at \in 1..7
    BY <1>1 DEF Roles, Rostering
  <2>2. q.at \notin {1, 3, 5, 6}
    BY <1>1, AddingProgram, StepKinds DEF Prof!Doing
  <2>3. CASE q.at = 2
    <3>1. Prof!Program(q.op)[q.at] = Prof!Save("s", "teacher")
      BY <1>1, <2>3, AddingProgram
    <3>2. Saves(r, Adding, 2, q.s, "teacher")
      BY <1>1, <2>3, <3>1, SavedIs DEF Saves
    <3>3. QED
      BY <3>2 DEF Saved
  <2>4. CASE q.at = 4
    <3>1. Prof!Program(q.op)[q.at] = Prof!Save("t", "add_student")
      BY <1>1, <2>4, AddingProgram
    <3>2. Saves(r, Adding, 4, q.t, "add_student")
      BY <1>1, <2>4, <3>1, SavedIs DEF Saves
    <3>3. QED
      BY <3>2 DEF Saved
  <2>5. CASE q.at = 7
    <3>1. Prof!Program(q.op)[q.at] = Prof!Save("a", "add_student")
      BY <1>1, <2>5, AddingProgram
    <3>2. Saves(r, Adding, 7, q.a, "add_student")
      BY <1>1, <2>5, <3>1, SavedIs DEF Saves
    <3>3. QED
      BY <3>2 DEF Saved
  <2>6. QED
    BY <2>1, <2>2, <2>3, <2>4, <2>5
<1>2. CASE q.op = "remove_student"
  <2>1. q.at \in 1..7
    BY <1>2 DEF Roles, Rostering
  <2>2. q.at \notin {1, 3, 5, 6}
    BY <1>2, RemovalProgram, StepKinds DEF Prof!Doing
  <2>3. CASE q.at = 2
    <3>1. Prof!Program(q.op)[q.at] = Prof!Save("s", "no_teacher")
      BY <1>2, <2>3, RemovalProgram
    <3>2. Saves(r, {"remove_student"}, 2, q.s, "no_teacher")
      BY <1>2, <2>3, <3>1, SavedIs DEF Saves
    <3>3. QED
      BY <3>2 DEF Saved
  <2>4. CASE q.at = 4
    <3>1. Prof!Program(q.op)[q.at] = Prof!Save("t", "drop_student")
      BY <1>2, <2>4, RemovalProgram
    <3>2. Saves(r, {"remove_student"}, 4, q.t, "drop_student")
      BY <1>2, <2>4, <3>1, SavedIs DEF Saves
    <3>3. QED
      BY <3>2 DEF Saved
  <2>5. CASE q.at = 7
    <3>1. Prof!Program(q.op)[q.at] = Prof!Save("a", "drop_student")
      BY <1>2, <2>5, RemovalProgram
    <3>2. Saves(r, {"remove_student"}, 7, q.a, "drop_student")
      BY <1>2, <2>5, <3>1, SavedIs DEF Saves
    <3>3. QED
      BY <3>2 DEF Saved
  <2>6. QED
    BY <2>1, <2>2, <2>3, <2>4, <2>5
<1>3. CASE q.op \in {"assign_ta", "request_by_assistant"}
  <2>1. q.at \in 1..2
    BY <1>3 DEF Roles, Rostering
  <2>2. q.at \notin {1, 2}
    BY <1>3, LookupProgram, StepKinds DEF Prof!Doing
  <2>3. QED
    BY <2>1, <2>2
<1>4. CASE q.op = "assign_supervised"
  <2>1. q.at \in 1..6
    BY <1>4 DEF Roles, Rostering
  <2>2. q.at \notin {1, 3}
    BY <1>4, SupervisedProgram, StepKinds DEF Prof!Doing
  <2>3. CASE q.at = 2
    <3>1. Prof!Program(q.op)[q.at] = Prof!Save("t", "add_student")
      BY <1>4, <2>3, SupervisedProgram
    <3>2. Saves(r, {"assign_supervised"}, 2, q.t, "add_student")
      BY <1>4, <2>3, <3>1, SavedIs DEF Saves
    <3>3. QED
      BY <3>2 DEF Saved
  <2>4. CASE q.at = 4
    <3>1. Prof!Program(q.op)[q.at] = Prof!Save("s", "teacher")
      BY <1>4, <2>4, SupervisedProgram
    <3>2. Saves(r, {"assign_supervised"}, 4, q.s, "teacher")
      BY <1>4, <2>4, <3>1, SavedIs DEF Saves
    <3>3. QED
      BY <3>2 DEF Saved
  <2>5. CASE q.at = 5
    <3>1. Prof!Program(q.op)[q.at] = Prof!Save("t", "role")
      BY <1>4, <2>5, SupervisedProgram
    <3>2. Saves(r, {"assign_supervised"}, 5, q.t, "role")
      BY <1>4, <2>5, <3>1, SavedIs DEF Saves
    <3>3. QED
      BY <3>2 DEF Saved
  <2>6. CASE q.at = 6
    <3>1. Prof!Program(q.op)[q.at] = Prof!Save("a", "add_student")
      BY <1>4, <2>6, SupervisedProgram
    <3>2. Saves(r, {"assign_supervised"}, 6, q.a, "add_student")
      BY <1>4, <2>6, <3>1, SavedIs DEF Saves
    <3>3. QED
      BY <3>2 DEF Saved
  <2>7. QED
    BY <2>1, <2>2, <2>3, <2>4, <2>5, <2>6
<1>5. CASE q.op = "assign_alone"
  <2>1. q.at \in 1..1
    BY <1>5 DEF Roles, Rostering
  <2>2. CASE q.at = 1
    <3>1. Prof!Program(q.op)[q.at] = Prof!Save("a", "add_student")
      BY <1>5, <2>2, AloneProgram
    <3>2. Saves(r, {"assign_alone", "request_alone"}, 1, q.a, "add_student")
      BY <1>5, <2>2, <3>1, SavedIs DEF Saves
    <3>3. QED
      BY <3>2 DEF Saved
  <2>3. QED
    BY <2>1, <2>2
<1>6. CASE q.op = "request_alone"
  <2>1. q.at \in 1..3
    BY <1>6 DEF Roles, Rostering
  <2>2. q.at \notin {2}
    BY <1>6, RequestAloneProgram, StepKinds DEF Prof!Doing
  <2>3. CASE q.at = 1
    <3>1. Prof!Program(q.op)[q.at] = Prof!Save("a", "add_student")
      BY <1>6, <2>3, RequestAloneProgram
    <3>2. Saves(r, {"assign_alone", "request_alone"}, 1, q.a, "add_student")
      BY <1>6, <2>3, <3>1, SavedIs DEF Saves
    <3>3. QED
      BY <3>2 DEF Saved
  <2>4. CASE q.at = 3
    <3>1. Prof!Program(q.op)[q.at] = Prof!Save("s", "other_fields")
      BY <1>6, <2>4, RequestAloneProgram
    <3>2. Saves(r, {"request_alone"}, 3, q.s, "other_fields")
      BY <1>6, <2>4, <3>1, SavedIs DEF Saves
    <3>3. QED
      BY <3>2 DEF Saved
  <2>5. QED
    BY <2>1, <2>2, <2>3, <2>4
<1>7. CASE q.op = "request_ta_assignment"
  <2>1. q.at \in 1..4
    BY <1>7 DEF Roles, Rostering
  <2>2. q.at \notin {1, 2}
    BY <1>7, JoinProgram, StepKinds DEF Prof!Doing
  <2>3. CASE q.at = 3
    <3>1. Prof!Program(q.op)[q.at] = Prof!Save("a", "supervised")
      BY <1>7, <2>3, JoinProgram
    <3>2. Saves(r, {"request_ta_assignment"}, 3, q.a, "supervised")
      BY <1>7, <2>3, <3>1, SavedIs DEF Saves
    <3>3. QED
      BY <3>2 DEF Saved
  <2>4. CASE q.at = 4
    <3>1. Prof!Program(q.op)[q.at] = Prof!Save("t", "add_ta")
      BY <1>7, <2>4, JoinProgram
    <3>2. Saves(r, {"request_ta_assignment"}, 4, q.t, "add_ta")
      BY <1>7, <2>4, <3>1, SavedIs DEF Saves
    <3>3. QED
      BY <3>2 DEF Saved
  <2>5. QED
    BY <2>1, <2>2, <2>3, <2>4
<1>8. CASE q.op = "assign_guardian"
  <2>1. q.at \in 1..4
    BY <1>8 DEF Roles, Rostering
  <2>2. q.at \notin {1, 3}
    BY <1>8, GuardianProgram, StepKinds DEF Prof!Doing
  <2>3. CASE q.at = 2
    <3>1. Prof!Program(q.op)[q.at] = Prof!Save("s", "add_guardian")
      BY <1>8, <2>3, GuardianProgram
    <3>2. Saves(r, {"assign_guardian"}, 2, q.s, "add_guardian")
      BY <1>8, <2>3, <3>1, SavedIs DEF Saves
    <3>3. QED
      BY <3>2 DEF Saved
  <2>4. CASE q.at = 4
    <3>1. Prof!Program(q.op)[q.at] = Prof!Save("g", "add_child")
      BY <1>8, <2>4, GuardianProgram
    <3>2. Saves(r, {"assign_guardian"}, 4, q.g, "add_child")
      BY <1>8, <2>4, <3>1, SavedIs DEF Saves
    <3>3. QED
      BY <3>2 DEF Saved
  <2>5. QED
    BY <2>1, <2>2, <2>3, <2>4
<1>9. CASE q.op \in {"switch_active_module", "turn"}
  <2>1. q.at \in 1..2
    BY <1>9 DEF Roles, Rostering
  <2>2. q.at \notin {1}
    BY <1>9, OtherProgram, StepKinds DEF Prof!Doing
  <2>3. CASE q.at = 2
    <3>1. Prof!Program(q.op)[q.at] = Prof!Save("s", "other_fields")
      BY <1>9, <2>3, OtherProgram
    <3>2. Saves(r, {"switch_active_module", "turn"}, 2, q.s, "other_fields")
      BY <1>9, <2>3, <3>1, SavedIs DEF Saves
    <3>3. QED
      BY <3>2 DEF Saved
  <2>4. QED
    BY <2>1, <2>2, <2>3
<1>10. QED
  BY <1>1, <1>2, <1>3, <1>4, <1>5, <1>6, <1>7, <1>8, <1>9 DEF Prof!Kinds, Adding

(* Where an operation loads, cascades, tells an assistant or looks up a     *)
(* supervisor.                                                              *)
Loading(q) ==
  /\ q.op \in Rostering \cup {"assign_supervised", "assign_guardian"} => q.at \in {1, 3}
  /\ q.op \in {"assign_ta", "request_by_assistant", "switch_active_module", "turn"} => q.at = 1
  /\ q.op = "request_ta_assignment" => q.at \in {1, 2}

LEMMA Positions ==
  ASSUME NEW r \in Operations, Roles(req[r]), req[r].op \in Prof!Kinds
  PROVE  /\ Prof!Doing(r, "load") => Loading(req[r])
         /\ Prof!Doing(r, "cascade") => req[r].op \in Rostering /\ req[r].at = 5
         /\ Prof!Doing(r, "tell") => req[r].op \in Rostering /\ req[r].at = 6
         /\ Prof!Doing(r, "supervisor") => req[r].op \in {"assign_ta", "request_by_assistant"} /\ req[r].at = 2
         /\ Prof!Doing(r, "save") => ~Branching(req[r])
<1> DEFINE q == req[r]
<1>1. CASE q.op \in Adding
  <2>1. q.at = 1 \/ q.at = 2 \/ q.at = 3 \/ q.at = 4 \/ q.at = 5 \/ q.at = 6 \/ q.at = 7
    BY <1>1 DEF Roles, Rostering
  <2>2. q.at = 1 => Prof!Program(q.op)[q.at].do = "load"
    BY <1>1, AddingProgram, StepKinds
  <2>3. q.at = 2 => Prof!Program(q.op)[q.at].do = "save"
    BY <1>1, AddingProgram, StepKinds
  <2>4. q.at = 3 => Prof!Program(q.op)[q.at].do = "load"
    BY <1>1, AddingProgram, StepKinds
  <2>5. q.at = 4 => Prof!Program(q.op)[q.at].do = "save"
    BY <1>1, AddingProgram, StepKinds
  <2>6. q.at = 5 => Prof!Program(q.op)[q.at].do = "cascade"
    BY <1>1, AddingProgram, StepKinds
  <2>7. q.at = 6 => Prof!Program(q.op)[q.at].do = "tell"
    BY <1>1, AddingProgram, StepKinds
  <2>8. q.at = 7 => Prof!Program(q.op)[q.at].do = "save"
    BY <1>1, AddingProgram, StepKinds
  <2>9. QED
    BY <1>1, <2>1, <2>2, <2>3, <2>4, <2>5, <2>6, <2>7, <2>8 DEF Prof!Doing, Loading, Branching, Rostering, Adding
<1>2. CASE q.op = "remove_student"
  <2>1. q.at = 1 \/ q.at = 2 \/ q.at = 3 \/ q.at = 4 \/ q.at = 5 \/ q.at = 6 \/ q.at = 7
    BY <1>2 DEF Roles, Rostering
  <2>2. q.at = 1 => Prof!Program(q.op)[q.at].do = "load"
    BY <1>2, RemovalProgram, StepKinds
  <2>3. q.at = 2 => Prof!Program(q.op)[q.at].do = "save"
    BY <1>2, RemovalProgram, StepKinds
  <2>4. q.at = 3 => Prof!Program(q.op)[q.at].do = "load"
    BY <1>2, RemovalProgram, StepKinds
  <2>5. q.at = 4 => Prof!Program(q.op)[q.at].do = "save"
    BY <1>2, RemovalProgram, StepKinds
  <2>6. q.at = 5 => Prof!Program(q.op)[q.at].do = "cascade"
    BY <1>2, RemovalProgram, StepKinds
  <2>7. q.at = 6 => Prof!Program(q.op)[q.at].do = "tell"
    BY <1>2, RemovalProgram, StepKinds
  <2>8. q.at = 7 => Prof!Program(q.op)[q.at].do = "save"
    BY <1>2, RemovalProgram, StepKinds
  <2>9. QED
    BY <1>2, <2>1, <2>2, <2>3, <2>4, <2>5, <2>6, <2>7, <2>8 DEF Prof!Doing, Loading, Branching, Rostering, Adding
<1>3. CASE q.op \in {"assign_ta", "request_by_assistant"}
  <2>1. q.at = 1 \/ q.at = 2
    BY <1>3 DEF Roles, Rostering
  <2>2. q.at = 1 => Prof!Program(q.op)[q.at].do = "load"
    BY <1>3, LookupProgram, StepKinds
  <2>3. q.at = 2 => Prof!Program(q.op)[q.at].do = "supervisor"
    BY <1>3, LookupProgram, StepKinds
  <2>4. QED
    BY <1>3, <2>1, <2>2, <2>3 DEF Prof!Doing, Loading, Branching, Rostering, Adding
<1>4. CASE q.op = "assign_supervised"
  <2>1. q.at = 1 \/ q.at = 2 \/ q.at = 3 \/ q.at = 4 \/ q.at = 5 \/ q.at = 6
    BY <1>4 DEF Roles, Rostering
  <2>2. q.at = 1 => Prof!Program(q.op)[q.at].do = "load"
    BY <1>4, SupervisedProgram, StepKinds
  <2>3. q.at = 2 => Prof!Program(q.op)[q.at].do = "save"
    BY <1>4, SupervisedProgram, StepKinds
  <2>4. q.at = 3 => Prof!Program(q.op)[q.at].do = "load"
    BY <1>4, SupervisedProgram, StepKinds
  <2>5. q.at = 4 => Prof!Program(q.op)[q.at].do = "save"
    BY <1>4, SupervisedProgram, StepKinds
  <2>6. q.at = 5 => Prof!Program(q.op)[q.at].do = "save"
    BY <1>4, SupervisedProgram, StepKinds
  <2>7. q.at = 6 => Prof!Program(q.op)[q.at].do = "save"
    BY <1>4, SupervisedProgram, StepKinds
  <2>8. QED
    BY <1>4, <2>1, <2>2, <2>3, <2>4, <2>5, <2>6, <2>7 DEF Prof!Doing, Loading, Branching, Rostering, Adding
<1>5. CASE q.op = "assign_alone"
  <2>1. q.at = 1
    BY <1>5 DEF Roles, Rostering
  <2>2. q.at = 1 => Prof!Program(q.op)[q.at].do = "save"
    BY <1>5, AloneProgram, StepKinds
  <2>3. QED
    BY <1>5, <2>1, <2>2 DEF Prof!Doing, Loading, Branching, Rostering, Adding
<1>6. CASE q.op = "request_alone"
  <2>1. q.at = 1 \/ q.at = 2 \/ q.at = 3
    BY <1>6 DEF Roles, Rostering
  <2>2. q.at = 1 => Prof!Program(q.op)[q.at].do = "save"
    BY <1>6, RequestAloneProgram, StepKinds
  <2>3. q.at = 2 => Prof!Program(q.op)[q.at].do = "load"
    BY <1>6, RequestAloneProgram, StepKinds
  <2>4. q.at = 3 => Prof!Program(q.op)[q.at].do = "save"
    BY <1>6, RequestAloneProgram, StepKinds
  <2>5. QED
    BY <1>6, <2>1, <2>2, <2>3, <2>4 DEF Prof!Doing, Loading, Branching, Rostering, Adding
<1>7. CASE q.op = "request_ta_assignment"
  <2>1. q.at = 1 \/ q.at = 2 \/ q.at = 3 \/ q.at = 4
    BY <1>7 DEF Roles, Rostering
  <2>2. q.at = 1 => Prof!Program(q.op)[q.at].do = "load"
    BY <1>7, JoinProgram, StepKinds
  <2>3. q.at = 2 => Prof!Program(q.op)[q.at].do = "load"
    BY <1>7, JoinProgram, StepKinds
  <2>4. q.at = 3 => Prof!Program(q.op)[q.at].do = "save"
    BY <1>7, JoinProgram, StepKinds
  <2>5. q.at = 4 => Prof!Program(q.op)[q.at].do = "save"
    BY <1>7, JoinProgram, StepKinds
  <2>6. QED
    BY <1>7, <2>1, <2>2, <2>3, <2>4, <2>5 DEF Prof!Doing, Loading, Branching, Rostering, Adding
<1>8. CASE q.op = "assign_guardian"
  <2>1. q.at = 1 \/ q.at = 2 \/ q.at = 3 \/ q.at = 4
    BY <1>8 DEF Roles, Rostering
  <2>2. q.at = 1 => Prof!Program(q.op)[q.at].do = "load"
    BY <1>8, GuardianProgram, StepKinds
  <2>3. q.at = 2 => Prof!Program(q.op)[q.at].do = "save"
    BY <1>8, GuardianProgram, StepKinds
  <2>4. q.at = 3 => Prof!Program(q.op)[q.at].do = "load"
    BY <1>8, GuardianProgram, StepKinds
  <2>5. q.at = 4 => Prof!Program(q.op)[q.at].do = "save"
    BY <1>8, GuardianProgram, StepKinds
  <2>6. QED
    BY <1>8, <2>1, <2>2, <2>3, <2>4, <2>5 DEF Prof!Doing, Loading, Branching, Rostering, Adding
<1>9. CASE q.op \in {"switch_active_module", "turn"}
  <2>1. q.at = 1 \/ q.at = 2
    BY <1>9 DEF Roles, Rostering
  <2>2. q.at = 1 => Prof!Program(q.op)[q.at].do = "load"
    BY <1>9, OtherProgram, StepKinds
  <2>3. q.at = 2 => Prof!Program(q.op)[q.at].do = "save"
    BY <1>9, OtherProgram, StepKinds
  <2>4. QED
    BY <1>9, <2>1, <2>2, <2>3 DEF Prof!Doing, Loading, Branching, Rostering, Adding
<1>10. QED
  BY <1>1, <1>2, <1>3, <1>4, <1>5, <1>6, <1>7, <1>8, <1>9 DEF Prof!Kinds, Adding

(* What a save changes: whose profile, and at which step of the operation.  *)
Deed(r) ==
  LET q == req[r] c == Prof!Change(r) w == Prof!Who(r) IN
  /\ w \in Prof!People
  /\ c \in {"teacher", "no_teacher", "add_student", "drop_student", "supervised", "add_ta",
            "add_guardian", "add_child", "role", "other_fields"}
  /\ c = "teacher" => /\ w = q.s /\ q.s \in Students /\ q.t \in Teachers
                      /\ (q.op \in Adding /\ q.at = 2) \/ (q.op = "assign_supervised" /\ q.at = 4)
  /\ c = "no_teacher" => w = q.s /\ q.s \in Students /\ q.op = "remove_student" /\ q.at = 2
  /\ c = "add_student" =>
       /\ q.s \in Students
       /\ \/ w = q.t /\ q.t \in Teachers /\ ((q.op \in Adding /\ q.at = 4) \/ (q.op = "assign_supervised" /\ q.at = 2))
          \/ w = q.a /\ q.a \in Assistants /\ (q.op \in Adding => q.at = 7)
  /\ c = "drop_student" =>
       /\ q.s \in Students /\ q.op = "remove_student"
       /\ (w = q.t /\ q.t \in Teachers /\ q.at = 4) \/ (w = q.a /\ q.a \in Assistants /\ q.at = 7)
  /\ c = "supervised" => w = q.a /\ q.a \in Assistants /\ q.t \in Teachers /\ q.op = "request_ta_assignment" /\ q.at = 3
  /\ c = "add_ta" => w = q.t /\ q.t \in Teachers /\ q.a \in Assistants /\ q.op = "request_ta_assignment" /\ q.at = 4
  /\ c = "add_guardian" => w = q.s /\ q.s \in Students /\ q.g \in Guardians /\ q.op = "assign_guardian" /\ q.at = 2
  /\ c = "add_child" => w = q.g /\ q.g \in Guardians /\ q.s \in Students /\ q.op = "assign_guardian" /\ q.at = 4

(* And conversely.                                                          *)
Placed(r) ==
  LET q == req[r] c == Prof!Change(r) w == Prof!Who(r) IN
  /\ q.op \in Rostering => q.at \in {2, 4, 7}
  /\ q.op \in Adding /\ q.at = 4 => c = "add_student" /\ w = q.t
  /\ q.op \in Adding /\ q.at = 7 => c = "add_student" /\ w = q.a
  /\ q.op = "assign_supervised" /\ q.at = 2 => c = "add_student" /\ w = q.t
  /\ q.op = "remove_student" /\ q.at = 2 => c = "no_teacher"
  /\ q.op = "remove_student" /\ q.at = 4 => c = "drop_student" /\ w = q.t
  /\ q.op = "remove_student" /\ q.at = 7 => c = "drop_student" /\ w = q.a
  /\ q.op = "request_ta_assignment" /\ q.at = 3 => c = "supervised" /\ w = q.a
  /\ q.op = "request_ta_assignment" /\ q.at = 4 => c = "add_ta" /\ w = q.t
  /\ q.op = "assign_guardian" /\ q.at = 2 => c = "add_guardian" /\ w = q.s
  /\ q.op = "assign_guardian" /\ q.at = 4 => c = "add_child" /\ w = q.g

LEMMA Deeds ==
  ASSUME NEW r \in Operations, Roles(req[r]), req[r].at \in Nat, Saved(r)
  PROVE  Deed(r) /\ Placed(r)
<1> DEFINE q == req[r]
<1>1. CASE Saves(r, Adding, 2, q.s, "teacher")
  <2>0. q.at # 3 /\ q.at # 4 /\ q.at # 7
    BY <1>1 DEF Saves
  <2>1. Deed(r)
    BY <1>1 DEF Saves, Roles, Rostering, Adding, Prof!People, Deed
  <2>2. Placed(r)
    BY <1>1, <2>0 DEF Saves, Rostering, Adding, Placed
  <2>3. QED
    BY <2>1, <2>2
<1>2. CASE Saves(r, Adding, 4, q.t, "add_student")
  <2>0. q.at # 2 /\ q.at # 3 /\ q.at # 7
    BY <1>2 DEF Saves
  <2>1. Deed(r)
    BY <1>2 DEF Saves, Roles, Rostering, Adding, Prof!People, Deed
  <2>2. Placed(r)
    BY <1>2, <2>0 DEF Saves, Rostering, Adding, Placed
  <2>3. QED
    BY <2>1, <2>2
<1>3. CASE Saves(r, Adding, 7, q.a, "add_student")
  <2>0. q.at # 2 /\ q.at # 3 /\ q.at # 4
    BY <1>3 DEF Saves
  <2>1. Deed(r)
    BY <1>3 DEF Saves, Roles, Rostering, Adding, Prof!People, Deed
  <2>2. Placed(r)
    BY <1>3, <2>0 DEF Saves, Rostering, Adding, Placed
  <2>3. QED
    BY <2>1, <2>2
<1>4. CASE Saves(r, {"remove_student"}, 2, q.s, "no_teacher")
  <2>0. q.at # 3 /\ q.at # 4 /\ q.at # 7
    BY <1>4 DEF Saves
  <2>1. Deed(r)
    BY <1>4 DEF Saves, Roles, Rostering, Adding, Prof!People, Deed
  <2>2. Placed(r)
    BY <1>4, <2>0 DEF Saves, Rostering, Adding, Placed
  <2>3. QED
    BY <2>1, <2>2
<1>5. CASE Saves(r, {"remove_student"}, 4, q.t, "drop_student")
  <2>0. q.at # 2 /\ q.at # 3 /\ q.at # 7
    BY <1>5 DEF Saves
  <2>1. Deed(r)
    BY <1>5 DEF Saves, Roles, Rostering, Adding, Prof!People, Deed
  <2>2. Placed(r)
    BY <1>5, <2>0 DEF Saves, Rostering, Adding, Placed
  <2>3. QED
    BY <2>1, <2>2
<1>6. CASE Saves(r, {"remove_student"}, 7, q.a, "drop_student")
  <2>0. q.at # 2 /\ q.at # 3 /\ q.at # 4
    BY <1>6 DEF Saves
  <2>1. Deed(r)
    BY <1>6 DEF Saves, Roles, Rostering, Adding, Prof!People, Deed
  <2>2. Placed(r)
    BY <1>6, <2>0 DEF Saves, Rostering, Adding, Placed
  <2>3. QED
    BY <2>1, <2>2
<1>7. CASE Saves(r, {"assign_supervised"}, 2, q.t, "add_student")
  <2>0. q.at # 3 /\ q.at # 4 /\ q.at # 7
    BY <1>7 DEF Saves
  <2>1. Deed(r)
    BY <1>7 DEF Saves, Roles, Rostering, Adding, Prof!People, Deed
  <2>2. Placed(r)
    BY <1>7, <2>0 DEF Saves, Rostering, Adding, Placed
  <2>3. QED
    BY <2>1, <2>2
<1>8. CASE Saves(r, {"assign_supervised"}, 4, q.s, "teacher")
  <2>0. q.at # 2 /\ q.at # 3 /\ q.at # 7
    BY <1>8 DEF Saves
  <2>1. Deed(r)
    BY <1>8 DEF Saves, Roles, Rostering, Adding, Prof!People, Deed
  <2>2. Placed(r)
    BY <1>8, <2>0 DEF Saves, Rostering, Adding, Placed
  <2>3. QED
    BY <2>1, <2>2
<1>9. CASE Saves(r, {"assign_supervised"}, 5, q.t, "role")
  <2>0. q.at # 2 /\ q.at # 3 /\ q.at # 4 /\ q.at # 7
    BY <1>9 DEF Saves
  <2>1. Deed(r)
    BY <1>9 DEF Saves, Roles, Rostering, Adding, Prof!People, Deed
  <2>2. Placed(r)
    BY <1>9, <2>0 DEF Saves, Rostering, Adding, Placed
  <2>3. QED
    BY <2>1, <2>2
<1>10. CASE Saves(r, {"assign_supervised"}, 6, q.a, "add_student")
  <2>0. q.at # 2 /\ q.at # 3 /\ q.at # 4 /\ q.at # 7
    BY <1>10 DEF Saves
  <2>1. Deed(r)
    BY <1>10 DEF Saves, Roles, Rostering, Adding, Prof!People, Deed
  <2>2. Placed(r)
    BY <1>10, <2>0 DEF Saves, Rostering, Adding, Placed
  <2>3. QED
    BY <2>1, <2>2
<1>11. CASE Saves(r, {"assign_alone", "request_alone"}, 1, q.a, "add_student")
  <2>0. q.at # 2 /\ q.at # 3 /\ q.at # 4 /\ q.at # 7
    BY <1>11 DEF Saves
  <2>1. Deed(r)
    BY <1>11 DEF Saves, Roles, Rostering, Adding, Prof!People, Deed
  <2>2. Placed(r)
    BY <1>11, <2>0 DEF Saves, Rostering, Adding, Placed
  <2>3. QED
    BY <2>1, <2>2
<1>12. CASE Saves(r, {"request_alone"}, 3, q.s, "other_fields")
  <2>0. q.at # 2 /\ q.at # 4 /\ q.at # 7
    BY <1>12 DEF Saves
  <2>1. Deed(r)
    BY <1>12 DEF Saves, Roles, Rostering, Adding, Prof!People, Deed
  <2>2. Placed(r)
    BY <1>12, <2>0 DEF Saves, Rostering, Adding, Placed
  <2>3. QED
    BY <2>1, <2>2
<1>13. CASE Saves(r, {"request_ta_assignment"}, 3, q.a, "supervised")
  <2>0. q.at # 2 /\ q.at # 4 /\ q.at # 7
    BY <1>13 DEF Saves
  <2>1. Deed(r)
    BY <1>13 DEF Saves, Roles, Rostering, Adding, Prof!People, Deed
  <2>2. Placed(r)
    BY <1>13, <2>0 DEF Saves, Rostering, Adding, Placed
  <2>3. QED
    BY <2>1, <2>2
<1>14. CASE Saves(r, {"request_ta_assignment"}, 4, q.t, "add_ta")
  <2>0. q.at # 2 /\ q.at # 3 /\ q.at # 7
    BY <1>14 DEF Saves
  <2>1. Deed(r)
    BY <1>14 DEF Saves, Roles, Rostering, Adding, Prof!People, Deed
  <2>2. Placed(r)
    BY <1>14, <2>0 DEF Saves, Rostering, Adding, Placed
  <2>3. QED
    BY <2>1, <2>2
<1>15. CASE Saves(r, {"assign_guardian"}, 2, q.s, "add_guardian")
  <2>0. q.at # 3 /\ q.at # 4 /\ q.at # 7
    BY <1>15 DEF Saves
  <2>1. Deed(r)
    BY <1>15 DEF Saves, Roles, Rostering, Adding, Prof!People, Deed
  <2>2. Placed(r)
    BY <1>15, <2>0 DEF Saves, Rostering, Adding, Placed
  <2>3. QED
    BY <2>1, <2>2
<1>16. CASE Saves(r, {"assign_guardian"}, 4, q.g, "add_child")
  <2>0. q.at # 2 /\ q.at # 3 /\ q.at # 7
    BY <1>16 DEF Saves
  <2>1. Deed(r)
    BY <1>16 DEF Saves, Roles, Rostering, Adding, Prof!People, Deed
  <2>2. Placed(r)
    BY <1>16, <2>0 DEF Saves, Rostering, Adding, Placed
  <2>3. QED
    BY <2>1, <2>2
<1>17. CASE Saves(r, {"switch_active_module", "turn"}, 2, q.s, "other_fields")
  <2>0. q.at # 3 /\ q.at # 4 /\ q.at # 7
    BY <1>17 DEF Saves
  <2>1. Deed(r)
    BY <1>17 DEF Saves, Roles, Rostering, Adding, Prof!People, Deed
  <2>2. Placed(r)
    BY <1>17, <2>0 DEF Saves, Rostering, Adding, Placed
  <2>3. QED
    BY <2>1, <2>2
<1>18. QED
  BY <1>1, <1>2, <1>3, <1>4, <1>5, <1>6, <1>7, <1>8, <1>9, <1>10, <1>11, <1>12, <1>13, <1>14, <1>15, <1>16, <1>17 DEF Saved

(* A changed profile, field by field.                                       *)
Becomes(r, p, new) ==
  LET q == req[r] c == Prof!Change(r) IN
  /\ new.teacher = (IF c = "teacher" THEN q.t ELSE IF c = "no_teacher" THEN NoOne ELSE p.teacher)
  /\ new.students = (IF c = "add_student" THEN p.students \cup {q.s}
                     ELSE IF c = "drop_student" THEN p.students \ {q.s}
                     ELSE IF c = "supervised" THEN q.held[q.t].students ELSE p.students)
  /\ new.tas = (IF c = "add_ta" THEN p.tas \cup {q.a} ELSE p.tas)
  /\ new.supervisor = (IF c = "supervised" THEN q.t ELSE p.supervisor)
  /\ new.guardians = (IF c = "add_guardian" THEN p.guardians \cup {q.g} ELSE p.guardians)
  /\ new.children = (IF c = "add_child" THEN p.children \cup {q.s} ELSE p.children)

LEMMA ChangedBecomes ==
  ASSUME NEW r \in Operations, req[r] \in Prof!Operation, Deed(r), NEW p \in Prof!Profile
  PROVE  Prof!Changed(r, p) \in Prof!Profile /\ Becomes(r, p, Prof!Changed(r, p))
<1> DEFINE q == req[r]   c == Prof!Change(r)
<1>0. /\ q.t \in Teachers \cup {NoOne} /\ q.held \in [Prof!People -> Prof!Profile]
  BY DEF Prof!Operation
<1>a. q.t \in Teachers => q.held[q.t].students \in SUBSET Students
  BY <1>0 DEF Prof!Profile, Prof!People
<1>1. CASE c = "teacher"
  <2>1. Prof!Changed(r, p) = [p EXCEPT !.teacher = q.t]
    BY <1>1 DEF Prof!Changed
  <2>2. QED
    BY <1>0, <1>1, <2>1 DEF Prof!Profile, Becomes
<1>2. CASE c = "no_teacher"
  <2>1. Prof!Changed(r, p) = [p EXCEPT !.teacher = NoOne]
    BY <1>2 DEF Prof!Changed
  <2>2. QED
    BY <1>0, <1>2, <2>1 DEF Prof!Profile, Becomes
<1>3. CASE c = "add_student"
  <2>1. Prof!Changed(r, p) = [p EXCEPT !.students = @ \cup {q.s}]
    BY <1>3 DEF Prof!Changed
  <2>2. q.s \in Students
    BY <1>3 DEF Deed
  <2>3. QED
    BY <1>3, <2>1, <2>2 DEF Prof!Profile, Becomes
<1>4. CASE c = "drop_student"
  <2>1. Prof!Changed(r, p) = [p EXCEPT !.students = @ \ {q.s}]
    BY <1>4 DEF Prof!Changed
  <2>2. QED
    BY <1>4, <2>1 DEF Prof!Profile, Becomes
<1>5. CASE c = "supervised"
  <2>1. Prof!Changed(r, p) = [p EXCEPT !.supervisor = q.t, !.students = q.held[q.t].students]
    BY <1>5 DEF Prof!Changed
  <2>2. q.t \in Teachers
    BY <1>5 DEF Deed
  <2> DEFINE inherited == q.held[q.t].students   half == [p EXCEPT !.supervisor = q.t]
  <2>3. inherited \in SUBSET Students
    BY <1>a, <2>2
  <2>4. Prof!Changed(r, p) = [half EXCEPT !.students = inherited]
    BY <2>1
  <2>5. /\ half \in Prof!Profile /\ half.teacher = p.teacher /\ half.tas = p.tas /\ half.supervisor = q.t
        /\ half.guardians = p.guardians /\ half.children = p.children
    BY <2>2 DEF Prof!Profile
  <2> HIDE DEF half, inherited
  <2>6. LET new == Prof!Changed(r, p) IN
        /\ new \in Prof!Profile /\ new.teacher = p.teacher /\ new.tas = p.tas /\ new.supervisor = q.t
        /\ new.guardians = p.guardians /\ new.children = p.children /\ new.students = inherited
    BY <2>3, <2>4, <2>5 DEF Prof!Profile
  <2>7. QED
    BY <1>5, <2>6 DEF Becomes, inherited
<1>6. CASE c = "add_ta"
  <2>1. Prof!Changed(r, p) = [p EXCEPT !.tas = @ \cup {q.a}]
    BY <1>6 DEF Prof!Changed
  <2>2. q.a \in Assistants
    BY <1>6 DEF Deed
  <2>3. QED
    BY <1>6, <2>1, <2>2 DEF Prof!Profile, Becomes
<1>7. CASE c = "add_guardian"
  <2>1. Prof!Changed(r, p) = [p EXCEPT !.guardians = @ \cup {q.g}]
    BY <1>7 DEF Prof!Changed
  <2>2. q.g \in Guardians
    BY <1>7 DEF Deed
  <2>3. QED
    BY <1>7, <2>1, <2>2 DEF Prof!Profile, Becomes
<1>8. CASE c = "add_child"
  <2>1. Prof!Changed(r, p) = [p EXCEPT !.children = @ \cup {q.s}]
    BY <1>8 DEF Prof!Changed
  <2>2. q.s \in Students
    BY <1>8 DEF Deed
  <2>3. QED
    BY <1>8, <2>1, <2>2 DEF Prof!Profile, Becomes
<1>9. CASE c \in {"role", "other_fields"}
  <2>1. Prof!Changed(r, p) = p
    BY <1>9 DEF Prof!Changed
  <2>2. QED
    BY <1>9, <2>1 DEF Becomes
<1>10. QED
  BY <1>1, <1>2, <1>3, <1>4, <1>5, <1>6, <1>7, <1>8, <1>9 DEF Deed

(* A save of a fresh copy changes the profile as it is; one of a stale copy *)
(* spoils it.                                                               *)
Keeps == spoilt \subseteq spoilt' /\ Prof!Overlap' \subseteq spoilt' /\ uncascaded \subseteq uncascaded'
Effect(r) ==
  /\ req[r].op # "none" /\ Deed(r) /\ Placed(r) /\ GoesOn(req[r], req'[r]) /\ uncascaded' = uncascaded
  /\ \A p \in Prof!People \ {Prof!Who(r)} : profile'[p] = profile[p]
  /\ Prof!Who(r) \notin spoilt' =>
       Becomes(r, profile[Prof!Who(r)], profile'[Prof!Who(r)]) /\ req[r].held[Prof!Who(r)] = profile[Prof!Who(r)]
  /\ req'[r].op # "none" => \A p \in Prof!People \ {Prof!Who(r)} : req'[r].held[p] = req[r].held[p]
  /\ \A o \in Operations \ {r} : req'[o] = req[o]

Typed == profile \in [Prof!People -> Prof!Profile] /\ row \in [Prof!People -> Prof!Profile] /\ req \in [Operations -> Prof!Operation]

LEMMA LeaveKeeps ==
  ASSUME NEW people, Prof!Leave(people)
  PROVE  spoilt \subseteq spoilt' /\ people \subseteq spoilt' /\ Prof!Overlap' \subseteq spoilt'
BY DEF Prof!Leave

LEMMA SavesAreEffects ==
  ASSUME RolesInv, NEW r \in Operations, Prof!SaveProfile(r) \/ Prof!SkipSave(r)
  PROVE  Effect(r) /\ Keeps /\ Typed' /\ Roles(req'[r])
<1> DEFINE q == req[r]   w == Prof!Who(r)   new == Prof!Changed(r, q.held[w])
<1>1. /\ profile \in [Prof!People -> Prof!Profile] /\ row \in [Prof!People -> Prof!Profile] /\ req \in [Operations -> Prof!Operation]
      /\ q \in Prof!Operation /\ Roles(q) /\ Prof!Doing(r, "save") /\ q.op # "none" /\ q.op \in Prof!Kinds
  BY DEF RolesInv, Prof!SaveProfile, Prof!SkipSave, Prof!Doing, Prof!Operation
<1>2. Saved(r)
  BY <1>1, SaveSteps
<1>3. Deed(r) /\ Placed(r) /\ w \in Prof!People
  <2>1. Deed(r) /\ Placed(r)
    <3>1. q.at \in Nat
      BY <1>1 DEF Prof!Operation
    <3>2. QED
      BY <1>1, <1>2, <3>1, Deeds
  <2>2. QED
    BY <2>1 DEF Deed
<1>4. q.held \in [Prof!People -> Prof!Profile] /\ q.held[w] \in Prof!Profile /\ profile[w] \in Prof!Profile
  BY <1>1, <1>3 DEF Prof!Operation
<1>5. new \in Prof!Profile /\ Becomes(r, q.held[w], new)
  BY <1>1, <1>3, <1>4, ChangedBecomes
<1>6. ~Branching(q)
  BY <1>1, Positions
<1>7. CASE Prof!SaveProfile(r)
  <2> DEFINE copy == [q EXCEPT !.held[w] = new]
  <2>1. /\ profile' = [profile EXCEPT ![w] = new] /\ uncascaded' = uncascaded
        /\ row' = (IF q.op = "turn" THEN [row EXCEPT ![w] = new] ELSE row)
        /\ req' = [req EXCEPT ![r] = Prof!After(copy)] /\ Prof!Leave(Prof!Stale(r))
    BY <1>7 DEF Prof!SaveProfile
  <2>2. /\ copy \in Prof!Operation /\ copy.op = q.op /\ copy.s = q.s /\ copy.t = q.t /\ copy.a = q.a /\ copy.g = q.g
        /\ copy.tell = q.tell /\ copy.at = q.at /\ copy.held = [q.held EXCEPT ![w] = new]
    BY <1>1, <1>3, <1>4, <1>5 DEF Prof!Operation
  <2> HIDE DEF copy
  <2>3. Roles(copy)
    BY <1>1, <2>2 DEF Roles
  <2>14. ~Branching(copy)
    BY <1>6, <2>2 DEF Branching
  <2>4. /\ Prof!After(copy) \in Prof!Operation /\ Roles(Prof!After(copy)) /\ GoesOn(copy, Prof!After(copy))
        /\ Prof!After(copy).op # "none" => Prof!After(copy).held = copy.held
    BY <1>1, <2>2, <2>3, <2>14, Onward
  <2>5. req'[r] = Prof!After(copy) /\ \A o \in Operations \ {r} : req'[o] = req[o]
    BY <1>1, <2>1
  <2>6. GoesOn(q, req'[r])
    BY <2>2, <2>4, <2>5 DEF GoesOn, Same
  <2>7. req'[r].op # "none" => \A p \in Prof!People \ {w} : req'[r].held[p] = q.held[p]
    <3>1. \A p \in Prof!People \ {w} : copy.held[p] = q.held[p]
      BY <1>4, <2>2
    <3>2. QED
      BY <2>4, <2>5, <3>1
  <2>8. Typed'
    <3>1. profile' \in [Prof!People -> Prof!Profile] /\ row' \in [Prof!People -> Prof!Profile]
      BY <1>1, <1>5, <2>1
    <3>2. req' \in [Operations -> Prof!Operation]
      BY <1>1, <2>1, <2>4
    <3>3. QED
      BY <3>1, <3>2 DEF Typed
  <2>9. \A p \in Prof!People \ {w} : profile'[p] = profile[p]
    BY <1>1, <2>1
  <2>10. Prof!Stale(r) \subseteq spoilt' /\ Keeps
    BY <2>1, LeaveKeeps DEF Keeps
  <2>11. w \notin spoilt' => Becomes(r, profile[w], profile'[w]) /\ q.held[w] = profile[w]
    <3>1. w \notin spoilt' => q.held[w] = profile[w]
      BY <2>10 DEF Prof!Stale
    <3>2. profile'[w] = new
      BY <1>1, <1>3, <2>1
    <3>3. QED
      BY <1>5, <3>1, <3>2
  <2>12. QED
    BY <1>1, <1>3, <2>1, <2>4, <2>5, <2>6, <2>7, <2>8, <2>9, <2>10, <2>11 DEF Effect
<1>8. CASE Prof!SkipSave(r)
  <2>1. /\ profile' = profile /\ row' = row /\ uncascaded' = uncascaded
        /\ req' = [req EXCEPT ![r] = Prof!After(q)] /\ Prof!Leave(Prof!Stale(r))
        /\ Prof!Skips(r) \/ Prof!Change(r) = "role"
    BY <1>8 DEF Prof!SkipSave
  <2>2. /\ Prof!After(q) \in Prof!Operation /\ Roles(Prof!After(q)) /\ GoesOn(q, Prof!After(q))
        /\ Prof!After(q).op # "none" => Prof!After(q).held = q.held
    BY <1>1, <1>6, Onward
  <2>3. req'[r] = Prof!After(q) /\ \A o \in Operations \ {r} : req'[o] = req[o]
    BY <1>1, <2>1
  <2>4. Typed'
    BY <1>1, <2>1, <2>2 DEF Typed
  <2>5. Prof!Stale(r) \subseteq spoilt' /\ Keeps
    BY <2>1, LeaveKeeps DEF Keeps
  <2>6. new = q.held[w]
    BY <2>1 DEF Prof!Skips, Prof!Changed
  <2>7. w \notin spoilt' => Becomes(r, profile[w], profile'[w]) /\ q.held[w] = profile[w]
    <3>1. w \notin spoilt' => q.held[w] = profile[w]
      BY <2>5 DEF Prof!Stale
    <3>2. QED
      BY <1>5, <2>1, <2>6, <3>1
  <2>8. QED
    BY <1>1, <1>3, <2>1, <2>2, <2>3, <2>4, <2>5, <2>7 DEF Effect
<1>9. QED
  BY <1>7, <1>8

(* Everything else leaves the profiles as they are, and the operations too, *)
(* but for the step one of them takes, begins with or ends at.              *)
Ends(r) == req'[r].op = "none" /\ (req[r].op # "none" => Prof!Involved(r) \subseteq spoilt')
Loads(r) == Loading(req[r]) /\ GoesOn(req[r], req'[r]) /\ req[r].op # "none"
Cascades(r) ==
  /\ req[r].op \in Rostering /\ req[r].at = 5
  /\ \/ req'[r].op = "none" /\ (profile[req[r].t].tas = {} \/ req[r].t \in uncascaded')
     \/ /\ Same(req[r], req'[r]) /\ req'[r].at = 6 /\ req'[r].tell \subseteq profile[req[r].t].tas
        /\ req'[r].tell = profile[req[r].t].tas \/ req[r].t \in uncascaded'
TellsOne(r) ==
  /\ req[r].op \in Rostering /\ req[r].at = 6 /\ Same(req[r], req'[r]) /\ req'[r].at = 7
  /\ req'[r].a \in req[r].tell /\ req'[r].tell = req[r].tell \ {req'[r].a}
Starts(r) == req'[r].at = 1 /\ req[r].op \in {"none", "assign_ta", "request_by_assistant"}

Quiet ==
  /\ profile' = profile
  /\ \A r \in Operations : req'[r] = req[r] \/ Ends(r) \/ Loads(r) \/ Cascades(r) \/ TellsOne(r) \/ Starts(r)

(* assign_ta's teacher counts as uncascaded from the start.                 *)
Served(q) == Roles(q) /\ (q.op = "assign_supervised" => q.t \in uncascaded)

LEMMA EmptyIsTyped == Prof!Empty \in Prof!Profile /\ Prof!Empty.tas = {}
BY DEF Prof!Empty, Prof!Profile

LEMMA ReadIsTyped ==
  ASSUME Typed, NEW r \in Operations, NEW who \in Prof!People, NEW read \in Prof!Read(r, who)
  PROVE  read \in Prof!Profile
BY EmptyIsTyped DEF Typed, Prof!Read

LEMMA LoadIsQuiet ==
  ASSUME RolesInv, NEW r \in Operations, Prof!LoadProfile(r)
  PROVE  Quiet /\ Keeps /\ Typed' /\ \A o \in Operations : Served(req[o])'
<1> DEFINE q == req[r]   w == Prof!Who(r)
<1>1. /\ Typed /\ q \in Prof!Operation /\ Roles(q) /\ Prof!Doing(r, "load") /\ q.op # "none" /\ q.op \in Prof!Kinds
  BY DEF RolesInv, Typed, Prof!LoadProfile, Prof!Doing, Prof!Operation
<1>2. Loading(q)
  BY <1>1, Positions
<1>3. ~Branching(q)
  BY <1>2 DEF Loading, Branching
<1>4. PICK read \in Prof!Read(r, w) : req' = [req EXCEPT ![r] = Prof!After([@ EXCEPT !.held[w] = read])]
  BY DEF Prof!LoadProfile
<1> DEFINE copy == [q EXCEPT !.held[w] = read]
<1>5. /\ copy \in Prof!Operation /\ copy.op = q.op /\ copy.s = q.s /\ copy.t = q.t /\ copy.a = q.a /\ copy.g = q.g
      /\ copy.tell = q.tell /\ copy.at = q.at
  <2>1. q.held \in [Prof!People -> Prof!Profile] /\ (w \in Prof!People => read \in Prof!Profile)
    BY <1>1, ReadIsTyped DEF Prof!Operation
  <2> DEFINE h == [q.held EXCEPT ![w] = read]
  <2>2. h \in [Prof!People -> Prof!Profile]
    BY <2>1
  <2>3. copy = [q EXCEPT !.held = h]
    OBVIOUS
  <2> HIDE DEF h
  <2>4. QED
    BY <1>1, <2>2, <2>3 DEF Prof!Operation
<1>6. req' = [req EXCEPT ![r] = Prof!After(copy)]
  BY <1>4
<1> HIDE DEF copy
<1>7. Roles(copy) /\ ~Branching(copy) /\ copy.op # "none"
  BY <1>1, <1>3, <1>5 DEF Roles, Branching
<1>8. Prof!After(copy) \in Prof!Operation /\ Roles(Prof!After(copy)) /\ GoesOn(copy, Prof!After(copy))
  BY <1>5, <1>7, Onward
<1>9. req'[r] = Prof!After(copy) /\ (\A o \in Operations \ {r} : req'[o] = req[o]) /\ profile' = profile /\ row' = row
  BY <1>1, <1>6 DEF Typed, Prof!LoadProfile
<1>10. GoesOn(q, req'[r])
  BY <1>5, <1>8, <1>9 DEF GoesOn, Same
<1>11. Keeps
  BY LeaveKeeps DEF Prof!LoadProfile, Keeps
<1>12. Quiet
  BY <1>1, <1>2, <1>9, <1>10 DEF Quiet, Loads
<1>13. Typed'
  BY <1>1, <1>6, <1>8, <1>9 DEF Typed
<1>14. \A o \in Operations : Served(req[o])'
  <2>1. ASSUME NEW o \in Operations PROVE Served(req[o])'
    <3>1. CASE o = r
      <4>1. q.op = "assign_supervised" => q.t \in uncascaded
        BY DEF RolesInv
      <4>2. req'[r].op = "assign_supervised" => q.op = "assign_supervised" /\ req'[r].t = q.t
        BY <1>10 DEF GoesOn, Same
      <4>3. QED
        BY <1>8, <1>9, <1>11, <3>1, <4>1, <4>2 DEF Served, Keeps
    <3>2. CASE o # r
      BY <1>9, <1>11, <3>2 DEF RolesInv, Served, Keeps
    <3>3. QED
      BY <3>1, <3>2
  <2>2. QED
    BY <2>1
<1>15. QED
  BY <1>11, <1>12, <1>13, <1>14

(* The others are left as they were.                                        *)
LEMMA RestServed ==
  ASSUME RolesInv, NEW r \in Operations, \A o \in Operations \ {r} : req'[o] = req[o], uncascaded \subseteq uncascaded',
         Served(req[r])'
  PROVE  \A o \in Operations : Served(req[o])'
<1>1. ASSUME NEW o \in Operations PROVE Served(req[o])'
  <2>1. CASE o = r
    BY <2>1
  <2>2. CASE o # r
    BY <2>2 DEF RolesInv, Served
  <2>3. QED
    BY <2>1, <2>2
<1>2. QED
  BY <1>1

LEMMA CascadeIsQuiet ==
  ASSUME RolesInv, NEW r \in Operations, Prof!Cascade(r)
  PROVE  Quiet /\ Keeps /\ Typed' /\ \A o \in Operations : Served(req[o])'
<1> DEFINE q == req[r]   t == q.t
<1>1. /\ Typed /\ q \in Prof!Operation /\ Roles(q) /\ Prof!Doing(r, "cascade") /\ q.op # "none" /\ q.op \in Prof!Kinds
  BY DEF RolesInv, Typed, Prof!Cascade, Prof!Doing, Prof!Operation
<1>2. q.op \in Rostering /\ q.at = 5
  BY <1>1, Positions
<1>3. t \in Teachers /\ t \in Prof!People /\ q.s \in Students /\ q.a = NoOne
  BY <1>1, <1>2 DEF Roles, Prof!People
<1>4. PICK read \in Prof!Read(r, t) :
        /\ req' = [req EXCEPT ![r] = IF read.tas = {} THEN Prof!Idle ELSE Prof!After([@ EXCEPT !.tell = read.tas])]
        /\ uncascaded' = IF read.tas = profile[t].tas THEN uncascaded ELSE uncascaded \cup {t}
  BY DEF Prof!Cascade
<1>5. read \in Prof!Profile /\ profile[t] \in Prof!Profile
  BY <1>1, <1>3, ReadIsTyped DEF Typed
<1>6. read = profile[t] \/ read = Prof!Empty
  BY <1>2 DEF Prof!Read, Rostering, Adding
<1>7. read.tas \subseteq profile[t].tas /\ (read.tas = profile[t].tas \/ t \in uncascaded')
  BY <1>4, <1>5, <1>6, EmptyIsTyped
<1> DEFINE told == [q EXCEPT !.tell = read.tas]   new == IF read.tas = {} THEN Prof!Idle ELSE Prof!After(told)
<1>8. told \in Prof!Operation /\ Same(q, told) /\ told.at = 5 /\ told.tell = read.tas /\ told.a = NoOne
  BY <1>1, <1>2, <1>3, <1>5 DEF Prof!Operation, Same, Prof!Profile
<1>9. req' = [req EXCEPT ![r] = new]
  BY <1>4
<1> HIDE DEF told
<1>10. /\ new \in Prof!Operation /\ Roles(new) /\ new.op # "assign_supervised"
       /\ IF read.tas = {} THEN new.op = "none" ELSE Same(q, new) /\ new.at = 6 /\ new.tell = read.tas
  <2>1. CASE read.tas = {}
    BY <2>1, IdleIsTyped
  <2>2. CASE read.tas # {}
    <3>1. Len(Prof!Program(told.op)) = 7
      BY <1>2, <1>8, AddingProgram, RemovalProgram DEF Same, Rostering
    <3>2. Prof!After(told) = [told EXCEPT !.at = @ + 1]
      BY <1>8, <3>1 DEF Prof!After
    <3> DEFINE next == Prof!After(told)
    <3>3. next \in Prof!Operation /\ Same(q, next) /\ next.at = 6 /\ next.tell = read.tas /\ next.a = NoOne
      BY <1>8, <3>2 DEF Prof!Operation, Same
    <3> HIDE DEF next
    <3>4. Roles(next) /\ next.op # "assign_supervised"
      BY <1>2, <1>3, <2>2, <3>3 DEF Roles, Same, Rostering, Adding
    <3>5. QED
      BY <2>2, <3>3, <3>4 DEF next
  <2>3. QED
    BY <2>1, <2>2
<1>11. req'[r] = new /\ (\A o \in Operations \ {r} : req'[o] = req[o]) /\ profile' = profile /\ row' = row
  <2>1. req \in [Operations -> Prof!Operation] /\ profile' = profile /\ row' = row
    BY <1>1 DEF Typed, Prof!Cascade
  <2> HIDE DEF new
  <2>2. QED
    BY <1>9, <2>1
<1>12. req' \in [Operations -> Prof!Operation]
  <2> HIDE DEF new
  <2>1. QED
    BY <1>1, <1>9, <1>10 DEF Typed
<1>13. Keeps
  BY <1>4, LeaveKeeps DEF Prof!Cascade, Keeps
<1>14. Cascades(r)
  <2>1. CASE read.tas = {}
    BY <1>2, <1>7, <1>10, <1>11, <2>1 DEF Cascades
  <2>2. CASE read.tas # {}
    BY <1>2, <1>7, <1>10, <1>11, <2>2 DEF Cascades
  <2>3. QED
    BY <2>1, <2>2
<1>15. Quiet
  BY <1>11, <1>14 DEF Quiet
<1>16. Typed'
  BY <1>1, <1>11, <1>12 DEF Typed
<1>17. Served(req[r])'
  BY <1>10, <1>11 DEF Served
<1>18. QED
  BY <1>11, <1>13, <1>15, <1>16, <1>17, RestServed DEF Keeps

LEMMA TellIsQuiet ==
  ASSUME RolesInv, NEW r \in Operations, Prof!Tell(r)
  PROVE  Quiet /\ Keeps /\ Typed' /\ \A o \in Operations : Served(req[o])'
<1> DEFINE q == req[r]
<1>1. /\ Typed /\ q \in Prof!Operation /\ Roles(q) /\ Prof!Doing(r, "tell") /\ q.op # "none" /\ q.op \in Prof!Kinds
  BY DEF RolesInv, Typed, Prof!Tell, Prof!Doing, Prof!Operation
<1>2. q.op \in Rostering /\ q.at = 6
  BY <1>1, Positions
<1>3. PICK a \in q.tell : \E read \in Prof!Read(r, a) :
        req' = [req EXCEPT ![r] = Prof!After([@ EXCEPT !.a = a, !.tell = req[r].tell \ {a}, !.held[a] = read])]
  BY DEF Prof!Tell
<1>4. PICK read \in Prof!Read(r, a) : req' = [req EXCEPT ![r] = Prof!After([@ EXCEPT !.a = a, !.tell = req[r].tell \ {a}, !.held[a] = read])]
  BY <1>3
<1>5. a \in Assistants /\ a \in Prof!People /\ q.s \in Students /\ q.t \in Teachers
  BY <1>1, <1>2 DEF Roles, Prof!Operation, Prof!People
<1>6. read \in Prof!Profile
  BY <1>1, <1>5, ReadIsTyped
<1> DEFINE h == [q.held EXCEPT ![a] = read]   rest == q.tell \ {a}
           one == [q EXCEPT !.a = a]   two == [one EXCEPT !.tell = rest]   three == [two EXCEPT !.held = h]
<1>7. h \in [Prof!People -> Prof!Profile] /\ rest \in SUBSET Assistants
  BY <1>1, <1>6 DEF Prof!Operation
<1>8. one \in Prof!Operation /\ Same(q, one) /\ one.at = 6 /\ one.a = a /\ one.tell = q.tell /\ one.held = q.held
  BY <1>1, <1>2, <1>5 DEF Prof!Operation, Same
<1>9. req' = [req EXCEPT ![r] = Prof!After(three)]
  <2>1. two.held = q.held
    BY <1>1 DEF Prof!Operation
  <2>2. three = [q EXCEPT !.a = a, !.tell = q.tell \ {a}, !.held[a] = read]
    BY <2>1
  <2>3. QED
    BY <1>4, <2>2
<1> HIDE DEF one, h, rest
<1>10. two \in Prof!Operation /\ Same(q, two) /\ two.at = 6 /\ two.a = a /\ two.tell = rest
  BY <1>7, <1>8 DEF Prof!Operation, Same
<1> HIDE DEF two
<1>11. three \in Prof!Operation /\ Same(q, three) /\ three.at = 6 /\ three.a = a /\ three.tell = rest
  BY <1>7, <1>10 DEF Prof!Operation, Same
<1> HIDE DEF three
<1>12. Len(Prof!Program(three.op)) = 7
  BY <1>2, <1>11, AddingProgram, RemovalProgram DEF Same, Rostering
<1>13. Prof!After(three) = [three EXCEPT !.at = @ + 1]
  BY <1>11, <1>12 DEF Prof!After
<1> DEFINE new == Prof!After(three)
<1>14. new \in Prof!Operation /\ Same(q, new) /\ new.at = 7 /\ new.tell = rest /\ new.a = a
  BY <1>11, <1>13 DEF Prof!Operation, Same
<1>15. req' = [req EXCEPT ![r] = new]
  BY <1>9
<1> HIDE DEF new
<1>16. Roles(new) /\ new.op # "assign_supervised"
  BY <1>2, <1>5, <1>14 DEF Roles, Same, Rostering, Adding
<1>17. req'[r] = new /\ (\A o \in Operations \ {r} : req'[o] = req[o]) /\ profile' = profile /\ row' = row
  BY <1>1, <1>15 DEF Typed, Prof!Tell
<1>18. Keeps
  BY LeaveKeeps DEF Prof!Tell, Keeps
<1>19. TellsOne(r)
  BY <1>2, <1>14, <1>17 DEF TellsOne, rest
<1>20. Quiet
  BY <1>17, <1>19 DEF Quiet
<1>21. Typed'
  BY <1>1, <1>14, <1>15, <1>17 DEF Typed
<1>22. Served(req[r])'
  BY <1>16, <1>17 DEF Served
<1>23. QED
  BY <1>17, <1>18, <1>20, <1>21, <1>22, RestServed DEF Keeps

LEMMA SupervisorIsQuiet ==
  ASSUME RolesInv, NEW r \in Operations, Prof!Supervisor(r)
  PROVE  Quiet /\ Keeps /\ Typed' /\ \A o \in Operations : Served(req[o])'
<1> DEFINE q == req[r]   copies == q.held   t == copies[q.a].supervisor   new == Prof!Supervised(q, t)
<1>1. /\ Typed /\ q \in Prof!Operation /\ Roles(q) /\ Prof!Doing(r, "supervisor") /\ q.op # "none" /\ q.op \in Prof!Kinds
  BY DEF RolesInv, Typed, Prof!Supervisor, Prof!Doing, Prof!Operation
<1>2. q.op \in {"assign_ta", "request_by_assistant"} /\ q.s \in Students /\ q.a \in Assistants
  BY <1>1, Positions DEF Roles
<1>3. /\ copies \in [Prof!People -> Prof!Profile] /\ t \in Teachers \cup {NoOne} /\ q.s \in Prof!People /\ q.a \in Prof!People
      /\ NoOne \notin Teachers
  BY <1>1, <1>2, PeopleAssumption DEF Prof!Operation, Prof!Profile, Prof!People, Prof!PeopleAssumption
<1>4. /\ req' = [req EXCEPT ![r] = new]
      /\ uncascaded' = IF q.op = "assign_ta" /\ t # NoOne THEN uncascaded \cup {t} ELSE uncascaded
      /\ profile' = profile /\ row' = row
  BY DEF Prof!Supervisor
<1> HIDE DEF copies, t
<1>5. Keeps
  BY <1>4, LeaveKeeps DEF Prof!Supervisor, Keeps
<1>6. new \in Prof!Operation /\ Roles(new) /\ new.at = 1 /\ (new.op = "assign_supervised" => new.t \in uncascaded')
  <2>1. CASE q.op = "assign_ta" /\ t # NoOne
    <3>1. new = Prof!Begin("assign_supervised", q.s, t, q.a, NoOne, copies)
      BY <2>1 DEF Prof!Supervised, copies
    <3> HIDE DEF new
    <3>2. /\ new \in Prof!Operation /\ new.op = "assign_supervised" /\ new.at = 1 /\ new.tell = {}
          /\ new.s = q.s /\ new.t = t /\ new.a = q.a
      BY <1>2, <1>3, <3>1 DEF Prof!Begin, Prof!Operation, Prof!Kinds
    <3>3. QED
      BY <1>2, <1>3, <1>4, <2>1, <3>2 DEF Roles, Rostering, Adding
  <2>2. CASE q.op = "assign_ta" /\ t = NoOne
    <3>1. new = Prof!Begin("assign_alone", q.s, NoOne, q.a, NoOne, copies)
      BY <2>2 DEF Prof!Supervised, copies
    <3> HIDE DEF new
    <3>2. /\ new \in Prof!Operation /\ new.op = "assign_alone" /\ new.at = 1 /\ new.tell = {}
          /\ new.s = q.s /\ new.a = q.a
      BY <1>2, <1>3, <3>1 DEF Prof!Begin, Prof!Operation, Prof!Kinds
    <3>3. QED
      BY <1>2, <3>2 DEF Roles, Rostering, Adding
  <2>3. CASE q.op # "assign_ta" /\ t # NoOne
    <3>1. new = Prof!Begin("request_teacher_assignment", q.s, t, NoOne, NoOne, copies)
      BY <2>3 DEF Prof!Supervised, copies
    <3> HIDE DEF new
    <3>2. /\ new \in Prof!Operation /\ new.op = "request_teacher_assignment" /\ new.at = 1 /\ new.tell = {}
          /\ new.s = q.s /\ new.t = t /\ new.a = NoOne
      BY <1>2, <1>3, <3>1 DEF Prof!Begin, Prof!Operation, Prof!Kinds
    <3>3. QED
      BY <1>2, <1>3, <2>3, <3>2 DEF Roles, Rostering, Adding
  <2>4. CASE q.op # "assign_ta" /\ t = NoOne
    <3>1. new = Prof!Begin("request_alone", q.s, NoOne, q.a, NoOne, copies)
      BY <2>4 DEF Prof!Supervised, copies
    <3> HIDE DEF new
    <3>2. /\ new \in Prof!Operation /\ new.op = "request_alone" /\ new.at = 1 /\ new.tell = {}
          /\ new.s = q.s /\ new.a = q.a
      BY <1>2, <1>3, <3>1 DEF Prof!Begin, Prof!Operation, Prof!Kinds
    <3>3. QED
      BY <1>2, <3>2 DEF Roles, Rostering, Adding
  <2>5. QED
    BY <2>1, <2>2, <2>3, <2>4
<1> HIDE DEF new
<1>7. req'[r] = new /\ (\A o \in Operations \ {r} : req'[o] = req[o]) /\ req' \in [Operations -> Prof!Operation]
  BY <1>1, <1>4, <1>6 DEF Typed
<1>8. Quiet
  BY <1>2, <1>4, <1>6, <1>7 DEF Quiet, Starts
<1>9. Typed'
  BY <1>1, <1>4, <1>7 DEF Typed
<1>10. Served(req[r])'
  BY <1>6, <1>7 DEF Served
<1>11. QED
  BY <1>5, <1>7, <1>8, <1>9, <1>10, RestServed DEF Keeps

LEMMA ArrivalIsQuiet ==
  ASSUME RolesInv, NEW r \in Operations, NEW op \in Prof!Kinds \ {"assign_supervised"},
         NEW s \in Prof!People \cup {NoOne}, NEW t \in Teachers \cup {NoOne}, NEW a \in Assistants \cup {NoOne},
         NEW g \in Guardians \cup {NoOne}, Prof!Arrive(r, op, s, t, a, g), Roles(Prof!Begin(op, s, t, a, g, Prof!Nothing))
  PROVE  Quiet /\ Keeps /\ Typed' /\ \A o \in Operations : Served(req[o])'
<1> DEFINE new == Prof!Begin(op, s, t, a, g, Prof!Nothing)
<1>1. Typed /\ req[r].op = "none" /\ profile' = profile /\ row' = row /\ uncascaded' = uncascaded
  BY DEF RolesInv, Typed, Prof!Arrive
<1>2. Prof!Nothing \in [Prof!People -> Prof!Profile]
  BY EmptyIsTyped DEF Prof!Nothing
<1>3. new \in Prof!Operation /\ new.op = op /\ new.at = 1
  BY <1>2 DEF Prof!Begin, Prof!Operation
<1>4. req' = [req EXCEPT ![r] = new]
  BY DEF Prof!Arrive
<1> HIDE DEF new
<1>5. req'[r] = new /\ (\A o \in Operations \ {r} : req'[o] = req[o]) /\ req' \in [Operations -> Prof!Operation]
  BY <1>1, <1>3, <1>4 DEF Typed
<1>6. Keeps
  BY <1>1, LeaveKeeps DEF Prof!Arrive, Keeps
<1>7. Quiet
  BY <1>1, <1>3, <1>5 DEF Quiet, Starts
<1>8. Typed'
  BY <1>1, <1>5 DEF Typed
<1>9. Served(req[r])'
  BY <1>3, <1>5 DEF Served, new
<1>10. QED
  BY <1>5, <1>6, <1>7, <1>8, <1>9, RestServed DEF Keeps

LEMMA StartingRoles ==
  ASSUME NEW held
  PROVE  /\ \A op \in Rostering, s \in Students, t \in Teachers : Roles(Prof!Begin(op, s, t, NoOne, NoOne, held))
         /\ \A op \in {"assign_ta", "request_by_assistant"}, s \in Students, a \in Assistants :
              Roles(Prof!Begin(op, s, NoOne, a, NoOne, held))
         /\ \A a \in Assistants, t \in Teachers : Roles(Prof!Begin("request_ta_assignment", NoOne, t, a, NoOne, held))
         /\ \A s \in Students, g \in Guardians : Roles(Prof!Begin("assign_guardian", s, NoOne, NoOne, g, held))
         /\ \A op \in {"switch_active_module", "turn"}, s \in Prof!People : Roles(Prof!Begin(op, s, NoOne, NoOne, NoOne, held))
BY DEF Prof!Begin, Roles, Rostering, Adding

LEMMA ServeIsQuiet ==
  ASSUME RolesInv, NEW r \in Operations, Prof!Serve(r)
  PROVE  Quiet /\ Keeps /\ Typed' /\ \A o \in Operations : Served(req[o])'
<1> USE DEF Prof!People, Prof!Kinds
<1>1. CASE \E s \in Students, t \in Teachers : Prof!assign_student(r, s, t) \/ Prof!remove_student(r, s, t)
  <2>1. PICK s \in Students, t \in Teachers : Prof!assign_student(r, s, t) \/ Prof!remove_student(r, s, t)
    BY <1>1
  <2>2. PICK op \in Rostering : Prof!Arrive(r, op, s, t, NoOne, NoOne)
    BY <2>1 DEF Prof!assign_student, Prof!remove_student, Rostering, Adding
  <2>3. QED
    BY <2>2, ArrivalIsQuiet, StartingRoles DEF Rostering, Adding
<1>2. CASE \E s \in Students, who \in Teachers \cup Assistants : Prof!request_teacher_assignment(r, s, who)
  <2>1. PICK s \in Students, who \in Teachers \cup Assistants : Prof!request_teacher_assignment(r, s, who)
    BY <1>2
  <2>2. CASE who \in Teachers
    <3>1. Prof!Arrive(r, "request_teacher_assignment", s, who, NoOne, NoOne)
      BY <2>1, <2>2 DEF Prof!request_teacher_assignment
    <3>2. QED
      BY <2>2, <3>1, ArrivalIsQuiet, StartingRoles DEF Rostering, Adding
  <2>3. CASE who \notin Teachers
    <3>1. Prof!Arrive(r, "request_by_assistant", s, NoOne, who, NoOne) /\ who \in Assistants
      BY <2>1, <2>3 DEF Prof!request_teacher_assignment
    <3>2. QED
      BY <3>1, ArrivalIsQuiet, StartingRoles
  <2>4. QED
    BY <2>2, <2>3
<1>3. CASE \E a \in Assistants, s \in Students : Prof!assign_ta(r, a, s)
  <2>1. PICK a \in Assistants, s \in Students : Prof!Arrive(r, "assign_ta", s, NoOne, a, NoOne)
    BY <1>3 DEF Prof!assign_ta
  <2>2. QED
    BY <2>1, ArrivalIsQuiet, StartingRoles
<1>4. CASE \E a \in Assistants, t \in Teachers : Prof!request_ta_assignment(r, a, t)
  <2>1. PICK a \in Assistants, t \in Teachers : Prof!Arrive(r, "request_ta_assignment", NoOne, t, a, NoOne)
    BY <1>4 DEF Prof!request_ta_assignment
  <2>2. QED
    BY <2>1, ArrivalIsQuiet, StartingRoles
<1>5. CASE \E s \in Students, g \in Guardians : Prof!assign_guardian(r, s, g)
  <2>1. PICK s \in Students, g \in Guardians : Prof!Arrive(r, "assign_guardian", s, NoOne, NoOne, g)
    BY <1>5 DEF Prof!assign_guardian
  <2>2. QED
    BY <2>1, ArrivalIsQuiet, StartingRoles
<1>6. CASE (\E s \in Students : Prof!switch_active_module(r, s)) \/ (\E p \in Students \cup Teachers : Prof!Turn(r, p))
  <2>1. PICK s \in Prof!People, op \in {"switch_active_module", "turn"} : Prof!Arrive(r, op, s, NoOne, NoOne, NoOne)
    BY <1>6 DEF Prof!switch_active_module, Prof!Turn
  <2>2. QED
    BY <2>1, ArrivalIsQuiet, StartingRoles
<1>7. QED
  BY <1>1, <1>2, <1>3, <1>4, <1>5, <1>6 DEF Prof!Serve

LEMMA StopIsQuiet ==
  ASSUME RolesInv, (\E r \in Operations : Prof!CutShort(r)) \/ Prof!Restart
  PROVE  Quiet /\ Keeps /\ Typed' /\ \A o \in Operations : Served(req[o])'
<1>1. Typed /\ Roles(Prof!Idle) /\ Prof!Idle \in Prof!Operation /\ Prof!Idle.op = "none"
  BY IdleIsTyped DEF RolesInv, Typed
<1>2. CASE \E r \in Operations : Prof!CutShort(r)
  <2>1. PICK r \in Operations : Prof!CutShort(r)
    BY <1>2
  <2>2. /\ req' = [req EXCEPT ![r] = Prof!Idle] /\ Prof!Leave(Prof!Involved(r))
        /\ profile' = profile /\ row' = row /\ uncascaded' = uncascaded
    BY <2>1 DEF Prof!CutShort
  <2>3. req'[r] = Prof!Idle /\ (\A o \in Operations \ {r} : req'[o] = req[o]) /\ req' \in [Operations -> Prof!Operation]
    BY <1>1, <2>2 DEF Typed
  <2>4. Keeps /\ Prof!Involved(r) \subseteq spoilt'
    BY <2>2, LeaveKeeps DEF Keeps
  <2>5. Quiet
    BY <1>1, <2>2, <2>3, <2>4 DEF Quiet, Ends
  <2>6. Typed'
    BY <1>1, <2>2, <2>3 DEF Typed
  <2>7. Served(req[r])'
    BY <1>1, <2>3 DEF Served
  <2>8. QED
    BY <2>3, <2>4, <2>5, <2>6, <2>7, RestServed DEF Keeps
<1>3. CASE Prof!Restart
  <2>1. /\ req' = [r \in Operations |-> Prof!Idle] /\ Prof!Leave(UNION {Prof!Involved(r) : r \in Prof!Busy})
        /\ profile' = profile /\ row' = row /\ uncascaded' = uncascaded
    BY <1>3 DEF Prof!Restart
  <2>2. (\A o \in Operations : req'[o] = Prof!Idle) /\ req' \in [Operations -> Prof!Operation]
    BY <1>1, <2>1
  <2>3. Keeps /\ UNION {Prof!Involved(r) : r \in Prof!Busy} \subseteq spoilt'
    BY <2>1, LeaveKeeps DEF Keeps
  <2>4. \A o \in Operations : Ends(o)
    BY <1>1, <2>2, <2>3 DEF Ends, Prof!Busy
  <2>5. Quiet
    BY <2>1, <2>4 DEF Quiet
  <2>6. Typed'
    BY <1>1, <2>1, <2>2 DEF Typed
  <2>7. \A o \in Operations : Served(req[o])'
    BY <1>1, <2>2 DEF Served
  <2>8. QED
    BY <2>3, <2>5, <2>6, <2>7
<1>4. QED
  BY <1>2, <1>3

(* Every step is a save or skips one, or leaves the profiles alone.         *)
LEMMA ProfileSteps ==
  ASSUME RolesInv, Prof!Next \/ Prof!Restart
  PROVE  ((\E r \in Operations : Effect(r)) \/ Quiet) /\ Keeps /\ RolesInv'
<1>1. Keeps /\ Typed' /\ (\A o \in Operations : Served(req[o])') => RolesInv'
  BY DEF RolesInv, Keeps, Typed, Served
<1>2. ASSUME NEW r \in Operations, Prof!SaveProfile(r) \/ Prof!SkipSave(r) PROVE Effect(r) /\ Keeps /\ RolesInv'
  <2>1. Effect(r) /\ Keeps /\ Typed' /\ Roles(req'[r])
    BY <1>2, SavesAreEffects
  <2>2. Served(req[r])'
    <3>1. req'[r].op = "assign_supervised" => req[r].op = "assign_supervised" /\ req'[r].t = req[r].t
      BY <2>1 DEF Effect, GoesOn, Same
    <3>2. QED
      BY <2>1, <3>1 DEF Served, RolesInv, Keeps
  <2>3. \A o \in Operations : Served(req[o])'
    BY <2>1, <2>2, RestServed DEF Effect, Keeps
  <2>4. QED
    BY <1>1, <2>1, <2>3
<1>3. ASSUME NEW r \in Operations, Prof!Serve(r) \/ Prof!LoadProfile(r) \/ Prof!Cascade(r) \/ Prof!Tell(r) \/ Prof!Supervisor(r)
      PROVE  Quiet /\ Keeps /\ RolesInv'
  BY <1>1, <1>3, ServeIsQuiet, LoadIsQuiet, CascadeIsQuiet, TellIsQuiet, SupervisorIsQuiet
<1>4. (\E r \in Operations : Prof!CutShort(r)) \/ Prof!Restart => Quiet /\ Keeps /\ RolesInv'
  BY <1>1, StopIsQuiet
<1>5. QED
  BY <1>2, <1>3, <1>4 DEF Prof!Next

(* Two operations which have two people in common have spoilt them.         *)
LEMMA OverlapsSpoil ==
  ASSUME RolesInv, NEW q \in Operations, NEW r \in Operations, q # r, req[q].op # "none", req[r].op # "none",
         NEW x \in Prof!People, NEW y \in Prof!People, x # y, {x, y} \subseteq Prof!Involved(q), {x, y} \subseteq Prof!Involved(r)
  PROVE  x \in spoilt /\ y \in spoilt
<1>1. q \in Prof!Busy /\ r \in Prof!Busy
  BY DEF Prof!Busy
<1>2. x \in Prof!Common(q, r) /\ y \in Prof!Common(q, r)
  BY DEF Prof!Common
<1>3. x \in Prof!Overlap /\ y \in Prof!Overlap
  BY <1>1, <1>2 DEF Prof!Overlap
<1>4. QED
  BY <1>3 DEF RolesInv

(* What becomes of a student's teacher and of a teacher's roster.           *)
LEMMA TeacherChanges ==
  ASSUME RolesInv, NEW r \in Operations, Effect(r), NEW s \in Students, s \notin spoilt'
  PROVE  LET q == req[r] c == Prof!Change(r) IN
         \/ profile'[s].teacher = profile[s].teacher
         \/ c = "teacher" /\ q.s = s /\ profile'[s].teacher = q.t
         \/ c = "no_teacher" /\ q.s = s /\ profile'[s].teacher = NoOne
<1>1. CASE s = Prof!Who(r)
  BY <1>1 DEF Effect, Deed, Becomes
<1>2. CASE s # Prof!Who(r)
  BY <1>2 DEF Effect, Prof!People
<1>3. QED
  BY <1>1, <1>2

LEMMA RosterChanges ==
  ASSUME RolesInv, NEW r \in Operations, Effect(r), NEW t \in Teachers, t \notin spoilt', NEW s \in Students
  PROVE  LET q == req[r] c == Prof!Change(r) IN
         \/ s \in profile'[t].students <=> s \in profile[t].students
         \/ c = "add_student" /\ q.t = t /\ q.s = s /\ Prof!Who(r) = t /\ s \in profile'[t].students
         \/ c = "drop_student" /\ q.t = t /\ q.s = s /\ Prof!Who(r) = t /\ s \notin profile'[t].students
<1>1. CASE t = Prof!Who(r)
  <2>1. Becomes(r, profile[t], profile'[t]) /\ Deed(r)
    BY <1>1 DEF Effect
  <2>2. t \notin Assistants
    BY PeopleAssumption DEF Prof!PeopleAssumption
  <2>3. Prof!Change(r) # "supervised"
    BY <1>1, <2>1, <2>2 DEF Deed
  <2>4. CASE Prof!Change(r) = "add_student"
    BY <1>1, <2>1, <2>2, <2>4 DEF Deed, Becomes
  <2>5. CASE Prof!Change(r) = "drop_student"
    BY <1>1, <2>1, <2>2, <2>5 DEF Deed, Becomes
  <2>6. QED
    BY <2>1, <2>3, <2>4, <2>5 DEF Becomes
<1>2. CASE t # Prof!Who(r)
  BY <1>2 DEF Effect, Prof!People
<1>3. QED
  BY <1>1, <1>2

LEMMA InvolvesRoles ==
  ASSUME NEW r \in Operations
  PROVE  /\ req[r].s \in Prof!People => req[r].s \in Prof!Involved(r)
         /\ req[r].t \in Prof!People => req[r].t \in Prof!Involved(r)
         /\ req[r].a \in Prof!People => req[r].a \in Prof!Involved(r)
         /\ req[r].g \in Prof!People => req[r].g \in Prof!Involved(r)
         /\ req[r].tell \subseteq Prof!Involved(r)
BY DEF Prof!Involved

LEMMA PairOverlap ==
  ASSUME RolesInv, NEW q \in Operations, NEW r \in Operations, q # r, req[q].op # "none", req[r].op # "none",
         NEW s \in Students, NEW t \in Teachers, req[q].s = s, req[r].s = s, req[q].t = t, req[r].t = t
  PROVE  s \in spoilt /\ t \in spoilt
<1>1. s \in Prof!People /\ t \in Prof!People /\ s # t
  BY PeopleAssumption DEF Prof!People, Prof!PeopleAssumption
<1>2. {s, t} \subseteq Prof!Involved(q) /\ {s, t} \subseteq Prof!Involved(r)
  BY <1>1, InvolvesRoles
<1>3. QED
  BY <1>1, <1>2, OverlapsSpoil

(* While a removal has saved the student, another teacher is the student's, *)
(* and the roster of an assistant's supervisor has the student first.       *)
Removes(r) == req[r].op = "remove_student" /\ req[r].at >= 3
Places(r) == req[r].op = "assign_supervised" /\ req[r].at >= 3
Spoilt(r) == req[r].s \in spoilt \/ req[r].t \in spoilt

LEMMA PairSteps ==
  ASSUME RolesInv, PairInv, NEW r \in Operations, Effect(r), Keeps
  PROVE  PairInv'
<1> DEFINE q == req[r]   c == Prof!Change(r)
<1>1. Deed(r) /\ Placed(r) /\ GoesOn(q, req'[r]) /\ Roles(q) /\ spoilt \subseteq spoilt' /\ \A o \in Operations \ {r} : req'[o] = req[o]
  BY DEF Effect, Keeps, RolesInv
<1>2. q.at \in Nat
  BY DEF RolesInv, Prof!Operation
<1>3. ASSUME NEW s \in Students, NEW t \in Teachers, s \notin spoilt', t \notin spoilt', profile'[s].teacher = t
      PROVE  s \in profile'[t].students \/ \E o \in Operations : Adds(o, s, t)'
  <2>1. t # NoOne /\ s \notin spoilt /\ t \notin spoilt
    BY <1>1, <1>3, PeopleAssumption DEF Prof!PeopleAssumption, Prof!People
  <2>2. CASE c = "teacher" /\ q.s = s /\ q.t = t
    <3>1. CASE q.op \in Adding /\ q.at = 2
      <4>1. Same(q, req'[r]) /\ req'[r].at = 3
        BY <1>1, <3>1 DEF GoesOn, Rostering
      <4>2. Adds(r, s, t)'
        BY <2>2, <3>1, <4>1 DEF Adds, Same
      <4>3. QED
        BY <4>2
    <3>2. CASE q.op = "assign_supervised" /\ q.at = 4
      <4>1. s \in profile[t].students
        BY <2>1, <2>2, <3>2 DEF PairInv
      <4>2. QED
        BY <2>2, <4>1, <1>3, RosterChanges
    <3>3. QED
      BY <1>1, <2>2, <3>1, <3>2 DEF Deed
  <2>3. CASE ~(c = "teacher" /\ q.s = s /\ q.t = t)
    <3>1. profile[s].teacher = t
      BY <1>3, <2>1, <2>3, TeacherChanges
    <3>2. CASE s \in profile[t].students
      <4>1. ASSUME c = "drop_student", q.t = t, q.s = s, Prof!Who(r) = t PROVE FALSE
        <5>1. q.op = "remove_student" /\ q.at = 4
          <6>1. t \notin Assistants
            BY PeopleAssumption DEF Prof!PeopleAssumption
          <6>2. QED
            BY <1>1, <4>1, <6>1 DEF Deed
        <5>2. QED
          BY <2>1, <3>1, <4>1, <5>1 DEF PairInv
      <4>2. QED
        BY <1>3, <3>2, <4>1, RosterChanges
    <3>3. CASE \E o \in Operations : Adds(o, s, t)
      <4>1. PICK o \in Operations : Adds(o, s, t)
        BY <3>3
      <4>2. CASE o # r
        BY <1>1, <4>1, <4>2 DEF Adds
      <4>3. CASE o = r /\ q.at = 3
        <5>1. Same(q, req'[r]) /\ req'[r].at = 4
          BY <1>1, <4>1, <4>3 DEF GoesOn, Adds, Rostering
        <5>2. Adds(r, s, t)'
          BY <4>1, <4>3, <5>1 DEF Adds, Same
        <5>3. QED
          BY <5>2
      <4>4. CASE o = r /\ q.at = 4
        <5>1. c = "add_student" /\ Prof!Who(r) = t /\ q.s = s
          BY <1>1, <4>1, <4>4 DEF Adds, Placed
        <5>2. Becomes(r, profile[t], profile'[t])
          BY <1>3, <5>1 DEF Effect
        <5>3. QED
          BY <5>1, <5>2 DEF Becomes
      <4>5. QED
        BY <4>1, <4>2, <4>3, <4>4 DEF Adds
    <3>4. QED
      BY <2>1, <3>1, <3>2, <3>3 DEF PairInv
  <2>4. QED
    BY <2>2, <2>3
<1>4. ASSUME NEW o \in Operations, Removes(o)' PROVE profile'[req'[o].s].teacher # req'[o].t \/ Spoilt(o)'
  <2>1. CASE o # r
    <3>1. req'[o] = req[o] /\ Removes(o)
      BY <1>1, <1>4, <2>1 DEF Removes
    <3>2. req[o].s \in Students /\ req[o].t \in Teachers /\ req[o].op # "none"
      BY <3>1 DEF RolesInv, Roles, Removes, Rostering
    <3>3. profile[req[o].s].teacher # req[o].t \/ Spoilt(o)
      BY <3>1 DEF PairInv, Removes, Spoilt
    <3>4. CASE Spoilt(o)
      BY <1>1, <3>1, <3>4 DEF Spoilt
    <3>5. CASE ~Spoilt(o) /\ req[o].s \notin spoilt'
      <4>1. ~(c = "teacher" /\ q.s = req[o].s /\ q.t = req[o].t)
        <5>1. c = "teacher" => q.op # "none"
          BY <1>1 DEF Deed, Adding
        <5>2. QED
          BY <2>1, <3>2, <3>5, <5>1, PairOverlap DEF Spoilt
      <4>2. profile[req[o].s].teacher # req[o].t
        BY <3>3, <3>5
      <4>3. req[o].t # NoOne
        BY <3>2, PeopleAssumption DEF Prof!PeopleAssumption, Prof!People
      <4>4. QED
        BY <3>1, <3>2, <3>5, <4>1, <4>2, <4>3, TeacherChanges
    <3>6. CASE req[o].s \in spoilt'
      BY <3>1, <3>6 DEF Spoilt
    <3>7. QED
      BY <3>4, <3>5, <3>6
  <2>2. CASE o = r
    <3>1. Same(q, req'[r]) /\ q.op = "remove_student" /\ q.at >= 2
      BY <1>1, <1>2, <1>4, <2>2 DEF GoesOn, Removes, Same
    <3>2. q.s \in Students /\ q.t \in Teachers /\ q.t # NoOne
      BY <1>1, <3>1, PeopleAssumption DEF Roles, Rostering, Prof!PeopleAssumption, Prof!People
    <3>3. CASE q.s \in spoilt' \/ q.t \in spoilt'
      BY <2>2, <3>1, <3>3 DEF Spoilt, Same
    <3>4. CASE q.s \notin spoilt' /\ q.t \notin spoilt' /\ q.at = 2
      <4>1. c = "no_teacher" /\ Prof!Who(r) = q.s
        BY <1>1, <3>1, <3>4 DEF Deed, Placed
      <4>2. profile'[q.s].teacher = NoOne
        BY <3>4, <4>1 DEF Effect, Becomes
      <4>3. QED
        BY <2>2, <3>1, <3>2, <4>2 DEF Same
    <3>5. CASE q.s \notin spoilt' /\ q.t \notin spoilt' /\ q.at >= 3
      <4>1. profile[q.s].teacher # q.t
        BY <1>1, <3>1, <3>5 DEF PairInv
      <4>2. c # "teacher"
        BY <1>1, <3>1 DEF Deed, Adding
      <4>3. profile'[q.s].teacher # q.t
        BY <3>2, <3>5, <4>1, <4>2, TeacherChanges
      <4>4. QED
        BY <2>2, <3>1, <4>3 DEF Same
    <3>6. QED
      BY <1>2, <3>1, <3>3, <3>4, <3>5
  <2>3. QED
    BY <2>1, <2>2
<1>5. ASSUME NEW o \in Operations, Places(o)' PROVE req'[o].s \in profile'[req'[o].t].students \/ Spoilt(o)'
  <2>1. CASE o # r
    <3>1. req'[o] = req[o] /\ Places(o)
      BY <1>1, <1>5, <2>1 DEF Places
    <3>2. req[o].s \in Students /\ req[o].t \in Teachers /\ req[o].op # "none"
      BY <3>1 DEF RolesInv, Roles, Places
    <3>3. req[o].s \in profile[req[o].t].students \/ Spoilt(o)
      BY <3>1 DEF PairInv, Places, Spoilt
    <3>4. CASE Spoilt(o) \/ req[o].t \in spoilt'
      BY <1>1, <3>1, <3>4 DEF Spoilt
    <3>5. CASE ~Spoilt(o) /\ req[o].t \notin spoilt'
      <4>1. ~(c = "drop_student" /\ q.s = req[o].s /\ q.t = req[o].t)
        <5>1. c = "drop_student" => q.op # "none"
          BY <1>1 DEF Deed
        <5>2. QED
          BY <2>1, <3>2, <3>5, <5>1, PairOverlap DEF Spoilt
      <4>2. QED
        BY <3>1, <3>2, <3>3, <3>5, <4>1, RosterChanges
    <3>6. QED
      BY <3>4, <3>5
  <2>2. CASE o = r
    <3>1. Same(q, req'[r]) /\ q.op = "assign_supervised" /\ q.at >= 2
      BY <1>1, <1>2, <1>5, <2>2 DEF GoesOn, Places, Same, Rostering, Adding
    <3>2. q.s \in Students /\ q.t \in Teachers
      BY <1>1, <3>1 DEF Roles
    <3>3. CASE q.s \in spoilt' \/ q.t \in spoilt'
      BY <2>2, <3>1, <3>3 DEF Spoilt, Same
    <3>4. CASE q.s \notin spoilt' /\ q.t \notin spoilt' /\ q.at = 2
      <4>1. c = "add_student" /\ Prof!Who(r) = q.t
        BY <1>1, <3>1, <3>4 DEF Placed
      <4>2. q.s \in profile'[q.t].students
        BY <3>4, <4>1 DEF Effect, Becomes
      <4>3. QED
        BY <2>2, <3>1, <4>2 DEF Same
    <3>5. CASE q.s \notin spoilt' /\ q.t \notin spoilt' /\ q.at >= 3
      <4>1. q.s \in profile[q.t].students
        BY <1>1, <3>1, <3>5 DEF PairInv
      <4>2. c # "drop_student"
        BY <1>1, <3>1 DEF Deed
      <4>3. q.s \in profile'[q.t].students
        BY <3>2, <3>5, <4>1, <4>2, RosterChanges
      <4>4. QED
        BY <2>2, <3>1, <4>3 DEF Same
    <3>6. QED
      BY <1>2, <3>1, <3>3, <3>4, <3>5
  <2>3. QED
    BY <2>1, <2>2
<1>6. QED
  BY <1>3, <1>4, <1>5 DEF PairInv, Removes, Places, Spoilt

(* When no profile changes, an operation that is past its third step was so *)
(* before, and one between its two saves stays there, or spoils whom it is  *)
(* about.                                                                   *)
Paired == Rostering \cup {"assign_supervised", "assign_guardian"}

LEMMA QuietLate ==
  ASSUME RolesInv, Quiet, NEW r \in Operations, req'[r].op \in Paired, req'[r].at >= 3
  PROVE  Same(req[r], req'[r]) /\ req[r].at >= 3
<1> DEFINE q == req[r]   new == req'[r]
<1>1. q.at \in Nat /\ Roles(q)
  BY DEF RolesInv, Prof!Operation
<1>2. new.op # "none"
  BY DEF Paired, Rostering, Adding
<1>3. CASE new = q
  BY <1>3 DEF Same
<1>4. CASE Ends(r)
  BY <1>2, <1>4 DEF Ends
<1>5. CASE Loads(r)
  <2>1. Same(q, new) /\ (new.at = q.at + 1 \/ q.at = 7)
    BY <1>2, <1>5 DEF Loads, GoesOn
  <2>2. q.at = 1 \/ q.at = 3
    BY <1>5, <2>1 DEF Loads, Loading, Same, Paired
  <2>3. QED
    BY <1>1, <2>1, <2>2
<1>6. CASE Cascades(r)
  BY <1>2, <1>6 DEF Cascades
<1>7. CASE TellsOne(r)
  BY <1>7 DEF TellsOne
<1>8. CASE Starts(r)
  BY <1>8 DEF Starts
<1>9. QED
  BY <1>3, <1>4, <1>5, <1>6, <1>7, <1>8 DEF Quiet

LEMMA QuietBetween ==
  ASSUME RolesInv, Quiet, NEW r \in Operations, req[r].op \in Rostering \cup {"assign_guardian"}, req[r].at \in {3, 4}
  PROVE  (Same(req[r], req'[r]) /\ req'[r].at \in {3, 4}) \/ Prof!Involved(r) \subseteq spoilt'
<1> DEFINE q == req[r]   new == req'[r]
<1>1. q.op # "none" /\ q.op \notin {"assign_ta", "request_by_assistant"} /\ q.at \in Nat
  BY DEF Rostering, Adding
<1>2. CASE new = q
  BY <1>2 DEF Same
<1>3. CASE Ends(r)
  BY <1>1, <1>3 DEF Ends
<1>4. CASE Loads(r)
  <2>1. q.at = 3
    BY <1>4 DEF Loads, Loading
  <2>2. Same(q, new) /\ new.at = q.at + 1
    <3>1. GoesOn(q, new)
      BY <1>4 DEF Loads
    <3>2. QED
      BY <2>1, <3>1 DEF GoesOn
  <2>3. QED
    BY <2>1, <2>2
<1>5. CASE Cascades(r)
  BY <1>5 DEF Cascades
<1>6. CASE TellsOne(r)
  BY <1>6 DEF TellsOne
<1>7. CASE Starts(r)
  BY <1>1, <1>7 DEF Starts
<1>8. QED
  BY <1>2, <1>3, <1>4, <1>5, <1>6, <1>7 DEF Quiet

LEMMA PairQuiet == ASSUME RolesInv, PairInv, Quiet, Keeps PROVE PairInv'
<1>1. profile' = profile /\ spoilt \subseteq spoilt'
  BY DEF Quiet, Keeps
<1>2. ASSUME NEW s \in Students, NEW t \in Teachers, s \notin spoilt', t \notin spoilt', profile'[s].teacher = t
      PROVE  s \in profile'[t].students \/ \E r \in Operations : Adds(r, s, t)'
  <2>1. s \in profile[t].students \/ \E r \in Operations : Adds(r, s, t)
    BY <1>1, <1>2 DEF PairInv
  <2>2. ASSUME NEW r \in Operations, Adds(r, s, t) PROVE Adds(r, s, t)'
    <3>1. s \in Prof!Involved(r)
      BY <2>2, InvolvesRoles DEF Adds, Prof!People
    <3>2. Same(req[r], req'[r]) /\ req'[r].at \in {3, 4}
      BY <1>2, <2>2, <3>1, QuietBetween DEF Adds, Rostering
    <3>3. QED
      BY <2>2, <3>2 DEF Adds, Same
  <2>3. QED
    BY <1>1, <2>1, <2>2
<1>3. ASSUME NEW r \in Operations, Removes(r)' PROVE profile'[req'[r].s].teacher # req'[r].t \/ Spoilt(r)'
  <2>1. Same(req[r], req'[r]) /\ req[r].at >= 3
    BY <1>3, QuietLate DEF Removes, Paired, Rostering
  <2>2. profile[req[r].s].teacher # req[r].t \/ Spoilt(r)
    BY <1>3, <2>1 DEF PairInv, Removes, Same, Spoilt
  <2>3. QED
    BY <1>1, <2>1, <2>2 DEF Spoilt, Same
<1>4. ASSUME NEW r \in Operations, Places(r)' PROVE req'[r].s \in profile'[req'[r].t].students \/ Spoilt(r)'
  <2>1. Same(req[r], req'[r]) /\ req[r].at >= 3
    BY <1>4, QuietLate DEF Places, Paired
  <2>2. req[r].s \in profile[req[r].t].students \/ Spoilt(r)
    BY <1>4, <2>1 DEF PairInv, Places, Same, Spoilt
  <2>3. QED
    BY <1>1, <2>1, <2>2 DEF Spoilt, Same
<1>5. QED
  BY <1>2, <1>3, <1>4 DEF PairInv, Removes, Places, Spoilt

(* A student's guardians and a guardian's children only grow, and only by   *)
(* one assignment's two saves.                                              *)
LEMMA GuardianChanges ==
  ASSUME RolesInv, NEW r \in Operations, Effect(r), NEW s \in Students, s \notin spoilt', NEW g \in Guardians
  PROVE  LET q == req[r] IN
         \/ g \in profile'[s].guardians <=> g \in profile[s].guardians
         \/ Prof!Change(r) = "add_guardian" /\ q.s = s /\ q.g = g /\ g \in profile'[s].guardians
<1>1. CASE s = Prof!Who(r)
  <2>1. Becomes(r, profile[s], profile'[s]) /\ Deed(r)
    BY <1>1 DEF Effect
  <2>2. CASE Prof!Change(r) = "add_guardian"
    BY <1>1, <2>1, <2>2 DEF Deed, Becomes
  <2>3. QED
    BY <2>1, <2>2 DEF Becomes
<1>2. CASE s # Prof!Who(r)
  BY <1>2 DEF Effect, Prof!People
<1>3. QED
  BY <1>1, <1>2

LEMMA ChildChanges ==
  ASSUME RolesInv, NEW r \in Operations, Effect(r), NEW g \in Guardians, g \notin spoilt', NEW s \in Students
  PROVE  LET q == req[r] IN
         \/ s \in profile'[g].children <=> s \in profile[g].children
         \/ Prof!Change(r) = "add_child" /\ q.s = s /\ q.g = g /\ s \in profile'[g].children
<1>1. CASE g = Prof!Who(r)
  <2>1. Becomes(r, profile[g], profile'[g]) /\ Deed(r)
    BY <1>1 DEF Effect
  <2>2. CASE Prof!Change(r) = "add_child"
    BY <1>1, <2>1, <2>2 DEF Deed, Becomes
  <2>3. QED
    BY <2>1, <2>2 DEF Becomes
<1>2. CASE g # Prof!Who(r)
  BY <1>2 DEF Effect, Prof!People
<1>3. QED
  BY <1>1, <1>2

Assigns(r) == req[r].op = "assign_guardian" /\ req[r].at >= 3

LEMMA GuardSteps ==
  ASSUME RolesInv, GuardInv, NEW r \in Operations, Effect(r), Keeps
  PROVE  GuardInv'
<1> DEFINE q == req[r]   c == Prof!Change(r)
<1>1. Deed(r) /\ Placed(r) /\ GoesOn(q, req'[r]) /\ Roles(q) /\ spoilt \subseteq spoilt' /\ \A o \in Operations \ {r} : req'[o] = req[o]
  BY DEF Effect, Keeps, RolesInv
<1>2. q.at \in Nat
  BY DEF RolesInv, Prof!Operation
<1>3. ASSUME NEW s \in Students, NEW g \in Guardians, s \notin spoilt', g \notin spoilt'
      PROVE  (g \in profile'[s].guardians <=> s \in profile'[g].children) \/ \E o \in Operations : Guards(o, s, g)'
  <2>1. s \notin spoilt /\ g \notin spoilt
    BY <1>1, <1>3
  <2>2. CASE c = "add_guardian" /\ q.s = s /\ q.g = g
    <3>1. q.op = "assign_guardian" /\ q.at = 2
      BY <1>1, <2>2 DEF Deed
    <3>2. Same(q, req'[r]) /\ req'[r].at = 3
      BY <1>1, <3>1 DEF GoesOn, Rostering, Adding
    <3>3. Guards(r, s, g)'
      BY <2>2, <3>1, <3>2 DEF Guards, Same
    <3>4. QED
      BY <3>3
  <2>3. CASE c = "add_child" /\ q.s = s /\ q.g = g
    <3>1. q.op = "assign_guardian" /\ q.at = 4 /\ Prof!Who(r) = g
      BY <1>1, <2>3 DEF Deed
    <3>2. g \in profile[s].guardians
      BY <2>1, <2>3, <3>1 DEF GuardInv
    <3>3. g \in profile'[s].guardians
      BY <1>3, <3>2, GuardianChanges
    <3>4. s \in profile'[g].children
      BY <1>3, <2>3, <3>1 DEF Effect, Becomes
    <3>5. QED
      BY <3>3, <3>4
  <2>4. CASE ~(c = "add_guardian" /\ q.s = s /\ q.g = g) /\ ~(c = "add_child" /\ q.s = s /\ q.g = g)
    <3>1. g \in profile'[s].guardians <=> g \in profile[s].guardians
      BY <1>3, <2>4, GuardianChanges
    <3>2. s \in profile'[g].children <=> s \in profile[g].children
      BY <1>3, <2>4, ChildChanges
    <3>3. CASE \E o \in Operations : Guards(o, s, g)
      <4>1. PICK o \in Operations : Guards(o, s, g)
        BY <3>3
      <4>2. CASE o # r
        BY <1>1, <4>1, <4>2 DEF Guards
      <4>3. CASE o = r /\ q.at = 3
        <5>1. Same(q, req'[r]) /\ req'[r].at = 4
          BY <1>1, <4>1, <4>3 DEF GoesOn, Guards, Rostering, Adding
        <5>2. Guards(r, s, g)'
          BY <4>1, <4>3, <5>1 DEF Guards, Same
        <5>3. QED
          BY <5>2
      <4>4. CASE o = r /\ q.at = 4
        BY <1>1, <2>4, <4>1, <4>4 DEF Guards, Placed
      <4>5. QED
        BY <4>1, <4>2, <4>3, <4>4 DEF Guards
    <3>4. CASE g \in profile[s].guardians <=> s \in profile[g].children
      BY <3>1, <3>2, <3>4
    <3>5. QED
      BY <2>1, <3>3, <3>4 DEF GuardInv
  <2>5. QED
    BY <2>2, <2>3, <2>4
<1>4. ASSUME NEW o \in Operations, Assigns(o)' PROVE req'[o].g \in profile'[req'[o].s].guardians \/ req'[o].s \in spoilt'
  <2>1. CASE o # r
    <3>1. req'[o] = req[o] /\ Assigns(o)
      BY <1>1, <1>4, <2>1 DEF Assigns
    <3>2. req[o].s \in Students /\ req[o].g \in Guardians
      BY <3>1 DEF RolesInv, Roles, Assigns
    <3>3. req[o].g \in profile[req[o].s].guardians \/ req[o].s \in spoilt
      BY <3>1 DEF GuardInv, Assigns
    <3>4. req[o].g \in profile'[req[o].s].guardians \/ req[o].s \in spoilt'
      BY <1>1, <3>2, <3>3, GuardianChanges
    <3>5. QED
      BY <3>1, <3>4
  <2>2. CASE o = r
    <3>1. Same(q, req'[r]) /\ q.op = "assign_guardian" /\ q.at >= 2
      BY <1>1, <1>2, <1>4, <2>2 DEF GoesOn, Assigns, Same, Rostering, Adding
    <3>2. q.s \in Students /\ q.g \in Guardians
      BY <1>1, <3>1 DEF Roles
    <3>3. CASE q.s \in spoilt'
      BY <2>2, <3>1, <3>3 DEF Same
    <3>4. CASE q.s \notin spoilt' /\ q.at = 2
      <4>1. c = "add_guardian" /\ Prof!Who(r) = q.s
        BY <1>1, <3>1, <3>4 DEF Placed
      <4>2. q.g \in profile'[q.s].guardians
        BY <3>4, <4>1 DEF Effect, Becomes
      <4>3. QED
        BY <2>2, <3>1, <4>2 DEF Same
    <3>5. CASE q.s \notin spoilt' /\ q.at >= 3
      <4>1. q.g \in profile[q.s].guardians
        BY <1>1, <3>1, <3>5 DEF GuardInv
      <4>2. q.g \in profile'[q.s].guardians
        BY <3>2, <3>5, <4>1, GuardianChanges
      <4>3. QED
        BY <2>2, <3>1, <4>2 DEF Same
    <3>6. QED
      BY <1>2, <3>1, <3>3, <3>4, <3>5
  <2>3. QED
    BY <2>1, <2>2
<1>5. QED
  BY <1>3, <1>4 DEF GuardInv, Assigns

LEMMA GuardQuiet == ASSUME RolesInv, GuardInv, Quiet, Keeps PROVE GuardInv'
<1>1. profile' = profile /\ spoilt \subseteq spoilt'
  BY DEF Quiet, Keeps
<1>2. ASSUME NEW s \in Students, NEW g \in Guardians, s \notin spoilt', g \notin spoilt'
      PROVE  (g \in profile'[s].guardians <=> s \in profile'[g].children) \/ \E r \in Operations : Guards(r, s, g)'
  <2>1. (g \in profile[s].guardians <=> s \in profile[g].children) \/ \E r \in Operations : Guards(r, s, g)
    BY <1>1, <1>2 DEF GuardInv
  <2>2. ASSUME NEW r \in Operations, Guards(r, s, g) PROVE Guards(r, s, g)'
    <3>1. s \in Prof!Involved(r)
      BY <2>2, InvolvesRoles DEF Guards, Prof!People
    <3>2. Same(req[r], req'[r]) /\ req'[r].at \in {3, 4}
      BY <1>2, <2>2, <3>1, QuietBetween DEF Guards
    <3>3. QED
      BY <2>2, <3>2 DEF Guards, Same
  <2>3. QED
    BY <1>1, <2>1, <2>2
<1>3. ASSUME NEW r \in Operations, Assigns(r)' PROVE req'[r].g \in profile'[req'[r].s].guardians \/ req'[r].s \in spoilt'
  <2>1. Same(req[r], req'[r]) /\ req[r].at >= 3
    BY <1>3, QuietLate DEF Assigns, Paired
  <2>2. req[r].g \in profile[req[r].s].guardians \/ req[r].s \in spoilt
    BY <1>3, <2>1 DEF GuardInv, Assigns, Same
  <2>3. QED
    BY <1>1, <2>1, <2>2 DEF Same
<1>4. QED
  BY <1>2, <1>3 DEF GuardInv, Assigns

(* A teacher's assistants only grow, and only by the last save of a request *)
(* to join; so does who supervises an assistant change.                     *)
LEMMA TasChanges ==
  ASSUME RolesInv, NEW r \in Operations, Effect(r), NEW t \in Teachers, t \notin spoilt'
  PROVE  profile[t].tas \subseteq profile'[t].tas
<1>1. CASE t = Prof!Who(r)
  <2>1. Becomes(r, profile[t], profile'[t])
    BY <1>1 DEF Effect
  <2>2. QED
    BY <2>1 DEF Becomes
<1>2. CASE t # Prof!Who(r)
  BY <1>2 DEF Effect, Prof!People
<1>3. QED
  BY <1>1, <1>2

LEMMA SupervisorChanges ==
  ASSUME RolesInv, NEW r \in Operations, Effect(r), NEW a \in Assistants, a \notin spoilt'
  PROVE  \/ profile'[a].supervisor = profile[a].supervisor /\ ~(Prof!Change(r) = "supervised" /\ Prof!Who(r) = a)
         \/ Prof!Change(r) = "supervised" /\ Prof!Who(r) = a /\ profile'[a].supervisor = req[r].t
<1>1. CASE a = Prof!Who(r)
  <2>1. Becomes(r, profile[a], profile'[a])
    BY <1>1 DEF Effect
  <2>2. QED
    BY <1>1, <2>1 DEF Becomes
<1>2. CASE a # Prof!Who(r)
  BY <1>2 DEF Effect, Prof!People
<1>3. QED
  BY <1>1, <1>2

(* An assistant's students, but for the copy made as the assistant joins.   *)
LEMMA HelpedChanges ==
  ASSUME RolesInv, NEW r \in Operations, Effect(r), NEW a \in Assistants, a \notin spoilt',
         ~(Prof!Change(r) = "supervised" /\ Prof!Who(r) = a)
  PROVE  /\ profile[a].students \ {req[r].s} \subseteq profile'[a].students
         /\ ~(Prof!Change(r) = "drop_student" /\ Prof!Who(r) = a) => profile[a].students \subseteq profile'[a].students
         /\ Prof!Change(r) = "add_student" /\ Prof!Who(r) = a => req[r].s \in profile'[a].students
<1>1. CASE a = Prof!Who(r)
  <2>1. Becomes(r, profile[a], profile'[a])
    BY <1>1 DEF Effect
  <2>2. CASE Prof!Change(r) = "add_student"
    BY <2>1, <2>2 DEF Becomes
  <2>3. CASE Prof!Change(r) = "drop_student"
    BY <1>1, <2>1, <2>3 DEF Becomes
  <2>4. QED
    BY <1>1, <2>1, <2>2, <2>3 DEF Becomes
<1>2. CASE a # Prof!Who(r)
  BY <1>2 DEF Effect, Prof!People
<1>3. QED
  BY <1>1, <1>2

(* Who is being told, while the roster of the teacher is as it was told.    *)
Telling(q) == q.op \in Rostering /\ q.at >= 6
Dropping(q) == q.op = "remove_student" /\ q.at >= 5
TellInv ==
  \A r \in Operations :
    LET q == req[r] IN
    /\ Telling(q) /\ q.t \notin spoilt => q.tell \subseteq profile[q.t].tas
    /\ Telling(q) /\ q.at = 7 /\ q.t \notin spoilt => q.a \in profile[q.t].tas
    /\ Dropping(q) /\ q.t \notin spoilt => q.s \notin profile[q.t].students

(* What holds of an assistant whose supervisor is t, as they are left.      *)
Helps(a, t) ==
  /\ a \in profile[t].tas \/ \E r \in Operations : Joins(r, a, t)
  /\ \A r \in Operations : Joins(r, a, t) /\ a \notin profile[t].tas => req[r].held[t].students \subseteq profile[a].students
  /\ \A s \in profile[t].students :
       \/ s \in profile[a].students
       \/ \E r \in Operations : Tells(r, a, t, s) \/ (Joins(r, a, t) /\ s \notin req[r].held[t].students)

LEMMA AssistParts ==
  AssistInv <=> TellInv /\ \A a \in Assistants, t \in Teachers : Free(a, t) /\ profile[a].supervisor = t => Helps(a, t)
BY DEF AssistInv, TellInv, Helps, Telling, Dropping

LEMMA TellSteps == ASSUME RolesInv, RolesInv', TellInv, NEW r \in Operations, Effect(r), Keeps PROVE TellInv'
<1> DEFINE q == req[r]   c == Prof!Change(r)
<1>1. /\ Deed(r) /\ Placed(r) /\ GoesOn(q, req'[r]) /\ Roles(q) /\ Roles(req'[r]) /\ spoilt \subseteq spoilt'
      /\ \A o \in Operations \ {r} : req'[o] = req[o]
  BY DEF Effect, Keeps, RolesInv
<1>2. q.at \in Nat
  BY DEF RolesInv, Prof!Operation
<1>3. \A o \in Operations : req[o].op \in Rostering => req[o].s \in Students /\ req[o].t \in Teachers /\ req[o].op # "none"
  BY DEF RolesInv, Roles, Rostering, Adding
<1>4. ASSUME NEW o \in Operations \ {r}, req[o].op \in Rostering, req[o].t \notin spoilt'
      PROVE  /\ profile[req[o].t].tas \subseteq profile'[req[o].t].tas
             /\ req[o].s \notin profile[req[o].t].students => req[o].s \notin profile'[req[o].t].students
  <2>1. profile[req[o].t].tas \subseteq profile'[req[o].t].tas
    BY <1>3, <1>4, TasChanges
  <2>2. ~(c = "add_student" /\ q.t = req[o].t /\ q.s = req[o].s /\ Prof!Who(r) = req[o].t)
    <3>1. c = "add_student" => q.op # "none"
      BY DEF Effect
    <3>2. QED
      BY <1>1, <1>3, <1>4, <3>1, PairOverlap
  <2>3. QED
    BY <1>3, <1>4, <2>1, <2>2, RosterChanges
<1>5. ASSUME Telling(req'[r]) PROVE Same(q, req'[r]) /\ req'[r].tell = q.tell /\ req'[r].at = 6 /\ q.at = 7
  <2>1. req'[r].op \in Rostering /\ req'[r].at \in 6..7 /\ req'[r].op # "none"
    BY <1>1, <1>5 DEF Telling, Roles, Rostering, Adding
  <2>2. Same(q, req'[r]) /\ q.op \in Rostering /\ (q.at = 2 \/ q.at = 4 \/ q.at = 7)
    BY <1>1, <2>1 DEF GoesOn, Same, Placed
  <2>3. QED
    BY <1>1, <2>1, <2>2 DEF GoesOn
<1>6. ASSUME Dropping(req'[r]), q.t \notin spoilt' PROVE Same(q, req'[r]) /\ q.s \notin profile'[q.t].students
  <2>1. req'[r].op = "remove_student" /\ req'[r].at \in 5..7 /\ req'[r].op # "none"
    BY <1>1, <1>6 DEF Dropping, Roles, Rostering
  <2>2. Same(q, req'[r]) /\ q.op = "remove_student" /\ q.op \in Rostering /\ (q.at = 2 \/ q.at = 4 \/ q.at = 7)
    BY <1>1, <2>1 DEF GoesOn, Same, Placed, Rostering
  <2>3. q.s \in Students /\ q.t \in Teachers
    BY <1>3, <2>2
  <2>4. CASE q.at = 4
    <3>1. c = "drop_student" /\ Prof!Who(r) = q.t
      BY <1>1, <2>2, <2>4 DEF Placed
    <3>2. QED
      BY <1>6, <2>2, <3>1 DEF Effect, Becomes
  <2>5. CASE q.at = 7
    <3>1. q.s \notin profile[q.t].students
      BY <1>1, <1>6, <2>2, <2>5 DEF TellInv, Dropping
    <3>2. c # "add_student"
      BY <1>1, <2>2, <2>5 DEF Placed
    <3>3. QED
      BY <1>6, <2>2, <2>3, <3>1, <3>2, RosterChanges
  <2>6. q.at # 2
    BY <1>1, <2>1, <2>2 DEF GoesOn
  <2>7. QED
    BY <2>2, <2>4, <2>5, <2>6
<1>7. ASSUME NEW o \in Operations
      PROVE  LET new == req'[o] IN
             /\ Telling(new) /\ new.t \notin spoilt' => new.tell \subseteq profile'[new.t].tas
             /\ Telling(new) /\ new.at = 7 /\ new.t \notin spoilt' => new.a \in profile'[new.t].tas
             /\ Dropping(new) /\ new.t \notin spoilt' => new.s \notin profile'[new.t].students
  <2>1. CASE o # r
    <3>1. req'[o] = req[o]
      BY <1>1, <2>1
    <3>2. Telling(req[o]) \/ Dropping(req[o]) => req[o].op \in Rostering
      BY DEF Telling, Dropping, Rostering
    <3>3. QED
      BY <1>1, <1>4, <2>1, <3>1, <3>2 DEF TellInv
  <2>2. CASE o = r
    <3>1. ASSUME Telling(req'[r]), q.t \notin spoilt' PROVE q.tell \subseteq profile'[q.t].tas
      <4>1. Same(q, req'[r]) /\ q.at = 7
        BY <1>5, <3>1
      <4>2. Telling(q)
        BY <3>1, <4>1 DEF Telling, Same
      <4>3. q.tell \subseteq profile[q.t].tas
        BY <1>1, <3>1, <4>2 DEF TellInv
      <4>4. QED
        BY <1>3, <3>1, <4>2, <4>3, TasChanges DEF Telling
    <3>2. Telling(req'[r]) => Same(q, req'[r]) /\ req'[r].tell = q.tell /\ req'[r].at = 6
      BY <1>5
    <3>3. Dropping(req'[r]) /\ req'[r].t \notin spoilt' => req'[r].s \notin profile'[req'[r].t].students
      <4>1. SUFFICES ASSUME Dropping(req'[r]), req'[r].t \notin spoilt' PROVE req'[r].s \notin profile'[req'[r].t].students
        OBVIOUS
      <4>2. q.t = req'[r].t
        BY <1>1, <4>1 DEF GoesOn, Same, Dropping
      <4>3. QED
        BY <1>6, <4>1, <4>2 DEF Same
    <3>4. Telling(req'[r]) /\ req'[r].t \notin spoilt' => req'[r].tell \subseteq profile'[req'[r].t].tas
      BY <3>1, <3>2 DEF Same
    <3>5. QED
      BY <2>2, <3>2, <3>3, <3>4
  <2>3. QED
    BY <2>1, <2>2
<1>8. QED
  BY <1>7 DEF TellInv

LEMMA JoinOverlap ==
  ASSUME RolesInv, NEW q \in Operations, NEW r \in Operations, q # r, NEW a \in Assistants, NEW t \in Teachers,
         req[q].op # "none", req[r].op # "none", req[q].a = a, req[r].a = a, req[q].t = t, req[r].t = t
  PROVE  a \in spoilt /\ t \in spoilt
<1>1. a \in Prof!People /\ t \in Prof!People /\ a # t
  BY PeopleAssumption DEF Prof!People, Prof!PeopleAssumption
<1>2. {a, t} \subseteq Prof!Involved(q) /\ {a, t} \subseteq Prof!Involved(r)
  BY <1>1, InvolvesRoles
<1>3. QED
  BY <1>1, <1>2, OverlapsSpoil

LEMMA StepParts ==
  ASSUME RolesInv, NEW r \in Operations, Effect(r), Keeps
  PROVE  /\ Deed(r) /\ Placed(r) /\ GoesOn(req[r], req'[r]) /\ Roles(req[r]) /\ req[r].at \in Nat /\ req[r].op # "none"
         /\ spoilt \subseteq spoilt' /\ uncascaded' = uncascaded
         /\ \A o \in Operations \ {r} : req'[o] = req[o]
BY DEF Effect, Keeps, RolesInv, Prof!Operation

LEMMA FreeBefore ==
  ASSUME RolesInv, NEW r \in Operations, Effect(r), Keeps, NEW a \in Assistants, NEW t \in Teachers, Free(a, t)'
  PROVE  Free(a, t) /\ a \notin spoilt' /\ t \notin spoilt' /\ t \notin uncascaded /\ a # t
<1>1. a \notin spoilt' /\ Teachers \cap spoilt' = {} /\ t \notin uncascaded /\ spoilt \subseteq spoilt'
  BY StepParts DEF Free
<1>2. \A u \in Teachers \ {t} : a \notin profile[u].tas
  <2>1. ASSUME NEW u \in Teachers \ {t} PROVE a \notin profile[u].tas
    <3>1. a \notin profile'[u].tas
      BY DEF Free
    <3>2. QED
      BY <1>1, <3>1, TasChanges
  <2>2. QED
    BY <2>1
<1>3. a # t
  BY PeopleAssumption DEF Prof!PeopleAssumption
<1>4. QED
  BY <1>1, <1>2, <1>3 DEF Free

(* The assistant's profile is saved with the copy of the roster.            *)
LEMMA JoinedHelps ==
  ASSUME RolesInv, NEW r \in Operations, Effect(r), Keeps, NEW a \in Assistants, NEW t \in Teachers, Free(a, t)',
         Prof!Change(r) = "supervised", Prof!Who(r) = a, req[r].t = t
  PROVE  Helps(a, t)'
<1> DEFINE q == req[r]
<1>1. /\ Deed(r) /\ GoesOn(q, req'[r]) /\ \A o \in Operations \ {r} : req'[o] = req[o]
  BY StepParts
<1>2. q.op = "request_ta_assignment" /\ q.at = 3 /\ q.a = a
  BY <1>1 DEF Deed
<1>3. a \notin spoilt' /\ t \notin spoilt' /\ spoilt \subseteq spoilt' /\ a # t
  BY StepParts, FreeBefore
<1>4. Same(q, req'[r]) /\ req'[r].at = 4 /\ req'[r].a = a
  BY <1>1, <1>2 DEF GoesOn
<1>5. Joins(r, a, t)'
  BY <1>2, <1>4 DEF Joins, Same
<1>6. profile'[a].students = q.held[t].students
  BY <1>3 DEF Effect, Becomes
<1>7. req'[r].held[t] = q.held[t]
  <2>1. req'[r].op # "none" /\ t \in Prof!People \ {Prof!Who(r)}
    BY <1>2, <1>3, <1>4 DEF Same, Prof!People
  <2>2. QED
    BY <2>1 DEF Effect
<1>8. ASSUME NEW o \in Operations, Joins(o, a, t)' PROVE o = r
  <2>1. SUFFICES ASSUME o # r PROVE FALSE
    OBVIOUS
  <2>2. Joins(o, a, t)
    BY <1>1, <1>8, <2>1 DEF Joins
  <2>3. a \in spoilt
    BY <1>2, <2>1, <2>2, JoinOverlap DEF Joins
  <2>4. QED
    BY <1>3, <2>3
<1>9. QED
  BY <1>5, <1>6, <1>7, <1>8 DEF Helps

(* Whose student the assistant loses is not on the teacher's roster.        *)
LEMMA DropsOthers ==
  ASSUME RolesInv, TellInv, NEW r \in Operations, Effect(r), Keeps, NEW a \in Assistants, NEW t \in Teachers, Free(a, t)',
         Prof!Change(r) = "drop_student", Prof!Who(r) = a
  PROVE  a \in profile[t].tas /\ req[r].s \notin profile[t].students
<1> DEFINE q == req[r]
<1>1. Deed(r) /\ Roles(q)
  BY StepParts
<1>2. a \notin Teachers
  BY PeopleAssumption DEF Prof!PeopleAssumption
<1>3. q.op = "remove_student" /\ q.at = 7 /\ q.a = a
  BY <1>1, <1>2 DEF Deed
<1>4. q.t \in Teachers /\ Telling(q) /\ Dropping(q)
  BY <1>1, <1>3 DEF Roles, Telling, Dropping, Rostering
<1>5. Free(a, t)
  BY FreeBefore
<1>6. q.t \notin spoilt
  BY <1>4, <1>5 DEF Free
<1>7. a \in profile[q.t].tas /\ q.s \notin profile[q.t].students
  BY <1>3, <1>4, <1>6 DEF TellInv
<1>8. q.t = t
  BY <1>4, <1>5, <1>7 DEF Free
<1>9. QED
  BY <1>7, <1>8

LEMMA TellingStays ==
  ASSUME RolesInv, RolesInv', NEW r \in Operations, Effect(r), Keeps, NEW a \in Assistants, NEW t \in Teachers, Free(a, t)',
         ~(Prof!Change(r) = "supervised" /\ Prof!Who(r) = a),
         NEW s \in Students, NEW o \in Operations, Tells(o, a, t, s)
  PROVE  s \in profile'[a].students \/ Tells(o, a, t, s)'
<1> DEFINE q == req[r]
<1>1. /\ Deed(r) /\ Placed(r) /\ GoesOn(q, req'[r]) /\ q.at \in Nat /\ q.op # "none"
      /\ \A p \in Operations \ {r} : req'[p] = req[p]
  BY StepParts
<1>2. a \notin spoilt' /\ t \notin spoilt' /\ profile[t].tas \subseteq profile'[t].tas
  BY FreeBefore, TasChanges
<1>3. CASE o # r
  BY <1>1, <1>2, <1>3 DEF Tells
<1>4. CASE o = r
  <2>1. q.op \in Adding /\ q.s = s /\ q.t = t /\ q.at = 7
    BY <1>1, <1>4 DEF Tells, Placed, Rostering
  <2>2. Prof!Change(r) = "add_student" /\ Prof!Who(r) = q.a
    BY <1>1, <2>1 DEF Placed
  <2>3. CASE q.a = a
    BY <1>2, <2>1, <2>2, <2>3, HelpedChanges
  <2>4. CASE a \in q.tell
    <3>1. q.tell # {} /\ req'[r].op \in Rostering => req'[r].at \in 1..7
      BY <2>4 DEF RolesInv, Roles
    <3>2. Same(q, req'[r]) /\ req'[r].tell = q.tell /\ req'[r].at = 6
      <4>1. Same(q, req'[r]) /\ req'[r].tell = q.tell /\ (req'[r].at = 8 \/ req'[r].at = 6)
        BY <1>1, <2>1, <2>4 DEF GoesOn, Rostering
      <4>2. QED
        BY <2>1, <2>4, <3>1, <4>1 DEF Same, Rostering
    <3>3. QED
      BY <1>4, <2>1, <2>4, <3>2 DEF Tells, Same
  <2>5. QED
    BY <1>4, <2>1, <2>3, <2>4 DEF Tells
<1>5. QED
  BY <1>3, <1>4

LEMMA HelpStays ==
  ASSUME RolesInv, RolesInv', TellInv, NEW r \in Operations, Effect(r), Keeps, NEW a \in Assistants, NEW t \in Teachers, Free(a, t)',
         Helps(a, t), ~(Prof!Change(r) = "supervised" /\ Prof!Who(r) = a)
  PROVE  Helps(a, t)'
<1> DEFINE q == req[r]   c == Prof!Change(r)
<1>1. /\ Deed(r) /\ Placed(r) /\ GoesOn(q, req'[r]) /\ q.at \in Nat /\ q.op # "none"
      /\ \A o \in Operations \ {r} : req'[o] = req[o]
  BY StepParts
<1>2. a \notin spoilt' /\ t \notin spoilt' /\ a # t /\ t \notin uncascaded
  BY FreeBefore
<1>3. profile[t].tas \subseteq profile'[t].tas
  BY <1>2, TasChanges
<1>4. /\ profile[a].students \ {q.s} \subseteq profile'[a].students
      /\ ~(c = "drop_student" /\ Prof!Who(r) = a) => profile[a].students \subseteq profile'[a].students
  BY <1>2, HelpedChanges
<1>5. c = "drop_student" /\ Prof!Who(r) = a => a \in profile[t].tas /\ q.s \notin profile[t].students
  BY DropsOthers
<1>6. Joins(r, a, t) => /\ a \in profile'[t].tas
                        /\ q.held[t] = profile[t]
  <2>1. SUFFICES ASSUME Joins(r, a, t) PROVE a \in profile'[t].tas /\ q.held[t] = profile[t]
    OBVIOUS
  <2>2. c = "add_ta" /\ Prof!Who(r) = t /\ q.a = a
    BY <1>1, <2>1 DEF Placed, Joins
  <2>3. Becomes(r, profile[t], profile'[t]) /\ q.held[t] = profile[t]
    BY <1>2, <2>2 DEF Effect
  <2>4. QED
    BY <2>2, <2>3 DEF Becomes
<1>7. ASSUME Joins(r, a, t)' PROVE FALSE
  <2>1. Same(q, req'[r]) /\ q.op = "request_ta_assignment" /\ req'[r].a = q.a /\ q.at = 3
    BY <1>1, <1>7 DEF Joins, GoesOn, Same
  <2>2. c = "supervised" /\ Prof!Who(r) = q.a /\ q.a = a
    BY <1>1, <1>7, <2>1 DEF Placed, Joins
  <2>3. QED
    BY <2>2
<1>8. a \in profile'[t].tas \/ \E o \in Operations : Joins(o, a, t)'
  <2>1. CASE a \in profile[t].tas
    BY <1>3, <2>1
  <2>2. CASE \E o \in Operations : Joins(o, a, t)
    <3>1. PICK o \in Operations : Joins(o, a, t)
      BY <2>2
    <3>2. CASE o = r
      BY <1>6, <3>1, <3>2
    <3>3. CASE o # r
      BY <1>1, <3>1, <3>3 DEF Joins
    <3>4. QED
      BY <3>2, <3>3
  <2>3. QED
    BY <2>1, <2>2 DEF Helps
<1>9. ASSUME NEW o \in Operations, Joins(o, a, t)', a \notin profile'[t].tas
      PROVE  req'[o].held[t].students \subseteq profile'[a].students
  <2>1. o # r
    BY <1>7, <1>9
  <2>2. req'[o] = req[o] /\ Joins(o, a, t)
    BY <1>1, <1>9, <2>1 DEF Joins
  <2>3. a \notin profile[t].tas
    BY <1>3, <1>9
  <2>4. req[o].held[t].students \subseteq profile[a].students
    BY <2>2, <2>3 DEF Helps
  <2>5. QED
    BY <1>4, <1>5, <2>2, <2>3, <2>4
<1>10. ASSUME NEW s \in profile'[t].students
       PROVE  \/ s \in profile'[a].students
              \/ \E o \in Operations : Tells(o, a, t, s)' \/ (Joins(o, a, t)' /\ s \notin req'[o].held[t].students)
  <2>1. s \in Students
    BY DEF RolesInv, Prof!Profile, Prof!People
  <2>2. CASE s \in profile[t].students
    <3>1. CASE s \in profile[a].students
      BY <1>4, <1>5, <2>2, <3>1
    <3>2. ASSUME NEW o \in Operations, Tells(o, a, t, s) PROVE s \in profile'[a].students \/ Tells(o, a, t, s)'
      BY <2>1, <3>2, TellingStays
    <3>3. ASSUME NEW o \in Operations, Joins(o, a, t), s \notin req[o].held[t].students
          PROVE  Joins(o, a, t)' /\ s \notin req'[o].held[t].students
      <4>1. o # r
        BY <1>6, <2>2, <3>3
      <4>2. req'[o] = req[o]
        BY <1>1, <4>1
      <4>3. QED
        BY <3>3, <4>2 DEF Joins
    <3>4. \/ s \in profile[a].students
          \/ \E o \in Operations : Tells(o, a, t, s) \/ (Joins(o, a, t) /\ s \notin req[o].held[t].students)
      BY <2>2 DEF Helps
    <3>5. QED
      BY <3>1, <3>2, <3>3, <3>4
  <2>3. CASE s \notin profile[t].students
    <3>1. c = "add_student" /\ q.t = t /\ q.s = s /\ Prof!Who(r) = t
      BY <1>2, <2>1, <2>3, RosterChanges
    <3>2. q.op \in Adding /\ q.at = 4
      <4>1. q.op # "assign_supervised"
        BY <1>2, <3>1 DEF RolesInv
      <4>2. t \notin Assistants
        BY PeopleAssumption DEF Prof!PeopleAssumption
      <4>3. QED
        BY <1>1, <3>1, <4>1, <4>2 DEF Deed
    <3>3. CASE a \in profile'[t].tas
      <4>1. Same(q, req'[r]) /\ req'[r].at = 5
        BY <1>1, <3>2 DEF GoesOn, Rostering
      <4>2. Tells(r, a, t, s)'
        BY <3>1, <3>2, <3>3, <4>1 DEF Tells, Same
      <4>3. QED
        BY <4>2
    <3>4. CASE a \notin profile'[t].tas
      <4>1. a \notin profile[t].tas
        BY <1>3, <3>4
      <4>2. PICK o \in Operations : Joins(o, a, t)
        BY <4>1 DEF Helps
      <4>3. o # r
        BY <3>2, <4>2 DEF Joins, Adding
      <4>4. req'[o] = req[o] /\ Joins(o, a, t)'
        BY <1>1, <4>2, <4>3 DEF Joins
      <4>5. s \in req[o].held[t].students => s \in profile'[a].students
        <5>1. req[o].held[t].students \subseteq profile[a].students
          BY <4>1, <4>2 DEF Helps
        <5>2. QED
          BY <1>4, <1>5, <4>1, <5>1
      <4>6. QED
        BY <4>4, <4>5
    <3>5. QED
      BY <3>3, <3>4
  <2>4. QED
    BY <2>2, <2>3
<1>11. QED
  BY <1>8, <1>9, <1>10 DEF Helps

LEMMA AssistSteps ==
  ASSUME RolesInv, RolesInv', AssistInv, NEW r \in Operations, Effect(r), Keeps
  PROVE  AssistInv'
<1>1. TellInv /\ \A a \in Assistants, t \in Teachers : Free(a, t) /\ profile[a].supervisor = t => Helps(a, t)
  BY AssistParts
<1>2. TellInv'
  BY <1>1, TellSteps
<1>3. ASSUME NEW a \in Assistants, NEW t \in Teachers, Free(a, t)', profile'[a].supervisor = t PROVE Helps(a, t)'
  <2>1. Free(a, t) /\ a \notin spoilt'
    BY <1>3, FreeBefore
  <2>2. CASE Prof!Change(r) = "supervised" /\ Prof!Who(r) = a
    <3>1. req[r].t = t
      BY <1>3, <2>1, <2>2, SupervisorChanges
    <3>2. QED
      BY <1>3, <2>2, <3>1, JoinedHelps
  <2>3. CASE ~(Prof!Change(r) = "supervised" /\ Prof!Who(r) = a)
    <3>1. profile[a].supervisor = t
      BY <1>3, <2>1, <2>3, SupervisorChanges
    <3>2. Helps(a, t)
      BY <1>1, <2>1, <3>1
    <3>3. QED
      BY <1>1, <1>3, <2>3, <3>2, HelpStays
  <2>4. QED
    BY <2>2, <2>3
<1>4. (TellInv /\ \A a \in Assistants, t \in Teachers : Free(a, t) /\ profile[a].supervisor = t => Helps(a, t))'
  BY <1>2, <1>3
<1>5. QED
  BY <1>4 DEF AssistInv, TellInv, Helps, Telling, Dropping

(* When no profile changes, who was being told still is, or has been.       *)
LEMMA TellQuiet == ASSUME RolesInv, RolesInv', TellInv, Quiet, Keeps PROVE TellInv'
<1>1. profile' = profile /\ spoilt \subseteq spoilt'
  BY DEF Quiet, Keeps
<1>2. ASSUME NEW r \in Operations, req'[r].op \in Rostering, req'[r].at >= 5
      PROVE  \/ req'[r] = req[r]
             \/ Same(req[r], req'[r]) /\ req[r].at >= 5 /\ req'[r].tell \subseteq profile[req[r].t].tas /\ req'[r].at = 6
             \/ TellsOne(r)
  <2>1. req'[r].op # "none" /\ req[r].at \in Nat
    BY <1>2 DEF Rostering, Adding, RolesInv, Prof!Operation
  <2>2. CASE Ends(r)
    BY <2>1, <2>2 DEF Ends
  <2>3. CASE Loads(r)
    <3>1. Same(req[r], req'[r]) /\ (req'[r].at = req[r].at + 1 \/ req[r].at = 7)
      BY <2>1, <2>3 DEF Loads, GoesOn
    <3>2. req[r].at = 1 \/ req[r].at = 3
      BY <1>2, <2>3, <3>1 DEF Loads, Loading, Same
    <3>3. QED
      BY <1>2, <3>1, <3>2
  <2>4. CASE Cascades(r)
    BY <2>1, <2>4 DEF Cascades
  <2>5. CASE Starts(r)
    BY <1>2, <2>5 DEF Starts
  <2>6. QED
    BY <2>2, <2>3, <2>4, <2>5 DEF Quiet
<1>3. ASSUME NEW r \in Operations
      PROVE  LET q == req'[r] IN
             /\ Telling(q) /\ q.t \notin spoilt' => q.tell \subseteq profile[q.t].tas
             /\ Telling(q) /\ q.at = 7 /\ q.t \notin spoilt' => q.a \in profile[q.t].tas
             /\ Dropping(q) /\ q.t \notin spoilt' => q.s \notin profile[q.t].students
  <2> DEFINE q == req[r]   new == req'[r]
  <2>1. CASE new = q
    BY <1>1, <2>1 DEF TellInv
  <2>2. CASE Same(q, new) /\ q.at >= 5 /\ new.tell \subseteq profile[q.t].tas /\ new.at = 6
    <3>1. Dropping(new) => Dropping(q)
      BY <2>2 DEF Dropping, Same
    <3>2. QED
      BY <1>1, <2>2, <3>1 DEF TellInv, Same
  <2>3. CASE TellsOne(r)
    <3>1. /\ Same(q, new) /\ Telling(q) /\ new.a \in q.tell /\ new.tell \subseteq q.tell
          /\ Dropping(new) => Dropping(q)
      BY <2>3 DEF TellsOne, Telling, Dropping, Same
    <3>2. QED
      BY <1>1, <3>1 DEF TellInv, Same
  <2>4. CASE ~(new.op \in Rostering /\ new.at >= 5)
    <3>1. new.at \in Nat
      BY DEF RolesInv, Prof!Operation
    <3>2. ~Telling(new) /\ ~Dropping(new)
      BY <2>4, <3>1 DEF Telling, Dropping, Rostering
    <3>3. QED
      BY <3>2
  <2>5. QED
    BY <1>2, <2>1, <2>2, <2>3, <2>4
<1>4. QED
  BY <1>1, <1>3 DEF TellInv

LEMMA QuietJoin ==
  ASSUME RolesInv, Quiet, NEW r \in Operations, NEW a \in Assistants, NEW t \in Teachers, a \notin spoilt',
         Joins(r, a, t) \/ Joins(r, a, t)'
  PROVE  req'[r] = req[r]
<1> DEFINE q == req[r]   new == req'[r]
<1>0. q.at \in Nat
  BY DEF RolesInv, Prof!Operation
<1>1. CASE Ends(r)
  <2>1. new.op = "none"
    BY <1>1 DEF Ends
  <2>2. Joins(r, a, t)
    BY <2>1 DEF Joins
  <2>3. a \in Prof!Involved(r)
    BY <2>2, InvolvesRoles DEF Joins, Prof!People
  <2>4. QED
    BY <1>1, <2>2, <2>3 DEF Ends, Joins
<1>2. CASE Loads(r)
  <2>1. Loading(q) /\ GoesOn(q, new)
    BY <1>2 DEF Loads
  <2>2. CASE Joins(r, a, t)
    BY <2>1, <2>2 DEF Loading, Joins
  <2>3. CASE Joins(r, a, t)'
    <3>1. q.op = "request_ta_assignment" /\ (new.at = q.at + 1 \/ q.at = 7) /\ new.at = 4
      BY <2>1, <2>3 DEF Joins, GoesOn, Same
    <3>2. q.at = 1 \/ q.at = 2
      BY <2>1, <3>1 DEF Loading
    <3>3. QED
      BY <3>1, <3>2
  <2>4. QED
    BY <2>2, <2>3
<1>3. CASE Cascades(r) \/ TellsOne(r)
  <2>1. q.op \in Rostering /\ (new.op = "none" \/ new.op = q.op)
    BY <1>3 DEF Cascades, TellsOne, Same
  <2>2. QED
    BY <2>1 DEF Joins, Rostering, Adding
<1>4. CASE Starts(r)
  BY <1>4 DEF Starts, Joins
<1>5. QED
  BY <1>1, <1>2, <1>3, <1>4 DEF Quiet

LEMMA QuietTelling ==
  ASSUME RolesInv, Quiet, NEW r \in Operations, NEW a \in Assistants, NEW t \in Teachers, NEW s, Free(a, t)', Tells(r, a, t, s)
  PROVE  Tells(r, a, t, s)'
<1> DEFINE q == req[r]   new == req'[r]
<1>1. /\ q.op \in Adding /\ q.s = s /\ q.t = t /\ profile' = profile /\ q.op \in Rostering
      /\ q.op \notin {"none", "assign_ta", "request_by_assistant"}
      /\ (q.at = 5 /\ a \in profile[t].tas) \/ (q.at \in 6..7 /\ a \in q.tell) \/ (q.at = 7 /\ a = q.a)
  BY DEF Tells, Quiet, Adding, Rostering
<1>2. t \notin spoilt' /\ t \notin uncascaded' /\ t \in Prof!Involved(r)
  BY <1>1, InvolvesRoles DEF Free, Prof!People
<1>3. CASE new = q
  BY <1>1, <1>3 DEF Tells
<1>4. CASE Ends(r)
  BY <1>1, <1>2, <1>4 DEF Ends
<1>5. CASE Loads(r)
  <2>1. q.at = 1 \/ q.at = 3
    BY <1>1, <1>5 DEF Loads, Loading
  <2>2. QED
    BY <1>1, <2>1
<1>6. CASE Cascades(r)
  <2>1. q.at = 5 /\ a \in profile[t].tas
    BY <1>1, <1>6 DEF Cascades
  <2>2. Same(q, new) /\ new.at = 6 /\ new.tell = profile[t].tas
    BY <1>1, <1>2, <1>6, <2>1 DEF Cascades
  <2>3. QED
    BY <1>1, <2>1, <2>2 DEF Tells, Same
<1>7. CASE TellsOne(r)
  <2>1. Same(q, new) /\ new.at = 7 /\ a \in q.tell /\ new.tell = q.tell \ {new.a}
    BY <1>1, <1>7 DEF TellsOne
  <2>2. QED
    BY <1>1, <2>1 DEF Tells, Same
<1>8. CASE Starts(r)
  BY <1>1, <1>8 DEF Starts
<1>9. QED
  BY <1>3, <1>4, <1>5, <1>6, <1>7, <1>8 DEF Quiet

LEMMA AssistQuiet == ASSUME RolesInv, RolesInv', AssistInv, Quiet, Keeps PROVE AssistInv'
<1>1. TellInv /\ \A a \in Assistants, t \in Teachers : Free(a, t) /\ profile[a].supervisor = t => Helps(a, t)
  BY AssistParts
<1>2. TellInv'
  BY <1>1, TellQuiet
<1>3. ASSUME NEW a \in Assistants, NEW t \in Teachers, Free(a, t)', profile'[a].supervisor = t PROVE Helps(a, t)'
  <2>1. profile' = profile /\ a \notin spoilt'
    BY <1>3 DEF Free, Quiet
  <2>2. Helps(a, t)
    <3>1. Free(a, t)
      BY <1>3, <2>1 DEF Free, Keeps
    <3>2. QED
      BY <1>1, <1>3, <2>1, <3>1
  <2>3. \A r \in Operations : Joins(r, a, t)' <=> Joins(r, a, t)
    BY <2>1, QuietJoin DEF Joins
  <2>4. \A r \in Operations : Joins(r, a, t) => req'[r] = req[r]
    BY <2>1, QuietJoin
  <2>5. \A r \in Operations, s \in profile[t].students : Tells(r, a, t, s) => Tells(r, a, t, s)'
    BY <1>3, QuietTelling
  <2>6. \A s \in profile'[t].students :
          \/ s \in profile'[a].students
          \/ \E r \in Operations : Tells(r, a, t, s)' \/ (Joins(r, a, t)' /\ s \notin req'[r].held[t].students)
    BY <2>1, <2>2, <2>3, <2>4, <2>5 DEF Helps
  <2>7. QED
    BY <2>1, <2>2, <2>3, <2>4, <2>6 DEF Helps
<1>4. (TellInv /\ \A a \in Assistants, t \in Teachers : Free(a, t) /\ profile[a].supervisor = t => Helps(a, t))'
  BY <1>2, <1>3
<1>5. QED
  BY <1>4 DEF AssistInv, TellInv, Helps, Telling, Dropping

PeopleInv == RolesInv /\ PairInv /\ GuardInv /\ AssistInv

LEMMA PeopleStart == ASSUME Prof!Init PROVE PeopleInv
<1>1. /\ profile = [p \in Prof!People |-> Prof!Empty] /\ row = profile /\ spoilt = {}
      /\ req = [r \in Operations |-> Prof!Idle]
  BY DEF Prof!Init
<1>2. \A r \in Operations : req[r] \in Prof!Operation /\ Roles(req[r]) /\ req[r].op = "none"
  BY <1>1, IdleIsTyped
<1>3. \A p \in Prof!People : profile[p] = Prof!Empty
  BY <1>1
<1>4. RolesInv
  <2>1. profile \in [Prof!People -> Prof!Profile] /\ row \in [Prof!People -> Prof!Profile]
    BY <1>1, EmptyIsTyped
  <2>2. req \in [Operations -> Prof!Operation]
    BY <1>1, IdleIsTyped
  <2>3. Prof!Overlap = {}
    BY <1>2 DEF Prof!Overlap, Prof!Busy
  <2>4. QED
    BY <1>2, <2>1, <2>2, <2>3 DEF RolesInv
<1>5. PairInv
  <2>1. \A s \in Students, t \in Teachers : profile[s].teacher # t
    BY <1>3, PeopleAssumption DEF Prof!Empty, Prof!People, Prof!PeopleAssumption
  <2>2. QED
    BY <1>2, <2>1 DEF PairInv
<1>6. GuardInv
  <2>1. \A s \in Students, g \in Guardians : profile[s].guardians = {} /\ profile[g].children = {}
    BY <1>3 DEF Prof!Empty, Prof!People
  <2>2. QED
    BY <1>2, <2>1 DEF GuardInv
<1>7. AssistInv
  <2>1. \A a \in Assistants, t \in Teachers : profile[a].supervisor # t
    BY <1>3, PeopleAssumption DEF Prof!Empty, Prof!People, Prof!PeopleAssumption
  <2>2. QED
    BY <1>2, <2>1 DEF AssistInv, Rostering, Adding
<1>8. QED
  BY <1>4, <1>5, <1>6, <1>7 DEF PeopleInv

LEMMA PeopleStay == ASSUME PeopleInv, Prof!Next \/ Prof!Restart PROVE PeopleInv'
<1>1. RolesInv /\ PairInv /\ GuardInv /\ AssistInv
  BY DEF PeopleInv
<1>2. ((\E r \in Operations : Effect(r)) \/ Quiet) /\ Keeps /\ RolesInv'
  BY <1>1, ProfileSteps
<1>3. CASE \E r \in Operations : Effect(r)
  <2>1. PICK r \in Operations : Effect(r)
    BY <1>3
  <2>2. PairInv' /\ GuardInv' /\ AssistInv'
    BY <1>1, <1>2, <2>1, PairSteps, GuardSteps, AssistSteps
  <2>3. QED
    BY <1>2, <2>2 DEF PeopleInv
<1>4. CASE Quiet
  <2>1. PairInv' /\ GuardInv' /\ AssistInv'
    BY <1>1, <1>2, <1>4, PairQuiet, GuardQuiet, AssistQuiet
  <2>2. QED
    BY <1>2, <2>1 DEF PeopleInv
<1>5. QED
  BY <1>2, <1>3, <1>4

LEMMA PeopleRest == ASSUME PeopleInv, UNCHANGED <<profile, row, req, spoilt, uncascaded>> PROVE PeopleInv'
BY DEF PeopleInv, RolesInv, PairInv, GuardInv, AssistInv, Prof!Overlap, Prof!Busy, Prof!Common, Prof!Involved,
       Adds, Guards, Free, Joins, Tells

(* What is settled nobody is in the middle of.                              *)
LEMMA SettledIsFree ==
  ASSUME NEW people, Prof!Settled(people), NEW p \in people
  PROVE  p \notin spoilt /\ \A r \in Operations : req[r].op # "none" => p \notin Prof!Involved(r)
BY DEF Prof!Settled, Prof!Busy

LEMMA PeopleAgree == ASSUME PeopleInv PROVE Prof!TeacherHasStudent /\ Prof!GuardiansAreMutual /\ Prof!AssistantsFollow
<1>1. RolesInv /\ PairInv /\ GuardInv /\ AssistInv
  BY DEF PeopleInv
<1>2. ASSUME NEW s \in Students, NEW t \in Teachers, Prof!Settled({s, t}), profile[s].teacher = t
      PROVE  s \in profile[t].students
  <2>1. s \notin spoilt /\ t \notin spoilt /\ \A r \in Operations : req[r].op # "none" => s \notin Prof!Involved(r)
    BY <1>2, SettledIsFree
  <2>2. \A r \in Operations : ~Adds(r, s, t)
    BY <2>1, InvolvesRoles DEF Adds, Adding, Prof!People
  <2>3. QED
    BY <1>1, <1>2, <2>1, <2>2 DEF PairInv
<1>3. ASSUME NEW s \in Students, NEW g \in Guardians, Prof!Settled({s, g})
      PROVE  g \in profile[s].guardians <=> s \in profile[g].children
  <2>1. s \notin spoilt /\ g \notin spoilt /\ \A r \in Operations : req[r].op # "none" => s \notin Prof!Involved(r)
    BY <1>3, SettledIsFree
  <2>2. \A r \in Operations : ~Guards(r, s, g)
    BY <2>1, InvolvesRoles DEF Guards, Prof!People
  <2>3. QED
    BY <1>1, <2>1, <2>2 DEF GuardInv
<1>4. ASSUME NEW a \in Assistants, NEW t \in Teachers \ uncascaded, Prof!Settled({a} \cup Teachers), profile[a].supervisor = t,
             \A u \in Teachers \ {t} : a \notin profile[u].tas
      PROVE  a \in profile[t].tas /\ profile[t].students \subseteq profile[a].students
  <2>1. \A p \in {a} \cup Teachers : p \notin spoilt /\ \A r \in Operations : req[r].op # "none" => p \notin Prof!Involved(r)
    BY <1>4, SettledIsFree
  <2>2. Free(a, t)
    BY <1>4, <2>1 DEF Free
  <2>3. Helps(a, t)
    BY <1>1, <1>4, <2>2, AssistParts
  <2>4. \A r \in Operations : ~Joins(r, a, t) /\ \A s : ~Tells(r, a, t, s)
    BY <2>1, InvolvesRoles DEF Joins, Tells, Adding, Prof!People
  <2>5. QED
    BY <2>3, <2>4 DEF Helps
<1>5. QED
  BY <1>2, <1>3, <1>4 DEF Prof!TeacherHasStudent, Prof!GuardiansAreMutual, Prof!AssistantsFollow

LEMMA PeopleSteps == [Next]_vars => Prof!Next \/ Prof!Restart \/ UNCHANGED profileVars
BY DEF Next, vars, ConversationStep, PipelineStep, OrderStep, PlanStep, ProfileStep, LearningStep, JournalStep,
       AdvisoryStep, RecapStep, RoutingStep, TalkStep, CaptureStep, Restart, elsewhere, packVars, turnVars, threadVars

LEMMA PeopleStayOrRest == PeopleInv /\ [Next]_vars => PeopleInv'
<1>1. UNCHANGED profileVars => UNCHANGED <<profile, row, req, spoilt, uncascaded>>
  BY DEF profileVars
<1>2. QED
  BY <1>1, PeopleSteps, PeopleStay, PeopleRest

(* What is saved of a student is true. The profiles of the student, the    *)
(* teacher, the assistants and the guardians agree once nobody is in the   *)
(* middle of an operation; a tier is earned, fits the problem, and numbers *)
(* escalate from a full window only; the journal counts journaling turns   *)
(* after its warm-up, and a safe person has accepted; an advisory is       *)
(* earned, proposed and shown once. It holds over failed turns, lost saves *)
(* and restarts, for any number of people and operations.                  *)
THEOREM StudentsKept == Spec => []StudentsAreKept
<1>1. Init => PeopleInv /\ LearnInv /\ JournalInv /\ AdvisoryInv
  BY PeopleStart, LearnInit, JournalStart, AdvisoryInit DEF Init
<1>2. PeopleInv /\ [Next]_vars => PeopleInv'
  BY PeopleStayOrRest
<1>3. LearnInv /\ [Next]_vars => LearnInv'
  BY LearnStays
<1>4. JournalInv /\ [Next]_vars => JournalInv'
  BY JournalStays
<1>5. AdvisoryInv /\ [Next]_vars => AdvisoryInv'
  BY AdvisoriesStay
<1>6. PeopleInv /\ LearnInv /\ JournalInv /\ AdvisoryInv => StudentsAreKept
  BY PeopleAgree, LearningIsKept, JournalIsKept, AdvisoriesAreKept DEF StudentsAreKept
<1>7. QED
  BY <1>1, <1>2, <1>3, <1>4, <1>5, <1>6, PTL DEF Spec

-----------------------------------------------------------------------------
(* The snapshots of the black box.                                         *)

LEMMA TalkSteps == [Next]_vars => Talk!Talk \/ Talk!Capture \/ Talk!Restart \/ UNCHANGED transcriptVars
BY DEF Next, vars, ConversationStep, PipelineStep, OrderStep, PlanStep, ProfileStep, LearningStep, JournalStep,
       AdvisoryStep, RecapStep, RoutingStep, TalkStep, CaptureStep, Restart, elsewhere, packVars, turnVars, threadVars

(* The sizes that the module counts.                                        *)
LEMMA TalkCardinality == \A S : Talk!Cardinality(S) = Cardinality(S)
BY DEF Talk!Cardinality, Cardinality, Talk!IsFiniteSet, IsFiniteSet

LEMMA Ranks ==
  /\ \A b, snaps : Talk!Rank(b, snaps) = Cardinality({d \in snaps : d <= b})
  /\ \A snaps : Talk!Oldest(snaps) = {b \in snaps : Talk!Rank(b, snaps) <= Talk!Excess(Cardinality(snaps))}
BY TalkCardinality DEF Talk!Rank, Talk!Oldest

LEMMA UpToIsFinite ==
  ASSUME NEW n \in Nat, NEW S \in SUBSET (1..n)
  PROVE  IsFiniteSet(S)
<1>1. 1 \in Int /\ n \in Int
  OBVIOUS
<1>2. IsFiniteSet(1..n)
  BY <1>1, FS_Interval
<1>3. QED
  BY <1>2, FS_Subset

(* What is not among the oldest fits into the directory: its ranks are the  *)
(* last MaxFiles ones.                                                      *)
LEMMA OldestLeavesRoom ==
  ASSUME NEW snaps \in SUBSET Nat, IsFiniteSet(snaps)
  PROVE  Cardinality(snaps \ Talk!Oldest(snaps)) <= MaxFiles
<1> DEFINE n == Cardinality(snaps)
           rest == snaps \ Talk!Oldest(snaps)
           rank == [b \in rest |-> Talk!Rank(b, snaps)]
           ranks == (n - MaxFiles + 1)..n
<1>1. n \in Nat /\ MaxFiles \in Nat \ {0} /\ IsFiniteSet(rest) /\ Cardinality(rest) \in Nat /\ Cardinality(rest) <= n
  BY FS_CardinalityType, FS_Subset, FilesAssumption DEF Talk!FilesAssumption
<1>2. ASSUME NEW b \in snaps PROVE /\ Talk!Rank(b, snaps) \in Nat /\ Talk!Rank(b, snaps) <= n
                                   /\ IsFiniteSet({d \in snaps : d <= b})
  <2>1. {d \in snaps : d <= b} \in SUBSET snaps
    OBVIOUS
  <2>2. QED
    BY <2>1, FS_Subset, FS_CardinalityType, Ranks
<1>3. ASSUME NEW a \in snaps, NEW b \in snaps, a < b PROVE Talk!Rank(a, snaps) # Talk!Rank(b, snaps)
  <2>1. a \in Nat /\ b \in Nat /\ \A d \in snaps : d \in Nat
    OBVIOUS
  <2>2. \A d \in snaps : d <= a => d <= b
    BY <1>3, <2>1
  <2>3. b <= b /\ ~(b <= a)
    BY <1>3, <2>1
  <2>4. {d \in snaps : d <= a} \in SUBSET {d \in snaps : d <= b} /\ b \in {d \in snaps : d <= b}
        /\ b \notin {d \in snaps : d <= a}
    BY <2>2, <2>3, Zenon
  <2>5. QED
    BY <1>2, <2>4, FS_Subset, Ranks
<1>4. CASE n < MaxFiles
  BY <1>1, <1>4
<1>5. CASE n >= MaxFiles
  <2>1. ASSUME NEW b \in rest PROVE rank[b] \in ranks
    <3>1. ~(Talk!Rank(b, snaps) <= n - MaxFiles)
      BY <1>5, Ranks DEF Talk!Excess
    <3>2. Talk!Rank(b, snaps) \in Nat /\ Talk!Rank(b, snaps) <= n
      BY <1>2
    <3>3. QED
      BY <1>1, <3>1, <3>2
  <2>2. \A a, b \in rest : a # b => rank[a] # rank[b]
    <3> SUFFICES ASSUME NEW a \in rest, NEW b \in rest, a # b PROVE rank[a] # rank[b]
      OBVIOUS
    <3>1. a < b \/ b < a
      OBVIOUS
    <3>2. QED
      BY <1>3, <3>1
  <2>3. rank \in Injection(rest, ranks)
    BY <2>1, <2>2 DEF Injection, IsInjective
  <2>4. IsFiniteSet(ranks) /\ Cardinality(ranks) = MaxFiles
    <3> DEFINE lo == n - MaxFiles + 1
    <3>1. lo \in Int /\ n \in Int /\ ~(lo > n) /\ n - lo + 1 = MaxFiles
      BY <1>1
    <3> HIDE DEF lo
    <3>2. IsFiniteSet(lo..n) /\ Cardinality(lo..n) = n - lo + 1
      BY <3>1, FS_Interval
    <3>3. QED
      BY <3>1, <3>2 DEF lo
  <2>5. QED
    BY <2>3, <2>4, FS_Injection
<1>6. QED
  BY <1>1, <1>4, <1>5

(* The newest file is not among the oldest ones.                            *)
LEMMA NewestIsNotOldest ==
  ASSUME NEW n \in Nat, NEW snaps \in SUBSET (1..n), n > 0 => n \in snaps
  PROVE  Talk!Oldest(snaps) \subseteq 1..(n - 1)
<1>1. ASSUME n \in snaps, n \in Talk!Oldest(snaps) PROVE FALSE
  <2>1. {d \in snaps : d <= n} = snaps
    <3>1. \A d \in snaps : d \in 1..n
      OBVIOUS
    <3>2. \A d \in snaps : d <= n
      BY <3>1
    <3>3. QED
      BY <3>2, Zenon
  <2>2. IsFiniteSet(snaps) /\ Cardinality(snaps) \in Nat
    BY UpToIsFinite, FS_CardinalityType
  <2>3. Cardinality(snaps) <= Talk!Excess(Cardinality(snaps))
    BY <1>1, <2>1, Ranks
  <2>4. QED
    BY <2>2, <2>3, FilesAssumption DEF Talk!Excess, Talk!FilesAssumption
<1>2. Talk!Oldest(snaps) \subseteq snaps
  BY DEF Talk!Oldest
<1>3. n \notin Talk!Oldest(snaps)
  BY <1>1, <1>2
<1>4. ASSUME NEW b \in Talk!Oldest(snaps) PROVE b \in 1..(n - 1)
  <2>1. b \in 1..n /\ b # n
    BY <1>2, <1>3
  <2>2. QED
    BY <2>1
<1>5. QED
  BY <1>4

Doomed == UNION {capture[c].doomed : c \in Captures}
Unlisted == {c \in Captures : capture[c].at = "replaced"}

(* A capture that has written a file has still to list the directory; what  *)
(* nobody is about to remove fits, but for a file for each of these.        *)
BoxInv ==
  /\ filed \in Nat /\ boxes \subseteq 1..filed
  /\ filed > 0 => filed \in boxes
  /\ DOMAIN capture = Captures
  /\ \A c \in Captures :
       /\ capture[c] = [at |-> capture[c].at, turns |-> capture[c].turns, doomed |-> capture[c].doomed]
       /\ capture[c].doomed \subseteq 1..(filed - 1)
       /\ capture[c].at # "listed" => capture[c].doomed = {}
  /\ unpruned \in BOOLEAN /\ IsFiniteSet(Unlisted)
  /\ ~unpruned => Cardinality(boxes \ Doomed) <= MaxFiles + Cardinality(Unlisted)

LEMMA BoxInit == Talk!Init => BoxInv
<1> SUFFICES ASSUME Talk!Init PROVE BoxInv
  OBVIOUS
<1>1. boxes \ Doomed = {} /\ Unlisted = {} /\ Cardinality({}) = 0 /\ IsFiniteSet({})
  BY FS_EmptySet DEF Talk!Init, Unlisted
<1>2. ~unpruned => Cardinality(boxes \ Doomed) <= MaxFiles + Cardinality(Unlisted)
  <2>1. 0 <= MaxFiles + 0
    BY FilesAssumption DEF Talk!FilesAssumption
  <2>2. QED
    BY <1>1, <2>1, Zenon
<1>3. /\ filed \in Nat /\ boxes \subseteq 1..filed
      /\ filed > 0 => filed \in boxes
      /\ unpruned \in BOOLEAN
  <2>1. boxes = {} /\ filed = 0 /\ unpruned = FALSE
    BY DEF Talk!Init
  <2>2. 0 \in Nat /\ ~(0 > 0) /\ {} \subseteq 1..0 /\ FALSE \in BOOLEAN
    OBVIOUS
  <2>3. QED
    BY <2>1, <2>2, Zenon
<1>4. DOMAIN capture = Captures
      /\ \A c \in Captures : capture[c] = [at |-> "idle", turns |-> <<>>, doomed |-> {}]
  BY DEF Talk!Init
<1>5. \A c \in Captures :
        /\ capture[c] = [at |-> capture[c].at, turns |-> capture[c].turns, doomed |-> capture[c].doomed]
        /\ capture[c].doomed = {}
  BY <1>4
<1>6. QED
  BY <1>1, <1>2, <1>3, <1>4, <1>5 DEF BoxInv

(* A step that dooms no file and removes none that was not doomed.          *)
LEMMA NothingIsAdded ==
  ASSUME BoxInv, UNCHANGED <<filed, unpruned>>, boxes' \ Doomed' \subseteq boxes \ Doomed, Unlisted' = Unlisted
  PROVE  IsFiniteSet(Unlisted') /\ (~unpruned' => Cardinality(boxes' \ Doomed') <= MaxFiles + Cardinality(Unlisted'))
<1>1. IsFiniteSet(boxes \ Doomed)
  <2>1. filed \in Nat /\ boxes \subseteq 1..filed
    BY DEF BoxInv
  <2>2. boxes \ Doomed \in SUBSET (1..filed)
    BY <2>1
  <2>3. QED
    BY <2>1, <2>2, UpToIsFinite
<1>2. Cardinality(boxes' \ Doomed') <= Cardinality(boxes \ Doomed)
      /\ Cardinality(boxes' \ Doomed') \in Nat /\ Cardinality(boxes \ Doomed) \in Nat
  BY <1>1, FS_Subset, FS_CardinalityType
<1>3. Cardinality(Unlisted) \in Nat
  BY FS_CardinalityType DEF BoxInv
<1>4. QED
  BY <1>2, <1>3, FilesAssumption DEF BoxInv, Talk!FilesAssumption

LEMMA SnapshotIsTaken ==
  ASSUME BoxInv, NEW c \in Captures, \E s \in Chats : Talk!capture_blackbox(c, s)
  PROVE  BoxInv'
<1>1. /\ capture[c].at = "idle"
      /\ UNCHANGED <<boxes, filed, unpruned>>
      /\ DOMAIN capture' = Captures
      /\ \A d \in Captures : capture'[d].doomed = capture[d].doomed
      /\ \A d \in Captures \ {c} : capture'[d] = capture[d]
      /\ capture'[c].at = "taken"
      /\ capture'[c] = [at |-> capture'[c].at, turns |-> capture'[c].turns, doomed |-> capture'[c].doomed]
  BY DEF Talk!capture_blackbox, BoxInv
<1>2. Doomed' = Doomed /\ Unlisted' = Unlisted
  BY <1>1 DEF Doomed, Unlisted
<1>3. QED
  BY <1>1, <1>2, NothingIsAdded DEF BoxInv

LEMMA SnapshotIsWritten ==
  ASSUME BoxInv, NEW c \in Captures, Talk!write_blackbox(c)
  PROVE  BoxInv'
<1>1. /\ capture[c].at = "taken"
      /\ capture[c].doomed = {}
      /\ UNCHANGED unpruned
      /\ DOMAIN capture' = Captures
      /\ \A d \in Captures : capture'[d].doomed = capture[d].doomed
      /\ \A d \in Captures \ {c} : capture'[d] = capture[d]
      /\ capture'[c] = [at |-> capture'[c].at, turns |-> capture'[c].turns, doomed |-> capture'[c].doomed]
      /\ \/ /\ capture'[c].at = "replaced" /\ filed' = filed + 1 /\ boxes' = boxes \cup {filed + 1}
         \/ /\ capture'[c].at = "failed" /\ UNCHANGED <<filed, boxes>>
  BY DEF Talk!write_blackbox, BoxInv
<1>2. Doomed' = Doomed
  BY <1>1 DEF Doomed
<1>3. CASE capture'[c].at = "failed" /\ UNCHANGED <<filed, boxes>>
  <2>1. Unlisted' = Unlisted
    BY <1>1, <1>3 DEF Unlisted
  <2>2. QED
    BY <1>1, <1>2, <1>3, <2>1, NothingIsAdded DEF BoxInv
<1>4. CASE capture'[c].at = "replaced" /\ filed' = filed + 1 /\ boxes' = boxes \cup {filed + 1}
  <2>1. Unlisted' = Unlisted \cup {c} /\ c \notin Unlisted
    BY <1>1, <1>4 DEF Unlisted
  <2>2. IsFiniteSet(Unlisted') /\ Cardinality(Unlisted') = Cardinality(Unlisted) + 1 /\ Cardinality(Unlisted) \in Nat
    BY <2>1, FS_AddElement, FS_CardinalityType DEF BoxInv
  <2>3. boxes' \ Doomed' \subseteq (boxes \ Doomed) \cup {filed + 1}
    BY <1>2, <1>4
  <2>4. IsFiniteSet(boxes \ Doomed)
    <3>1. filed \in Nat /\ boxes \subseteq 1..filed
      BY DEF BoxInv
    <3>2. boxes \ Doomed \in SUBSET (1..filed)
      BY <3>1
    <3>3. QED
      BY <3>1, <3>2, UpToIsFinite
  <2>5. Cardinality((boxes \ Doomed) \cup {filed + 1}) <= Cardinality(boxes \ Doomed) + 1
        /\ IsFiniteSet((boxes \ Doomed) \cup {filed + 1}) /\ Cardinality(boxes \ Doomed) \in Nat
    <3> DEFINE S == boxes \ Doomed
    <3>1. IsFiniteSet(S) /\ Cardinality(S) \in Nat
      BY <2>4, FS_CardinalityType
    <3>2. IsFiniteSet(S \cup {filed + 1})
          /\ Cardinality(S \cup {filed + 1}) = IF filed + 1 \in S THEN Cardinality(S) ELSE Cardinality(S) + 1
      BY <3>1, FS_AddElement
    <3> HIDE DEF S
    <3>3. Cardinality(S \cup {filed + 1}) <= Cardinality(S) + 1
      BY <3>1, <3>2
    <3>4. QED
      BY <3>1, <3>2, <3>3 DEF S
  <2>6. Cardinality(boxes' \ Doomed') <= Cardinality(boxes \ Doomed) + 1 /\ Cardinality(boxes' \ Doomed') \in Nat
    BY <2>3, <2>5, FS_Subset, FS_CardinalityType
  <2>7. ~unpruned' => Cardinality(boxes' \ Doomed') <= MaxFiles + Cardinality(Unlisted')
    BY <1>1, <2>2, <2>5, <2>6, FilesAssumption DEF BoxInv, Talk!FilesAssumption
  <2>8. filed' \in Nat /\ boxes' \subseteq 1..filed' /\ filed' \in boxes'
    <3>1. filed' = filed + 1 /\ boxes' = boxes \cup {filed + 1} /\ filed \in Nat /\ boxes \subseteq 1..filed
      BY <1>4 DEF BoxInv
    <3>2. \A i \in boxes : i \in 1..(filed + 1)
      BY <3>1
    <3>3. filed + 1 \in Nat /\ filed + 1 \in 1..(filed + 1)
      BY <3>1
    <3>4. QED
      BY <3>1, <3>2, <3>3, Zenon
  <2>9. \A d \in Captures : capture'[d].doomed \subseteq 1..(filed' - 1)
    BY <1>1, <1>4 DEF BoxInv
  <2>10. QED
    BY <1>1, <2>2, <2>7, <2>8, <2>9 DEF BoxInv
<1>5. QED
  BY <1>1, <1>3, <1>4

LEMMA SnapshotsAreListed ==
  ASSUME BoxInv, NEW c \in Captures, Talk!_prune_old_snapshots(c)
  PROVE  BoxInv'
<1>1. /\ capture[c].at = "replaced"
      /\ UNCHANGED <<boxes, filed, unpruned>>
      /\ DOMAIN capture' = Captures
      /\ \A d \in Captures \ {c} : capture'[d] = capture[d]
      /\ capture'[c].at = "listed" /\ capture'[c].doomed = Talk!Oldest(boxes)
      /\ capture'[c] = [at |-> capture'[c].at, turns |-> capture'[c].turns, doomed |-> capture'[c].doomed]
  BY DEF Talk!_prune_old_snapshots, BoxInv
<1>2. Talk!Oldest(boxes) \subseteq 1..(filed - 1)
  BY NewestIsNotOldest DEF BoxInv
<1>3. Unlisted' = Unlisted \ {c} /\ c \in Unlisted
  BY <1>1 DEF Unlisted
<1>4. IsFiniteSet(Unlisted') /\ Cardinality(Unlisted') \in Nat
  BY <1>3, FS_RemoveElement, FS_CardinalityType DEF BoxInv
<1>5. boxes \in SUBSET (1..filed) /\ filed \in Int /\ boxes \in SUBSET Nat
  BY DEF BoxInv
<1>6. IsFiniteSet(boxes) /\ IsFiniteSet(boxes \ Talk!Oldest(boxes)) /\ Cardinality(boxes \ Talk!Oldest(boxes)) \in Nat
  <2>1. IsFiniteSet(1..filed)
    BY <1>5, UpToIsFinite DEF BoxInv
  <2>2. IsFiniteSet(boxes) /\ boxes \ Talk!Oldest(boxes) \in SUBSET boxes
    BY <1>5, <2>1, FS_Subset
  <2>3. IsFiniteSet(boxes \ Talk!Oldest(boxes))
    BY <2>2, FS_Subset
  <2>4. QED
    BY <2>2, <2>3, FS_CardinalityType
<1>7. boxes' \ Doomed' \subseteq boxes \ Talk!Oldest(boxes)
  <2>1. capture'[c].doomed \subseteq Doomed'
    BY DEF Doomed
  <2>2. QED
    BY <1>1, <2>1
<1>8. Cardinality(boxes' \ Doomed') <= MaxFiles /\ Cardinality(boxes' \ Doomed') \in Nat
  BY <1>5, <1>6, <1>7, OldestLeavesRoom, FS_Subset, FS_CardinalityType, FilesAssumption DEF Talk!FilesAssumption
<1>9. QED
  BY <1>1, <1>2, <1>4, <1>8, FilesAssumption DEF BoxInv, Talk!FilesAssumption

LEMMA SnapshotIsRemoved ==
  ASSUME BoxInv, NEW c \in Captures, Talk!Unlink(c)
  PROVE  BoxInv'
<1>1. /\ capture[c].at = "listed"
      /\ UNCHANGED <<filed, unpruned>>
      /\ DOMAIN capture' = Captures
      /\ \A d \in Captures \ {c} : capture'[d] = capture[d]
      /\ capture'[c] = [at |-> capture'[c].at, turns |-> capture'[c].turns, doomed |-> capture'[c].doomed]
  BY DEF Talk!Unlink, BoxInv
<1>2. CASE capture[c].doomed = {} /\ UNCHANGED boxes /\ capture'[c].at = "done" /\ capture'[c].doomed = {}
  <2>1. \A d \in Captures : capture'[d].doomed = capture[d].doomed
    BY <1>1, <1>2
  <2>2. Doomed' = Doomed /\ Unlisted' = Unlisted
    BY <1>1, <1>2, <2>1 DEF Doomed, Unlisted
  <2>3. QED
    BY <1>1, <1>2, <2>2, NothingIsAdded DEF BoxInv
<1>3. ASSUME NEW d \in capture[c].doomed, boxes' = boxes \ {d}, capture'[c].at = "listed",
             capture'[c].doomed = capture[c].doomed \ {d}
      PROVE  BoxInv'
  <2>1. Unlisted' = Unlisted
    BY <1>1, <1>3 DEF Unlisted
  <2>2. Doomed \subseteq Doomed' \cup {d}
    <3>1. \A e \in Captures : capture[e].doomed \subseteq capture'[e].doomed \cup {d}
      BY <1>1, <1>3
    <3>2. QED
      BY <3>1 DEF Doomed
  <2>3. boxes' \ Doomed' \subseteq boxes \ Doomed
    BY <1>3, <2>2
  <2>4. d \in 1..(filed - 1) /\ filed \in Nat
    BY <1>3 DEF BoxInv
  <2>5. filed' > 0 => filed' \in boxes'
    BY <1>1, <1>3, <2>4 DEF BoxInv
  <2>6. boxes' \subseteq 1..filed' /\ \A e \in Captures : capture'[e].doomed \subseteq 1..(filed' - 1)
    BY <1>1, <1>3 DEF BoxInv
  <2>7. QED
    BY <1>1, <1>3, <2>1, <2>3, <2>5, <2>6, NothingIsAdded DEF BoxInv
<1>4. QED
  BY <1>1, <1>2, <1>3 DEF Talk!Unlink, BoxInv

LEMMA CapturesAreLost ==
  ASSUME BoxInv, Talk!Restart
  PROVE  BoxInv'
<1>1. /\ UNCHANGED <<boxes, filed>>
      /\ DOMAIN capture' = Captures
      /\ unpruned' = (unpruned \/ \E c \in Captures : capture[c].at \in {"replaced", "listed"})
      /\ \A c \in Captures :
           capture'[c] = IF capture[c].at \in {"idle", "done"} THEN capture[c]
                         ELSE [at |-> "failed", turns |-> capture[c].turns, doomed |-> {}]
  BY DEF Talk!Restart, BoxInv
<1>2. \A c \in Captures :
           /\ capture'[c] = [at |-> capture'[c].at, turns |-> capture'[c].turns, doomed |-> capture'[c].doomed]
           /\ capture'[c].at \in {"idle", "done", "failed"} /\ capture'[c].doomed = {}
  BY <1>1 DEF BoxInv
<1>3. Unlisted' = {} /\ Doomed' = {} /\ IsFiniteSet({}) /\ Cardinality({}) = 0
  BY <1>2, FS_EmptySet DEF Unlisted, Doomed
<1>4. ~unpruned' => Cardinality(boxes') <= MaxFiles
  <2> SUFFICES ASSUME ~unpruned' PROVE Cardinality(boxes') <= MaxFiles
    OBVIOUS
  <2>1. ~unpruned /\ \A c \in Captures : capture[c].at \notin {"replaced", "listed"}
    BY <1>1, Zenon
  <2>2. Unlisted = {} /\ Doomed = {}
    BY <2>1 DEF Unlisted, Doomed, BoxInv
  <2>3. Cardinality(boxes \ {}) <= MaxFiles + 0 /\ boxes \ {} = boxes
    BY <1>3, <2>1, <2>2 DEF BoxInv
  <2>4. QED
    BY <1>1, <2>3, FilesAssumption DEF Talk!FilesAssumption
<1>5. boxes' \ Doomed' = boxes'
  BY <1>3
<1>6. unpruned' \in BOOLEAN
  BY <1>1 DEF BoxInv
<1>7. QED
  BY <1>1, <1>2, <1>3, <1>4, <1>5, <1>6, FilesAssumption DEF BoxInv, Talk!FilesAssumption

LEMMA BoxesStay == BoxInv /\ [Next]_vars => BoxInv'
<1> SUFFICES ASSUME BoxInv, [Next]_vars PROVE BoxInv'
  OBVIOUS
<1>1. CASE UNCHANGED <<boxes, capture, filed, unpruned>>
  BY <1>1 DEF BoxInv, Doomed, Unlisted
<1>2. CASE Talk!Capture
  BY <1>2, SnapshotIsTaken, SnapshotIsWritten, SnapshotsAreListed, SnapshotIsRemoved DEF Talk!Capture
<1>3. CASE Talk!Talk
  BY <1>1, <1>3 DEF Talk!Talk, Talk!boxVars, Talk!Begin, Talk!Sync, Talk!Push, Talk!_compute_transcript_seal, Talk!Fail,
     Talk!session_handoff, Talk!session_resume, Talk!_close_session
<1>4. QED
  BY <1>1, <1>2, <1>3, CapturesAreLost, TalkSteps DEF transcriptVars

LEMMA NewestStays == BoxInv => Talk!NewestIsKept
<1> SUFFICES ASSUME BoxInv, ~unpruned, \A c \in Captures : capture[c].at \notin {"replaced", "listed"}
             PROVE  Cardinality(boxes) <= MaxFiles
  BY TalkCardinality DEF Talk!NewestIsKept, BoxInv
<1>1. Unlisted = {} /\ boxes \ Doomed = boxes
  BY DEF Unlisted, Doomed, BoxInv
<1>2. Cardinality(Unlisted) = 0
  BY <1>1, FS_EmptySet
<1>3. Cardinality(boxes) <= MaxFiles + 0
  BY <1>1, <1>2 DEF BoxInv
<1>4. QED
  BY <1>3, FilesAssumption DEF Talk!FilesAssumption

-----------------------------------------------------------------------------
(* The turns of the pipeline and their records.                            *)

PipeP == INSTANCE TurnPipelineProofs

LEMMA PipelineSteps == [Next]_vars => Pipe!Next \/ Pipe!Restart \/ UNCHANGED pipelineVars
BY DEF Next, vars, ConversationStep, PipelineStep, OrderStep, PlanStep, ProfileStep, LearningStep, JournalStep,
       AdvisoryStep, RecapStep, RoutingStep, TalkStep, CaptureStep, Restart, elsewhere, packVars, turnVars, threadVars

(* Both instances of TurnPipeline, Pipe and the one the lemmas are about,   *)
(* are of the same variables.                                              *)
LEMMA SameTurns == Pipe!Next \/ Pipe!Restart \/ UNCHANGED pipelineVars => PipeP!Next \/ PipeP!Restart \/ UNCHANGED PipeP!vars
<1>1. Pipe!Next => PipeP!Next
  BY DEF Pipe!Serve, PipeP!Serve, Pipe!chat, PipeP!chat, Pipe!OpenSession, PipeP!OpenSession,
         Pipe!Refused, PipeP!Refused, Pipe!check_glossary, PipeP!check_glossary,
         Pipe!check_turn_0, PipeP!check_turn_0, Pipe!Interpret, PipeP!Interpret,
         Pipe!check_greeting, PipeP!check_greeting, Pipe!Denied, PipeP!Denied, Pipe!Build, PipeP!Build,
         Pipe!WriteTrace, PipeP!WriteTrace, Pipe!WriteEscalation, PipeP!WriteEscalation,
         Pipe!Sync, PipeP!Sync, Pipe!build_command_content, PipeP!build_command_content,
         Pipe!_stage_and_build, PipeP!_stage_and_build, Pipe!invoke_llm, PipeP!invoke_llm,
         Pipe!append_provenance_trace, PipeP!append_provenance_trace, Pipe!Fail, PipeP!Fail,
         Pipe!Unlock, PipeP!Unlock, Pipe!Next, PipeP!Next, Pipe!Idle, PipeP!Idle, Pipe!At, PipeP!At,
         Pipe!Go, PipeP!Go, Pipe!Leave, PipeP!Leave, Pipe!PassesGates, PipeP!PassesGates,
         Pipe!Counts, PipeP!Counts, Pipe!LastTwo, PipeP!LastTwo,
         Pipe!_append_log_record, PipeP!_append_log_record,
         Pipe!build_escalation_content, PipeP!build_escalation_content
<1>2. Pipe!Restart => PipeP!Restart
  BY DEF Pipe!Restart, PipeP!Restart, Pipe!Idle, PipeP!Idle
<1>3. UNCHANGED pipelineVars => UNCHANGED PipeP!vars
  BY DEF pipelineVars, PipeP!vars
<1>4. QED
  BY <1>1, <1>2, <1>3

LEMMA PipelineInvariant == Spec => []PipeP!PipeInv
<1>0. PipeP!PipelineAssumption
  BY PipelineAssumption DEF Pipe!PipelineAssumption, PipeP!PipelineAssumption
<1>1. Init => PipeP!PipeInv
  <2>1. Pipe!Init => PipeP!Init
    BY DEF Pipe!Init, PipeP!Init, Pipe!Idle, PipeP!Idle
  <2>2. QED
    BY <2>1, PipeP!PipeInit DEF Init
<1>2. PipeP!PipeInv /\ [Next]_vars => PipeP!PipeInv'
  BY <1>0, PipelineSteps, SameTurns, PipeP!PipeStays
<1>3. QED
  BY <1>1, <1>2, PTL DEF Spec

LEMMA AnswersSound == PipeP!PipeInv => Pipe!EscalationIsReported /\ Pipe!AnsweredIsTraced /\ Pipe!WritersChain
<1> SUFFICES ASSUME PipeP!PipeInv PROVE Pipe!EscalationIsReported /\ Pipe!AnsweredIsTraced /\ Pipe!WritersChain
  OBVIOUS
<1>1. PipeP!EscalationIsReported /\ PipeP!AnsweredIsTraced /\ PipeP!WritersChain
  BY PipeP!PipeSound
<1>2. \A S : PipeP!Cardinality(S) = Pipe!Cardinality(S)
  BY DEF PipeP!Cardinality, Pipe!Cardinality, PipeP!IsFiniteSet, Pipe!IsFiniteSet
<1>3. \A n, kind : PipeP!Of(n, kind) = Pipe!Of(n, kind)
  BY DEF PipeP!Of, Pipe!Of
<1>4. Pipe!EscalationIsReported
  BY <1>1, <1>3 DEF Pipe!EscalationIsReported, PipeP!EscalationIsReported
<1>5. Pipe!AnsweredIsTraced
  BY <1>1, <1>2, <1>3 DEF Pipe!AnsweredIsTraced, PipeP!AnsweredIsTraced
<1>6. Pipe!WritersChain
  BY <1>1 DEF Pipe!WritersChain, PipeP!WritersChain, Pipe!Linked, PipeP!Linked
<1>7. QED
  BY <1>4, <1>5, <1>6

(* What an answer says is on record: every task of an answered turn has a   *)
(* trace, the provenance comes after all of them, the answer reports an     *)
(* escalation exactly when its turn appended one, a writer's records are an *)
(* intact chain, and the newest snapshots of the black box are kept.        *)
THEOREM AnswersOnRecord == Spec => []AnswersAreOnRecord
<1>1. Init => BoxInv
  BY BoxInit DEF Init
<1>2. BoxInv /\ [Next]_vars => BoxInv'
  BY BoxesStay
<1>3. PipeP!PipeInv /\ BoxInv => AnswersAreOnRecord
  BY AnswersSound, NewestStays DEF AnswersAreOnRecord
<1>4. QED
  BY <1>1, <1>2, <1>3, PipelineInvariant, PTL DEF Spec
=============================================================================
