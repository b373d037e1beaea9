------------------------------ MODULE MCChatTurns ------------------------------
(***************************************************************************)
(* Instances of ChatTurns for TLC. The components share no variable, so    *)
(* that what one of them does cannot matter to a property of another one:  *)
(* each behaviour here is one in which a single component moves, and the   *)
(* process restarts.                                                       *)
(***************************************************************************)
EXTENDS ChatTurns, Naturals, TLC

CONSTANTS o1, o2, Movers

VARIABLE mover   (* the component that moves *)

(* Two invariants of any severity and with any order; the first order may   *)
(* be tried twice, the second one once, and only the first one escalates.   *)
SomePhysics ==
  {[severity |-> s, standing_order_on_violation |-> o, bounded |-> {o1, o2},
    max_attempts |-> (o1 :> 2 @@ o2 :> 1), escalation_on_exhaust |-> {o1}] :
     s \in [1..2 -> {"critical", "warning"}], o \in [1..2 -> {o1, o2, NoOrder}]}

Chain == [n \in Nodes |-> Nodes \cap {n - 1}]

(* Three tiers, and four readings of an answer: it solves the problem fast; *)
(* it is slow and frustrated; fast, but too easy or too hard; off the task. *)
SomeTiers == <<[min |-> 0, max |-> 30], [min |-> 30, max |-> 60], [min |-> 60, max |-> 100]>>
Reads(solve, solved, off_task, outside, frustrated) ==
  <<[solve |-> solve, solved |-> solved, off_task |-> off_task],
    [outside |-> outside, frustrated |-> frustrated]>>
SomeReadings ==
  {Reads("fast", TRUE, FALSE, FALSE, FALSE), Reads("slow", FALSE, FALSE, FALSE, TRUE),
   Reads("fast", FALSE, FALSE, TRUE, FALSE), Reads("not_correct", FALSE, TRUE, TRUE, FALSE)}

(* Two of the bands, the first of them before the second one.               *)
SomeBands == <<"dc_drift", "circaseptan">>

(* What a site may set otherwise than the default policy of thread routing. *)
SomeDefaults == [attach |-> 2, fork |-> 1, margin |-> 0, limit |-> 3, manual |-> FALSE, confirm |-> {}]
SomeOverrides ==
  {<< >>, [limit |-> 2], [margin |-> 1], [manual |-> TRUE], [fork |-> 3], [confirm |-> {"attach_existing"}]}

(* Plans whose slices are numbered in the order they are sorted into, which *)
(* is all that a number is used for; and a chain that is numbered backwards. *)
SomePlans == {plan \in [Nodes -> SUBSET Nodes] : \A n \in Nodes : plan[n] \subseteq 1..(n - 1)}
             \cup {[n \in Nodes |-> Nodes \cap {n + 1}]}

MCInit ==
  /\ mover \in Movers
  /\ physics \in IF mover = "orders" THEN Physics ELSE {CHOOSE p \in Physics : TRUE}
  /\ depends_on \in IF mover = "plans" THEN SomePlans ELSE {Chain}
  /\ engine \in IF mover = "profiles" THEN {"filesystem", "sqlite"} ELSE {"filesystem"}
  /\ stored \in IF mover = "journal" THEN 0..LockSessions ELSE {LockSessions}
  /\ Init
  /\ mover # "journal" => chart.assigned = Nobody

(* The domains are alike: the third one that is asked for is asked for      *)
(* after two requests.                                                      *)
ThirdComesThird ==
  begun < 2 => \A t \in Workers : thread'[t].domain \in (Domains \cap Teachers) \cup {NoDomain}

(* How many turns a conversation is resumed with is not asked afterwards.   *)
ResumesEmpty ==
  \A t \in Workers : thread[t].pc = "hydrate" /\ thread'[t].pc = "idle" =>
    contexts' = contexts \/ contexts' = [contexts EXCEPT ![live][active[live]].turn_count = 0]

(* The rows of a database matter to a turn after one other operation.       *)
RowsAreRead == engine = "sqlite" => served' <= 2

(* Two operations overlap, and a third one finds what they have left.       *)
ThirdIsAlone == served' = 3 /\ served = 2 => \A r \in Operations : req[r].op = "none"

(* Two turns and an operation on the safe person, or one turn and two.      *)
TurnsAndOperations == journaled' + handled' <= 3

(* The captures are alike but for the order in which they begin.            *)
InOrder == \A c \in Captures : capture'[c].at # "idle" => \A b \in 1..(c - 1) : capture'[b].at # "idle"

MCNext ==
  /\ UNCHANGED mover
  /\ \/ mover = "conversations" /\ ConversationStep /\ ThirdComesThird /\ ResumesEmpty
     \/ mover = "pipeline" /\ PipelineStep
     \/ mover = "orders" /\ OrderStep
     \/ mover = "plans" /\ PlanStep
     \/ mover = "profiles" /\ ProfileStep /\ RowsAreRead /\ ThirdIsAlone
     \/ mover = "learning" /\ LearningStep
     \/ mover = "journal" /\ JournalStep /\ TurnsAndOperations
     \/ mover = "advisories" /\ AdvisoryStep
     \/ mover = "recaps" /\ RecapStep
     \/ mover = "routing" /\ RoutingStep
     \/ mover = "turns" /\ TalkStep
     \/ mover = "captures" /\ CaptureStep /\ InOrder
     \/ Restart

MCSpec == MCInit /\ [][MCNext]_<<vars, mover>>

(* The instance gives threads, workers and operations the same names, two  *)
(* of the domains, the teachers, the safe people and the chats.             *)
Symmetry == Permutations(Threads) \cup Permutations(Teachers)
=============================================================================
