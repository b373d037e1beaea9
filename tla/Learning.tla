-------------------------------- MODULE Learning --------------------------------
(***************************************************************************)
(* A student in a learning module of the education pack: the window of the *)
(* ZPD monitor, the tiers of the fluency monitor, and the problem that is  *)
(* presented. The monitors' state belongs to the student and the module,   *)
(* and is saved at the end of a turn; the problem and its difficulty       *)
(* belong to the conversation and are saved just before. A student may     *)
(* have several conversations in the module. What the estimators of        *)
(* mastery, uncertainty, affect and challenge make of a turn is whether    *)
(* the challenge is outside of the band and whether the student is         *)
(* frustrated: any outcome. Difficulties are hundredths.                   *)
(***************************************************************************)
EXTENDS Integers, Sequences, FiniteSetsExt

CONSTANTS
  Learners,           (* the student's conversations in the module             *)
  Tiers,              (* sequence of [min_difficulty, max_difficulty]          *)
  DefaultDifficulty,  (* nominal_difficulty of the module's default task_spec  *)
  Target,             (* target_consecutive_successes                          *)
  WindowTurns,        (* window_turns                                          *)
  DriftWindow,        (* drift_window_turns                                    *)
  Persistence,        (* persistence_required                                  *)
  MinTurns,           (* min_turns_before_escalation                           *)
  Minor, Major,       (* the drift thresholds, in percent                      *)
  NoContext, NoState,
  Readings,           (* pairs of an interpretation and an estimate            *)
  MaxLessons          (* bound: turns that are begun                           *)

VARIABLES
  context,       (* conversation -> [learning, nominal, problem] in memory    *)
  lesson,        (* conversation -> the turn it is in                         *)
  module_state,  (* what is saved of the monitors                             *)
  session_state, (* conversation -> [nominal, problem] as saved               *)
  lessons,       (* number of turns begun                                     *)
  credit,        (* history: fast correct solves that were processed          *)
  base,          (* history: conversation -> the module_state it last read or wrote *)
  spoilt,        (* history: conversation -> its problem may be of another tier *)
  lost           (* history: a save wrote over another conversation's         *)

learningVars == <<context, lesson, module_state, session_state, lessons, credit, base, spoilt, lost>>

TierIds == 1..Len(Tiers)

(* The tiers of a module are in the order of their difficulty.              *)
LearningAssumption ==
  /\ Tiers \in Seq([min: 0..100, max: 0..100]) /\ Tiers # <<>>
  /\ \A t \in TierIds :
       Tiers[t].min < Tiers[t].max /\ \A u \in TierIds : u < t => Tiers[u].max <= Tiers[t].min
  /\ Target \in Nat \ {0} /\ WindowTurns \in Nat /\ DriftWindow \in Nat

(* What the interpreter, or the algebra parser over it, reads in one task.   *)
Interpretations == [solve: {"fast", "slow", "not_correct"}, solved: BOOLEAN, off_task: BOOLEAN]

(* What the estimators of mastery, uncertainty and challenge, and of        *)
(* frustration, make of it.                                                 *)
Estimates == [outside: BOOLEAN, frustrated: BOOLEAN]

LearningStates ==
  [attempts: 0..(2 * MaxLessons), outside_run: 0..(2 * MaxLessons),
   outside_flags: UNION {[1..n -> BOOLEAN] : n \in 0..WindowTurns},
   tier: TierIds, run: 0..Target]

Problems == [tier: TierIds, completed: BOOLEAN]

Decision == [escalates: BOOLEAN, next: TierIds \cup {0}]

NoDecision == [escalates |-> FALSE, next |-> 0]

Idle == [stage |-> "idle", problem |-> NoState, solved |-> FALSE, second |-> FALSE,
         decision |-> NoDecision, aligned |-> FALSE]

TypeOK ==
  /\ \A c \in Learners :
       /\ context[c] = NoContext \/
            /\ context[c].learning \in LearningStates
            /\ context[c].problem \in Problems
            /\ context[c].nominal \in 0..100
       /\ lesson[c].stage \in {"idle", "begun", "stepped", "processed", "synced"}
       /\ lesson[c].decision \in Decision
       /\ session_state[c] = NoState \/ session_state[c].problem \in Problems
       /\ lesson[c].stage # "idle" => context[c] # NoContext
  /\ module_state = NoState \/ module_state \in LearningStates

(* --- Pure parts -------------------------------------------------------------- *)

(* The first tier whose range has the difficulty, else the last one.        *)
TierOf(difficulty) ==
  LET fitting == {t \in TierIds : Tiers[t].min <= difficulty /\ difficulty < Tiers[t].max}
  IN IF fitting = {} THEN Len(Tiers) ELSE Min(fitting)

Generate(difficulty) == [tier |-> TierOf(difficulty), completed |-> FALSE]

Middle(t) == (Tiers[t].min + Tiers[t].max) \div 2

(* The state of a student who is new in the module.                         *)
Fresh(nominal) ==
  [attempts |-> 0, outside_run |-> 0, outside_flags |-> <<>>, tier |-> TierOf(nominal), run |-> 0]

Count(flags) == Cardinality({i \in DOMAIN flags : flags[i]})

(* update_zpd_window: an off-task turn is inside, and takes a place.        *)
UpdateWindow(l, e) ==
  LET outside == e[2].outside /\ ~e[1].off_task
      flags == <<outside>> \o l.outside_flags
  IN [l EXCEPT !.attempts = @ + 1,
               !.outside_run = IF outside THEN @ + 1 ELSE 0,
               !.outside_flags = SubSeq(flags, 1, Min({WindowTurns, Len(flags)}))]

(* _detect_drift.                                                           *)
DriftTier(l, frustrated) ==
  LET pct == (100 * Count(l.outside_flags)) \div Max({Len(l.outside_flags), 1})
      major == pct >= Major \/ l.outside_run >= Persistence \/ (frustrated /\ l.attempts >= MinTurns)
  IN CASE major -> "major"
       [] ~major /\ (pct >= Minor \/ frustrated) -> "minor"
       [] OTHER -> "ok"

(* fluency_monitor_step: the run, and the tier it leads to (0 if it stays). *)
UpdateFluency(l, e) ==
  LET run == IF e[1].solve = "fast" THEN l.run + 1 ELSE 0
      next == IF run >= Target /\ l.tier < Len(Tiers) THEN l.tier + 1 ELSE 0
  IN [state |-> [l EXCEPT !.run = IF run >= Target THEN 0 ELSE run,
                          !.tier = IF next # 0 THEN next ELSE @],
      next |-> next]

(* zpd_monitor_step.                                                        *)
ZpdStep(l, e) ==
  LET windowed == UpdateWindow(l, e)
  IN [state |-> windowed, major |-> DriftTier(windowed, e[2].frustrated) = "major"]

(* domain_step: no escalation from the numbers before the window is full.   *)
DomainStep(l, e) ==
  LET zpd == ZpdStep(l, e)
      fluency == UpdateFluency(zpd.state, e)
  IN [state |-> fluency.state,
      decision |-> [escalates |-> zpd.major /\ zpd.state.attempts >= DriftWindow, next |-> fluency.next]]

(* ---- Actions ----------------------------------------------------------------- *)

Init ==
  /\ context = [c \in Learners |-> NoContext]
  /\ lesson = [c \in Learners |-> Idle]
  /\ module_state = NoState
  /\ session_state = [c \in Learners |-> NoState]
  /\ lessons = 0
  /\ credit = 0
  /\ base = [c \in Learners |-> NoState]
  /\ spoilt = [c \in Learners |-> FALSE]
  /\ lost = FALSE

(* The conversation's context is built: the monitors are the student's, the *)
(* task is the conversation's, or the module's default in a new one.        *)
Open(c) ==
  /\ context[c] = NoContext /\ lesson[c].stage = "idle"
  /\ LET nominal == IF session_state[c] = NoState THEN DefaultDifficulty ELSE session_state[c].nominal
         learning == IF module_state = NoState THEN Fresh(nominal) ELSE module_state
         problem == IF session_state[c] = NoState THEN Generate(nominal) ELSE session_state[c].problem
     IN /\ context' = [context EXCEPT ![c] = [learning |-> learning, nominal |-> nominal, problem |-> problem]]
        /\ base' = [base EXCEPT ![c] = module_state]
        /\ spoilt' = [spoilt EXCEPT ![c] =
             \/ session_state[c] = NoState /\ module_state # NoState
             \/ session_state[c] # NoState /\ base[c] # module_state
             \/ @]
  /\ UNCHANGED <<lesson, module_state, session_state, lessons, credit, lost>>

(* A turn starts: a completed problem is replaced, if one can be generated. *)
Begin(c, generated) ==
  /\ context[c] # NoContext
  /\ lesson[c].stage = "idle"
  /\ lessons < MaxLessons
  /\ lessons' = lessons + 1
  /\ lesson' = [lesson EXCEPT ![c] =
       [Idle EXCEPT !.stage = "begun",
                    !.problem = IF context[c].problem.completed /\ generated
                                THEN Generate(context[c].nominal) ELSE context[c].problem]]
  /\ UNCHANGED <<context, module_state, session_state, credit, base, spoilt, lost>>

(* process_turn: of the primary task, and of one more task of the turn; the *)
(* decision that is kept is the last one's.                                 *)
Step(c, e) ==
  /\ \/ lesson[c].stage = "begun"
     \/ lesson[c].stage = "stepped" /\ ~lesson[c].second
  /\ LET step == DomainStep(context[c].learning, e)
     IN /\ context' = [context EXCEPT ![c].learning = step.state]
        /\ lesson' = [lesson EXCEPT ![c].stage = "stepped",
                                    ![c].second = lesson[c].stage = "stepped",
                                    ![c].solved = IF lesson[c].stage = "begun" THEN e[1].solved ELSE @,
                                    ![c].decision = step.decision]
        /\ spoilt' = [spoilt EXCEPT ![c] = @ \/ lesson[c].decision.next # 0]
  /\ credit' = credit + (IF e[1].solve = "fast" THEN 1 ELSE 0)
  /\ UNCHANGED <<module_state, session_state, lessons, base, lost>>

(* education_post_turn: an advance sets the difficulty of the task, and an  *)
(* advance or a solved problem generates the next one, if it can.           *)
PostTurn(c, generated) ==
  /\ lesson[c].stage = "stepped"
  /\ LET next == lesson[c].decision.next
         nominal == IF next # 0 THEN Middle(next) ELSE context[c].nominal
         solved == [lesson[c].problem EXCEPT !.completed = @ \/ lesson[c].solved]
         due == next # 0 \/ lesson[c].solved
     IN /\ context' = [context EXCEPT ![c].nominal = nominal]
        /\ lesson' = [lesson EXCEPT ![c].stage = "processed",
                                    ![c].aligned = next # 0 /\ generated,
                                    ![c].problem = IF due /\ generated THEN Generate(nominal) ELSE solved]
        /\ spoilt' = [spoilt EXCEPT ![c] = @ \/ (next # 0 /\ ~generated)]
  /\ UNCHANGED <<module_state, session_state, lessons, credit, base, lost>>

(* The context takes the problem over and the conversation is saved.        *)
Sync(c) ==
  /\ lesson[c].stage = "processed"
  /\ context' = [context EXCEPT ![c].problem = lesson[c].problem]
  /\ session_state' = [session_state EXCEPT ![c] =
       [nominal |-> context[c].nominal, problem |-> lesson[c].problem]]
  /\ lesson' = [lesson EXCEPT ![c].stage = "synced"]
  /\ UNCHANGED <<module_state, lessons, credit, base, spoilt, lost>>

(* The serializer saves the monitors; a failure is logged and swallowed.    *)
Serialize(c, saved) ==
  /\ lesson[c].stage = "synced"
  /\ module_state' = IF saved THEN context[c].learning ELSE module_state
  /\ base' = IF saved THEN [base EXCEPT ![c] = context[c].learning] ELSE base
  /\ lost' = (lost \/ (saved /\ base[c] # module_state))
  /\ spoilt' = [spoilt EXCEPT ![c] = ~saved \/ (@ /\ ~lesson[c].aligned)]
  /\ lesson' = [lesson EXCEPT ![c] = Idle]
  /\ UNCHANGED <<context, session_state, lessons, credit>>

(* The turn fails before it is saved: what it changed in memory stays.      *)
Fail(c) ==
  /\ lesson[c].stage \in {"begun", "stepped", "processed"}
  /\ lesson' = [lesson EXCEPT ![c] = Idle]
  /\ spoilt' = [spoilt EXCEPT ![c] = @ \/ lesson[c].stage # "begun"]
  /\ UNCHANGED <<context, module_state, session_state, lessons, credit, base, lost>>

(* The process stops; the next turn of a conversation builds its context.   *)
Restart ==
  /\ context' = [c \in Learners |-> NoContext]
  /\ lesson' = [c \in Learners |-> Idle]
  /\ spoilt' = [c \in Learners |-> spoilt[c] \/ lesson[c].stage = "synced"]
  /\ UNCHANGED <<module_state, session_state, lessons, credit, base, lost>>

Next ==
  \E c \in Learners :
    \/ Open(c) \/ Sync(c) \/ Fail(c)
    \/ \E generated \in BOOLEAN : Begin(c, generated) \/ PostTurn(c, generated)
    \/ \E e \in Readings : Step(c, e)
    \/ \E saved \in BOOLEAN : Serialize(c, saved)

Spec == Init /\ [][Next \/ Restart]_learningVars

(* ---- Properties ---------------------------------------------------------------- *)

States == {context[c].learning : c \in {x \in Learners : context[x] # NoContext}}
            \cup ({module_state} \ {NoState})

(* However often the monitors' state is saved, lost, restored and written   *)
(* over by another conversation, every tier of it took Target fast correct  *)
(* solves.                                                                  *)
TierIsEarned ==
  \A l \in States : (l.tier - TierOf(DefaultDifficulty)) * Target + l.run <= credit

(* The problem on the table is of the student's tier, and so is the         *)
(* difficulty the next one is generated from, unless since the last advance *)
(* the conversation was new, a turn or a save failed, a second task hid an  *)
(* advance, or another conversation advanced.                               *)
ProblemFitsTier ==
  \A c \in Learners :
    context[c] # NoContext /\ lesson[c].stage = "idle" /\ ~spoilt[c] =>
      /\ context[c].problem.tier = context[c].learning.tier
      /\ TierOf(context[c].nominal) = context[c].learning.tier

(* Numbers escalate only from a full window, whose run of turns outside is  *)
(* the one its flags show, over saves and restores.                         *)
EscalationIsPrimed ==
  /\ \A l \in States :
       /\ Len(l.outside_flags) = Min({l.attempts, WindowTurns})
       /\ \A i \in DOMAIN l.outside_flags :
            i <= l.outside_run <=> \A j \in 1..i : l.outside_flags[j]
  /\ \A c \in Learners :
       lesson[c].stage = "stepped" /\ lesson[c].decision.escalates =>
         Len(context[c].learning.outside_flags) >= Min({DriftWindow, WindowTurns})

(* The saved tier never falls, unless a conversation writes over what       *)
(* another one saved meanwhile.                                             *)
KeepsTier == module_state # NoState => module_state'.tier >= module_state.tier \/ lost'
=============================================================================
