--------------------------- MODULE TurnPipelineProofs ---------------------------
(***************************************************************************)
(* Lemmas about TurnPipeline, for any sets of conversations and threads and*)
(* any bounds: its invariant, and that its properties follow.              *)
(* ChatTurnsProofs applies them to the turns of the server.                *)
(*                                                                         *)
(* The inductive invariant says what a turn in progress has left behind:   *)
(* that turns are apart, what a writer's hash stands for, which records of *)
(* the turn there are, and what the writer's last two records then are.    *)
(***************************************************************************)
EXTENDS TurnPipeline, FiniteSetTheorems, TLAPS

LEMMA UpToIsFinite ==
  ASSUME NEW n \in Nat, NEW S \in SUBSET (1..n)
  PROVE  IsFiniteSet(S)
<1>1. 1 \in Int /\ n \in Int
  OBVIOUS
<1>2. IsFiniteSet(1..n)
  BY <1>1, FS_Interval
<1>3. QED
  BY <1>2, FS_Subset

Kinds == {"commitment", "trace", "escalation", "novel", "provenance"}
Records == [writer : Nat \ {0}, turn : Nat, kind : Kinds, prev : Nat]
WriterStates == [session : Sessions, prev : Nat, last : Seq(Kinds)]
TurnStates ==
  [pc : {"idle", "open", "gates", "inspect", "build", "append", "sync", "command", "llm"},
   session : Sessions \cup {NoSession}, turn : Nat, writer : Nat, first : BOOLEAN, more : Nat, tasks : Nat,
   kind : Kinds, prev : Nat, escalate : BOOLEAN, report : BOOLEAN]
Answers == [turn : Nat, session : Sessions, writer : Nat, tasks : Nat, report : BOOLEAN]

(* Types, without the bounds; a record is that of a turn and of a writer,   *)
(* and a conversation's writer is one of its own.                           *)
PipeTypes ==
  /\ ledger \in Seq(Records) /\ writers \in Seq(WriterStates)
  /\ turn \in [Threads -> TurnStates] /\ answered \subseteq Answers
  /\ orchestrator \in [Sessions -> Nat] /\ counted \in [Sessions -> Nat] /\ received \in Nat
  /\ \A i \in DOMAIN ledger : ledger[i].writer \in DOMAIN writers /\ ledger[i].turn <= received
  /\ \A k \in DOMAIN writers : Len(writers[k].last) \in 1..2
  /\ \A s \in Sessions : orchestrator[s] # 0 =>
       orchestrator[s] \in DOMAIN writers /\ writers[orchestrator[s]].session = s

Active(t) == turn[t].pc # "idle"
Writing(t) == turn[t].pc \in {"build", "append"}

(* How many of its tasks a turn has traced.                                 *)
Traced(t) ==
  IF turn[t].kind = "trace" /\ turn[t].pc \in {"open", "gates", "inspect", "build", "append"}
  THEN turn[t].tasks - turn[t].more ELSE turn[t].tasks - turn[t].more + 1

(* Where a turn is, and what it has to do yet.                              *)
Placed(t) ==
  /\ turn[t].session \in Sessions /\ turn[t].turn <= received /\ turn[t].more <= turn[t].tasks
  /\ IF turn[t].pc = "open" THEN turn[t].writer = 0
     ELSE turn[t].writer \in DOMAIN writers /\ writers[turn[t].writer].session = turn[t].session
  /\ turn[t].pc \in {"open", "gates", "inspect"} => turn[t].kind = "trace" /\ turn[t].more = turn[t].tasks
  /\ turn[t].pc = "build" => turn[t].kind \in {"trace", "escalation"}
  /\ turn[t].pc = "append" => turn[t].kind \in {"trace", "escalation", "provenance"}
  /\ turn[t].kind = "provenance" => turn[t].pc = "append"
  /\ turn[t].pc \in {"sync", "command", "llm"} \/ turn[t].kind = "provenance" => turn[t].more = 0

(* The turns being served are different ones, and none of them is answered; *)
(* two of a conversation overlap.                                           *)
TurnsApart ==
  /\ \A t \in Threads : Active(t) => Placed(t)
  /\ \A t, u \in Threads : t # u /\ Active(t) /\ Active(u) =>
       turn[t].turn # turn[u].turn /\ (turn[t].session = turn[u].session => turn[t].session \in overlapped)
  /\ \A a \in answered : a.turn <= received /\ \A t \in Threads : Active(t) => turn[t].turn # a.turn

(* A writer's hash is that of its last record, and so is the one a turn is  *)
(* about to append with, if it is alone.                                    *)
ChainInv ==
  /\ \A k \in DOMAIN writers :
       /\ writers[k].prev \in DOMAIN ledger /\ ledger[writers[k].prev].writer = k
       /\ \A i \in DOMAIN ledger : ledger[i].writer = k => i <= writers[k].prev
  /\ \A t \in Threads : turn[t].pc = "append" /\ turn[t].session \notin overlapped =>
       turn[t].prev = writers[turn[t].writer].prev
  /\ WritersChain

(* A turn has a trace for every task it is through with, and no escalation  *)
(* before the first of them.                                                *)
TraceInv ==
  /\ \A t \in Threads : Active(t) =>
       /\ Cardinality(Of(turn[t].turn, "trace")) = Traced(t)
       /\ Traced(t) = 0 => Of(turn[t].turn, "escalation") = {}
  /\ AnsweredIsTraced

(* What the writer of a conversation remembers, while its turns do not      *)
(* overlap and none was cut short: between turns no escalation is its last  *)
(* record; after the first task an escalation can only be the last record,  *)
(* and after the second one both of them are of the turn.                   *)
Escalated(t) == Of(turn[t].turn, "escalation") # {}
Shows(t) == build_escalation_content(turn[t].writer)
Sound(s) == s \notin overlapped /\ orchestrator[s] # 0 /\ orchestrator[s] \notin cut
Newest(k) == writers[k].last[Len(writers[k].last)]
Remembered(t) ==
  Active(t) /\ turn[t].pc # "open" /\ Sound(turn[t].session) /\ turn[t].tasks <= 1 =>
    /\ Traced(t) # 0 /\ (Writing(t) \/ turn[t].pc = "sync") /\ turn[t].kind # "provenance" =>
         /\ Len(writers[turn[t].writer].last) = 2 /\ (Shows(t) <=> Escalated(t))
         /\ Traced(t) = 1 => writers[turn[t].writer].last[1] # "escalation"
    /\ Writing(t) /\ turn[t].kind = "escalation" => Newest(turn[t].writer) = "trace"
    /\ turn[t].pc \in {"command", "llm"} \/ turn[t].kind = "provenance" => (turn[t].report <=> Escalated(t))
ReportInv ==
  /\ \A t \in Threads : Active(t) /\ turn[t].pc # "open" /\ turn[t].session \notin overlapped =>
       turn[t].writer = orchestrator[turn[t].session]
  /\ \A s \in Sessions : Sound(s) /\ (\A t \in Threads : Active(t) /\ turn[t].session = s => Traced(t) = 0) =>
       Newest(orchestrator[s]) \in {"commitment", "provenance"}
  /\ \A t \in Threads : Remembered(t)
  /\ EscalationIsReported

PipeInv == PipeTypes /\ TurnsApart /\ ChainInv /\ TraceInv /\ ReportInv

LEMMA PipeInit == Init => PipeInv
<1> SUFFICES ASSUME Init PROVE PipeInv
  OBVIOUS
<1>1. /\ ledger = << >> /\ writers = << >>
      /\ orchestrator = [s \in Sessions |-> 0]
      /\ overlapped = {} /\ cut = {} /\ answered = {}
      /\ counted = [s \in Sessions |-> 0]
      /\ turn = [t \in Threads |-> Idle] /\ received = 0
  BY DEF Init
<1>2. Idle \in TurnStates /\ Idle.pc = "idle"
  BY DEF Idle, TurnStates, Kinds
<1>3. \A t \in Threads : turn[t].pc = "idle"
  BY <1>1, <1>2
<1>4. PipeTypes
  <2>1. ledger \in Seq(Records) /\ writers \in Seq(WriterStates) /\ DOMAIN ledger = {} /\ DOMAIN writers = {}
    BY <1>1
  <2>2. turn \in [Threads -> TurnStates]
    BY <1>1, <1>2
  <2>3. QED
    BY <1>1, <2>1, <2>2 DEF PipeTypes
<1>5. TurnsApart
  BY <1>1, <1>3 DEF TurnsApart, Active
<1>6. ChainInv
  <2>1. DOMAIN ledger = {} /\ DOMAIN writers = {}
    BY <1>1
  <2>2. QED
    BY <1>3, <2>1 DEF ChainInv, WritersChain
<1>7. TraceInv
  BY <1>1, <1>3 DEF TraceInv, Active, AnsweredIsTraced
<1>8. ReportInv
  BY <1>1, <1>3 DEF ReportInv, Remembered, Sound, Active, EscalationIsReported
<1>9. QED
  BY <1>4, <1>5, <1>6, <1>7, <1>8 DEF PipeInv

(* A step of one turn that appends nothing.                                 *)
LEMMA TurnMoves ==
  ASSUME PipeInv, NEW t \in Threads, Active(t),
         turn' \in [Threads -> TurnStates], \A u \in Threads \ {t} : turn'[u] = turn[u],
         UNCHANGED <<ledger, writers, orchestrator, received, answered, overlapped>>,
         counted' \in [Sessions -> Nat], cut \subseteq cut',
         turn'[t].pc # "idle" => /\ turn'[t].session = turn[t].session /\ turn'[t].turn = turn[t].turn
                                 /\ turn'[t].writer = turn[t].writer /\ turn'[t].pc # "open"
                                 /\ turn[t].pc # "open"
                                 /\ Placed(t)' /\ Traced(t)' = Traced(t) /\ Remembered(t)',
         turn'[t].pc = "append" => turn'[t].prev = writers[turn[t].writer].prev,
         turn'[t].pc = "idle" => Traced(t) = 0 \/ turn[t].writer \in cut'
  PROVE  PipeInv'
<1>1. PipeTypes'
  BY DEF PipeInv, PipeTypes
<1>2. ASSUME NEW n, NEW kind PROVE Of(n, kind)' = Of(n, kind)
  BY DEF Of
<1>3. TurnsApart'
  BY DEF PipeInv, TurnsApart, Active, Placed
<1>4. ChainInv'
  <2>1. WritersChain'
    BY DEF PipeInv, ChainInv, WritersChain, Linked
  <2>2. QED
    BY <2>1 DEF PipeInv, ChainInv
<1>5. TraceInv'
  <2>1. AnsweredIsTraced'
    BY <1>2 DEF PipeInv, TraceInv, AnsweredIsTraced
  <2>2. QED
    BY <1>2, <2>1 DEF PipeInv, TraceInv, Active, Traced
<1>6. ReportInv'
  <2>1. EscalationIsReported'
    BY <1>2 DEF PipeInv, ReportInv, EscalationIsReported
  <2>2. \A s : Sound(s)' => Sound(s)
    BY DEF Sound
  <2>3. ASSUME NEW u \in Threads \ {t} PROVE Remembered(u)'
    <3>1. turn'[u] = turn[u] /\ writers' = writers
      OBVIOUS
    <3>2. /\ Active(u)' = Active(u) /\ Traced(u)' = Traced(u) /\ Writing(u)' = Writing(u)
          /\ Shows(u)' = Shows(u) /\ Newest(turn[u].writer)' = Newest(turn[u].writer)
      BY <3>1 DEF Active, Traced, Writing, Shows, Newest, build_escalation_content
    <3>3. Escalated(u)' = Escalated(u)
      BY <1>2, <3>1 DEF Escalated
    <3>4. Sound(turn[u].session)' => Sound(turn[u].session)
      BY <2>2
    <3>5. Remembered(u)
      BY DEF PipeInv, ReportInv
    <3>6. QED
      BY <3>1, <3>2, <3>3, <3>4, <3>5 DEF Remembered
  <2>4. Remembered(t)'
    BY DEF Remembered, Active
  <2>5. ASSUME NEW u \in Threads, Active(u)', turn'[u].pc # "open", turn'[u].session \notin overlapped'
        PROVE  turn'[u].writer = orchestrator'[turn'[u].session]
    BY <2>5 DEF PipeInv, ReportInv, Active
  <2>6. ASSUME NEW s \in Sessions, Sound(s)', \A u \in Threads : Active(u)' /\ turn'[u].session = s => Traced(u)' = 0
        PROVE  Newest(orchestrator[s])' \in {"commitment", "provenance"}
    <3>1. \A u \in Threads \ {t} : Active(u) /\ turn[u].session = s => Traced(u) = 0
      BY <2>6 DEF Active, Traced
    <3>2. turn[t].session = s => Traced(t) = 0
      <4>1. CASE turn'[t].pc # "idle"
        BY <2>6, <4>1 DEF Active
      <4>2. CASE turn'[t].pc = "idle" /\ turn[t].session = s /\ Traced(t) # 0
        <5>1. turn[t].pc # "open"
          BY <4>2 DEF PipeInv, PipeTypes, TurnStates, TurnsApart, Placed, Traced
        <5>2. turn[t].writer = orchestrator[s]
          BY <2>6, <4>2, <5>1 DEF PipeInv, ReportInv, Sound
        <5>3. QED
          BY <2>6, <4>2, <5>2 DEF Sound
      <4>3. QED
        BY <4>1, <4>2
    <3>3. Newest(orchestrator[s]) \in {"commitment", "provenance"}
      BY <2>2, <2>6, <3>1, <3>2 DEF PipeInv, ReportInv
    <3>4. QED
      BY <3>3 DEF Newest
  <2>7. QED
    BY <2>1, <2>3, <2>4, <2>5, <2>6 DEF ReportInv
<1>7. QED
  BY <1>1, <1>3, <1>4, <1>5, <1>6 DEF PipeInv

LEMMA TurnLeaves ==
  ASSUME PipeInv, NEW t \in Threads, Active(t), turn' = [turn EXCEPT ![t] = Idle],
         UNCHANGED <<ledger, writers, orchestrator, received, answered, overlapped>>,
         counted' \in [Sessions -> Nat], cut \subseteq cut',
         Traced(t) = 0 \/ turn[t].writer \in cut'
  PROVE  PipeInv'
<1>1. Idle \in TurnStates /\ Idle.pc = "idle"
  BY DEF Idle, TurnStates, Kinds
<1>2. turn' \in [Threads -> TurnStates] /\ turn'[t].pc = "idle" /\ \A u \in Threads \ {t} : turn'[u] = turn[u]
  BY <1>1 DEF PipeInv, PipeTypes
<1>3. QED
  BY <1>2, TurnMoves

(* Before its first task a turn has traced nothing.                         *)
LEMMA NothingTraced ==
  ASSUME PipeInv, NEW t \in Threads, turn[t].pc \in {"open", "gates", "inspect"}
  PROVE  Active(t) /\ Placed(t) /\ Traced(t) = 0
<1>1. Active(t) /\ Placed(t)
  BY DEF PipeInv, TurnsApart, Active
<1>2. turn[t].tasks \in Nat
  BY DEF PipeInv, PipeTypes, TurnStates
<1>3. QED
  BY <1>1, <1>2 DEF Placed, Traced

LEMMA WriterOfTurn ==
  ASSUME PipeInv, NEW t \in Threads, Active(t), turn[t].pc # "open"
  PROVE  turn[t].writer \in DOMAIN writers /\ writers[turn[t].writer] \in WriterStates
<1>1. turn[t].writer \in DOMAIN writers
  BY DEF PipeInv, TurnsApart, Placed
<1>2. writers \in Seq(WriterStates)
  BY DEF PipeInv, PipeTypes
<1>3. QED
  BY <1>1, <1>2

(* Turns that end before the orchestrator.                                  *)
LEMMA TurnIsAnsweredEarly ==
  ASSUME PipeInv, NEW t \in Threads,
         \/ Refused(t) \/ check_glossary(t) \/ check_turn_0(t)
         \/ check_greeting(t) \/ Denied(t)
  PROVE  PipeInv'
<1>1. /\ turn[t].pc \in {"gates", "inspect"}
      /\ turn' = [turn EXCEPT ![t] = Idle]
      /\ UNCHANGED <<ledger, writers, orchestrator, received, answered, overlapped, cut>>
  BY DEF Refused, check_glossary, check_turn_0, check_greeting, Denied, Counts,
     PassesGates, At, Leave
<1>2. Active(t) /\ Placed(t) /\ Traced(t) = 0
  BY <1>1, NothingTraced
<1>3. counted \in [Sessions -> Nat] /\ turn[t].session \in Sessions
  BY <1>2 DEF PipeInv, PipeTypes, Placed
<1>4. UNCHANGED counted \/ counted' = [counted EXCEPT ![turn[t].session] = @ + 1]
  BY DEF Refused, check_glossary, check_turn_0, check_greeting, Denied, Counts
<1>5. counted' \in [Sessions -> Nat]
  BY <1>3, <1>4
<1>6. QED
  BY <1>1, <1>2, <1>5, TurnLeaves

LEMMA TurnFails ==
  ASSUME PipeInv, NEW t \in Threads, Fail(t)
  PROVE  PipeInv'
<1>1. /\ turn[t].pc \in {"open", "append", "sync", "llm"}
      /\ turn' = [turn EXCEPT ![t] = Idle]
      /\ UNCHANGED <<ledger, writers, orchestrator, received, answered, overlapped, counted>>
      /\ cut \subseteq cut'
  BY DEF Fail, Leave
<1>2. Active(t)
  BY <1>1 DEF Active
<1>3. Traced(t) = 0 \/ turn[t].writer \in cut'
  <2>1. CASE Of(turn[t].turn, "trace") = {}
    BY <1>2, <2>1, FS_EmptySet DEF PipeInv, TraceInv
  <2>2. CASE Of(turn[t].turn, "trace") # {}
    <3>1. \E i \in DOMAIN ledger : ledger[i].turn = turn[t].turn /\ ledger[i].kind # "commitment"
      BY <2>2 DEF Of
    <3>2. QED
      BY <3>1 DEF Fail
  <2>3. QED
    BY <2>1, <2>2
<1>4. counted' \in [Sessions -> Nat]
  BY <1>1 DEF PipeInv, PipeTypes
<1>5. QED
  BY <1>1, <1>2, <1>3, <1>4, TurnLeaves

LEMMA TurnIsInterpreted ==
  ASSUME PipelineAssumption, PipeInv, NEW t \in Threads, Interpret(t)
  PROVE  PipeInv'
<1>1. turn[t].pc = "gates" /\ UNCHANGED <<ledger, writers, orchestrator, counted, received, answered, overlapped, cut>>
  BY DEF Interpret, PassesGates, At
<1>2. Active(t) /\ Placed(t) /\ Traced(t) = 0 /\ turn[t].kind = "trace"
  BY <1>1, NothingTraced DEF Placed
<1>3. turn \in [Threads -> TurnStates] /\ counted' \in [Sessions -> Nat]
  BY <1>1 DEF PipeInv, PipeTypes
<1>4. CASE turn' = [turn EXCEPT ![t] = Idle]
  BY <1>1, <1>2, <1>3, <1>4, TurnLeaves
<1>5. ASSUME NEW n \in 0..MaxSecondary, turn' = [turn EXCEPT ![t] = [@ EXCEPT !.pc = "inspect", !.tasks = n, !.more = n]]
      PROVE  PipeInv'
  <2>1. n \in Nat
    BY DEF PipelineAssumption
  <2>2. turn' \in [Threads -> TurnStates] /\ \A u \in Threads \ {t} : turn'[u] = turn[u]
    BY <1>3, <1>5, <2>1 DEF TurnStates
  <2>3. /\ turn'[t].pc = "inspect" /\ turn'[t].tasks = n /\ turn'[t].more = n
        /\ turn'[t].session = turn[t].session /\ turn'[t].turn = turn[t].turn /\ turn'[t].writer = turn[t].writer
        /\ turn'[t].kind = "trace"
    BY <1>2, <1>3, <1>5 DEF TurnStates
  <2>4. Placed(t)' /\ Traced(t)' = 0
    BY <1>1, <1>2, <2>1, <2>3 DEF Placed, Traced
  <2>5. Remembered(t)'
    BY <2>3, <2>4 DEF Remembered, Writing
  <2>6. QED
    BY <1>1, <1>2, <1>3, <2>2, <2>3, <2>4, <2>5, TurnMoves
<1>6. QED
  BY <1>4, <1>5 DEF Interpret, Leave

LEMMA RecordIsBuilt ==
  ASSUME PipeInv, NEW t \in Threads, Build(t)
  PROVE  PipeInv'
<1>1. turn[t].pc \in {"inspect", "build"}
      /\ UNCHANGED <<ledger, writers, orchestrator, counted, received, answered, overlapped, cut>>
  BY DEF Build, At
<1>2. Active(t) /\ Placed(t) /\ Remembered(t)
  BY <1>1 DEF Active, PipeInv, TurnsApart, ReportInv
<1>3. turn \in [Threads -> TurnStates] /\ counted' \in [Sessions -> Nat] /\ writers \in Seq(WriterStates)
  BY <1>1 DEF PipeInv, PipeTypes
<1>4. turn[t].escalate \in BOOLEAN
  BY <1>3 DEF TurnStates
<1>5. PICK escalate \in BOOLEAN :
        turn' = [turn EXCEPT ![t] =
          [@ EXCEPT !.pc = "append", !.prev = writers[turn[t].writer].prev, !.escalate = escalate]]
  BY <1>4 DEF Build
<1>6. writers[turn[t].writer].prev \in Nat
  BY <1>1, <1>2, WriterOfTurn DEF WriterStates
<1>7. turn' \in [Threads -> TurnStates] /\ \A u \in Threads \ {t} : turn'[u] = turn[u]
  BY <1>3, <1>5, <1>6 DEF TurnStates
<1>8. /\ turn'[t].pc = "append" /\ turn'[t].prev = writers[turn[t].writer].prev
      /\ turn'[t].session = turn[t].session /\ turn'[t].turn = turn[t].turn /\ turn'[t].writer = turn[t].writer
      /\ turn'[t].kind = turn[t].kind /\ turn'[t].tasks = turn[t].tasks /\ turn'[t].more = turn[t].more
      /\ turn'[t].report = turn[t].report
  BY <1>3, <1>5 DEF TurnStates
<1>9. Placed(t)' /\ Traced(t)' = Traced(t) /\ (turn[t].pc = "inspect" => Traced(t) = 0 /\ turn[t].kind = "trace")
  BY <1>1, <1>2, <1>8, NothingTraced DEF Placed, Traced
<1>10. /\ Shows(t)' = Shows(t) /\ Escalated(t)' = Escalated(t) /\ Sound(turn[t].session)' = Sound(turn[t].session)
       /\ Newest(turn[t].writer)' = Newest(turn[t].writer) /\ turn[t].kind # "provenance"
  BY <1>1, <1>2, <1>8 DEF Shows, Escalated, Sound, Newest, build_escalation_content, Of, Placed
<1>11. Remembered(t)'
  <2>1. CASE turn[t].pc = "inspect"
    BY <1>8, <1>9, <2>1 DEF Remembered
  <2>2. CASE turn[t].pc = "build"
    BY <1>1, <1>2, <1>8, <1>9, <1>10, <2>2 DEF Remembered, Writing, Active
  <2>3. QED
    BY <1>1, <2>1, <2>2
<1>12. turn[t].pc # "open" /\ turn'[t].pc # "open" /\ turn'[t].pc # "idle"
  BY <1>1, <1>8
<1>13. QED
  BY <1>1, <1>2, <1>3, <1>7, <1>8, <1>9, <1>11, <1>12, TurnMoves

(* From the orchestrator to the answer.                                     *)
LEMMA TurnIsFinished ==
  ASSUME PipeInv, NEW t \in Threads, Sync(t) \/ build_command_content(t) \/ invoke_llm(t)
  PROVE  PipeInv'
<1>1. turn[t].pc \in {"sync", "command", "llm"}
      /\ UNCHANGED <<ledger, writers, orchestrator, received, answered, overlapped, cut>>
  BY DEF Sync, build_command_content, invoke_llm, At
<1>2. Active(t) /\ Placed(t) /\ Remembered(t)
  BY <1>1 DEF Active, PipeInv, TurnsApart, ReportInv
<1>3. turn \in [Threads -> TurnStates] /\ counted \in [Sessions -> Nat] /\ writers \in Seq(WriterStates)
  BY DEF PipeInv, PipeTypes
<1>4. counted' \in [Sessions -> Nat]
  <2>1. UNCHANGED counted \/ counted' = [counted EXCEPT ![turn[t].session] = @ + 1]
    BY DEF Sync, build_command_content, invoke_llm
  <2>2. turn[t].session \in Sessions
    BY <1>2 DEF Placed
  <2>3. QED
    BY <1>3, <2>1, <2>2
<1>5. writers[turn[t].writer].prev \in Nat /\ Shows(t) \in BOOLEAN
  BY <1>1, <1>2, WriterOfTurn DEF WriterStates, Shows, build_escalation_content
<1>6. /\ turn' \in [Threads -> TurnStates] /\ \A u \in Threads \ {t} : turn'[u] = turn[u]
      /\ turn'[t].session = turn[t].session /\ turn'[t].turn = turn[t].turn /\ turn'[t].writer = turn[t].writer
      /\ turn'[t].tasks = turn[t].tasks /\ turn'[t].more = turn[t].more
      /\ \/ /\ turn[t].pc = "sync" /\ turn'[t].pc = "command" /\ turn'[t].report = Shows(t)
            /\ turn'[t].kind = turn[t].kind
         \/ /\ turn[t].pc = "command" /\ turn'[t].pc = "llm" /\ turn'[t].report = turn[t].report
            /\ turn'[t].kind = turn[t].kind
         \/ /\ turn[t].pc = "llm" /\ turn'[t].pc = "append" /\ turn'[t].report = turn[t].report
            /\ turn'[t].kind = "provenance" /\ turn'[t].prev = writers[turn[t].writer].prev
  <2>1. CASE Sync(t)
    <3>1. turn[t].pc = "sync" /\ turn' = [turn EXCEPT ![t].pc = "command", ![t].report = Shows(t)]
      BY <2>1 DEF Sync, At, Shows
    <3>2. QED
      BY <1>3, <1>5, <3>1 DEF TurnStates
  <2>2. CASE build_command_content(t)
    <3>1. turn[t].pc = "command" /\ turn' = [turn EXCEPT ![t].pc = "llm"]
      BY <2>2 DEF build_command_content, At, Go
    <3>2. QED
      BY <1>3, <3>1 DEF TurnStates
  <2>3. CASE invoke_llm(t)
    <3> DEFINE new == [turn[t] EXCEPT !.pc = "append", !.kind = "provenance", !.prev = writers[turn[t].writer].prev]
    <3>1. turn[t].pc = "llm" /\ turn' = [turn EXCEPT ![t] = new]
      BY <2>3 DEF invoke_llm, At
    <3>2. turn[t] \in TurnStates
      BY <1>3
    <3>3. /\ new \in TurnStates /\ new.session = turn[t].session /\ new.turn = turn[t].turn
          /\ new.writer = turn[t].writer /\ new.tasks = turn[t].tasks /\ new.more = turn[t].more
          /\ new.pc = "append" /\ new.report = turn[t].report /\ new.kind = "provenance"
          /\ new.prev = writers[turn[t].writer].prev
      BY <1>5, <3>2 DEF TurnStates, Kinds
    <3> HIDE DEF new
    <3>4. turn' \in [Threads -> TurnStates] /\ turn'[t] = new /\ \A u \in Threads \ {t} : turn'[u] = turn[u]
      BY <1>3, <3>1, <3>3
    <3>5. QED
      BY <3>1, <3>3, <3>4
  <2>4. QED
    BY <2>1, <2>2, <2>3
<1>7. turn[t].tasks \in Nat /\ turn[t].more \in Nat /\ turn[t].more = 0 /\ turn[t].kind # "provenance"
  BY <1>1, <1>2, <1>3 DEF TurnStates, Placed
<1>8. Placed(t)' /\ Traced(t)' = Traced(t) /\ Traced(t) # 0
  BY <1>1, <1>2, <1>6, <1>7 DEF Placed, Traced
<1>9. Escalated(t)' = Escalated(t) /\ Sound(turn[t].session)' = Sound(turn[t].session)
  BY <1>1, <1>6 DEF Escalated, Sound, Of
<1>10. Remembered(t)'
  <2>1. turn'[t].tasks <= 1 /\ Sound(turn[t].session)' => (turn'[t].report <=> Escalated(t))
    BY <1>1, <1>2, <1>6, <1>7, <1>8, <1>9 DEF Remembered, Active, Writing
  <2>2. QED
    BY <1>6, <1>9, <2>1 DEF Remembered, Writing
<1>11. turn[t].pc # "open" /\ turn'[t].pc # "open" /\ turn'[t].pc # "idle"
       /\ (turn'[t].pc = "append" => turn'[t].prev = writers[turn[t].writer].prev)
  BY <1>1, <1>6
<1>12. QED
  BY <1>1, <1>2, <1>4, <1>6, <1>8, <1>10, <1>11, TurnMoves

(* A record is appended: what the ledger and the writer say of it.          *)
LEMMA LedgerGrows ==
  ASSUME PipeInv, NEW r \in Records, ledger' = Append(ledger, r)
  PROVE  /\ ledger' \in Seq(Records) /\ Len(ledger) \in Nat
         /\ DOMAIN ledger = 1..Len(ledger) /\ DOMAIN ledger' = 1..(Len(ledger) + 1)
         /\ ledger'[Len(ledger) + 1] = r /\ \A i \in DOMAIN ledger : ledger'[i] = ledger[i]
         /\ \A n \in Nat, kind \in Kinds :
              Of(n, kind)' = IF n = r.turn /\ kind = r.kind THEN Of(n, kind) \cup {Len(ledger) + 1}
                                  ELSE Of(n, kind)
<1>1. ledger \in Seq(Records)
  BY DEF PipeInv, PipeTypes
<1>2. /\ ledger' \in Seq(Records) /\ Len(ledger) \in Nat
      /\ DOMAIN ledger = 1..Len(ledger) /\ DOMAIN ledger' = 1..(Len(ledger) + 1)
      /\ ledger'[Len(ledger) + 1] = r /\ \A i \in DOMAIN ledger : ledger'[i] = ledger[i]
  BY <1>1
<1>3. ASSUME NEW n \in Nat, NEW kind \in Kinds
      PROVE  Of(n, kind)' = IF n = r.turn /\ kind = r.kind THEN Of(n, kind) \cup {Len(ledger) + 1}
                                 ELSE Of(n, kind)
  BY <1>2 DEF Of
<1>4. QED
  BY <1>2, <1>3

LEMMA OneMore ==
  ASSUME PipeInv, NEW n, NEW kind
  PROVE  /\ Cardinality(Of(n, kind)) \in Nat
         /\ Cardinality(Of(n, kind) \cup {Len(ledger) + 1}) = Cardinality(Of(n, kind)) + 1
<1>1. Len(ledger) \in Nat /\ Of(n, kind) \in SUBSET (1..Len(ledger)) /\ Len(ledger) + 1 \notin Of(n, kind)
  BY DEF PipeInv, PipeTypes, Of
<1>2. IsFiniteSet(Of(n, kind))
  BY <1>1, UpToIsFinite
<1>3. Cardinality(Of(n, kind)) \in Nat
  BY <1>2, FS_CardinalityType
<1>4. Cardinality(Of(n, kind) \cup {Len(ledger) + 1}) = Cardinality(Of(n, kind)) + 1
  BY <1>1, <1>2, FS_AddElement
<1>5. QED
  BY <1>3, <1>4

(* Of the last two records and a new one, the last two.                     *)
LEMMA LastTwoOfThree ==
  ASSUME NEW S, NEW q \in Seq(S), NEW e \in S, Len(q) \in 1..2
  PROVE  LET last == LastTwo(Append(q, e))
         IN  last \in Seq(S) /\ Len(last) = 2 /\ last[1] = q[Len(q)] /\ last[2] = e
<1>1. Append(q, e) \in Seq(S) /\ Len(Append(q, e)) = Len(q) + 1
  OBVIOUS
<1>2. Append(q, e)[Len(q)] = q[Len(q)] /\ Append(q, e)[Len(q) + 1] = e
  OBVIOUS
<1>3. CASE Len(q) = 1
  BY <1>1, <1>2, <1>3 DEF LastTwo
<1>4. CASE Len(q) = 2
  BY <1>1, <1>2, <1>4 DEF LastTwo
<1>5. QED
  BY <1>3, <1>4

LEMMA WriterMovesOn ==
  ASSUME PipeInv, NEW t \in Threads, Active(t), turn[t].pc # "open",
         NEW kind \in Kinds, NEW p \in Nat, _append_log_record(t, kind, p)
  PROVE  LET k == turn[t].writer
             r == [writer |-> k, turn |-> turn[t].turn, kind |-> kind, prev |-> p]
         IN  /\ k \in DOMAIN writers /\ r \in Records /\ ledger' = Append(ledger, r)
             /\ writers' \in Seq(WriterStates) /\ DOMAIN writers' = DOMAIN writers
             /\ writers'[k].session = writers[k].session /\ writers'[k].prev = Len(ledger) + 1
             /\ Len(writers'[k].last) = 2 /\ writers'[k].last[1] = Newest(k) /\ writers'[k].last[2] = kind
             /\ \A l \in DOMAIN writers \ {k} : writers'[l] = writers[l]
<1> DEFINE k == turn[t].writer
           last == LastTwo(Append(writers[k].last, kind))
           new == [session |-> writers[k].session, prev |-> Len(ledger) + 1, last |-> last]
<1>1. k \in DOMAIN writers /\ writers[k] \in WriterStates
  BY WriterOfTurn
<1>2. Len(writers[k].last) \in 1..2 /\ writers \in Seq(WriterStates) /\ turn[t] \in TurnStates
      /\ ledger \in Seq(Records)
  BY <1>1 DEF PipeInv, PipeTypes
<1>3. [writer |-> k, turn |-> turn[t].turn, kind |-> kind, prev |-> p] \in Records
  <2>1. k \in Nat \ {0} /\ turn[t].turn \in Nat
    BY <1>1, <1>2 DEF TurnStates
  <2>2. QED
    BY <2>1 DEF Records
<1>4. last \in Seq(Kinds) /\ Len(last) = 2 /\ last[1] = Newest(k) /\ last[2] = kind
  <2>1. writers[k].last \in Seq(Kinds)
    BY <1>1 DEF WriterStates
  <2>2. QED
    BY <1>2, <2>1, LastTwoOfThree DEF Newest
<1>5. ledger' = Append(ledger, [writer |-> k, turn |-> turn[t].turn, kind |-> kind, prev |-> p])
      /\ writers' = [writers EXCEPT ![k] = new]
  BY DEF _append_log_record
<1>6. writers[k].session \in Sessions /\ Len(ledger) + 1 \in Nat
  BY <1>1, <1>2 DEF WriterStates
<1> HIDE DEF last
<1>7. new \in WriterStates /\ new.session = writers[k].session /\ new.prev = Len(ledger) + 1 /\ new.last = last
  BY <1>4, <1>6 DEF WriterStates
<1> HIDE DEF new
<1>8. writers' \in Seq(WriterStates) /\ DOMAIN writers' = DOMAIN writers /\ writers'[k] = new
      /\ \A l \in DOMAIN writers \ {k} : writers'[l] = writers[l]
  BY <1>1, <1>2, <1>5, <1>7
<1>9. QED
  BY <1>1, <1>3, <1>4, <1>5, <1>7, <1>8

(* What is promised of one answer.                                          *)
AnswerTraced(a) ==
  /\ Cardinality(Of(a.turn, "trace")) = a.tasks + 1
  /\ \E p \in Of(a.turn, "provenance") :
       \A i \in Of(a.turn, "trace") \cup Of(a.turn, "escalation") : i < p
AnswerReports(a) ==
  a.session \notin overlapped /\ a.writer \notin cut /\ a.tasks <= 1 =>
    (a.report <=> Of(a.turn, "escalation") # {})

LEMMA AnswerByAnswer ==
  /\ AnsweredIsTraced <=> \A a \in answered : AnswerTraced(a)
  /\ EscalationIsReported <=> \A a \in answered : AnswerReports(a)
<1>1. AnsweredIsTraced <=> \A a \in answered : AnswerTraced(a)
  BY DEF AnsweredIsTraced, AnswerTraced
<1>2. EscalationIsReported <=> \A a \in answered : AnswerReports(a)
  BY DEF EscalationIsReported, AnswerReports
<1>3. QED
  BY <1>1, <1>2

(* A step of one turn that appends a record: the turn goes on with another  *)
(* step than an append, or it is answered with the provenance.              *)
LEMMA TurnAppends ==
  ASSUME PipeInv, NEW t \in Threads, Active(t), turn[t].pc # "open",
         NEW kind \in Kinds, NEW p \in Nat, _append_log_record(t, kind, p),
         turn[t].session \in overlapped \/ p = writers[turn[t].writer].prev,
         turn' \in [Threads -> TurnStates], \A u \in Threads \ {t} : turn'[u] = turn[u],
         UNCHANGED <<orchestrator, counted, received, overlapped, cut>>, answered \subseteq answered',
         turn'[t].pc # "idle" => /\ turn'[t].session = turn[t].session /\ turn'[t].turn = turn[t].turn
                                 /\ turn'[t].writer = turn[t].writer /\ turn'[t].pc \notin {"open", "append"}
                                 /\ Placed(t)' /\ Remembered(t)' /\ Traced(t)' # 0
                                 /\ Cardinality(Of(turn[t].turn, "trace"))' = Traced(t)',
         turn'[t].pc = "idle" => kind = "provenance",
         \A a \in answered' \ answered :
           /\ turn'[t].pc = "idle" /\ a \in Answers /\ a.turn = turn[t].turn
           /\ AnswerTraced(a)' /\ AnswerReports(a)'
  PROVE  PipeInv'
<1> DEFINE k == turn[t].writer
           r == [writer |-> k, turn |-> turn[t].turn, kind |-> kind, prev |-> p]
<1>1. /\ k \in DOMAIN writers /\ r \in Records /\ ledger' = Append(ledger, r)
      /\ writers' \in Seq(WriterStates) /\ DOMAIN writers' = DOMAIN writers
      /\ writers'[k].session = writers[k].session /\ writers'[k].prev = Len(ledger) + 1
      /\ Len(writers'[k].last) = 2 /\ writers'[k].last[1] = Newest(k) /\ writers'[k].last[2] = kind
      /\ \A l \in DOMAIN writers \ {k} : writers'[l] = writers[l]
  BY WriterMovesOn
<1>2. r.writer = k /\ r.turn = turn[t].turn /\ r.kind = kind /\ r.prev = p
  OBVIOUS
<1> HIDE DEF r
<1>3. /\ ledger' \in Seq(Records) /\ Len(ledger) \in Nat
      /\ DOMAIN ledger = 1..Len(ledger) /\ DOMAIN ledger' = 1..(Len(ledger) + 1)
      /\ ledger'[Len(ledger) + 1] = r /\ \A i \in DOMAIN ledger : ledger'[i] = ledger[i]
      /\ \A n \in Nat, q \in Kinds :
           Of(n, q)' = IF n = r.turn /\ q = r.kind THEN Of(n, q) \cup {Len(ledger) + 1}
                            ELSE Of(n, q)
  BY <1>1, LedgerGrows
<1>4. Placed(t) /\ writers[k].session = turn[t].session /\ turn[t].session \in Sessions /\ turn[t].turn <= received
  BY DEF PipeInv, TurnsApart, Placed
<1>5. \A l \in DOMAIN writers : writers'[l].session = writers[l].session
  BY <1>1
<1>6. ASSUME NEW u \in Threads \ {t}, Active(u)
      PROVE  /\ turn'[u] = turn[u] /\ Active(u)' /\ turn[u].turn # turn[t].turn /\ turn[u].turn \in Nat
             /\ turn[u].pc # "open" /\ turn[u].session \notin overlapped => turn[u].writer \in DOMAIN writers \ {k}
  <2>1. turn[u].turn # turn[t].turn /\ (turn[u].session = turn[t].session => turn[t].session \in overlapped)
    BY <1>6 DEF PipeInv, TurnsApart
  <2>2. turn[u].pc # "open" => turn[u].writer \in DOMAIN writers /\ writers[turn[u].writer].session = turn[u].session
    BY <1>6 DEF PipeInv, TurnsApart, Placed
  <2>3. turn[u].turn \in Nat /\ turn'[u] = turn[u]
    BY DEF PipeInv, PipeTypes, TurnStates
  <2>4. QED
    BY <1>4, <1>6, <2>1, <2>2, <2>3 DEF Active
<1>7. ASSUME NEW n \in Nat, n # turn[t].turn, NEW q \in Kinds PROVE Of(n, q)' = Of(n, q)
  BY <1>2, <1>3, <1>7
<1>8. /\ "trace" \in Kinds /\ "escalation" \in Kinds /\ "provenance" \in Kinds
  BY DEF Kinds
<1>9. ASSUME NEW a \in answered PROVE a.turn \in Nat /\ a.turn # turn[t].turn /\ a \in Answers
  BY DEF PipeInv, PipeTypes, TurnsApart, Answers
<1>10. PipeTypes'
  <2>1. \A i \in DOMAIN ledger' : ledger'[i].writer \in DOMAIN writers' /\ ledger'[i].turn <= received'
    BY <1>1, <1>2, <1>3, <1>4 DEF PipeInv, PipeTypes
  <2>2. \A l \in DOMAIN writers' : Len(writers'[l].last) \in 1..2
    BY <1>1 DEF PipeInv, PipeTypes
  <2>3. answered' \subseteq Answers
    BY <1>9
  <2>4. QED
    BY <1>1, <1>3, <1>5, <2>1, <2>2, <2>3 DEF PipeInv, PipeTypes
<1>11. TurnsApart'
  <2>1. ASSUME NEW u \in Threads, Active(u)' PROVE Placed(u)'
    <3>1. CASE u = t
      BY <2>1, <3>1 DEF Active
    <3>2. CASE u # t
      <4>1. turn'[u] = turn[u] /\ Placed(u)
        BY <2>1, <3>2 DEF Active, PipeInv, TurnsApart
      <4>2. QED
        BY <1>1, <1>5, <4>1 DEF Placed
    <3>3. QED
      BY <3>1, <3>2
  <2>2. ASSUME NEW u \in Threads, NEW v \in Threads, u # v, Active(u)', Active(v)'
        PROVE  turn'[u].turn # turn'[v].turn
               /\ (turn'[u].session = turn'[v].session => turn'[u].session \in overlapped')
    <3>1. Active(u) /\ Active(v) /\ turn'[u].turn = turn[u].turn /\ turn'[v].turn = turn[v].turn
          /\ turn'[u].session = turn[u].session /\ turn'[v].session = turn[v].session
      BY <2>2 DEF Active
    <3>2. QED
      BY <2>2, <3>1 DEF PipeInv, TurnsApart
  <2>3. ASSUME NEW a \in answered' PROVE a.turn <= received' /\ \A u \in Threads : Active(u)' => turn'[u].turn # a.turn
    <3>1. CASE a \in answered
      <4>1. a.turn <= received /\ \A u \in Threads : Active(u) => turn[u].turn # a.turn
        BY <3>1 DEF PipeInv, TurnsApart
      <4>2. \A u \in Threads : Active(u)' => Active(u) /\ turn'[u].turn = turn[u].turn
        BY DEF Active
      <4>3. QED
        BY <4>1, <4>2
    <3>2. CASE a \notin answered
      BY <1>4, <1>6, <2>3, <3>2 DEF Active
    <3>3. QED
      BY <3>1, <3>2
  <2>4. QED
    BY <2>1, <2>2, <2>3 DEF TurnsApart
<1>12. ChainInv'
  <2>1. ASSUME NEW l \in DOMAIN writers'
        PROVE  /\ writers'[l].prev \in DOMAIN ledger' /\ ledger'[writers'[l].prev].writer = l
               /\ \A i \in DOMAIN ledger' : ledger'[i].writer = l => i <= writers'[l].prev
    <3>1. CASE l = k
      BY <1>1, <1>2, <1>3, <3>1
    <3>2. CASE l # k
      BY <1>1, <1>2, <1>3, <3>2 DEF PipeInv, ChainInv
    <3>3. QED
      BY <3>1, <3>2
  <2>2. ASSUME NEW u \in Threads, turn'[u].pc = "append", turn'[u].session \notin overlapped'
        PROVE  turn'[u].prev = writers'[turn'[u].writer].prev
    <3>1. u # t
      BY <2>2
    <3>2. turn'[u] = turn[u] /\ turn[u].pc = "append" /\ Active(u) /\ turn[u].writer \in DOMAIN writers \ {k}
      BY <1>6, <2>2, <3>1 DEF Active
    <3>3. turn[u].prev = writers[turn[u].writer].prev
      BY <2>2, <3>2 DEF PipeInv, ChainInv
    <3>4. QED
      BY <1>1, <3>2, <3>3
  <2>3. ASSUME NEW i \in DOMAIN ledger', writers'[ledger'[i].writer].session \notin overlapped' PROVE Linked(i)'
    <3>1. CASE i \in DOMAIN ledger
      <4>1. Linked(i)
        <5>1. ledger'[i] = ledger[i] /\ ledger[i].writer \in DOMAIN writers
          BY <1>3, <3>1 DEF PipeInv, PipeTypes
        <5>2. QED
          BY <1>5, <2>3, <3>1, <5>1 DEF PipeInv, ChainInv, WritersChain
      <4>2. \A j \in 1..(i - 1) : ledger'[j] = ledger[j]
        BY <1>3, <3>1
      <4>3. ledger'[i] = ledger[i]
        BY <1>3, <3>1
      <4>4. QED
        BY <4>1, <4>2, <4>3 DEF Linked
    <3>2. CASE i \notin DOMAIN ledger
      <4>1. i = Len(ledger) + 1 /\ i - 1 = Len(ledger) /\ ledger'[i].writer = k /\ ledger'[i].prev = p
        BY <1>2, <1>3, <3>2
      <4>2. p = writers[k].prev
        BY <1>4, <1>5, <1>1, <2>3, <4>1
      <4>3. p \in DOMAIN ledger /\ ledger[p].writer = k /\ \A j \in DOMAIN ledger : ledger[j].writer = k => j <= p
        BY <1>1, <4>2 DEF PipeInv, ChainInv
      <4> DEFINE before == {j \in 1..(i - 1) : ledger'[j].writer = ledger'[i].writer}
      <4>4. p \in before /\ \A j \in before : j <= p
        BY <1>3, <4>1, <4>3
      <4>5. QED
        BY <4>1, <4>4 DEF Linked
    <3>3. QED
      BY <3>1, <3>2
  <2>4. QED
    BY <2>1, <2>2, <2>3 DEF ChainInv, WritersChain
<1>13. TraceInv'
  <2>1. ASSUME NEW u \in Threads, Active(u)'
        PROVE  /\ Cardinality(Of(turn[u].turn, "trace"))' = Traced(u)'
               /\ Traced(u)' = 0 => Of(turn[u].turn, "escalation")' = {}
    <3>1. CASE u = t
      BY <2>1, <3>1 DEF Active
    <3>2. CASE u # t
      <4>1. Active(u) /\ turn'[u] = turn[u] /\ turn[u].turn \in Nat /\ turn[u].turn # turn[t].turn
        BY <1>6, <2>1, <3>2 DEF Active
      <4>2. Of(turn[u].turn, "trace")' = Of(turn[u].turn, "trace")
            /\ Of(turn[u].turn, "escalation")' = Of(turn[u].turn, "escalation")
        BY <1>7, <1>8, <4>1 DEF Of
      <4>3. Traced(u)' = Traced(u)
        BY <4>1 DEF Traced
      <4>4. Cardinality(Of(turn[u].turn, "trace")) = Traced(u)
            /\ (Traced(u) = 0 => Of(turn[u].turn, "escalation") = {})
        BY <4>1 DEF PipeInv, TraceInv
      <4>5. QED
        BY <4>2, <4>3, <4>4
    <3>3. QED
      BY <3>1, <3>2
  <2>2. ASSUME NEW a \in answered' PROVE AnswerTraced(a)'
    <3>1. CASE a \in answered
      <4>1. AnswerTraced(a)
        BY <3>1, AnswerByAnswer DEF PipeInv, TraceInv
      <4>2. \A q \in {"trace", "escalation", "provenance"} : Of(a.turn, q)' = Of(a.turn, q)
        BY <1>7, <1>8, <1>9, <3>1
      <4>3. QED
        BY <4>1, <4>2 DEF AnswerTraced
    <3>2. QED
      BY <2>2, <3>1
  <2>3. AnsweredIsTraced'
    BY <2>2 DEF AnsweredIsTraced, AnswerTraced
  <2>4. QED
    BY <2>1, <2>3 DEF TraceInv
<1>14. ReportInv'
  <2>1. ASSUME NEW u \in Threads, Active(u)', turn'[u].pc # "open", turn'[u].session \notin overlapped'
        PROVE  turn'[u].writer = orchestrator'[turn'[u].session]
    BY <2>1 DEF PipeInv, ReportInv, Active
  <2>2. \A s : Sound(s)' = Sound(s)
    BY DEF Sound
  <2>3. ASSUME NEW s \in Sessions, Sound(s)', \A u \in Threads : Active(u)' /\ turn'[u].session = s => Traced(u)' = 0
        PROVE  Newest(orchestrator[s])' \in {"commitment", "provenance"}
    <3>1. s \notin overlapped /\ orchestrator[s] \in DOMAIN writers /\ writers[orchestrator[s]].session = s /\ Sound(s)
      BY <2>2, <2>3 DEF Sound, PipeInv, PipeTypes
    <3>2. CASE turn[t].session = s
      <4>1. orchestrator[s] = k
        BY <3>1, <3>2 DEF PipeInv, ReportInv
      <4>2. turn'[t].pc = "idle"
        BY <2>3, <3>2 DEF Active
      <4>3. QED
        BY <1>1, <4>1, <4>2 DEF Newest
    <3>3. CASE turn[t].session # s
      <4>1. orchestrator[s] # k
        BY <1>4, <3>1, <3>3
      <4>2. \A u \in Threads : Active(u) /\ turn[u].session = s => Traced(u) = 0
        <5>1. ASSUME NEW u \in Threads, Active(u), turn[u].session = s PROVE Traced(u) = 0
          <6>1. turn'[u] = turn[u] /\ Active(u)'
            BY <1>6, <3>3, <5>1
          <6>2. QED
            BY <2>3, <5>1, <6>1 DEF Traced
        <5>2. QED
          BY <5>1
      <4>3. Newest(orchestrator[s]) \in {"commitment", "provenance"}
        BY <3>1, <4>2 DEF PipeInv, ReportInv
      <4>4. QED
        BY <1>1, <3>1, <4>1, <4>3 DEF Newest
    <3>4. QED
      BY <3>2, <3>3
  <2>4. ASSUME NEW u \in Threads PROVE Remembered(u)'
    <3>1. CASE u = t
      BY <3>1 DEF Remembered, Active
    <3>2. CASE u # t /\ Active(u) /\ turn[u].pc # "open" /\ turn[u].session \notin overlapped
      <4>1. /\ turn'[u] = turn[u] /\ turn[u].turn \in Nat /\ turn[u].turn # turn[t].turn
            /\ writers'[turn[u].writer] = writers[turn[u].writer]
        BY <1>1, <1>6, <3>2
      <4>2. /\ Active(u)' = Active(u) /\ Traced(u)' = Traced(u) /\ Writing(u)' = Writing(u)
            /\ Shows(u)' = Shows(u) /\ Newest(turn[u].writer)' = Newest(turn[u].writer)
        BY <4>1 DEF Active, Traced, Writing, Shows, Newest, build_escalation_content
      <4>3. Escalated(u)' = Escalated(u)
        BY <1>7, <1>8, <4>1 DEF Escalated
      <4>4. Remembered(u)
        BY DEF PipeInv, ReportInv
      <4>5. Sound(turn[u].session)' = Sound(turn[u].session)
        BY <4>1 DEF Sound
      <4>6. QED
        BY <4>1, <4>2, <4>3, <4>4, <4>5 DEF Remembered
    <3>3. CASE u # t /\ ~(Active(u) /\ turn[u].pc # "open" /\ turn[u].session \notin overlapped)
      <4>1. turn'[u] = turn[u]
        BY <3>3
      <4>2. QED
        BY <3>3, <4>1 DEF Remembered, Active, Sound
    <3>4. QED
      BY <3>1, <3>2, <3>3
  <2>5. ASSUME NEW a \in answered' PROVE AnswerReports(a)'
    <3>1. CASE a \in answered
      <4>1. AnswerReports(a)
        BY <3>1, AnswerByAnswer DEF PipeInv, ReportInv
      <4>2. Of(a.turn, "escalation")' = Of(a.turn, "escalation")
        BY <1>7, <1>8, <1>9, <3>1
      <4>3. QED
        BY <4>1, <4>2 DEF AnswerReports
    <3>2. QED
      BY <2>5, <3>1
  <2>6. EscalationIsReported'
    BY <2>5 DEF EscalationIsReported, AnswerReports
  <2>7. QED
    BY <2>1, <2>3, <2>4, <2>6 DEF ReportInv
<1>15. QED
  BY <1>10, <1>11, <1>12, <1>13, <1>14 DEF PipeInv

(* A turn at a record: who writes, what it takes for the one before, and    *)
(* what is traced once the record is there.                                 *)
LEMMA RecordOfTurn ==
  ASSUME PipeInv, NEW t \in Threads, turn[t].pc \in {"append", "command"},
         NEW kind \in Kinds, NEW p \in Nat, _append_log_record(t, kind, p), NEW n, n = turn[t].turn
  PROVE  /\ Active(t) /\ Placed(t) /\ Remembered(t) /\ turn[t].pc # "open"
         /\ turn[t].tasks \in Nat /\ turn[t].more \in Nat /\ n \in Nat
         /\ Cardinality(Of(n, "trace")) = Traced(t) /\ Traced(t) \in Nat
         /\ Cardinality(Of(n, "trace"))' = IF kind = "trace" THEN Traced(t) + 1 ELSE Traced(t)
         /\ (Of(n, "escalation")' # {}) <=> (kind = "escalation" \/ Escalated(t))
         /\ Len(writers'[turn[t].writer].last) = 2 /\ writers'[turn[t].writer].last[2] = kind
         /\ writers'[turn[t].writer].last[1] = Newest(turn[t].writer)
<1>1. Active(t) /\ Placed(t) /\ Remembered(t) /\ turn[t].pc # "open"
  BY DEF PipeInv, TurnsApart, ReportInv, Active
<1>2. turn[t] \in TurnStates
  BY DEF PipeInv, PipeTypes
<1>3. turn[t].tasks \in Nat /\ turn[t].more \in Nat /\ turn[t].turn \in Nat
  BY <1>2 DEF TurnStates
<1>4. Cardinality(Of(n, "trace")) = Traced(t) /\ Traced(t) \in Nat
  <2>1. Cardinality(Of(n, "trace")) \in Nat
    BY OneMore
  <2>2. Cardinality(Of(n, "trace")) = Traced(t)
    BY <1>1 DEF PipeInv, TraceInv
  <2>3. QED
    BY <2>1, <2>2
<1> DEFINE k == turn[t].writer
           r == [writer |-> k, turn |-> turn[t].turn, kind |-> kind, prev |-> p]
<1>5. /\ r \in Records /\ ledger' = Append(ledger, r)
      /\ Len(writers'[k].last) = 2 /\ writers'[k].last[1] = Newest(k) /\ writers'[k].last[2] = kind
  BY <1>1, WriterMovesOn
<1>6. r.turn = turn[t].turn /\ r.kind = kind
  OBVIOUS
<1> HIDE DEF r
<1>7. \A i \in Nat, q \in Kinds :
        Of(i, q)' = IF i = r.turn /\ q = r.kind THEN Of(i, q) \cup {Len(ledger) + 1} ELSE Of(i, q)
  BY <1>5, LedgerGrows
<1>8. "trace" \in Kinds /\ "escalation" \in Kinds
  BY DEF Kinds
<1>9. Cardinality(Of(n, "trace"))' = IF kind = "trace" THEN Traced(t) + 1 ELSE Traced(t)
  <2>1. Of(n, "trace")' = IF kind = "trace" THEN Of(n, "trace") \cup {Len(ledger) + 1} ELSE Of(n, "trace")
    BY <1>3, <1>6, <1>7, <1>8
  <2>2. Cardinality(Of(n, "trace") \cup {Len(ledger) + 1}) = Cardinality(Of(n, "trace")) + 1
    BY OneMore
  <2>3. QED
    BY <1>4, <2>1, <2>2
<1>10. (Of(n, "escalation")' # {}) <=> (kind = "escalation" \/ Escalated(t))
  <2>1. Of(n, "escalation")' = IF kind = "escalation" THEN Of(n, "escalation") \cup {Len(ledger) + 1}
                                   ELSE Of(n, "escalation")
    BY <1>3, <1>6, <1>7, <1>8
  <2>2. QED
    BY <2>1 DEF Escalated
<1>11. QED
  BY <1>1, <1>3, <1>4, <1>5, <1>9, <1>10

(* Before its first trace a turn finds no escalation of an earlier one.     *)
LEMMA NoneIsLeft ==
  ASSUME PipeInv, NEW t \in Threads, Active(t), turn[t].pc # "open", Sound(turn[t].session), Traced(t) = 0
  PROVE  Newest(turn[t].writer) # "escalation" /\ ~Escalated(t)
<1>1. turn[t].session \in Sessions /\ turn[t].session \notin overlapped
  BY DEF PipeInv, TurnsApart, Placed, Sound
<1>2. orchestrator[turn[t].session] = turn[t].writer
  BY <1>1 DEF PipeInv, ReportInv
<1>3. \A u \in Threads : Active(u) /\ turn[u].session = turn[t].session => u = t
  BY <1>1 DEF PipeInv, TurnsApart
<1>4. Newest(turn[t].writer) \in {"commitment", "provenance"}
  BY <1>1, <1>2, <1>3 DEF PipeInv, ReportInv
<1>5. ~Escalated(t)
  BY DEF PipeInv, TraceInv, Escalated
<1>6. QED
  BY <1>4, <1>5

LEMMA TraceIsWritten ==
  ASSUME PipeInv, NEW t \in Threads, WriteTrace(t)
  PROVE  PipeInv'
<1>1. /\ turn[t].pc = "append" /\ turn[t].kind = "trace"
      /\ _append_log_record(t, turn[t].kind, turn[t].prev)
      /\ UNCHANGED <<orchestrator, counted, received, answered, overlapped, cut>>
  BY DEF WriteTrace, At
<1>2. turn \in [Threads -> TurnStates] /\ turn[t] \in TurnStates
  BY DEF PipeInv, PipeTypes
<1>3. turn[t].kind \in Kinds /\ turn[t].prev \in Nat
  BY <1>2 DEF TurnStates
<1>a. PICK k : k = turn[t].writer
  OBVIOUS
<1>b. PICK n : n = turn[t].turn
  OBVIOUS
<1>4. /\ Active(t) /\ Placed(t) /\ Remembered(t) /\ turn[t].pc # "open"
      /\ turn[t].tasks \in Nat /\ turn[t].more \in Nat /\ n \in Nat
      /\ Cardinality(Of(n, "trace")) = Traced(t) /\ Traced(t) \in Nat
      /\ Len(writers'[k].last) = 2 /\ writers'[k].last[2] = "trace" /\ writers'[k].last[1] = Newest(k)
  BY <1>1, <1>3, <1>a, <1>b, RecordOfTurn
<1>5. Cardinality(Of(n, "trace"))' = Traced(t) + 1 /\ ((Of(n, "escalation")' # {}) <=> Escalated(t))
  BY <1>1, <1>3, <1>b, RecordOfTurn
<1>6. /\ turn' \in [Threads -> TurnStates] /\ \A u \in Threads \ {t} : turn'[u] = turn[u]
      /\ turn'[t].session = turn[t].session /\ turn'[t].turn = n /\ turn'[t].writer = k
      /\ turn'[t].tasks = turn[t].tasks
      /\ \/ turn'[t].pc = "build" /\ turn'[t].kind = "escalation" /\ turn'[t].more = turn[t].more
         \/ turn'[t].pc = "build" /\ turn'[t].kind = "trace" /\ turn[t].more > 0 /\ turn'[t].more = turn[t].more - 1
         \/ turn'[t].pc = "sync" /\ turn'[t].kind = "trace" /\ turn[t].more = 0 /\ turn'[t].more = 0
  <2>1. CASE turn[t].escalate
    <3>1. turn' = [turn EXCEPT ![t].pc = "build", ![t].kind = "escalation"]
      BY <2>1 DEF WriteTrace
    <3>2. QED
      BY <1>2, <1>a, <1>b, <3>1 DEF TurnStates, Kinds
  <2>2. CASE ~turn[t].escalate /\ turn[t].more > 0
    <3>1. turn' = [turn EXCEPT ![t].pc = "build", ![t].more = @ - 1] /\ turn[t].more - 1 \in Nat
      BY <1>4, <2>2 DEF WriteTrace
    <3>2. QED
      BY <1>1, <1>2, <1>a, <1>b, <2>2, <3>1 DEF TurnStates
  <2>3. CASE ~turn[t].escalate /\ turn[t].more = 0
    <3>1. turn' = [turn EXCEPT ![t].pc = "sync"]
      BY <2>3 DEF WriteTrace
    <3>2. QED
      BY <1>1, <1>2, <1>a, <1>b, <2>3, <3>1 DEF TurnStates
  <2>4. QED
    BY <1>4, <2>1, <2>2, <2>3
<1>7. /\ Placed(t) /\ Traced(t) = turn[t].tasks - turn[t].more /\ turn[t].more <= turn[t].tasks
  BY <1>1, <1>4 DEF Placed, Traced
<1>8. Traced(t)' = Traced(t) + 1 /\ Traced(t)' # 0
  BY <1>4, <1>6, <1>7 DEF Traced
<1>9. Placed(t)'
  <2>1. DOMAIN writers' = DOMAIN writers /\ \A l \in DOMAIN writers : writers'[l].session = writers[l].session
    <3>1. k \in DOMAIN writers /\ DOMAIN writers' = DOMAIN writers /\ writers'[k].session = writers[k].session
          /\ \A l \in DOMAIN writers \ {k} : writers'[l] = writers[l]
      BY <1>1, <1>3, <1>4, <1>a, WriterMovesOn
    <3>2. QED
      BY <3>1
  <2>2. UNCHANGED received
    BY <1>1
  <2>3. turn'[t].session \in Sessions /\ turn'[t].turn <= received'
    BY <1>4, <1>6, <1>b, <2>2 DEF Placed
  <2>4. turn'[t].writer \in DOMAIN writers' /\ writers'[turn'[t].writer].session = turn'[t].session
    BY <1>4, <1>6, <1>a, <2>1 DEF Placed
  <2>5. turn'[t].more <= turn'[t].tasks
    BY <1>4, <1>6, <1>7
  <2>6. QED
    BY <1>6, <2>3, <2>4, <2>5 DEF Placed
<1>10. Remembered(t)'
  <2>1. SUFFICES ASSUME Sound(turn[t].session)', turn'[t].tasks <= 1
                 PROVE  /\ Len(writers'[k].last) = 2 /\ (Shows(t)' <=> Escalated(t)')
                        /\ Traced(t)' = 1 => writers'[k].last[1] # "escalation"
                        /\ Newest(k)' = "trace"
    BY <1>6, <1>a DEF Remembered, Writing
  <2>2. Newest(k)' = "trace"
    BY <1>4, <1>6 DEF Newest
  <2>3. Sound(turn[t].session)
    BY <1>1, <1>6, <2>1 DEF Sound
  <2>4. Shows(t)' <=> Newest(k) = "escalation"
    <3>1. Shows(t)' <=> \E i \in DOMAIN writers'[k].last : writers'[k].last[i] = "escalation"
      BY <1>6, <1>a DEF Shows, build_escalation_content
    <3>2. DOMAIN writers'[k].last = 1..2
      <4>1. writers' \in Seq(WriterStates) /\ k \in DOMAIN writers'
        BY <1>1, <1>3, <1>4, <1>a, WriterMovesOn
      <4>2. writers'[k].last \in Seq(Kinds)
        <5>1. writers'[k] \in WriterStates
          BY <4>1
        <5>2. QED
          BY <5>1 DEF WriterStates
      <4>3. QED
        BY <1>4, <4>2
    <3>3. QED
      BY <1>4, <3>1, <3>2
  <2>5. Escalated(t)' <=> Escalated(t)
    BY <1>5, <1>6, <1>b DEF Escalated
  <2>6. CASE Traced(t) = 0
    <3>1. Newest(k) # "escalation" /\ ~Escalated(t)
      BY <1>4, <1>a, <2>3, <2>6, NoneIsLeft
    <3>2. QED
      BY <1>4, <2>2, <2>4, <2>5, <3>1
  <2>7. CASE Traced(t) # 0
    <3>1. Traced(t) = 1 /\ turn[t].tasks <= 1
      BY <1>4, <1>6, <1>7, <2>1, <2>7
    <3>2. /\ Len(writers[k].last) = 2 /\ (Shows(t) <=> Escalated(t)) /\ writers[k].last[1] # "escalation"
      BY <1>1, <1>4, <1>a, <2>1, <2>3, <2>7, <3>1 DEF Remembered, Writing
    <3>3. DOMAIN writers[k].last = 1..2
      <4>1. writers[k].last \in Seq(Kinds)
        BY <1>4, <1>a, WriterOfTurn DEF WriterStates
      <4>2. QED
        BY <3>2, <4>1
    <3>4. Shows(t) <=> Newest(k) = "escalation"
      BY <1>a, <3>2, <3>3 DEF Shows, build_escalation_content, Newest
    <3>5. Traced(t)' # 1
      BY <1>8, <3>1
    <3>6. QED
      BY <1>4, <2>2, <2>4, <2>5, <3>2, <3>4, <3>5
  <2>8. QED
    BY <2>6, <2>7
<1>11. turn[t].session \in overlapped \/ turn[t].prev = writers[k].prev
  BY <1>1, <1>a DEF PipeInv, ChainInv
<1>12. Cardinality(Of(turn[t].turn, "trace"))' = Traced(t)'
  <2>1. Cardinality(Of(turn[t].turn, "trace"))' = Traced(t) + 1
    BY <1>5, <1>6, <1>b
  <2>2. QED
    BY <1>8, <2>1
<1>13. turn'[t].pc \notin {"open", "append", "idle"}
  BY <1>6
<1>14. QED
  BY <1>1, <1>3, <1>4, <1>6, <1>8, <1>9, <1>10, <1>11, <1>12, <1>13, <1>a, <1>b, TurnAppends

LEMMA EscalationIsWritten ==
  ASSUME PipeInv, NEW t \in Threads, WriteEscalation(t)
  PROVE  PipeInv'
<1>1. /\ turn[t].pc = "append" /\ turn[t].kind = "escalation"
      /\ _append_log_record(t, turn[t].kind, turn[t].prev)
      /\ UNCHANGED <<orchestrator, counted, received, answered, overlapped, cut>>
  BY DEF WriteEscalation, At
<1>2. turn \in [Threads -> TurnStates] /\ turn[t] \in TurnStates
  BY DEF PipeInv, PipeTypes
<1>3. turn[t].kind \in Kinds /\ turn[t].prev \in Nat
  BY <1>2 DEF TurnStates
<1>a. PICK k : k = turn[t].writer
  OBVIOUS
<1>b. PICK n : n = turn[t].turn
  OBVIOUS
<1>4. /\ Active(t) /\ Placed(t) /\ Remembered(t) /\ turn[t].pc # "open"
      /\ turn[t].tasks \in Nat /\ turn[t].more \in Nat /\ n \in Nat
      /\ Cardinality(Of(n, "trace")) = Traced(t) /\ Traced(t) \in Nat
      /\ Len(writers'[k].last) = 2 /\ writers'[k].last[2] = "escalation" /\ writers'[k].last[1] = Newest(k)
  BY <1>1, <1>3, <1>a, <1>b, RecordOfTurn
<1>5. Cardinality(Of(n, "trace"))' = Traced(t) /\ Of(n, "escalation")' # {}
  BY <1>1, <1>3, <1>b, RecordOfTurn
<1>6. /\ turn' \in [Threads -> TurnStates] /\ \A u \in Threads \ {t} : turn'[u] = turn[u]
      /\ turn'[t].session = turn[t].session /\ turn'[t].turn = n /\ turn'[t].writer = k
      /\ turn'[t].tasks = turn[t].tasks
      /\ \/ turn'[t].pc = "build" /\ turn'[t].kind = "trace" /\ turn[t].more > 0 /\ turn'[t].more = turn[t].more - 1
         \/ turn'[t].pc = "sync" /\ turn'[t].kind = "escalation" /\ turn[t].more = 0 /\ turn'[t].more = 0
  <2>1. CASE turn[t].more > 0
    <3> DEFINE new == [turn[t] EXCEPT !.pc = "build", !.kind = "trace", !.more = @ - 1]
    <3>1. turn' = [turn EXCEPT ![t] = new]
      <4>1. turn' = [turn EXCEPT ![t].pc = "build", ![t].kind = "trace", ![t].more = @ - 1]
        BY <2>1 DEF WriteEscalation
      <4>2. QED
        BY <1>2, <4>1
    <3>2. turn[t].more - 1 \in Nat
      BY <1>4, <2>1
    <3>3. /\ new \in TurnStates /\ new.session = turn[t].session /\ new.turn = turn[t].turn
          /\ new.writer = turn[t].writer /\ new.tasks = turn[t].tasks /\ new.more = turn[t].more - 1
          /\ new.pc = "build" /\ new.kind = "trace"
      BY <1>2, <3>2 DEF TurnStates, Kinds
    <3> HIDE DEF new
    <3>4. turn' \in [Threads -> TurnStates] /\ turn'[t] = new /\ \A u \in Threads \ {t} : turn'[u] = turn[u]
      BY <1>2, <3>1, <3>3
    <3>5. QED
      BY <1>a, <1>b, <2>1, <3>3, <3>4
  <2>2. CASE turn[t].more = 0
    <3>1. turn' = [turn EXCEPT ![t].pc = "sync"]
      BY <2>2 DEF WriteEscalation
    <3>2. QED
      BY <1>1, <1>2, <1>a, <1>b, <2>2, <3>1 DEF TurnStates
  <2>3. QED
    BY <1>4, <2>1, <2>2
<1>7. /\ Traced(t) = turn[t].tasks - turn[t].more + 1 /\ turn[t].more <= turn[t].tasks
  BY <1>1, <1>4 DEF Placed, Traced
<1>8. Traced(t)' = Traced(t) /\ Traced(t)' # 0
  BY <1>4, <1>6, <1>7 DEF Traced
<1>c. k \in DOMAIN writers /\ writers' \in Seq(WriterStates) /\ DOMAIN writers' = DOMAIN writers
      /\ writers'[k].session = writers[k].session
  BY <1>1, <1>3, <1>4, <1>a, WriterMovesOn
<1>9. Placed(t)'
  <2>1. turn'[t].session \in Sessions /\ turn'[t].turn <= received'
    BY <1>1, <1>4, <1>6, <1>b DEF Placed
  <2>2. turn'[t].writer \in DOMAIN writers' /\ writers'[turn'[t].writer].session = turn'[t].session
    BY <1>4, <1>6, <1>a, <1>c DEF Placed
  <2>3. turn'[t].more <= turn'[t].tasks
    BY <1>4, <1>6, <1>7
  <2>4. QED
    BY <1>6, <2>1, <2>2, <2>3 DEF Placed
<1>10. Remembered(t)'
  <2>1. Shows(t)' /\ Escalated(t)'
    <3>1. Shows(t)' <=> \E i \in DOMAIN writers'[k].last : writers'[k].last[i] = "escalation"
      BY <1>6, <1>a DEF Shows, build_escalation_content
    <3>2. writers'[k] \in WriterStates
      BY <1>c
    <3>3. DOMAIN writers'[k].last = 1..2
      BY <1>4, <3>2 DEF WriterStates
    <3>4. QED
      BY <1>4, <1>5, <1>6, <3>1, <3>3 DEF Escalated
  <2>2. SUFFICES ASSUME Sound(turn[t].session)', turn'[t].tasks <= 1
                 PROVE  writers'[k].last[1] # "escalation"
    BY <1>4, <1>6, <1>a, <2>1 DEF Remembered, Writing
  <2>3. Sound(turn[t].session)
    BY <1>1, <1>6, <2>2 DEF Sound
  <2>4. Newest(k) = "trace"
    BY <1>1, <1>4, <1>6, <1>a, <2>2, <2>3 DEF Remembered, Writing
  <2>5. QED
    BY <1>4, <2>4
<1>11. turn[t].session \in overlapped \/ turn[t].prev = writers[turn[t].writer].prev
  BY <1>1 DEF PipeInv, ChainInv
<1>12. Cardinality(Of(turn[t].turn, "trace"))' = Traced(t)'
  <2>1. Cardinality(Of(turn[t].turn, "trace"))' = Traced(t)
    BY <1>5, <1>6, <1>b
  <2>2. QED
    BY <1>8, <2>1
<1>13. turn'[t].pc \notin {"open", "append", "idle"}
  BY <1>6
<1>14. QED
  BY <1>1, <1>3, <1>4, <1>6, <1>8, <1>9, <1>10, <1>11, <1>12, <1>13, <1>a, <1>b, TurnAppends

LEMMA NovelIsWritten ==
  ASSUME PipeInv, NEW t \in Threads, _stage_and_build(t)
  PROVE  PipeInv'
<1>1. /\ turn[t].pc = "command" /\ turn' = [turn EXCEPT ![t].pc = "llm"]
      /\ _append_log_record(t, "novel", writers[turn[t].writer].prev)
      /\ UNCHANGED <<orchestrator, counted, received, answered, overlapped, cut>>
  BY DEF _stage_and_build, At, Go
<1>2. turn \in [Threads -> TurnStates] /\ turn[t] \in TurnStates
  BY DEF PipeInv, PipeTypes
<1>3. "novel" \in Kinds /\ writers[turn[t].writer].prev \in Nat
  <2>1. Active(t) /\ turn[t].pc # "open"
    BY <1>1 DEF Active
  <2>2. QED
    BY <2>1, WriterOfTurn DEF Kinds, WriterStates
<1>a. PICK k : k = turn[t].writer
  OBVIOUS
<1>b. PICK n : n = turn[t].turn
  OBVIOUS
<1>4. /\ Active(t) /\ Placed(t) /\ Remembered(t) /\ turn[t].pc # "open"
      /\ turn[t].tasks \in Nat /\ turn[t].more \in Nat /\ n \in Nat
  BY <1>1, <1>3, <1>a, <1>b, RecordOfTurn
<1>5. Cardinality(Of(n, "trace"))' = Traced(t) /\ ((Of(n, "escalation")' # {}) <=> Escalated(t))
  <2>1. PICK kind \in Kinds : kind = "novel"
    BY <1>3
  <2>2. _append_log_record(t, kind, writers[turn[t].writer].prev)
    BY <1>1, <2>1
  <2>3. /\ Cardinality(Of(n, "trace"))' = IF kind = "trace" THEN Traced(t) + 1 ELSE Traced(t)
        /\ (Of(n, "escalation")' # {}) <=> (kind = "escalation" \/ Escalated(t))
    BY <1>1, <1>3, <1>b, <2>2, RecordOfTurn
  <2>4. QED
    BY <2>1, <2>3
<1>6. /\ turn' \in [Threads -> TurnStates] /\ \A u \in Threads \ {t} : turn'[u] = turn[u]
      /\ turn'[t].session = turn[t].session /\ turn'[t].turn = n /\ turn'[t].writer = k
      /\ turn'[t].tasks = turn[t].tasks /\ turn'[t].more = turn[t].more /\ turn'[t].report = turn[t].report
      /\ turn'[t].pc = "llm" /\ turn'[t].kind = turn[t].kind
  BY <1>1, <1>2, <1>a, <1>b DEF TurnStates
<1>7. turn[t].kind # "provenance" /\ turn[t].more = 0
  BY <1>1, <1>4 DEF Placed
<1>8. Traced(t)' = Traced(t) /\ Traced(t)' # 0
  BY <1>1, <1>4, <1>6, <1>7 DEF Traced
<1>9. k \in DOMAIN writers /\ DOMAIN writers' = DOMAIN writers /\ writers'[k].session = writers[k].session
  BY <1>1, <1>3, <1>4, <1>a, WriterMovesOn
<1>10. Placed(t)'
  BY <1>1, <1>4, <1>6, <1>7, <1>9, <1>a, <1>b DEF Placed
<1>11. Remembered(t)'
  <2>1. SUFFICES ASSUME Sound(turn[t].session)', turn'[t].tasks <= 1
                 PROVE  turn'[t].report <=> Escalated(t)'
    BY <1>6, <1>7 DEF Remembered, Writing
  <2>2. Sound(turn[t].session)
    BY <1>1, <1>6, <2>1 DEF Sound
  <2>3. turn[t].report <=> Escalated(t)
    BY <1>1, <1>4, <1>6, <2>1, <2>2 DEF Remembered
  <2>4. Escalated(t)' <=> Escalated(t)
    BY <1>5, <1>6, <1>b DEF Escalated
  <2>5. QED
    BY <1>6, <2>3, <2>4
<1>12. Cardinality(Of(turn[t].turn, "trace"))' = Traced(t)'
  <2>1. Cardinality(Of(turn[t].turn, "trace"))' = Traced(t)
    BY <1>5, <1>6, <1>b
  <2>2. QED
    BY <1>8, <2>1
<1>13. QED
  BY <1>1, <1>3, <1>4, <1>6, <1>8, <1>10, <1>11, <1>12, <1>a, <1>b, TurnAppends

LEMMA TurnIsAnswered ==
  ASSUME PipeInv, NEW t \in Threads, append_provenance_trace(t)
  PROVE  PipeInv'
<1>1. /\ turn[t].pc = "append" /\ turn[t].kind = "provenance" /\ turn' = [turn EXCEPT ![t] = Idle]
      /\ _append_log_record(t, turn[t].kind, turn[t].prev)
      /\ UNCHANGED <<orchestrator, counted, received, overlapped, cut>>
  BY DEF append_provenance_trace, At, Leave
<1>2. turn \in [Threads -> TurnStates] /\ turn[t] \in TurnStates
  BY DEF PipeInv, PipeTypes
<1>3. turn[t].kind \in Kinds /\ turn[t].prev \in Nat
  BY <1>2 DEF TurnStates
<1>a. PICK k : k = turn[t].writer
  OBVIOUS
<1>b. PICK n : n = turn[t].turn
  OBVIOUS
<1>4. /\ Active(t) /\ Placed(t) /\ Remembered(t) /\ turn[t].pc # "open"
      /\ turn[t].tasks \in Nat /\ turn[t].more \in Nat /\ n \in Nat
  BY <1>1, <1>3, <1>a, <1>b, RecordOfTurn
<1>5. Cardinality(Of(n, "trace"))' = Traced(t) /\ ((Of(n, "escalation")' # {}) <=> Escalated(t))
  BY <1>1, <1>3, <1>b, RecordOfTurn
<1>6. Idle \in TurnStates /\ Idle.pc = "idle"
  BY DEF Idle, TurnStates, Kinds
<1>7. turn' \in [Threads -> TurnStates] /\ turn'[t].pc = "idle" /\ \A u \in Threads \ {t} : turn'[u] = turn[u]
  BY <1>1, <1>2, <1>6
<1> DEFINE answer == [turn |-> turn[t].turn, session |-> turn[t].session, writer |-> turn[t].writer,
                      tasks |-> turn[t].tasks, report |-> turn[t].report]
<1>c. PICK a : a = answer
  OBVIOUS
<1>8. answered' = answered \cup {a}
  BY <1>c DEF append_provenance_trace
<1>9. turn[t].session \in Sessions /\ turn[t].more = 0 /\ k \in DOMAIN writers
  BY <1>1, <1>4, <1>a DEF Placed
<1>10. /\ a \in Answers /\ a.turn = n /\ a.session = turn[t].session /\ a.writer = k
       /\ a.tasks = turn[t].tasks /\ a.report = turn[t].report
  BY <1>2, <1>9, <1>a, <1>b, <1>c DEF Answers, TurnStates
<1>11. Traced(t) = a.tasks + 1
  BY <1>1, <1>4, <1>9, <1>10 DEF Traced
<1>12. AnswerTraced(a)'
  <2>1. PICK r \in Records : ledger' = Append(ledger, r) /\ r.turn = n /\ r.kind = "provenance"
    <3>1. \E r \in Records : ledger' = Append(ledger, r) /\ r = [writer |-> turn[t].writer, turn |-> turn[t].turn,
                                                                 kind |-> turn[t].kind, prev |-> turn[t].prev]
      BY <1>1, <1>3, <1>4, WriterMovesOn
    <3>2. QED
      BY <1>1, <1>b, <3>1
  <2>2. \A q \in Kinds : Of(n, q)' = IF q = "provenance" THEN Of(n, q) \cup {Len(ledger) + 1} ELSE Of(n, q)
    BY <1>4, <2>1, LedgerGrows
  <2>3. {"trace", "escalation", "provenance"} \subseteq Kinds
    BY DEF Kinds
  <2>4. Len(ledger) + 1 \in Of(n, "provenance")'
    BY <2>2, <2>3
  <2>5. \A i \in Of(n, "trace")' \cup Of(n, "escalation")' : i < Len(ledger) + 1
    <3>1. Len(ledger) \in Nat /\ DOMAIN ledger = 1..Len(ledger)
      BY <2>1, LedgerGrows
    <3>2. Of(n, "trace")' = Of(n, "trace") /\ Of(n, "escalation")' = Of(n, "escalation")
      BY <2>2, <2>3
    <3>3. QED
      BY <3>1, <3>2 DEF Of
  <2>6. QED
    BY <1>5, <1>10, <1>11, <2>4, <2>5 DEF AnswerTraced
<1>13. AnswerReports(a)'
  <2>1. SUFFICES ASSUME a.session \notin overlapped, a.writer \notin cut, a.tasks <= 1
                 PROVE  a.report <=> Escalated(t)
    BY <1>1, <1>5, <1>10 DEF AnswerReports
  <2>2. turn[t].writer = orchestrator[turn[t].session]
    BY <1>4, <1>10, <2>1 DEF PipeInv, ReportInv
  <2>3. k # 0
    BY <1>9 DEF PipeInv, PipeTypes
  <2>4. Sound(turn[t].session)
    BY <1>10, <1>a, <2>1, <2>2, <2>3 DEF Sound
  <2>5. QED
    BY <1>1, <1>4, <1>10, <2>1, <2>4 DEF Remembered
<1>14. turn[t].session \in overlapped \/ turn[t].prev = writers[turn[t].writer].prev
  BY <1>1 DEF PipeInv, ChainInv
<1>15. QED
  BY <1>1, <1>3, <1>4, <1>7, <1>8, <1>10, <1>12, <1>13, <1>14, <1>b, TurnAppends

(* A new orchestrator opens a chain of its own.                             *)
LEMMA ConversationIsOpened ==
  ASSUME PipeInv, NEW t \in Threads, OpenSession(t)
  PROVE  PipeInv'
<1>a. PICK s : s = turn[t].session
  OBVIOUS
<1>b. PICK k : k = Len(writers) + 1
  OBVIOUS
<1>c. PICK n : n = turn[t].turn
  OBVIOUS
<1> DEFINE r == [writer |-> k, turn |-> n, kind |-> "commitment", prev |-> 0]
           w == [session |-> s, prev |-> Len(ledger) + 1, last |-> <<"commitment">>]
<1>1. /\ turn[t].pc = "open" /\ ledger' = Append(ledger, r) /\ writers' = Append(writers, w)
      /\ orchestrator' = [orchestrator EXCEPT ![s] = k]
      /\ turn' = [turn EXCEPT ![t].pc = "gates", ![t].writer = k]
      /\ UNCHANGED <<counted, received, answered, overlapped, cut>>
  BY <1>a, <1>b, <1>c DEF OpenSession, At
<1>2. /\ turn \in [Threads -> TurnStates] /\ turn[t] \in TurnStates /\ writers \in Seq(WriterStates)
      /\ ledger \in Seq(Records) /\ orchestrator \in [Sessions -> Nat] /\ answered \subseteq Answers
  BY DEF PipeInv, PipeTypes
<1>3. /\ Active(t) /\ Placed(t) /\ Traced(t) = 0 /\ s \in Sessions /\ turn[t].kind = "trace"
      /\ turn[t].more = turn[t].tasks
  BY <1>1, <1>a, NothingTraced DEF Placed
<1>4. k \in Nat \ {0} /\ n \in Nat /\ n <= received
  BY <1>2, <1>3, <1>b, <1>c DEF TurnStates, Placed
<1>5. r \in Records /\ r.writer = k /\ r.turn = n /\ r.kind = "commitment" /\ r.prev = 0
  BY <1>4 DEF Records, Kinds
<1>6. w \in WriterStates /\ w.session = s /\ w.prev = Len(ledger) + 1 /\ Len(w.last) = 1 /\ w.last[1] = "commitment"
  BY <1>2, <1>3 DEF WriterStates, Kinds
<1> HIDE DEF r, w
<1>7. /\ ledger' \in Seq(Records) /\ Len(ledger) \in Nat
      /\ DOMAIN ledger = 1..Len(ledger) /\ DOMAIN ledger' = 1..(Len(ledger) + 1)
      /\ ledger'[Len(ledger) + 1] = r /\ \A i \in DOMAIN ledger : ledger'[i] = ledger[i]
      /\ \A m \in Nat, q \in Kinds :
           Of(m, q)' = IF m = r.turn /\ q = r.kind THEN Of(m, q) \cup {Len(ledger) + 1} ELSE Of(m, q)
  BY <1>1, <1>5, LedgerGrows
<1>8. /\ writers' \in Seq(WriterStates) /\ DOMAIN writers = 1..Len(writers) /\ DOMAIN writers' = 1..k
      /\ k \notin DOMAIN writers /\ writers'[k] = w /\ \A l \in DOMAIN writers : writers'[l] = writers[l]
  BY <1>1, <1>2, <1>6, <1>b
<1>9. /\ turn' \in [Threads -> TurnStates] /\ \A u \in Threads \ {t} : turn'[u] = turn[u]
      /\ turn'[t].session = s /\ turn'[t].turn = n /\ turn'[t].writer = k /\ turn'[t].pc = "gates"
      /\ turn'[t].tasks = turn[t].tasks /\ turn'[t].more = turn[t].more /\ turn'[t].kind = "trace"
  BY <1>1, <1>2, <1>3, <1>4, <1>a, <1>c DEF TurnStates
<1>10. orchestrator' \in [Sessions -> Nat] /\ orchestrator'[s] = k
       /\ \A c \in Sessions \ {s} : orchestrator'[c] = orchestrator[c]
  BY <1>1, <1>2, <1>3, <1>4
<1>11. \A m \in Nat, q \in {"trace", "escalation", "provenance"} : Of(m, q)' = Of(m, q)
  BY <1>5, <1>7 DEF Kinds
<1>12. ASSUME NEW u \in Threads
       PROVE  /\ (Active(u)' <=> Active(u)) /\ Traced(u)' = Traced(u)
              /\ turn'[u].session = turn[u].session /\ turn'[u].turn = turn[u].turn
  <2>1. CASE u # t
    BY <1>9, <2>1 DEF Active, Traced
  <2>2. CASE u = t
    <3>1. Active(t)' /\ Active(t) /\ Traced(t)' = Traced(t)
      BY <1>1, <1>3, <1>9 DEF Active, Traced
    <3>2. QED
      BY <1>9, <1>a, <1>c, <2>2, <3>1
  <2>3. QED
    BY <2>1, <2>2
<1>13. \A u \in Threads \ {t} : Active(u) /\ turn[u].session \notin overlapped => turn[u].session # s
  BY <1>3, <1>a DEF PipeInv, TurnsApart
<1>14. \A u \in Threads : Active(u) => turn[u].turn \in Nat
  BY <1>2 DEF TurnStates
<1>15. \A u \in Threads \ {t} : Active(u) /\ turn[u].pc # "open" => turn[u].writer \in DOMAIN writers
  BY DEF PipeInv, TurnsApart, Placed
<1>16. PipeTypes'
  <2>1. \A i \in DOMAIN ledger' : ledger'[i].writer \in DOMAIN writers' /\ ledger'[i].turn <= received'
    <3>1. ASSUME NEW i \in DOMAIN ledger'
          PROVE  ledger'[i].writer \in DOMAIN writers' /\ ledger'[i].turn <= received'
      <4>1. CASE i \in DOMAIN ledger
        <5>1. ledger'[i] = ledger[i] /\ ledger[i].writer \in DOMAIN writers /\ ledger[i].turn <= received
          BY <1>7, <4>1 DEF PipeInv, PipeTypes
        <5>2. DOMAIN writers \subseteq DOMAIN writers'
          BY <1>2, <1>4, <1>8, <1>b
        <5>3. QED
          BY <1>1, <5>1, <5>2
      <4>2. CASE i \notin DOMAIN ledger
        <5>1. ledger'[i] = r
          BY <1>7, <4>2
        <5>2. QED
          BY <1>1, <1>4, <1>5, <1>8, <5>1
      <4>3. QED
        BY <4>1, <4>2
    <3>2. QED
      BY <3>1
  <2>2. \A l \in DOMAIN writers' : Len(writers'[l].last) \in 1..2
    <3>1. \A l \in DOMAIN writers' : l = k \/ l \in DOMAIN writers
      BY <1>2, <1>8, <1>b
    <3>2. Len(writers'[k].last) \in 1..2
      BY <1>6, <1>8
    <3>3. \A l \in DOMAIN writers : Len(writers'[l].last) \in 1..2
      BY <1>8 DEF PipeInv, PipeTypes
    <3>4. QED
      BY <3>1, <3>2, <3>3
  <2>3. \A c \in Sessions : orchestrator'[c] # 0 =>
          orchestrator'[c] \in DOMAIN writers' /\ writers'[orchestrator'[c]].session = c
    <3>1. k \in DOMAIN writers' /\ writers'[k].session = s
      BY <1>4, <1>6, <1>8
    <3>2. DOMAIN writers \subseteq DOMAIN writers'
      BY <1>2, <1>4, <1>8, <1>b
    <3>3. ASSUME NEW c \in Sessions \ {s}, orchestrator'[c] # 0
          PROVE  orchestrator'[c] \in DOMAIN writers' /\ writers'[orchestrator'[c]].session = c
      <4>1. orchestrator'[c] = orchestrator[c]
        BY <1>10
      <4>2. orchestrator[c] \in DOMAIN writers /\ writers[orchestrator[c]].session = c
        BY <3>3, <4>1 DEF PipeInv, PipeTypes
      <4>3. QED
        BY <1>8, <3>2, <4>1, <4>2
    <3>4. QED
      BY <1>10, <3>1, <3>3
  <2>4. counted' \in [Sessions -> Nat] /\ received' \in Nat /\ answered' \subseteq Answers
    BY <1>1 DEF PipeInv, PipeTypes
  <2>5. QED
    BY <1>7, <1>8, <1>9, <1>10, <2>1, <2>2, <2>3, <2>4 DEF PipeTypes
<1>17. TurnsApart'
  <2>1. ASSUME NEW u \in Threads, Active(u)' PROVE Placed(u)'
    <3>1. CASE u = t
      <4>1. k \in DOMAIN writers' /\ writers'[k].session = s /\ turn'[t].more <= turn'[t].tasks
        BY <1>3, <1>4, <1>6, <1>8, <1>9 DEF Placed
      <4>2. QED
        BY <1>1, <1>3, <1>4, <1>9, <3>1, <4>1 DEF Placed
    <3>2. CASE u # t
      <4>1. turn'[u] = turn[u] /\ Placed(u)
        BY <1>9, <1>12, <2>1, <3>2 DEF PipeInv, TurnsApart
      <4>2. \A l \in DOMAIN writers : l \in DOMAIN writers' /\ writers'[l] = writers[l]
        BY <1>2, <1>4, <1>8, <1>b
      <4>3. received' = received
        BY <1>1
      <4>4. QED
        BY <4>1, <4>2, <4>3 DEF Placed
    <3>3. QED
      BY <3>1, <3>2
  <2>2. ASSUME NEW u \in Threads, NEW v \in Threads, u # v, Active(u)', Active(v)'
        PROVE  turn'[u].turn # turn'[v].turn
               /\ (turn'[u].session = turn'[v].session => turn'[u].session \in overlapped')
    <3>1. Active(u) /\ Active(v) /\ turn'[u].turn = turn[u].turn /\ turn'[v].turn = turn[v].turn
          /\ turn'[u].session = turn[u].session /\ turn'[v].session = turn[v].session
      BY <1>12, <2>2
    <3>2. QED
      BY <1>1, <2>2, <3>1 DEF PipeInv, TurnsApart
  <2>3. \A a \in answered' : a.turn <= received' /\ \A u \in Threads : Active(u)' => turn'[u].turn # a.turn
    BY <1>1, <1>12 DEF PipeInv, TurnsApart
  <2>4. QED
    BY <2>1, <2>2, <2>3 DEF TurnsApart
<1>18. ChainInv'
  <2>1. ASSUME NEW l \in DOMAIN writers'
        PROVE  /\ writers'[l].prev \in DOMAIN ledger' /\ ledger'[writers'[l].prev].writer = l
               /\ \A i \in DOMAIN ledger' : ledger'[i].writer = l => i <= writers'[l].prev
    <3>1. CASE l = k
      BY <1>5, <1>6, <1>7, <1>8, <3>1
    <3>2. CASE l # k
      <4>1. l \in DOMAIN writers /\ writers'[l] = writers[l]
        BY <1>2, <1>8, <1>b, <3>2
      <4>2. QED
        BY <1>5, <1>7, <3>2, <4>1 DEF PipeInv, ChainInv
    <3>3. QED
      BY <3>1, <3>2
  <2>2. ASSUME NEW u \in Threads, turn'[u].pc = "append", turn'[u].session \notin overlapped'
        PROVE  turn'[u].prev = writers'[turn'[u].writer].prev
    <3>1. u # t /\ turn'[u] = turn[u] /\ Active(u)
      BY <1>9, <2>2 DEF Active
    <3>2. turn[u].writer \in DOMAIN writers /\ turn[u].prev = writers[turn[u].writer].prev
      BY <1>1, <1>15, <2>2, <3>1 DEF PipeInv, ChainInv
    <3>3. QED
      BY <1>8, <3>1, <3>2
  <2>3. ASSUME NEW i \in DOMAIN ledger', writers'[ledger'[i].writer].session \notin overlapped' PROVE Linked(i)'
    <3>1. CASE i \in DOMAIN ledger
      <4>1. Linked(i)
        <5>1. ledger'[i] = ledger[i] /\ ledger[i].writer \in DOMAIN writers
          BY <1>7, <3>1 DEF PipeInv, PipeTypes
        <5>2. QED
          BY <1>1, <1>8, <2>3, <3>1, <5>1 DEF PipeInv, ChainInv, WritersChain
      <4>2. \A j \in 1..(i - 1) : ledger'[j] = ledger[j]
        BY <1>7, <3>1
      <4>3. ledger'[i] = ledger[i]
        BY <1>7, <3>1
      <4>4. QED
        BY <4>1, <4>2, <4>3 DEF Linked
    <3>2. CASE i \notin DOMAIN ledger
      <4>1. ledger'[i].writer = k /\ ledger'[i].prev = 0 /\ i = Len(ledger) + 1
        BY <1>5, <1>7, <3>2
      <4>2. {j \in 1..(i - 1) : ledger'[j].writer = ledger'[i].writer} = {}
        BY <1>7, <1>8, <4>1 DEF PipeInv, PipeTypes
      <4>3. QED
        BY <4>1, <4>2 DEF Linked
    <3>3. QED
      BY <3>1, <3>2
  <2>4. QED
    BY <2>1, <2>2, <2>3 DEF ChainInv, WritersChain
<1>19. TraceInv'
  <2>1. ASSUME NEW u \in Threads, Active(u)'
        PROVE  /\ Cardinality(Of(turn[u].turn, "trace"))' = Traced(u)'
               /\ Traced(u)' = 0 => Of(turn[u].turn, "escalation")' = {}
    <3>1. Active(u) /\ turn'[u].turn = turn[u].turn /\ turn[u].turn \in Nat /\ Traced(u)' = Traced(u)
      BY <1>12, <1>14, <2>1
    <3>2. Of(turn[u].turn, "trace")' = Of(turn[u].turn, "trace")
          /\ Of(turn[u].turn, "escalation")' = Of(turn[u].turn, "escalation")
      BY <1>11, <3>1 DEF Of
    <3>3. Cardinality(Of(turn[u].turn, "trace")) = Traced(u)
          /\ (Traced(u) = 0 => Of(turn[u].turn, "escalation") = {})
      BY <3>1 DEF PipeInv, TraceInv
    <3>4. QED
      BY <3>1, <3>2, <3>3
  <2>2. ASSUME NEW a \in answered' PROVE AnswerTraced(a)'
    <3>1. a \in answered /\ a.turn \in Nat
      BY <1>1, <1>2 DEF Answers
    <3>2. AnswerTraced(a)
      BY <3>1, AnswerByAnswer DEF PipeInv, TraceInv
    <3>3. QED
      BY <1>11, <3>1, <3>2 DEF AnswerTraced
  <2>3. AnsweredIsTraced'
    BY <2>2 DEF AnsweredIsTraced, AnswerTraced
  <2>4. QED
    BY <2>1, <2>3 DEF TraceInv
<1>20. ReportInv'
  <2>1. ASSUME NEW u \in Threads, Active(u)', turn'[u].pc # "open", turn'[u].session \notin overlapped'
        PROVE  turn'[u].writer = orchestrator'[turn'[u].session]
    <3>1. CASE u = t
      BY <1>9, <1>10, <3>1
    <3>2. CASE u # t
      <4>1. turn'[u] = turn[u] /\ Active(u) /\ turn[u].session \notin overlapped /\ turn[u].session # s
            /\ turn[u].session \in Sessions
        BY <1>1, <1>9, <1>12, <1>13, <2>1, <3>2 DEF PipeInv, TurnsApart, Placed
      <4>2. turn[u].writer = orchestrator[turn[u].session]
        BY <2>1, <4>1 DEF PipeInv, ReportInv
      <4>3. QED
        BY <1>10, <4>1, <4>2
    <3>3. QED
      BY <3>1, <3>2
  <2>2. \A c \in Sessions \ {s} : Sound(c)' => Sound(c)
    BY <1>1, <1>10 DEF Sound
  <2>3. ASSUME NEW c \in Sessions, Sound(c)', \A u \in Threads : Active(u)' /\ turn'[u].session = c => Traced(u)' = 0
        PROVE  Newest(orchestrator[c])' \in {"commitment", "provenance"}
    <3>1. CASE c = s
      BY <1>6, <1>8, <1>10, <3>1 DEF Newest
    <3>2. CASE c # s
      <4>1. Newest(orchestrator[c]) \in {"commitment", "provenance"}
        BY <1>12, <2>2, <2>3, <3>2 DEF PipeInv, ReportInv
      <4>2. orchestrator[c] \in DOMAIN writers
        BY <1>10, <2>3, <3>2 DEF Sound, PipeInv, PipeTypes
      <4>3. QED
        BY <1>8, <1>10, <3>2, <4>1, <4>2 DEF Newest
    <3>3. QED
      BY <3>1, <3>2
  <2>4. ASSUME NEW u \in Threads PROVE Remembered(u)'
    <3>1. CASE u = t
      <4>1. Traced(t)' = 0
        BY <1>3, <1>12
      <4>2. QED
        BY <1>9, <3>1, <4>1 DEF Remembered, Writing
    <3>2. CASE u # t /\ Active(u) /\ turn[u].pc # "open" /\ turn[u].session \notin overlapped
      <4>1. /\ turn'[u] = turn[u] /\ turn[u].turn \in Nat /\ turn[u].session # s /\ turn[u].session \in Sessions
            /\ writers'[turn[u].writer] = writers[turn[u].writer]
        <5>1. turn[u].writer \in DOMAIN writers
          BY <1>15, <3>2
        <5>2. turn[u].session \in Sessions
          BY <3>2 DEF PipeInv, TurnsApart, Placed
        <5>3. QED
          BY <1>8, <1>9, <1>13, <1>14, <3>2, <5>1, <5>2
      <4>2. /\ Active(u)' = Active(u) /\ Traced(u)' = Traced(u) /\ Writing(u)' = Writing(u)
            /\ Shows(u)' = Shows(u) /\ Newest(turn[u].writer)' = Newest(turn[u].writer)
        BY <4>1 DEF Active, Traced, Writing, Shows, Newest, build_escalation_content
      <4>3. Escalated(u)' = Escalated(u)
        BY <1>11, <4>1 DEF Escalated
      <4>4. Remembered(u)
        BY DEF PipeInv, ReportInv
      <4>5. Sound(turn[u].session)' => Sound(turn[u].session)
        BY <1>1, <1>10, <4>1 DEF Sound
      <4>6. QED
        BY <4>1, <4>2, <4>3, <4>4, <4>5 DEF Remembered
    <3>3. CASE u # t /\ ~(Active(u) /\ turn[u].pc # "open" /\ turn[u].session \notin overlapped)
      <4>1. turn'[u] = turn[u] /\ overlapped' = overlapped
        BY <1>1, <1>9, <3>3
      <4>2. QED
        BY <3>3, <4>1 DEF Remembered, Active, Sound
    <3>4. QED
      BY <3>1, <3>2, <3>3
  <2>5. ASSUME NEW a \in answered' PROVE AnswerReports(a)'
    <3>1. a \in answered /\ a.turn \in Nat
      BY <1>1, <1>2 DEF Answers
    <3>2. AnswerReports(a)
      BY <3>1, AnswerByAnswer DEF PipeInv, ReportInv
    <3>3. Of(a.turn, "escalation")' = Of(a.turn, "escalation")
      BY <1>11, <3>1
    <3>4. QED
      BY <1>1, <3>2, <3>3 DEF AnswerReports
  <2>6. EscalationIsReported'
    BY <2>5 DEF EscalationIsReported, AnswerReports
  <2>7. QED
    BY <2>1, <2>3, <2>4, <2>6 DEF ReportInv
<1>21. QED
  BY <1>16, <1>17, <1>18, <1>19, <1>20 DEF PipeInv

(* The request of a turn.                                                   *)
LEMMA TurnIsReceived ==
  ASSUME PipeInv, NEW t \in Threads, NEW s \in Sessions, chat(t, s)
  PROVE  PipeInv'
<1> DEFINE pc == IF orchestrator[s] = 0 THEN "open" ELSE "gates"
           first == counted[s] = 0
           new == [Idle EXCEPT !.session = s, !.turn = received + 1, !.writer = orchestrator[s],
                                    !.first = first, !.pc = pc]
<1>1. /\ turn[t].pc = "idle" /\ received' = received + 1 /\ turn' = [turn EXCEPT ![t] = new]
      /\ overlapped' = IF \E u \in Threads : turn[u].session = s THEN overlapped \cup {s} ELSE overlapped
      /\ UNCHANGED <<ledger, writers, orchestrator, counted, answered, cut>>
  BY DEF chat, At
<1>2. /\ turn \in [Threads -> TurnStates] /\ orchestrator \in [Sessions -> Nat] /\ received \in Nat
      /\ answered \subseteq Answers /\ counted \in [Sessions -> Nat]
  BY DEF PipeInv, PipeTypes
<1>3. /\ new.session = s /\ new.turn = received + 1 /\ new.writer = orchestrator[s] /\ new.pc = pc
      /\ new.kind = "trace" /\ new.tasks = 0 /\ new.more = 0 /\ new \in TurnStates
  <2>1. orchestrator[s] \in Nat /\ received + 1 \in Nat /\ first \in BOOLEAN /\ pc \in {"open", "gates"}
    BY <1>2
  <2> HIDE DEF first, pc
  <2>2. QED
    BY <2>1 DEF Idle, TurnStates, Kinds
<1> HIDE DEF new
<1>4. turn' \in [Threads -> TurnStates] /\ turn'[t] = new /\ \A u \in Threads \ {t} : turn'[u] = turn[u]
  BY <1>1, <1>2, <1>3
<1>5. overlapped \subseteq overlapped'
  BY <1>1
<1>6. ASSUME NEW n, NEW kind PROVE Of(n, kind)' = Of(n, kind)
  BY <1>1 DEF Of
<1>7. ASSUME NEW u \in Threads \ {t}
      PROVE  /\ turn'[u] = turn[u] /\ (Active(u)' <=> Active(u)) /\ Traced(u)' = Traced(u)
             /\ Active(u) => turn[u].turn \in Nat /\ turn[u].turn <= received
  <2>1. turn'[u] = turn[u] /\ turn[u].turn \in Nat
    BY <1>2, <1>4 DEF TurnStates
  <2>2. Active(u) => turn[u].turn <= received
    BY DEF PipeInv, TurnsApart, Placed
  <2>3. (Active(u)' <=> Active(u)) /\ Traced(u)' = Traced(u)
    BY <2>1 DEF Active, Traced
  <2>4. QED
    BY <2>1, <2>2, <2>3
<1>8. /\ Active(t)' /\ ~Active(t) /\ Traced(t)' = 0 /\ turn'[t].turn = received + 1 /\ turn'[t].session = s
      /\ turn'[t].pc \in {"open", "gates"} /\ turn'[t].kind = "trace"
  BY <1>1, <1>3, <1>4 DEF Active, Traced
<1>9. \A i \in DOMAIN ledger : ledger[i].turn \in Nat /\ ledger[i].turn <= received
  <2>1. ledger \in Seq(Records)
    BY DEF PipeInv, PipeTypes
  <2>2. \A i \in DOMAIN ledger : ledger[i] \in Records
    BY <2>1
  <2>3. QED
    BY <2>2 DEF PipeInv, PipeTypes, Records
<1>10. PipeTypes'
  <2>1. \A i \in DOMAIN ledger : ledger[i].turn <= received + 1
    BY <1>2, <1>9
  <2>2. QED
    BY <1>1, <1>2, <1>4, <2>1 DEF PipeInv, PipeTypes
<1>11. TurnsApart'
  <2>1. ASSUME NEW u \in Threads, Active(u)' PROVE Placed(u)'
    <3>1. CASE u = t
      <4>1. orchestrator[s] # 0 => orchestrator[s] \in DOMAIN writers /\ writers[orchestrator[s]].session = s
        BY DEF PipeInv, PipeTypes
      <4>2. received + 1 <= received'
        BY <1>1, <1>2
      <4>3. pc = "open" <=> orchestrator[s] = 0
        OBVIOUS
      <4>4. turn'[t].pc = pc /\ pc \in {"open", "gates"} /\ turn'[t].writer = orchestrator[s] /\ turn'[t].more = 0
            /\ turn'[t].tasks = 0
        BY <1>3, <1>4
      <4> HIDE DEF pc
      <4>5. QED
        BY <1>1, <1>8, <3>1, <4>1, <4>2, <4>3, <4>4 DEF Placed
    <3>2. CASE u # t
      <4>1. Active(u) /\ turn'[u] = turn[u] /\ turn[u].turn \in Nat /\ turn[u].turn <= received
        BY <1>7, <2>1, <3>2
      <4>2. Placed(u)
        BY <4>1 DEF PipeInv, TurnsApart
      <4>3. turn[u].turn <= received'
        BY <1>1, <1>2, <4>1
      <4>4. QED
        BY <1>1, <4>1, <4>2, <4>3 DEF Placed
    <3>3. QED
      BY <3>1, <3>2
  <2>2. ASSUME NEW u \in Threads \ {t}, Active(u)'
        PROVE  turn'[u].turn # turn'[t].turn
               /\ (turn'[u].session = turn'[t].session => turn'[u].session \in overlapped')
    <3>1. turn'[u] = turn[u] /\ turn[u].turn \in Nat /\ turn[u].turn <= received
      BY <1>7, <2>2
    <3>2. turn[u].turn # received + 1
      BY <1>2, <3>1
    <3>3. QED
      BY <1>1, <1>8, <3>1, <3>2
  <2>3. ASSUME NEW u \in Threads, NEW v \in Threads, u # v, Active(u)', Active(v)'
        PROVE  turn'[u].turn # turn'[v].turn
               /\ (turn'[u].session = turn'[v].session => turn'[u].session \in overlapped')
    <3>1. CASE u = t \/ v = t
      BY <2>2, <2>3, <3>1
    <3>2. CASE u # t /\ v # t
      <4>1. Active(u) /\ Active(v) /\ turn'[u] = turn[u] /\ turn'[v] = turn[v]
        BY <1>7, <2>3, <3>2
      <4>2. QED
        BY <1>5, <2>3, <4>1 DEF PipeInv, TurnsApart
    <3>3. QED
      BY <3>1, <3>2
  <2>4. ASSUME NEW a \in answered' PROVE a.turn <= received' /\ \A u \in Threads : Active(u)' => turn'[u].turn # a.turn
    <3>1. a \in answered /\ a.turn \in Nat /\ a.turn <= received
      BY <1>1, <1>2 DEF PipeInv, TurnsApart, Answers
    <3>2. a.turn <= received' /\ turn'[t].turn # a.turn
      BY <1>1, <1>2, <1>8, <3>1
    <3>3. ASSUME NEW u \in Threads \ {t}, Active(u)' PROVE turn'[u].turn # a.turn
      <4>1. Active(u) /\ turn'[u] = turn[u]
        BY <1>7, <3>3
      <4>2. QED
        BY <3>1, <4>1 DEF PipeInv, TurnsApart
    <3>4. QED
      BY <3>2, <3>3
  <2>5. QED
    BY <2>1, <2>3, <2>4 DEF TurnsApart
<1>12. ChainInv'
  <2>1. ASSUME NEW u \in Threads, turn'[u].pc = "append", turn'[u].session \notin overlapped'
        PROVE  turn'[u].prev = writers'[turn'[u].writer].prev
    <3>1. u # t
      BY <1>8, <2>1
    <3>2. turn'[u] = turn[u] /\ turn[u].session \notin overlapped
      BY <1>5, <1>7, <2>1, <3>1
    <3>3. QED
      BY <1>1, <2>1, <3>2 DEF PipeInv, ChainInv
  <2>2. WritersChain'
    BY <1>1, <1>5 DEF PipeInv, ChainInv, WritersChain, Linked
  <2>3. QED
    BY <1>1, <2>1, <2>2 DEF PipeInv, ChainInv
<1>13. TraceInv'
  <2>1. AnsweredIsTraced'
    BY <1>1, <1>6 DEF PipeInv, TraceInv, AnsweredIsTraced
  <2>2. ASSUME NEW u \in Threads, Active(u)'
        PROVE  /\ Cardinality(Of(turn[u].turn, "trace"))' = Traced(u)'
               /\ Traced(u)' = 0 => Of(turn[u].turn, "escalation")' = {}
    <3>1. CASE u = t
      <4>1. \A q : Of(received + 1, q) = {}
        <5>1. \A i \in DOMAIN ledger : ledger[i].turn # received + 1
          BY <1>2, <1>9
        <5>2. QED
          BY <5>1 DEF Of
      <4>2. \A q : Of(turn[u].turn, q)' = {}
        BY <1>1, <1>8, <3>1, <4>1 DEF Of
      <4>3. QED
        BY <1>8, <3>1, <4>2, FS_EmptySet
    <3>2. CASE u # t
      <4>1. Active(u) /\ turn'[u] = turn[u] /\ Traced(u)' = Traced(u)
        BY <1>7, <2>2, <3>2
      <4>2. \A q : Of(turn[u].turn, q)' = Of(turn[u].turn, q)
        BY <1>1, <4>1 DEF Of
      <4>3. QED
        BY <4>1, <4>2 DEF PipeInv, TraceInv
    <3>3. QED
      BY <3>1, <3>2
  <2>3. QED
    BY <2>1, <2>2 DEF TraceInv
<1>14. ReportInv'
  <2>1. ASSUME NEW u \in Threads, Active(u)', turn'[u].pc # "open", turn'[u].session \notin overlapped'
        PROVE  turn'[u].writer = orchestrator'[turn'[u].session]
    <3>1. CASE u = t
      BY <1>1, <1>3, <1>4, <3>1
    <3>2. CASE u # t
      BY <1>1, <1>5, <1>7, <2>1, <3>2 DEF PipeInv, ReportInv
    <3>3. QED
      BY <3>1, <3>2
  <2>2. \A c : Sound(c)' => Sound(c)
    BY <1>1, <1>5 DEF Sound
  <2>3. ASSUME NEW c \in Sessions, Sound(c)', \A u \in Threads : Active(u)' /\ turn'[u].session = c => Traced(u)' = 0
        PROVE  Newest(orchestrator[c])' \in {"commitment", "provenance"}
    <3>1. \A u \in Threads : Active(u) /\ turn[u].session = c => Traced(u) = 0
      <4>1. ASSUME NEW u \in Threads, Active(u), turn[u].session = c PROVE Traced(u) = 0
        <5>1. u # t
          BY <1>8, <4>1
        <5>2. turn'[u] = turn[u] /\ Active(u)' /\ Traced(u)' = Traced(u)
          BY <1>7, <4>1, <5>1
        <5>3. QED
          BY <2>3, <4>1, <5>2
      <4>2. QED
        BY <4>1
    <3>2. Newest(orchestrator[c]) \in {"commitment", "provenance"}
      BY <2>2, <2>3, <3>1 DEF PipeInv, ReportInv
    <3>3. QED
      BY <1>1, <3>2 DEF Newest
  <2>4. ASSUME NEW u \in Threads PROVE Remembered(u)'
    <3>1. CASE u = t
      <4>1. turn'[t].kind # "provenance" /\ turn'[t].pc \notin {"build", "append", "command", "llm"} /\ Traced(t)' = 0
        BY <1>8
      <4>2. QED
        BY <3>1, <4>1 DEF Remembered, Writing
    <3>2. CASE u # t
      <4>1. turn'[u] = turn[u] /\ writers' = writers
        BY <1>1, <1>7, <3>2
      <4>2. /\ (Active(u)' <=> Active(u)) /\ Traced(u)' = Traced(u) /\ (Writing(u)' <=> Writing(u))
            /\ (Shows(u)' <=> Shows(u)) /\ Newest(turn[u].writer)' = Newest(turn[u].writer)
        BY <4>1 DEF Active, Traced, Writing, Shows, Newest, build_escalation_content
      <4>3. Escalated(u)' <=> Escalated(u)
        BY <1>1, <4>1 DEF Escalated, Of
      <4>4. Sound(turn[u].session)' => Sound(turn[u].session)
        BY <1>1, <1>5, <4>1 DEF Sound
      <4>5. Remembered(u)
        BY DEF PipeInv, ReportInv
      <4>6. QED
        BY <4>1, <4>2, <4>3, <4>4, <4>5 DEF Remembered
    <3>3. QED
      BY <3>1, <3>2
  <2>5. EscalationIsReported'
    BY <1>1, <1>5, <1>6 DEF PipeInv, ReportInv, EscalationIsReported
  <2>6. QED
    BY <2>1, <2>3, <2>4, <2>5 DEF ReportInv
<1>15. QED
  BY <1>10, <1>11, <1>12, <1>13, <1>14 DEF PipeInv

(* A restart ends every turn and forgets every orchestrator.                *)
LEMMA TurnsAreLost == PipeInv /\ Restart => PipeInv'
<1> SUFFICES ASSUME PipeInv, Restart PROVE PipeInv'
  OBVIOUS
<1>1. /\ orchestrator' = [s \in Sessions |-> 0] /\ turn' = [t \in Threads |-> Idle]
      /\ UNCHANGED <<ledger, writers, counted, received, answered, overlapped, cut>>
  BY DEF Restart
<1>2. Idle \in TurnStates /\ Idle.pc = "idle"
  BY DEF Idle, TurnStates, Kinds
<1>3. /\ turn' \in [Threads -> TurnStates] /\ \A t \in Threads : turn'[t].pc = "idle"
      /\ orchestrator' \in [Sessions -> Nat] /\ \A s \in Sessions : orchestrator'[s] = 0
  BY <1>1, <1>2
<1>4. ASSUME NEW n, NEW kind PROVE Of(n, kind)' = Of(n, kind)
  BY <1>1 DEF Of
<1>5. PipeTypes'
  BY <1>1, <1>3 DEF PipeInv, PipeTypes
<1>6. TurnsApart'
  BY <1>1, <1>3 DEF PipeInv, TurnsApart, Active
<1>7. ChainInv'
  BY <1>1, <1>3 DEF PipeInv, ChainInv, WritersChain, Linked
<1>8. TraceInv'
  <2>1. AnsweredIsTraced'
    BY <1>1, <1>4 DEF PipeInv, TraceInv, AnsweredIsTraced
  <2>2. QED
    BY <1>3, <2>1 DEF TraceInv, Active
<1>9. ReportInv'
  <2>1. EscalationIsReported'
    BY <1>1, <1>4 DEF PipeInv, ReportInv, EscalationIsReported
  <2>2. QED
    BY <1>3, <2>1 DEF ReportInv, Remembered, Active, Sound
<1>10. QED
  BY <1>5, <1>6, <1>7, <1>8, <1>9 DEF PipeInv

LEMMA PipeStutters ==
  ASSUME PipeInv, UNCHANGED <<ledger, writers, orchestrator, counted, turn, received, answered, overlapped, cut>>
  PROVE  PipeInv'
<1>1. PipeTypes' /\ TurnsApart'
  BY DEF PipeInv, PipeTypes, TurnsApart, Active, Placed
<1>2. ChainInv'
  BY DEF PipeInv, ChainInv, WritersChain, Linked
<1>3. ASSUME NEW n, NEW kind PROVE Of(n, kind)' = Of(n, kind)
  BY DEF Of
<1>4. TraceInv'
  <2>1. AnsweredIsTraced'
    BY <1>3 DEF PipeInv, TraceInv, AnsweredIsTraced
  <2>2. QED
    BY <1>3, <2>1 DEF PipeInv, TraceInv, Active, Traced
<1>5. ReportInv'
  <2>1. EscalationIsReported'
    BY <1>3 DEF PipeInv, ReportInv, EscalationIsReported
  <2>2. ASSUME NEW t \in Threads PROVE Remembered(t)'
    <3>1. /\ (Active(t)' <=> Active(t)) /\ Traced(t)' = Traced(t) /\ (Writing(t)' <=> Writing(t))
          /\ (Shows(t)' <=> Shows(t)) /\ Newest(turn[t].writer)' = Newest(turn[t].writer)
      BY DEF Active, Traced, Writing, Shows, Newest, build_escalation_content
    <3>2. (Escalated(t)' <=> Escalated(t)) /\ (Sound(turn[t].session)' <=> Sound(turn[t].session))
      BY DEF Escalated, Of, Sound
    <3>3. Remembered(t)
      BY DEF PipeInv, ReportInv
    <3>4. QED
      BY <3>1, <3>2, <3>3 DEF Remembered
  <2>3. QED
    BY <2>1, <2>2 DEF PipeInv, ReportInv, Active, Traced, Sound, Newest
<1>6. QED
  BY <1>1, <1>2, <1>4, <1>5 DEF PipeInv

LEMMA PipeStays ==
  ASSUME PipelineAssumption, PipeInv, Next \/ Restart \/ UNCHANGED vars
  PROVE  PipeInv'
<1>1. CASE Next
  <2>1. CASE \E s \in Sessions : Unlock(s)
    <3>1. UNCHANGED <<ledger, writers, orchestrator, counted, turn, received, answered, overlapped, cut>>
      BY <2>1 DEF Unlock
    <3>2. QED
      BY <3>1, PipeStutters
  <2>2. ASSUME NEW t \in Threads, Serve(t) PROVE PipeInv'
    <3>1. CASE \E s \in Sessions : chat(t, s)
      BY <3>1, TurnIsReceived
    <3>2. CASE OpenSession(t)
      BY <3>2, ConversationIsOpened
    <3>3. CASE \/ Refused(t) \/ check_glossary(t) \/ check_turn_0(t)
               \/ check_greeting(t) \/ Denied(t)
      BY <3>3, TurnIsAnsweredEarly
    <3>4. CASE Interpret(t)
      BY <3>4, TurnIsInterpreted
    <3>5. CASE Build(t)
      BY <3>5, RecordIsBuilt
    <3>6. CASE WriteTrace(t)
      BY <3>6, TraceIsWritten
    <3>7. CASE WriteEscalation(t)
      BY <3>7, EscalationIsWritten
    <3>8. CASE Sync(t) \/ build_command_content(t) \/ invoke_llm(t)
      BY <3>8, TurnIsFinished
    <3>9. CASE _stage_and_build(t)
      BY <3>9, NovelIsWritten
    <3>10. CASE append_provenance_trace(t)
      BY <3>10, TurnIsAnswered
    <3>11. CASE Fail(t)
      BY <3>11, TurnFails
    <3>12. QED
      BY <2>2, <3>1, <3>2, <3>3, <3>4, <3>5, <3>6, <3>7, <3>8, <3>9, <3>10, <3>11 DEF Serve
  <2>3. QED
    BY <1>1, <2>1, <2>2 DEF Next
<1>2. CASE Restart
  BY <1>2, TurnsAreLost
<1>3. CASE UNCHANGED vars
  BY <1>3, PipeStutters DEF vars
<1>4. QED
  BY <1>1, <1>2, <1>3

(* The properties of the pipeline, as the invariant has them.              *)
LEMMA PipeSound ==
  ASSUME PipeInv
  PROVE  EscalationIsReported /\ AnsweredIsTraced /\ WritersChain
BY DEF PipeInv, ChainInv, TraceInv, ReportInv
=================================================================================
