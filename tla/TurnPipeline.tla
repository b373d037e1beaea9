------------------------------ MODULE TurnPipeline ------------------------------
(***************************************************************************)
(* The turns of the conversations of one domain, from the request to the   *)
(* answer, and the records they leave in the domain's ledger. A turn runs  *)
(* in a thread of the pool; the turns of a conversation share its          *)
(* orchestrator, whose writer chains the records it appends. All writers   *)
(* of the domain append to one ledger.                                     *)
(*                                                                         *)
(* What a turn is about is left to it: the tasks that its message names,   *)
(* whether the inspection lets it through, whether a task escalates. PINs, *)
(* user freezes and the contexts of a conversation are in other modules.   *)
(***************************************************************************)
EXTENDS Naturals, Sequences, FiniteSets

CONSTANTS
  Sessions,      (* conversations                                          *)
  NoSession,     (* an idle thread's conversation                          *)
  Threads,       (* threads that serve turns                               *)
  MaxTurns,      (* turns in one behaviour                                 *)
  MaxRecords,    (* records in the ledger                                  *)
  MaxSecondary   (* tasks of a turn besides the first one                  *)

VARIABLES
  ledger,        (* the records, in order                                  *)
  writers,       (* the writers there have been: what _prev_hash stands    *)
                 (* for, and the last two of log_records                   *)
  orchestrator,  (* the writer of a conversation's orchestrator, 0 if none *)
  frozen,        (* conversations that are frozen                          *)
  counted,       (* turn_count in the saved session                        *)
  turn,          (* the turns being served                                 *)
  received,      (* auxiliary: turns so far                                *)
  answered,      (* auxiliary: answers of turns that were orchestrated     *)
  overlapped,    (* auxiliary: conversations with overlapping turns        *)
  cut            (* auxiliary: writers with a turn that failed when it had *)
                 (* appended a record                                      *)

vars == <<ledger, writers, orchestrator, frozen, counted, turn, received, answered, overlapped, cut>>

PipelineAssumption == MaxTurns \in Nat \ {0} /\ MaxSecondary \in Nat

Turn == 1..MaxTurns
Kind == {"commitment", "trace", "escalation", "novel", "provenance"}
Record == [writer: Nat \ {0}, turn: Turn, kind: Kind, prev: Nat]
Idle == [pc |-> "idle", session |-> NoSession, turn |-> 1, writer |-> 0, first |-> FALSE, more |-> 0,
         tasks |-> 0, kind |-> "trace", prev |-> 0, escalate |-> FALSE, report |-> FALSE]

TypeOK ==
  /\ ledger \in Seq(Record)
  /\ writers \in Seq([session: Sessions, prev: Nat, last: Seq(Kind)])
  /\ orchestrator \in [Sessions -> 0..Len(writers)]
  /\ frozen \subseteq Sessions /\ overlapped \subseteq Sessions
  /\ counted \in [Sessions -> Nat]
  /\ turn \in [Threads ->
       [pc: {"idle", "open", "gates", "inspect", "build", "append", "sync", "command", "llm"},
        session: Sessions \cup {NoSession}, turn: Turn, writer: 0..Len(writers), first: BOOLEAN,
        more: 0..MaxSecondary, tasks: 0..MaxSecondary, kind: Kind, prev: Nat, escalate: BOOLEAN, report: BOOLEAN]]
  /\ received \in 0..MaxTurns
  /\ answered \subseteq [turn: Turn, session: Sessions, writer: Nat, tasks: 0..MaxSecondary, report: BOOLEAN]
  /\ cut \subseteq 1..Len(writers)

Init ==
  /\ ledger = << >> /\ writers = << >>
  /\ orchestrator = [s \in Sessions |-> 0]
  /\ frozen = {} /\ overlapped = {} /\ cut = {} /\ answered = {}
  /\ counted = [s \in Sessions |-> 0]
  /\ turn = [t \in Threads |-> Idle]
  /\ received = 0

At(t, pc) == turn[t].pc = pc
Go(t, pc) == turn' = [turn EXCEPT ![t].pc = pc]
Leave(t) == turn' = [turn EXCEPT ![t] = Idle]

(* --- From the request to the orchestrator -------------------------------- *)

(* The routing decision goes to another ledger, and its failure is ignored. *)
(* get_or_create_session builds an orchestrator unless there is one.        *)
chat(t, s) ==
  /\ At(t, "idle") /\ received < MaxTurns
  /\ received' = received + 1
  /\ turn' = [turn EXCEPT ![t] = [Idle EXCEPT !.session = s, !.turn = received + 1, !.writer = orchestrator[s],
                                              !.first = counted[s] = 0,
                                              !.pc = IF orchestrator[s] = 0 THEN "open" ELSE "gates"]]
  /\ overlapped' = IF \E u \in Threads : turn[u].session = s THEN overlapped \cup {s} ELSE overlapped
  /\ UNCHANGED <<ledger, writers, orchestrator, frozen, counted, answered, cut>>

(* PPAOrchestrator.__init__ appends a CommitmentRecord with a new chain. The*)
(* container that is registered last is the conversation's from then on.    *)
OpenSession(t) ==
  LET s == turn[t].session  k == Len(writers) + 1 IN
  /\ At(t, "open")
  /\ ledger' = Append(ledger, [writer |-> k, turn |-> turn[t].turn, kind |-> "commitment", prev |-> 0])
  /\ writers' = Append(writers, [session |-> s, prev |-> Len(ledger) + 1,
                                 last |-> <<"commitment">>])
  /\ orchestrator' = [orchestrator EXCEPT ![s] = k]
  /\ frozen' = frozen \ {s}
  /\ turn' = [turn EXCEPT ![t].pc = "gates", ![t].writer = k]
  /\ UNCHANGED <<counted, received, answered, overlapped, cut>>

(* A frozen conversation answers that it is, and a conversation without     *)
(* consent asks for it: nothing changes.                                    *)
Refused(t) ==
  /\ At(t, "gates")
  /\ Leave(t)
  /\ UNCHANGED <<ledger, writers, orchestrator, frozen, counted, received, answered, overlapped, cut>>

PassesGates(t) == At(t, "gates") /\ turn[t].session \notin frozen

(* Answers that count as turns, are saved, and leave no record.             *)
Counts(t) ==
  /\ counted' = [counted EXCEPT ![turn[t].session] = @ + 1]
  /\ Leave(t)
  /\ UNCHANGED <<ledger, writers, orchestrator, frozen, received, answered, overlapped, cut>>

check_glossary(t) == PassesGates(t) /\ Counts(t)

check_turn_0(t) == PassesGates(t) /\ turn[t].first /\ Counts(t)

(* The message is interpreted, into several tasks perhaps. An interpreter   *)
(* that raises ends the turn.                                               *)
Interpret(t) ==
  /\ PassesGates(t)
  /\ \/ Leave(t)
     \/ \E n \in 0..MaxSecondary : turn' = [turn EXCEPT ![t] = [@ EXCEPT !.pc = "inspect", !.tasks = n, !.more = n]]
  /\ UNCHANGED <<ledger, writers, orchestrator, frozen, counted, received, answered, overlapped, cut>>

check_greeting(t) == At(t, "inspect") /\ turn[t].first /\ Counts(t)

(* An input that the inspection denies changes nothing.                     *)
Denied(t) ==
  /\ At(t, "inspect")
  /\ Leave(t)
  /\ UNCHANGED <<ledger, writers, orchestrator, frozen, counted, received, answered, overlapped, cut>>

(* --- The orchestrator ------------------------------------------------------ *)

(* A record takes the hash of the writer's latest record. Whether a task    *)
(* escalates is decided before its trace is built.                          *)
Build(t) ==
  /\ At(t, "inspect") \/ At(t, "build")
  /\ Len(ledger) < MaxRecords
  /\ \E escalate \in IF turn[t].kind = "trace" THEN BOOLEAN ELSE {turn[t].escalate} :
       turn' = [turn EXCEPT ![t] =
         [@ EXCEPT !.pc = "append", !.prev = writers[turn[t].writer].prev, !.escalate = escalate]]
  /\ UNCHANGED <<ledger, writers, orchestrator, frozen, counted, received, answered, overlapped, cut>>

LastTwo_only_one(records) == <<records[Len(records)]>>

LastTwo(records) == IF Len(records) > 2 THEN Tail(records) ELSE records

_append_log_record(t, kind, prev) ==
  LET k == turn[t].writer IN
  /\ ledger' = Append(ledger, [writer |-> k, turn |-> turn[t].turn, kind |-> kind, prev |-> prev])
  /\ writers' = [writers EXCEPT ![k] = [session |-> writers[k].session, prev |-> Len(ledger) + 1,
                                        last |-> LastTwo(Append(writers[k].last, kind))]]

(* process_turn: a trace of the task, then an escalation if it is to        *)
(* escalate; then the next task of the turn.                                *)
WriteTrace(t) ==
  /\ At(t, "append") /\ turn[t].kind = "trace"
  /\ _append_log_record(t, turn[t].kind, turn[t].prev)
  /\ turn' = IF turn[t].escalate THEN [turn EXCEPT ![t].pc = "build", ![t].kind = "escalation"]
             ELSE IF turn[t].more > 0 THEN [turn EXCEPT ![t].pc = "build", ![t].more = @ - 1]
             ELSE [turn EXCEPT ![t].pc = "sync"]
  /\ UNCHANGED <<orchestrator, frozen, counted, received, answered, overlapped, cut>>

(* The record comes first, the freeze after it.                             *)
WriteEscalation(t) ==
  /\ At(t, "append") /\ turn[t].kind = "escalation"
  /\ _append_log_record(t, turn[t].kind, turn[t].prev)
  /\ frozen' = frozen \cup {turn[t].session}
  /\ turn' = IF turn[t].more > 0 THEN [turn EXCEPT ![t].pc = "build", ![t].kind = "trace", ![t].more = @ - 1]
             ELSE [turn EXCEPT ![t].pc = "sync"]
  /\ UNCHANGED <<orchestrator, counted, received, answered, overlapped, cut>>

(* --- From the orchestrator to the answer ----------------------------------- *)

(* The answer reports an escalation if one of the writer's last two records *)
(* is one.                                                                  *)
build_escalation_content(k) == \E i \in DOMAIN writers[k].last : writers[k].last[i] = "escalation"

(* The turn counts, and the session is saved, before there is an answer: a  *)
(* profile that cannot be saved is ignored.                                 *)
Sync(t) ==
  /\ At(t, "sync")
  /\ counted' = [counted EXCEPT ![turn[t].session] = @ + 1]
  /\ turn' = [turn EXCEPT ![t].pc = "command", ![t].report = build_escalation_content(turn[t].writer)]
  /\ UNCHANGED <<ledger, writers, orchestrator, frozen, received, answered, overlapped, cut>>

(* A command is staged or carried out, and an edit of the physics that is   *)
(* new leaves a trace. What raises is ignored.                              *)
build_command_content(t) ==
  /\ At(t, "command")
  /\ Go(t, "llm")
  /\ UNCHANGED <<ledger, writers, orchestrator, frozen, counted, received, answered, overlapped, cut>>

_stage_and_build(t) ==
  /\ At(t, "command") /\ Len(ledger) < MaxRecords
  /\ _append_log_record(t, "novel", writers[turn[t].writer].prev)
  /\ Go(t, "llm")
  /\ UNCHANGED <<orchestrator, frozen, counted, received, answered, overlapped, cut>>

(* Tools and the model have answered; the provenance is traced.             *)
invoke_llm(t) ==
  /\ At(t, "llm") /\ Len(ledger) < MaxRecords
  /\ turn' = [turn EXCEPT ![t] =
       [@ EXCEPT !.pc = "append", !.kind = "provenance", !.prev = writers[turn[t].writer].prev]]
  /\ UNCHANGED <<ledger, writers, orchestrator, frozen, counted, received, answered, overlapped, cut>>

append_provenance_trace(t) ==
  /\ At(t, "append") /\ turn[t].kind = "provenance"
  /\ _append_log_record(t, turn[t].kind, turn[t].prev)
  /\ answered' = answered \cup {[turn |-> turn[t].turn, session |-> turn[t].session, writer |-> turn[t].writer,
                                 tasks |-> turn[t].tasks, report |-> turn[t].report]}
  /\ Leave(t)
  /\ UNCHANGED <<orchestrator, frozen, counted, received, overlapped, cut>>

(* Anything raises, an append, a save, a tool or the model: 500. Nothing is *)
(* undone.                                                                  *)
Fail(t) ==
  /\ turn[t].pc \in {"open", "append", "sync", "llm"}
  /\ Leave(t)
  /\ cut' = IF \E i \in DOMAIN ledger : ledger[i].turn = turn[t].turn /\ ledger[i].kind # "commitment"
            THEN cut \cup {turn[t].writer} ELSE cut
  /\ UNCHANGED <<ledger, writers, orchestrator, frozen, counted, received, answered, overlapped>>

(* --- Around the turns -------------------------------------------------------- *)

Unlock(s) ==
  /\ s \in frozen
  /\ frozen' = frozen \ {s}
  /\ UNCHANGED <<ledger, writers, orchestrator, counted, turn, received, answered, overlapped, cut>>

Restart ==
  /\ orchestrator' = [s \in Sessions |-> 0]
  /\ frozen' = {}
  /\ turn' = [t \in Threads |-> Idle]
  /\ UNCHANGED <<ledger, writers, counted, received, answered, overlapped, cut>>

Serve(t) ==
  \/ \E s \in Sessions : chat(t, s)
  \/ OpenSession(t) \/ Refused(t) \/ check_glossary(t) \/ check_turn_0(t) \/ Interpret(t)
  \/ check_greeting(t) \/ Denied(t)
  \/ Build(t) \/ WriteTrace(t) \/ WriteEscalation(t)
  \/ Sync(t) \/ build_command_content(t) \/ _stage_and_build(t) \/ invoke_llm(t) \/ append_provenance_trace(t) \/ Fail(t)

Next == (\E t \in Threads : Serve(t)) \/ (\E s \in Sessions : Unlock(s))

Spec == Init /\ [][Next \/ Restart]_vars

(* ---- Properties ---------------------------------------------------------- *)

Of(n, kind) == {i \in DOMAIN ledger : ledger[i].turn = n /\ ledger[i].kind = kind}

(* An answer reports an escalation exactly when its turn appended one,      *)
(* although it only looks at the writer's last two records: unless turns of *)
(* the conversation overlap, an earlier one was cut short, or the turn had  *)
(* more than two tasks.                                                     *)
EscalationIsReported ==
  \A a \in answered :
    a.session \notin overlapped /\ a.writer \notin cut /\ a.tasks <= 1 =>
      (a.report <=> Of(a.turn, "escalation") # {})

(* An answered turn is on record for good: a trace for every task, and the  *)
(* provenance of the answer after all of them.                              *)
AnsweredIsTraced ==
  \A a \in answered :
    /\ Cardinality(Of(a.turn, "trace")) = a.tasks + 1
    /\ \E p \in Of(a.turn, "provenance") : \A i \in Of(a.turn, "trace") \cup Of(a.turn, "escalation") : i < p

(* _verify_records: the first record of a writer starts a chain, every      *)
(* other one has the hash of the one before it.                             *)
Linked(i) ==
  LET before == {j \in 1..(i - 1) : ledger[j].writer = ledger[i].writer}
  IN IF before = {} THEN ledger[i].prev = 0
     ELSE ledger[i].prev \in before /\ \A j \in before : j <= ledger[i].prev

(* The records of one writer make an intact chain, whatever failed between  *)
(* them: the hash moves on when a record was appended and not before. All   *)
(* of a domain's ledger is one only as long as it has one writer.           *)
WritersChain ==
  \A i \in DOMAIN ledger : writers[ledger[i].writer].session \notin overlapped => Linked(i)
=============================================================================
