--------------------------------- MODULE Journal ---------------------------------
(***************************************************************************)
(* The Student Commons of the education pack: journaling turns and what    *)
(* they may trigger, the vocabulary measurements that end the warm-up, the *)
(* baselines of the people a student writes about, and the safe person who *)
(* is designated for the student and has to accept. The state of the step  *)
(* is in the memory of the conversation; of it only the vocabulary is read *)
(* back from what is saved. Baselines and safe person are in the student's *)
(* profile, which turns and operations load and save as a whole. What the  *)
(* envelope and shape checks of the baselines, or the absolute thresholds  *)
(* before these are mature, make of a turn is any outcome.                 *)
(***************************************************************************)
EXTENDS Integers, FiniteSets, Sequences

CONSTANTS
  Entities,      (* hashes of the people mentioned                          *)
  SafePeople,    (* users who may be designated                             *)
  Handlers,      (* requests of the operations on the safe person           *)
  Nobody, NoJournal,
  LockSessions,  (* baseline_lock_sessions                                  *)
  MinTurnsIn,    (* min_turns_for_measurement, of the turns in the buffer   *)
  Sustained,     (* tier2_sustained_turns                                   *)
  Relational,    (* tier2_relational_concern_turns                          *)
  CrossSessions, (* tier3_cross_session_count                               *)
  MaxEntries,    (* bound: turns                                            *)
  MaxHandled     (* bound: operations                                       *)

VARIABLES
  journal,    (* the conversation's state in memory                         *)
  entry,      (* the turn it is in                                          *)
  stored,     (* baseline_sessions_remaining as saved                       *)
  chart,      (* the profile: [samples, assigned, accepted]                 *)
  handshakes, (* handshake tokens: the person each student's token was made for *)
  handler,    (* request -> where it is                                     *)
  turns,      (* turns begun                                                *)
  handled,    (* operations begun                                           *)
  measured,   (* history: measurements that were taken                      *)
  mentioned,  (* history: turns since an entity was first mentioned         *)
  consented,  (* history: people who accepted                               *)
  clobbered   (* history: a save wrote over another one's change            *)

JournalAssumption == LockSessions \in Nat

journalVars ==
  <<journal, entry, stored, chart, handshakes, handler, turns, handled, measured, mentioned, consented, clobbered>>

Charts == [samples: [Entities -> 0..MaxEntries], assigned: SafePeople \cup {Nobody}, accepted: BOOLEAN]

Journals ==
  [remaining: 0..LockSessions, sustained: 0..MaxEntries, pending: BOOLEAN, cross: {0}, mentions: SUBSET Entities,
   spikes: UNION {[1..n -> BOOLEAN] : n \in 0..MaxEntries}]

Quiet == [stage |-> "idle", tier |-> "ok", chart |-> Nobody]

Waiting == [op |-> "none", person |-> Nobody, chart |-> Nobody]

TypeOK ==
  /\ journal = NoJournal \/ journal \in Journals
  /\ entry.stage \in {"idle", "stepped", "loaded"} /\ entry.tier \in {"ok", "tier1", "tier2", "tier3"}
  /\ entry.stage # "idle" => journal # NoJournal
  /\ stored \in 0..LockSessions
  /\ chart \in Charts
  /\ handshakes \in SUBSET SafePeople
  /\ \A h \in Handlers :
       /\ handler[h].op \in {"none", "designate", "issue", "acknowledge", "revoke", "purge"}
       /\ handler[h].chart \in Charts \cup {Nobody}

(* --- The step ---------------------------------------------------------------- *)

(* vocabulary_growth_step: a valid score over enough turns is a sample of   *)
(* the baseline, until it is locked.                                        *)
Measure(j, valid, buffered) ==
  IF valid /\ buffered >= MinTurnsIn /\ j.remaining > 0 THEN [j EXCEPT !.remaining = @ - 1] ELSE j

(* What the envelope and shape checks, or the thresholds, say of a turn: a  *)
(* spike or none, a critical one (and of a student whose safe person had    *)
(* accepted when the conversation was built) or not,                        *)
Spikes == BOOLEAN
Criticals == BOOLEAN

(* and how many of the people mentioned so far are a concern.               *)
Concerns(j, mentions) == 0..Cardinality(j.mentions \cup mentions)

(* update_relational_baseline, for everybody mentioned so far.              *)
AddSamples(profile, mentions) ==
  [profile EXCEPT !.samples = [e \in Entities |-> @[e] + (IF e \in mentions THEN 1 ELSE 0)]]

(* The cascade: an alert needs a critical turn and elevated sessions, which *)
(* nothing counts; the question of tier 2 is asked once.                    *)
Cascade(j, spike, concern, critical) ==
  CASE critical /\ j.cross >= CrossSessions -> "tier3"
    [] ~j.pending /\ (j.sustained >= Sustained \/ concern >= Relational) -> "tier2"
    [] spike -> "tier1"
    [] OTHER -> "ok"

(* journal_domain_step: mentions add up; in the warm-up nothing else is     *)
(* done; a spike extends the run, and a turn without one ends it.           *)
JournalStep(j, mentions, spike, concern, critical) ==
  LET noted == [j EXCEPT !.mentions = @ \cup mentions]
      counted == [noted EXCEPT !.sustained = IF spike THEN @ + 1 ELSE 0, !.spikes = Append(@, spike)]
      tier == Cascade(counted, spike, concern, critical)
  IN IF j.remaining > 0 THEN [state |-> noted, tier |-> "ok"]
     ELSE [state |-> [counted EXCEPT !.pending = @ \/ tier = "tier2"], tier |-> tier]

(* ---- Actions ------------------------------------------------------------------ *)

Init ==
  /\ journal = NoJournal
  /\ entry = Quiet
  /\ stored \in 0..LockSessions  (* a student who is new, or returns *)
  /\ \E p \in SafePeople \cup {Nobody} :  (* who has accepted before *)
       /\ chart = [samples |-> [e \in Entities |-> 0], assigned |-> p, accepted |-> p # Nobody]
       /\ consented = {p} \ {Nobody}
       /\ handled = Cardinality({p} \ {Nobody})
  /\ handshakes = {}
  /\ handler = [h \in Handlers |-> Waiting]
  /\ turns = 0
  /\ measured = LockSessions - stored
  /\ mentioned = [e \in Entities |-> 0]
  /\ clobbered = FALSE

handlerVars == <<handshakes, handler, handled, consented>>

(* freeform_build_initial_state: of the saved state, the vocabulary.        *)
Build ==
  /\ journal = NoJournal
  /\ journal' = [remaining |-> stored, sustained |-> 0, pending |-> FALSE, cross |-> 0, mentions |-> {},
                 spikes |-> <<>>]
  /\ UNCHANGED <<entry, stored, chart, handlerVars, turns, measured, mentioned, clobbered>>

(* A turn of journaling: freeform_domain_step hands it to the journal and   *)
(* takes no measurement.                                                    *)
WriteEntry(mentions, spike, concern, critical) ==
  /\ journal # NoJournal /\ entry.stage = "idle" /\ turns < MaxEntries
  /\ turns' = turns + 1
  /\ LET step == JournalStep(journal, mentions, spike, concern, critical)
     IN /\ journal' = step.state
        /\ entry' = [Quiet EXCEPT !.stage = "stepped", !.tier = step.tier]
        /\ mentioned' = [e \in Entities |-> mentioned[e] + (IF e \in step.state.mentions THEN 1 ELSE 0)]
  /\ UNCHANGED <<stored, chart, handlerVars, measured, clobbered>>

(* Any other turn, with a measurement of the client or without a valid one. *)
Converse(valid, buffered) ==
  /\ journal # NoJournal /\ entry.stage = "idle" /\ turns < MaxEntries
  /\ turns' = turns + 1
  /\ journal' = Measure(journal, valid, buffered)
  /\ entry' = [Quiet EXCEPT !.stage = "stepped"]
  /\ measured' = measured + (IF valid /\ buffered >= MinTurnsIn THEN 1 ELSE 0)
  /\ mentioned' = [e \in Entities |-> mentioned[e] + (IF e \in journal.mentions THEN 1 ELSE 0)]
  /\ UNCHANGED <<stored, chart, handlerVars, clobbered>>

(* The end of a turn: the profile is loaded,                                *)
LoadChart ==
  /\ entry.stage = "stepped"
  /\ entry' = [entry EXCEPT !.stage = "loaded", !.chart = chart]
  /\ UNCHANGED <<journal, stored, chart, handlerVars, turns, measured, mentioned, clobbered>>

(* everybody mentioned so far gets a sample, the module's state is saved,   *)
(* and then the profile, unless a failure cuts this short.                  *)
SaveChart(whole) ==
  /\ entry.stage = "loaded"
  /\ stored' = journal.remaining
  /\ chart' = IF whole THEN AddSamples(entry.chart, journal.mentions) ELSE chart
  /\ clobbered' = (clobbered \/ (whole /\ entry.chart # chart))
  /\ entry' = Quiet
  /\ UNCHANGED <<journal, handlerVars, turns, measured, mentioned>>

(* The turn fails: what the step changed in memory stays.                   *)
FailEntry ==
  /\ entry.stage # "idle"
  /\ entry' = Quiet
  /\ UNCHANGED <<journal, stored, chart, handlerVars, turns, measured, mentioned, clobbered>>

(* --- The safe person ------------------------------------------------------------ *)

(* Each operation loads the profile,                                        *)
Handle(h, op, person) ==
  /\ handler[h].op = "none" /\ handled < MaxHandled
  /\ op \in {"designate", "revoke"}
  /\ handled' = handled + 1
  /\ handler' = [handler EXCEPT ![h] = [op |-> op, person |-> person, chart |-> chart]]
  /\ UNCHANGED <<journal, entry, stored, chart, handshakes, turns, measured, mentioned, consented, clobbered>>

(* safe_person_acknowledge consumes the token before it loads the profile   *)
(* and refuses whom it was not made for.                                    *)
Acknowledge(h, person) ==
  /\ handler[h].op = "none" /\ handled < MaxHandled
  /\ handshakes # {}
  /\ handled' = handled + 1
  /\ handshakes' = {}
  /\ handler' = IF chart.assigned \notin {Nobody, person} THEN handler
                ELSE [handler EXCEPT ![h] = [op |-> "acknowledge", person |-> person, chart |-> chart]]
  /\ UNCHANGED <<journal, entry, stored, chart, turns, measured, mentioned, consented, clobbered>>

(* and saves it with its change; then the tokens of the student are         *)
(* replaced, or dropped.                                                    *)
SaveHandled(h) ==
  /\ handler[h].op \in {"designate", "acknowledge", "revoke"}
  /\ chart' = CASE handler[h].op = "designate" ->
                     [handler[h].chart EXCEPT !.assigned = handler[h].person, !.accepted = FALSE]
                [] handler[h].op = "acknowledge" -> [handler[h].chart EXCEPT !.accepted = TRUE]
                [] handler[h].op = "revoke" -> [handler[h].chart EXCEPT !.assigned = Nobody, !.accepted = FALSE]
  /\ clobbered' = (clobbered \/ handler[h].chart # chart)
  /\ consented' = IF handler[h].op = "acknowledge" THEN consented \cup {handler[h].person} ELSE consented
  /\ handler' = [handler EXCEPT ![h] =
       IF @.op = "acknowledge" THEN Waiting
       ELSE [op |-> IF @.op = "designate" THEN "issue" ELSE "purge", person |-> @.person, chart |-> Nobody]]
  /\ UNCHANGED <<journal, entry, stored, handshakes, turns, handled, measured, mentioned>>

IssueToken(h) ==
  /\ handler[h].op \in {"issue", "purge"}
  /\ handshakes' = IF handler[h].op = "issue" THEN {handler[h].person} ELSE {}
  /\ handler' = [handler EXCEPT ![h] = Waiting]
  /\ UNCHANGED <<journal, entry, stored, chart, turns, handled, measured, mentioned, consented, clobbered>>

(* The time of a token runs out.                                            *)
ExpireToken ==
  /\ handshakes # {}
  /\ handshakes' = {}
  /\ UNCHANGED <<journal, entry, stored, chart, handler, turns, handled, measured, mentioned, consented, clobbered>>

(* The process stops: the tokens are gone too.                              *)
Restart ==
  /\ journal' = NoJournal
  /\ entry' = Quiet
  /\ handshakes' = {}
  /\ handler' = [h \in Handlers |-> Waiting]
  /\ UNCHANGED <<stored, chart, turns, handled, measured, mentioned, consented, clobbered>>

Next ==
  \/ Build \/ LoadChart \/ FailEntry \/ ExpireToken
  \/ /\ journal # NoJournal
     /\ \E mentions \in SUBSET Entities, spike \in Spikes, critical \in Criticals :
          \E concern \in Concerns(journal, mentions) : WriteEntry(mentions, spike, concern, critical)
  \/ \E valid \in BOOLEAN, buffered \in {MinTurnsIn - 1, MinTurnsIn} : Converse(valid, buffered)
  \/ \E whole \in BOOLEAN : SaveChart(whole)
  \/ \E h \in Handlers, person \in SafePeople :
       \/ \E op \in {"designate", "revoke"} : Handle(h, op, person)
       \/ Acknowledge(h, person)
  \/ \E h \in Handlers : SaveHandled(h) \/ IssueToken(h)

Spec == Init /\ [][Next \/ Restart]_journalVars

(* ---- Properties ---------------------------------------------------------------- *)

(* Nothing is offered or asked before LockSessions measurements of the      *)
(* student were taken, over failed turns and restarts.                      *)
WarmupHolds == entry.tier # "ok" => measured >= LockSessions

(* The run that sustains tier 2 is one of journaling turns that all spiked. *)
RunIsOfSpikes ==
  journal # NoJournal =>
    LET n == Len(journal.spikes)
    IN \A i \in 1..n : i > n - journal.sustained <=> \A k \in i..n : journal.spikes[k]

(* A baseline has at most a sample per turn since its person was first      *)
(* mentioned in a conversation.                                             *)
SamplesAreTurns == \A e \in Entities : chart.samples[e] <= mentioned[e]

(* Who counts as having accepted did accept, and holds no open designation. *)
AcceptedByAssigned == chart.accepted => chart.assigned \in consented \cup {Nobody}

(* Once revoked, or designated anew, nobody counts as having accepted       *)
(* until somebody accepts, unless a save wrote over another one's change.   *)
KeepsRevocation ==
  ~chart.accepted /\ chart'.accepted => clobbered' \/ \E h \in Handlers : handler[h].op = "acknowledge"
=============================================================================
