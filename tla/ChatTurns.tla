-------------------------------- MODULE ChatTurns --------------------------------
(***************************************************************************)
(* What a turn of a conversation goes through: the conversation's          *)
(* containers and contexts, the turn pipeline and its records, the         *)
(* standing orders of its domain, and what the packs keep: profiles in     *)
(* education, plans in the coding agent; the transcripts, and the recaps   *)
(* that route its thread. A turn takes its steps in each of them one after *)
(* another; here they interleave in any order, and a restart of the        *)
(* process hits all of them at once.                                       *)
(***************************************************************************)
CONSTANTS
  Domains, NoDomain, NoContext, NoState, Legacy, Workers, MaxRequests,    (* Conversations  *)
  MaxOverlapping, MaxContexts, Container, NoContainer,
  Sessions, NoSession, Threads, MaxTurns, MaxRecords, MaxSecondary,       (* TurnPipeline   *)
  NInvariants, Orders, NoOrder, Physics,                                  (* StandingOrders *)
  Nodes, MaxSlices, MaxRetries, MaxCuts, MaxPlanTurns,                    (* CodingPlan     *)
  Students, Teachers, Assistants, Guardians, NoOne, Operations, MaxServed, (* Profiles      *)
  Learners, Tiers, DefaultDifficulty, Target, WindowTurns, DriftWindow,   (* Learning       *)
  Persistence, MinTurns, Minor, Major, Readings, MaxLessons,
  Entities, SafePeople, Nobody, NoJournal, LockSessions, MinTurnsIn,          (* Journal        *)
  Sustained, Relational, CrossSessions, MaxEntries, MaxHandled,
  Actors, Bands, MinSamples, MinDays, WindowDays, MaxGap, Ttl,            (* Advisories     *)
  NoProfile, MaxDays, MaxScans, MaxSaves,
  Searchers, Missing, Garbled, RecapInterval, NoThread, Defaults,         (* Recaps         *)
  Overrides, NRecaps, MaxScore, MaxThreadTurns, MaxRecaps,
  Chats, Captures, BufferSize, MaxFiles                                   (* Transcripts    *)

VARIABLES
  live, active, contexts, entries, stale, persisted, thread, begun, counts, overlapping, crossed, resumed,
  ledger, writers, orchestrator, frozen, counted, turn, received, answered, overlapped, cut,
  physics, attempts, saved, resolving, applied, alone,
  depends_on, checkpoint, context, slices, halt, dispatched, cuts, turns, bypassed,
  engine, profile, row, req, served, spoilt, uncascaded,
  learner, lesson, module_state, session_state, lessons, credit, base, diluted, lost,
  journal, entry, stored, chart, handshakes, handler, journaled, handled, measured, mentioned, consented, clobbered,
  day, rhythm, observed, saving, chat, scan, scans, folds, proposed, unreported, overwritten,
  talked, summary, recaps, memory, files, recording, searching, loaded, unsound, uneven, asked,
  container, kept, said, sealed, boxes, capture, spoken, filed, doubled, unpruned

Conv == INSTANCE Conversations WITH answered <- counts, overlapped <- overlapping
Pipe == INSTANCE TurnPipeline
Ord  == INSTANCE StandingOrders WITH turn <- resolving
Plan == INSTANCE CodingPlan WITH MaxTurns <- MaxPlanTurns
Prof == INSTANCE Profiles WITH Requests <- Operations
Learn == INSTANCE Learning WITH context <- learner, spoilt <- diluted
Jour == INSTANCE Journal WITH Handlers <- Operations, turns <- journaled
Adv == INSTANCE Advisories WITH profile <- rhythm, cut <- unreported, clobbered <- overwritten
Rout == INSTANCE Recaps WITH Threads <- Sessions, Recorders <- Workers, MaxTurns <- MaxThreadTurns, turns <- talked
Talk == INSTANCE Transcripts
  WITH Sessions <- Chats, Turns <- Workers, Recorders <- Captures, saved <- kept, turn <- said

ASSUME OrdersAssumption == Ord!PhysicsAssumption
ASSUME SlicesAssumption == Plan!PlanAssumption
ASSUME PeopleAssumption == Prof!PeopleAssumption
ASSUME LearningAssumption == Learn!LearningAssumption
ASSUME JournalAssumption == Jour!JournalAssumption
ASSUME AdvisoriesAssumption == Adv!AdvisoriesAssumption
ASSUME PipelineAssumption == Pipe!PipelineAssumption
ASSUME FilesAssumption == Talk!FilesAssumption

conversationVars ==
  <<live, active, contexts, entries, stale, persisted, thread, begun, counts, overlapping, crossed, resumed>>
pipelineVars == <<ledger, writers, orchestrator, frozen, counted, turn, received, answered, overlapped, cut>>
orderVars == <<physics, attempts, saved, resolving, applied, alone>>
planVars == <<depends_on, checkpoint, context, slices, halt, dispatched, cuts, turns, bypassed>>
profileVars == <<engine, profile, row, req, served, spoilt, uncascaded>>
learningVars == <<learner, lesson, module_state, session_state, lessons, credit, base, diluted, lost>>
journalVars ==
  <<journal, entry, stored, chart, handshakes, handler, journaled, handled, measured, mentioned, consented, clobbered>>
advisoryVars == <<day, rhythm, observed, saving, chat, scan, scans, folds, proposed, unreported, overwritten>>
recapVars == <<talked, summary, recaps, memory, files, recording, searching, loaded, unsound, uneven, asked>>
transcriptVars == <<container, kept, said, sealed, boxes, capture, spoken, filed, doubled, unpruned>>
turnVars == <<conversationVars, pipelineVars>>
packVars == <<orderVars, planVars, profileVars, learningVars, journalVars, advisoryVars>>
threadVars == <<recapVars, transcriptVars>>
elsewhere == <<turnVars, threadVars>>   (* than in a pack *)
vars == <<turnVars, packVars, threadVars>>

TypeOK ==
  /\ Conv!TypeOK /\ Pipe!TypeOK /\ Ord!TypeOK /\ Plan!TypeOK
  /\ Prof!TypeOK /\ Learn!TypeOK /\ Jour!TypeOK /\ Adv!TypeOK
  /\ Rout!TypeOK /\ Talk!TypeOK

Init ==
  /\ Conv!Init /\ Pipe!Init /\ Ord!Init /\ Plan!Init
  /\ Prof!Init /\ Learn!Init /\ Jour!Init /\ Adv!Init
  /\ Rout!Init /\ Talk!Init

(* --- The steps of each component ------------------------------------------ *)

ConversationStep ==
  /\ UNCHANGED <<pipelineVars, packVars, threadVars>>
  /\ Conv!Next

PipelineStep ==
  /\ UNCHANGED <<conversationVars, packVars, threadVars>>
  /\ Pipe!Next

OrderStep ==
  /\ UNCHANGED <<elsewhere, planVars, profileVars, learningVars, journalVars, advisoryVars>>
  /\ Ord!Next

PlanStep ==
  /\ UNCHANGED <<elsewhere, orderVars, profileVars, learningVars, journalVars, advisoryVars>>
  /\ Plan!Next

ProfileStep ==
  /\ UNCHANGED <<elsewhere, orderVars, planVars, learningVars, journalVars, advisoryVars>>
  /\ Prof!Next

LearningStep ==
  /\ UNCHANGED <<elsewhere, orderVars, planVars, profileVars, journalVars, advisoryVars>>
  /\ Learn!Next

JournalStep ==
  /\ UNCHANGED <<elsewhere, orderVars, planVars, profileVars, learningVars, advisoryVars>>
  /\ Jour!Next

AdvisoryStep ==
  /\ UNCHANGED <<elsewhere, orderVars, planVars, profileVars, learningVars, journalVars>>
  /\ Adv!Next

RecapStep ==
  /\ UNCHANGED <<turnVars, packVars, transcriptVars>>
  /\ Rout!Record

RoutingStep ==
  /\ UNCHANGED <<turnVars, packVars, transcriptVars>>
  /\ Rout!Decide

TalkStep ==
  /\ UNCHANGED <<turnVars, packVars, recapVars>>
  /\ Talk!Talk

CaptureStep ==
  /\ UNCHANGED <<turnVars, packVars, recapVars>>
  /\ Talk!Capture

Restart ==
  /\ Conv!Restart /\ Pipe!Restart /\ Ord!Restart /\ Plan!Restart
  /\ Prof!Restart /\ Learn!Restart /\ Jour!Restart /\ Adv!Restart
  /\ Rout!Restart /\ Talk!Restart

Next ==
  \/ ConversationStep \/ PipelineStep \/ OrderStep \/ PlanStep
  \/ ProfileStep \/ LearningStep \/ JournalStep \/ AdvisoryStep
  \/ RecapStep \/ RoutingStep \/ TalkStep \/ CaptureStep
  \/ Restart

Spec == Init /\ [][Next]_vars

(* ---- Properties ---------------------------------------------------------- *)

(* The requests of a conversation share its container without a lock, yet:  *)
(* a context holds its own domain's state and a turn is served by the       *)
(* domain it asked for, unless the active domain was switched during a      *)
(* turn; the active domain always has a context; and, as long as no two     *)
(* requests overlap, contexts are bounded and every answered turn counts,   *)
(* over closes, idle closes and restarts. So, too: a transcript that was    *)
(* sealed has its turns in order, and a container counts those it buffers;  *)
(* every turn of a thread is in one recap, and recaps are found again after *)
(* a restart, unless jobs on the index overlapped or were cut short; and a  *)
(* thread is suggested on the evidence the policy asks for, and confirmed   *)
(* by a person where it is contested.                                       *)
ConversationsAreKept ==
  /\ Conv!ContextsStayApart /\ Conv!ServedAsRequested
  /\ Conv!ActiveHasContext
  /\ Conv!ContextsAreBounded /\ Conv!TurnsAreCounted
  /\ Talk!TranscriptsAreInOrder /\ Talk!CountCoversBuffer
  /\ Rout!TurnsAreRecappedOnce /\ Rout!RecapsAreKept /\ Rout!ContestedIsConfirmed /\ Rout!SuggestionsAreWarranted

(* What an answer says is on record: a trace of every task, its provenance  *)
(* after them, an escalation exactly when it reports one, and the records   *)
(* of a writer are an intact chain, whatever failed between them; the       *)
(* newest snapshots of the black box are kept.                              *)
AnswersAreOnRecord ==
  /\ Pipe!EscalationIsReported /\ Pipe!AnsweredIsTraced /\ Pipe!WritersChain
  /\ Talk!NewestIsKept

(* Retries are bounded over failures, lost turns and restarts: a standing   *)
(* order's applications by its maximum, and a plan's slices by theirs; a    *)
(* slice runs after what it depends on, and a plan's end is told truly.     *)
RetriesAreBounded ==
  /\ Ord!AppliedWithinLimit
  /\ Plan!DependenciesFirst /\ Plan!RetriesAreBounded /\ Plan!HaltIsTrue

(* What is saved of a student is true, over failed turns, lost saves,       *)
(* overlapping conversations and restarts: the profiles of a student, the   *)
(* teacher, the assistants and guardians agree, unless an operation was cut *)
(* short, saved an outdated copy, or overlapped with another on two people; *)
(* a tier is earned and the problem fits it, and numbers escalate from a    *)
(* full window only; the journal asks and counts after its warm-up and from *)
(* journaling turns only, and a safe person has accepted; an advisory of a  *)
(* drifting rhythm is earned, known to the reviewers and shown once.        *)
StudentsAreKept ==
  /\ Prof!TeacherHasStudent /\ Prof!GuardiansAreMutual /\ Prof!AssistantsFollow
  /\ Learn!TierIsEarned /\ Learn!ProblemFitsTier /\ Learn!EscalationIsPrimed
  /\ Jour!WarmupHolds /\ Jour!RunIsOfSpikes /\ Jour!SamplesAreTurns /\ Jour!AcceptedByAssigned
  /\ Adv!OnePerBand /\ Adv!AdvisoryIsEarned /\ Adv!AdvisoryIsProposed /\ Adv!ShownOnceWhileLive

(* A violated order escalates once it is exhausted, if nothing else is      *)
(* violated; what a plan has completed stays completed; the tier a student  *)
(* reached does not fall; whoever was revoked has to accept anew; and what  *)
(* a profile counts does not become fewer.                                  *)
ExhaustionEscalates ==
  [][/\ Ord!EscalatesLoneViolation /\ Plan!KeepsProgress
     /\ Learn!KeepsTier /\ Jour!KeepsRevocation /\ Adv!KeepsCounts]_vars
=============================================================================
