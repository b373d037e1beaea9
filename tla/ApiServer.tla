-------------------------------- MODULE ApiServer --------------------------------
(***************************************************************************)
(* The process of the API server: one event loop, one pool of threads, one *)
(* persistence backend, and the components that keep their state in its    *)
(* memory and its files. Each component is a module of its own; here their *)
(* steps interleave, they run on the same backend, and a restart of the    *)
(* process hits all of them at once.                                       *)
(***************************************************************************)
CONSTANTS
  NoUser, NoDecision, NoThread, NoDocument, NoFile,
  Users, Names, Requests, MaxServed, Torn, Absent,                     (* Accounts      *)
  Holders, Sites, NoSite, Clients, TTL, MaxTime, MaxIssued, MaxEdits,  (* Tokens        *)
  Decisions, Routes, Escalated, Threads, Confirmers,                   (* Confirmations *)
  Files, Targets, NoTarget, NoEnvelope, Cut,                           (* FileStaging   *)
  Documents, Extractors, MaxVersions,                                  (* Ingestion     *)
  OnLoop, InThreads, Alerts, Sentinel, MaxKept, MaxStarts,             (* LogBus        *)
  Ids, Endpoints, Savers, Mixed, MaxSaves,                             (* Persistence   *)
  Terms, Short, NoTerm, Modules, Rules, Shapes, MinOverlap, MaxEntries, (* NightTasks  *)
  NoPhysics,                                                           (* PackPhysics   *)
  MaxRecords,                                                          (* LedgerChains  *)
  Kinds, QueueSize, MaxEvents, MaxTokens,                              (* EventStream   *)
  DomainRoles, Unloaded, MaxGrants,                                    (* Access        *)
  Stores, Packs, Editions, Missing, Garbled, NoRegistry, NoStore, MaxChanges, (* Retrieval *)
  NDomains, Concepts, MaxDepth                                         (* KnowledgeIndex *)

VARIABLES
  backend,     (* "filesystem" or "sqlite", for all of them                *)
  file, tmp, invites, expired, req, origin, served, redeemed, overlap, raced,
  account, changed, edits, clock, tokens, revoked, auth,
  pending, consumed, late, forgotten, bound, evaluated, escalations, confirmed, serving, answers,
  envelope, target, job, interrupted,
  status, interps, selected, decision, extractor, commit, versions, ledger, approved,
  running, task, routed, subscribed, ready, entered, queue, alerts, warnings, starts, emitted, handled, drained,
  rows, tasks, endpoint, answered, issued,
  document, partial, saver, kept, saves, crossed,
  analysis, input, success, proposals,
  physics, aside, edit, session, committed, readable, cached, enforcing, moved, collided, severed,
  artifacts, manifest, audit, touched, had, vouched, tangled, clipped,
  chain, count, writer, run, latest, mixed, snapped, altered, broken,
  user, pass, stream, feeds, sent, lagging,
  rights, errand, recorded, grants, overlapped, unrecorded, misnamed, permissions, verdict, known, loadable, spoiled,
  documents, changes, vectors, chunks, registry, loading, rebuild, built, cut, astray,
  glossary, tableFile, graphFile, index, started, saving, spoilt, query

Acc  == INSTANCE Accounts
Tok  == INSTANCE Tokens WITH Users <- Holders
Conf == INSTANCE Confirmations
Stag == INSTANCE FileStaging
Ing  == INSTANCE Ingestion
Bus  == INSTANCE LogBus
Pers == INSTANCE Persistence
Night == INSTANCE NightTasks WITH task <- analysis
Pack == INSTANCE PackPhysics WITH Editors <- Requests, Openers <- Clients, crossed <- collided
Mani == INSTANCE Manifest WITH Jobs <- Requests, Artifacts <- Threads, job <- audit, edits <- touched
Led == INSTANCE LedgerChains WITH Writers <- Requests, Runs <- Clients, ledger <- chain, changed <- altered
Feed == INSTANCE EventStream WITH Watchers <- Requests
Perm == INSTANCE Access WITH engine <- backend, Errands <- Requests, readable <- loadable
Retr == INSTANCE Retrieval WITH Turns <- Clients, Registered <- Packs, crossed <- astray
Know == INSTANCE KnowledgeIndex WITH Words <- Terms

ASSUME TokensAssumption == Tok!TokensAssumption
ASSUME AccountsAssumption == Acc!AccountsAssumption
ASSUME ConfirmationsAssumption == Conf!ConfirmationsAssumption
ASSUME StagingAssumption == Stag!StagingAssumption
ASSUME IngestionAssumption == Ing!IngestionAssumption
ASSUME PackAssumption == Pack!PackAssumption
ASSUME AccessAssumption == Perm!AccessAssumption
ASSUME RetrievalAssumption == Retr!RetrievalAssumption

accountVars == <<backend, file, tmp, invites, expired, req, origin, served, redeemed, overlap, raced>>
tokenVars == <<account, changed, edits, clock, tokens, revoked, auth>>
confirmationVars == <<pending, consumed, late, forgotten, bound, evaluated, escalations, confirmed, serving, answers>>
stagingVars == <<envelope, target, job, interrupted>>
ingestionVars == <<status, interps, selected, decision, extractor, commit, versions, ledger, approved>>
busVars ==
  <<running, task, routed, subscribed, ready, entered, queue, alerts, warnings, starts, emitted, handled, drained>>
recordVars == <<rows, tasks, endpoint, answered, issued>>
documentVars == <<document, partial, saver, kept, saves, crossed>>
nightVars == <<analysis, input, success, proposals>>
packVars == <<physics, aside, edit, session, committed, readable, cached, enforcing, moved, collided, severed>>
manifestVars == <<artifacts, manifest, audit, touched, had, vouched, tangled, clipped>>
chainVars == <<chain, count, writer, run, latest, mixed, snapped, altered, broken>>
feedVars == <<user, pass, stream, feeds, sent, lagging>>
grantVars == <<rights, errand, recorded, grants, overlapped, unrecorded, misnamed>>
ruleVars == <<permissions, verdict>>
governanceVars == <<known, loadable, spoiled>>
retrievalVars == <<documents, changes, vectors, chunks, registry, loading, rebuild, built, cut, astray>>
knowledgeVars == <<glossary, tableFile, graphFile, index, started, saving, spoilt, query>>
accessVars == <<grantVars, ruleVars, governanceVars>>
peopleVars == <<accountVars, tokenVars, accessVars>>
workVars == <<confirmationVars, stagingVars, ingestionVars, nightVars>>
storeVars == <<recordVars, documentVars, chainVars, manifestVars, packVars>>
eventVars == <<busVars, feedVars>>
groundingVars == <<retrievalVars, knowledgeVars>>
vars == <<peopleVars, workVars, storeVars, eventVars, groundingVars>>

TypeOK ==
  /\ Acc!TypeOK /\ Tok!TypeOK /\ Conf!TypeOK /\ Stag!TypeOK /\ Ing!TypeOK
  /\ Bus!TypeOK /\ Pers!TypeOK /\ Night!TypeOK /\ Pack!TypeOK
  /\ Mani!TypeOK /\ Led!TypeOK /\ Feed!TypeOK /\ Perm!TypeOK
  /\ Retr!TypeOK /\ Know!TypeOK

Init ==
  /\ Acc!Init /\ Tok!Init /\ Conf!Init /\ Stag!Init /\ Ing!Init
  /\ Bus!Init /\ Pers!Init /\ Night!Init /\ Pack!Init
  /\ Mani!Init /\ Led!Init /\ Feed!Init /\ Perm!Init
  /\ Retr!Init /\ Know!Init

(* --- The steps of each component ------------------------------------------ *)

AccountStep ==
  /\ UNCHANGED <<tokenVars, accessVars, workVars, storeVars, eventVars, groundingVars>>
  /\ Acc!Next

TokenStep ==
  /\ UNCHANGED <<accountVars, accessVars, workVars, storeVars, eventVars, groundingVars>>
  /\ Tok!Next

ConfirmationStep ==
  /\ UNCHANGED <<peopleVars, stagingVars, ingestionVars, nightVars, storeVars, eventVars, groundingVars>>
  /\ Conf!Next

StagingStep ==
  /\ UNCHANGED <<peopleVars, confirmationVars, ingestionVars, nightVars, storeVars, eventVars, groundingVars>>
  /\ Stag!Next

IngestionStep ==
  /\ UNCHANGED <<peopleVars, confirmationVars, stagingVars, nightVars, storeVars, eventVars, groundingVars>>
  /\ Ing!Next

BusStep ==
  /\ UNCHANGED <<peopleVars, workVars, storeVars, feedVars, groundingVars>>
  /\ Bus!Next

RecordStep ==
  /\ UNCHANGED <<peopleVars, workVars, documentVars, chainVars, manifestVars, packVars, eventVars, groundingVars>>
  /\ Pers!Serve

DocumentStep ==
  /\ UNCHANGED <<peopleVars, workVars, recordVars, chainVars, manifestVars, packVars, eventVars, groundingVars>>
  /\ Pers!Save

NightStep ==
  /\ UNCHANGED <<peopleVars, confirmationVars, stagingVars, ingestionVars, storeVars, eventVars, groundingVars>>
  /\ Night!Next

PackStep ==
  /\ UNCHANGED <<peopleVars, workVars, recordVars, documentVars, chainVars, manifestVars, eventVars, groundingVars>>
  /\ Pack!Next

ManifestStep ==
  /\ UNCHANGED <<peopleVars, workVars, recordVars, documentVars, chainVars, packVars, eventVars, groundingVars>>
  /\ Mani!Next

ChainStep ==
  /\ UNCHANGED <<peopleVars, workVars, recordVars, documentVars, manifestVars, packVars, eventVars, groundingVars>>
  /\ Led!Next

FeedStep ==
  /\ UNCHANGED <<peopleVars, workVars, storeVars, busVars, groundingVars>>
  /\ Feed!Next

GrantStep ==
  /\ UNCHANGED <<ruleVars, governanceVars, accountVars, tokenVars, workVars, storeVars, eventVars, groundingVars>>
  /\ Perm!Manage

PermissionStep ==
  /\ UNCHANGED <<grantVars, governanceVars, accountVars, tokenVars, workVars, storeVars, eventVars, groundingVars>>
  /\ Perm!Ask

GovernanceStep ==
  /\ UNCHANGED <<grantVars, ruleVars, accountVars, tokenVars, workVars, storeVars, eventVars, groundingVars>>
  /\ Perm!_load_governance_config \/ Perm!EditSystemPhysics

RetrievalStep ==
  /\ UNCHANGED <<peopleVars, workVars, storeVars, eventVars, knowledgeVars>>
  /\ Retr!Next

KnowledgeStep ==
  /\ UNCHANGED <<peopleVars, workVars, storeVars, eventVars, retrievalVars>>
  /\ Know!Keep

GraphStep ==
  /\ UNCHANGED <<peopleVars, workVars, storeVars, eventVars, retrievalVars>>
  /\ Know!Ask

(* What is in memory is gone, and whatever was being done is cut short.     *)
Restart ==
  /\ Acc!Restart /\ Tok!Restart /\ Conf!Restart /\ Stag!Restart /\ Ing!Restart
  /\ Bus!Restart /\ Pers!Restart /\ Night!Restart /\ Pack!Restart
  /\ Mani!Restart /\ Led!Restart /\ Feed!Restart /\ Perm!Restart
  /\ Retr!Restart /\ Know!Restart

Next ==
  \/ AccountStep \/ TokenStep \/ ConfirmationStep \/ StagingStep
  \/ IngestionStep \/ BusStep \/ RecordStep \/ DocumentStep
  \/ NightStep \/ PackStep \/ ManifestStep \/ ChainStep
  \/ FeedStep \/ GrantStep \/ PermissionStep \/ GovernanceStep
  \/ RetrievalStep \/ KnowledgeStep \/ GraphStep
  \/ Restart

Spec == Init /\ [][Next]_vars

(* ---- Properties ---------------------------------------------------------- *)

(* However requests and their saves interleave, are lost or cut short: an   *)
(* invited user is active only after redeeming an invitation and choosing a *)
(* password, an invitation is redeemed once, and names and the first root   *)
(* are unique, unless two saves, or two checks, of different requests have  *)
(* overlapped; only then can users.json be torn.                            *)
AccountsAreSound ==
  /\ Acc!ActiveWasRedeemed /\ Acc!ActiveHasPassword /\ Acc!RedeemedOnce
  /\ Acc!UsernamesAreUnique /\ Acc!OneIsPromoted
  /\ Acc!StoreIsReadable

(* A token whose claims the account no longer bears out is refused once a   *)
(* lifetime has passed since the account changed, however it is refreshed   *)
(* and switched.                                                            *)
ClaimsExpire == Tok!ClaimsExpire

(* What takes effect was decided by a person: a confirmed decision is       *)
(* answered once and after its record, with its thread bound; what is in    *)
(* place at a target was approved, and what was approved is in place; what  *)
(* is committed was reviewed; interruptions are told apart. A context that  *)
(* is checked runs committed physics if they did not change meanwhile, and  *)
(* names in its record what it runs; the physics of a pack are as last      *)
(* updated, and an updated pack opens. A domain role only adds to what its  *)
(* holder may do; and commands are unknown only after unreadable governance.*)
PeopleDecide ==
  /\ Conf!AnsweredOnce /\ Conf!AnsweredIsRecorded /\ Conf!ConfirmedIsBound
  /\ Stag!InPlaceIsApproved /\ Stag!ApprovedIsInPlace
  /\ Ing!CommittedWasReviewed
  /\ Pack!RunsCommitted /\ Pack!ClaimsWhatItRuns /\ Pack!UpdatesAreKept /\ Pack!UpdatedPackOpens
  /\ Perm!RolesOnlyAdd /\ Perm!UnknownOnlyIfSpoiled

(* What was recorded stays so: an endpoint under the commit guard answers   *)
(* after its record, the newest version of a record is shown, a document    *)
(* holds every saver's change unless saves crossed, and an event emitted is *)
(* handled, in order, once per start, and before the bus stops if it was in *)
(* the queue. A stream shows its client's events in order and once, and     *)
(* only a queue of its own being full leaves one out. The ledger of a sole  *)
(* writer verifies, a change before its end is detected, and an alarm has a *)
(* cause; the manifest's hashes are of the files as they once were, and a   *)
(* change since is noticed; the roles a user holds are those on record. What *)
(* the night finds in the records it proposes once for each reason, loses   *)
(* as a whole if one answer of the model is no object, and proposes to two  *)
(* domains only if both have opted in. What answers are grounded on is      *)
(* true: a hit is the text whose vector was near, the files of a store and  *)
(* of the index are of one build, a reference is a concept or an alias, and *)
(* what is related is within the depth. Each unless what overlapped, was    *)
(* cut short or left unrecorded says otherwise.                             *)
RecordsAreKept ==
  /\ Pers!AnsweredIsWritten /\ Pers!LatestIsShown
  /\ Pers!DocumentIsWhole
  /\ Bus!StopDrains /\ Bus!HandledOncePerStart /\ Bus!NothingIsDropped /\ Bus!HandledInOrder
  /\ Feed!StreamsAreFaithful /\ Feed!QueuesAreIndependent /\ Feed!OneStreamEach
  /\ Led!SoleChainsVerify /\ Led!ChangesAreDetected /\ Led!AlarmsHaveCause
  /\ Mani!HashesAreOfTheirFiles /\ Mani!RegensAreKept /\ Mani!ChangesAreNoticed
  /\ Night!EachTermOnce /\ Night!CyclesAreMutual /\ Night!OneAnswerFails /\ Night!SynthesisIsMutual
  /\ Perm!RolesAreAccountedFor /\ Perm!RevocationsNameTheRole
  /\ Retr!HitsAreTrue /\ Retr!FilesAgree
  /\ Know!ReferencesExist /\ Know!StartsUnlessCut /\ Know!OneBuild /\ Know!FindsWithinDepth

(* No request and no crash takes a decision back: users are kept, a token   *)
(* that was refused is not accepted again, a decision that was answered is  *)
(* not confirmed again, a staged file keeps its resolution, its transaction *)
(* follows the kernel, and a commit records the last review. A pack changes *)
(* rights in its own scope only, and a revocation leaves alone what an      *)
(* administrator governs; and a process that retrieves goes on retrieving   *)
(* unless a save of the stores was cut short.                               *)
DecisionsStand ==
  [][/\ UNCHANGED accountVars \/ Acc!KeepsUsers
     /\ UNCHANGED tokenVars \/ Tok!KeepsRefusals
     /\ UNCHANGED confirmationVars \/ Conf!KeepsAnswers
     /\ UNCHANGED stagingVars \/ (Stag!KeepsResolutions /\ Stag!AdvancesLegally)
     /\ UNCHANGED ingestionVars \/ Ing!RecordsLastReview
     /\ UNCHANGED accessVars \/ Perm!ScopesStand
     /\ UNCHANGED retrievalVars \/ Retr!OnlyCutDisables]_vars
=============================================================================
