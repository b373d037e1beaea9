------------------------------ MODULE Transcripts ------------------------------
(***************************************************************************)
(* What a conversation remembers of its last turns: the ring buffer in the  *)
(* session's container, the sealed transcripts that the client keeps of it  *)
(* and may bring back (handoff, resume), and the black-box snapshots of it  *)
(* that an escalation or the daemon's telemetry writes to a directory of    *)
(* bounded size. The conversations are those of one user, in one domain.    *)
(***************************************************************************)
EXTENDS Naturals, FiniteSets, SequencesExt

CONSTANTS
  Sessions,    (* conversations of the user                                *)
  NoSession,
  Turns,       (* turns, one request each                                  *)
  Recorders,   (* captures of the black box, one each                      *)
  BufferSize,  (* DEFAULT_BUFFER_SIZE                                      *)
  MaxFiles     (* DEFAULT_MAX_FILES                                        *)

VARIABLES
  container,   (* Sessions -> the container: ring buffer and turn_count    *)
  saved,       (* Sessions -> turn_count in the session's saved state      *)
  turn,        (* Turns -> the request                                     *)
  sealed,      (* transcripts that a client holds with a seal              *)
  boxes,       (* files in data/blackbox, numbered in the order of writing *)
  capture,     (* Recorders -> the snapshot being written                  *)
  spoken,      (* history: the turns in the order of their answers         *)
  filed,       (* history: files written so far                            *)
  doubled,     (* history: Sessions where a turn overlapped another turn   *)
               (* or a resume                                              *)
  unpruned     (* history: a process ended between a file and its pruning  *)

vars == <<container, saved, turn, sealed, boxes, capture, spoken, filed, doubled, unpruned>>
talkVars == <<container, saved, turn, sealed, spoken, doubled>>
boxVars == <<boxes, capture, filed, unpruned>>

FilesAssumption == MaxFiles \in Nat \ {0}

Closed == [open |-> FALSE, buffer |-> <<>>, count |-> 0]
NoTurn == [at |-> "idle", of |-> NoSession, count |-> 0]
Buffers == UNION {[1..n -> Turns] : n \in 0..BufferSize}

TypeOK ==
  /\ container \in [Sessions -> [open: BOOLEAN, buffer: Buffers, count: Nat]]
  /\ saved \in [Sessions -> Nat]
  /\ turn \in [Turns -> [at: {"idle", "begun", "synced", "pushed", "done", "failed"}, of: Sessions \cup {NoSession}, count: Nat]]
  /\ sealed \subseteq Buffers
  /\ filed \in Nat /\ boxes \subseteq 1..filed /\ Range(spoken) \subseteq Turns
  /\ capture \in [Recorders -> [at: {"idle", "taken", "replaced", "listed", "done", "failed"},
                                turns: Buffers, doomed: SUBSET (1..filed)]]
  /\ doubled \subseteq Sessions /\ unpruned \in BOOLEAN

Init ==
  /\ container = [s \in Sessions |-> Closed] /\ saved = [s \in Sessions |-> 0]
  /\ turn = [t \in Turns |-> NoTurn] /\ sealed = {} /\ spoken = <<>> /\ doubled = {}
  /\ boxes = {} /\ filed = 0 /\ unpruned = FALSE
  /\ capture = [c \in Recorders |-> [at |-> "idle", turns |-> <<>>, doomed |-> {}]]

(* --- The ring buffer ------------------------------------------------------ *)

Kept(turns) == SubSeq(turns, 1 + IF Len(turns) > BufferSize THEN Len(turns) - BufferSize ELSE 0, Len(turns))
push(buffer, t) == Kept(Append(buffer, t))
hydrate_extending(buffer, records) == buffer \o records
hydrate(buffer, records) == Kept(records)

(* get_or_create_session: a container built anew has no memory of turns.    *)
Opened(s) == IF container[s].open THEN container[s] ELSE [Closed EXCEPT !.open = TRUE, !.count = saved[s]]
Running(s) == {t \in Turns : turn[t].of = s /\ turn[t].at \in {"begun", "synced"}}

(* --- A turn --------------------------------------------------------------- *)

Begin(t, s) ==
  /\ turn[t].at = "idle"
  /\ container' = [container EXCEPT ![s] = Opened(s)]
  /\ turn' = [turn EXCEPT ![t] = [at |-> "begun", of |-> s, count |-> Opened(s).count]]
  /\ doubled' = IF Running(s) = {} THEN doubled ELSE doubled \cup {s}
  /\ UNCHANGED <<saved, sealed, spoken, boxVars>>

(* The turn counts on what it read when it began, and writes that back to   *)
(* the container there is by now.                                           *)
Sync(t) ==
  LET s == turn[t].of IN
  /\ turn[t].at = "begun"
  /\ turn' = [turn EXCEPT ![t].at = "synced", ![t].count = @ + 1]
  /\ IF container[s].open
     THEN /\ container' = [container EXCEPT ![s].count = turn[t].count + 1]
          /\ saved' = [saved EXCEPT ![s] = turn[t].count + 1]
     ELSE UNCHANGED <<container, saved>>
  /\ UNCHANGED <<sealed, spoken, doubled, boxVars>>

(* After the model has answered.                                            *)
Push(t) ==
  LET s == turn[t].of IN
  /\ turn[t].at = "synced"
  /\ turn' = [turn EXCEPT ![t].at = "pushed"]
  /\ IF container[s].open
     THEN /\ container' = [container EXCEPT ![s].buffer = push(@, t)]
          /\ spoken' = Append(spoken, t)
     ELSE UNCHANGED <<container, spoken>>
  /\ UNCHANGED <<saved, sealed, doubled, boxVars>>

_compute_transcript_seal(t) ==
  LET s == turn[t].of IN
  /\ turn[t].at = "pushed"
  /\ turn' = [turn EXCEPT ![t].at = "done"]
  /\ sealed' = IF container[s].open THEN sealed \cup {container[s].buffer} ELSE sealed
  /\ UNCHANGED <<container, saved, spoken, doubled, boxVars>>

Fail(t) ==
  /\ turn[t].at \in {"begun", "synced"}
  /\ turn' = [turn EXCEPT ![t].at = "failed"]
  /\ UNCHANGED <<container, saved, sealed, spoken, doubled, boxVars>>

(* --- Handoff, resume, close ----------------------------------------------- *)

session_handoff(s) ==
  /\ container[s].open
  /\ sealed' = sealed \cup {container[s].buffer}
  /\ UNCHANGED <<container, saved, turn, spoken, doubled, boxVars>>

(* Any transcript sealed for the user, of whichever time and conversation:  *)
(* a seal names neither. turn_count is set but not saved.                   *)
session_resume(s) ==
  /\ \E transcript \in sealed :
       container' = [container EXCEPT ![s] =
         [Opened(s) EXCEPT !.buffer = hydrate(@, transcript), !.count = Len(transcript)]]
  /\ doubled' = IF Running(s) = {} THEN doubled ELSE doubled \cup {s}
  /\ UNCHANGED <<saved, turn, sealed, spoken, boxVars>>

_close_session(s) ==
  /\ container[s].open
  /\ container' = [container EXCEPT ![s] = Closed]
  /\ saved' = [saved EXCEPT ![s] = container[s].count]
  /\ UNCHANGED <<turn, sealed, spoken, doubled, boxVars>>

(* --- The black box -------------------------------------------------------- *)

capture_blackbox(c, s) ==
  /\ capture[c].at = "idle"
  /\ capture' = [capture EXCEPT ![c].at = "taken", ![c].turns = container[s].buffer]
  /\ UNCHANGED <<boxes, filed, unpruned, talkVars>>

(* A temporary file of its own, moved to its place when it is whole; if the *)
(* write fails it is removed and nothing is pruned.                         *)
write_blackbox(c) ==
  /\ capture[c].at = "taken"
  /\ \/ /\ filed' = filed + 1 /\ boxes' = boxes \cup {filed + 1}
        /\ capture' = [capture EXCEPT ![c].at = "replaced"]
     \/ /\ capture' = [capture EXCEPT ![c].at = "failed"]
        /\ UNCHANGED <<boxes, filed>>
  /\ UNCHANGED <<unpruned, talkVars>>

(* files[:excess], where a negative excess counts from the end: with fewer  *)
(* than MaxFiles there, all but the last MaxFiles - n of n are removed.     *)
Excess(n) == IF n >= MaxFiles THEN n - MaxFiles ELSE 2 * n - MaxFiles
Rank(b, files) == Cardinality({d \in files : d <= b})
Oldest(files) == {b \in files : Rank(b, files) <= Excess(Cardinality(files))}

_prune_old_snapshots(c) ==
  /\ capture[c].at = "replaced"
  /\ capture' = [capture EXCEPT ![c] = [at |-> "listed", turns |-> capture[c].turns, doomed |-> Oldest(boxes)]]
  /\ UNCHANGED <<boxes, filed, unpruned, talkVars>>

(* A file that another one has removed is passed over.                      *)
Unlink(c) ==
  /\ capture[c].at = "listed"
  /\ IF capture[c].doomed = {}
     THEN capture' = [capture EXCEPT ![c].at = "done"] /\ UNCHANGED boxes
     ELSE \E d \in capture[c].doomed :
            /\ boxes' = boxes \ {d}
            /\ capture' = [capture EXCEPT ![c].doomed = @ \ {d}]
  /\ UNCHANGED <<filed, unpruned, talkVars>>

(* --- The process ---------------------------------------------------------- *)

Restart ==
  /\ container' = [s \in Sessions |-> Closed]
  /\ turn' = [t \in Turns |-> IF turn[t].at \in {"begun", "synced", "pushed"} THEN [turn[t] EXCEPT !.at = "failed"] ELSE turn[t]]
  /\ unpruned' = (unpruned \/ \E c \in Recorders : capture[c].at \in {"replaced", "listed"})
  /\ capture' = [c \in Recorders |->
       IF capture[c].at \in {"idle", "done"} THEN capture[c] ELSE [at |-> "failed", turns |-> capture[c].turns, doomed |-> {}]]
  /\ UNCHANGED <<saved, sealed, boxes, spoken, filed, doubled>>

Talk ==
  \/ \E t \in Turns :
       \/ \E s \in Sessions : Begin(t, s)
       \/ Sync(t) \/ Push(t) \/ _compute_transcript_seal(t) \/ Fail(t)
  \/ \E s \in Sessions : session_handoff(s) \/ session_resume(s) \/ _close_session(s)

Capture ==
  \E c \in Recorders :
    \/ \E s \in Sessions : capture_blackbox(c, s)
    \/ write_blackbox(c) \/ _prune_old_snapshots(c) \/ Unlink(c)

Next == Talk \/ Capture
Spec == Init /\ [][Next \/ Restart]_vars

(* ---- Properties ---------------------------------------------------------- *)

InOrder(turns) ==
  \A i, j \in DOMAIN turns : i < j =>
    \E k, l \in DOMAIN spoken : k < l /\ spoken[k] = turns[i] /\ spoken[l] = turns[j]

(* Whatever is resumed where and when, a transcript holds each turn once,   *)
(* in the order of their answers.                                           *)
TranscriptsAreInOrder ==
  /\ \A s \in Sessions : InOrder(container[s].buffer)
  /\ \A transcript \in sealed : InOrder(transcript)

(* turn_count covers the turns in the buffer, so that a task is not         *)
(* presented as the first one again, unless turns of a session overlapped.  *)
CountCoversBuffer ==
  \A s \in Sessions \ doubled : Running(s) = {} => container[s].count >= Len(container[s].buffer)

(* The newest snapshot is there, however captures interleave or end, and no *)
(* more than MaxFiles once those who wrote them have pruned. (Not the       *)
(* newest MaxFiles: see Excess.)                                            *)
NewestIsKept ==
  /\ filed > 0 => filed \in boxes
  /\ ~unpruned /\ (\A c \in Recorders : capture[c].at \notin {"replaced", "listed"}) => Cardinality(boxes) <= MaxFiles
=============================================================================
