--------------------------------- MODULE Recaps ---------------------------------
(***************************************************************************)
(* Recaps of threads, and what is decided from them. After a turn of a     *)
(* thread a job of the pool records a recap: it reads where the last one   *)
(* ended, adds the new one to the index of the process, saves the index as *)
(* two files and then where this recap ends. A search loads the files over *)
(* the index, without a lock. The thread that a message belongs to, and    *)
(* the confidence in a precedent, are decided from the recaps found.       *)
(* Scores and thresholds are small numbers, and recaps and the threads of  *)
(* a query are numbered in the order of their ids.                         *)
(***************************************************************************)
EXTENDS Naturals, Sequences, FiniteSets

CONSTANTS
  Threads,        (* threads of one site                                     *)
  Recorders,      (* jobs that record recaps at the same time                *)
  Searchers,      (* jobs that search at the same time                       *)
  RecapInterval,  (* recap_interval_turns                                    *)
  NoThread, Missing, Garbled,
  Defaults,       (* the default policy of thread routing                    *)
  Overrides,      (* what an organization or a site may set otherwise        *)
  NRecaps,        (* bound: recaps in the index of a query                   *)
  MaxScore,       (* bound: the confidence 1.0                               *)
  MaxTurns,       (* bound: turns of a thread since the process started      *)
  MaxRecaps       (* bound: recaps recorded                                  *)

VARIABLES
  turns,      (* thread -> turn_count of its conversation's container      *)
  summary,    (* thread -> [version, end] of its persisted summary_state   *)
  recaps,     (* history: the recaps made, [thread, start, end], by id     *)
  memory,     (* [vectors, chunks]: the index, as sequences of ids         *)
  files,      (* [vectors, chunks]: vectors.npz and metadata.json          *)
  recording,  (* recorder -> [pc, thread, count, id]                       *)
  searching,  (* the searchers that have loaded the vectors                *)
  loaded,     (* the index was loaded, or was empty on disk, at the start  *)
  unsound,    (* history: jobs on the index overlapped, or were cut short  *)
  uneven,     (* history: threads of which recordings overlapped or failed *)
  asked       (* the last query, and what was decided                      *)

vars == <<turns, summary, recaps, memory, files, recording, searching, loaded, unsound, uneven, asked>>

Idle == [pc |-> "idle", thread |-> NoThread, count |-> 0, id |-> 0]
NoQuery == [about |-> "nothing"]
Empty == [vectors |-> <<>>, chunks |-> <<>>]
Ids == 1..MaxRecaps
Indexes == UNION {[1..n -> Ids] : n \in 0..MaxRecaps}

TypeOK ==
  /\ turns \in [Threads -> 0..MaxTurns]
  /\ summary \in [Threads -> [version: 0..MaxRecaps, end: 0..MaxTurns]]
  /\ \A i \in DOMAIN recaps : recaps[i] \in [thread: Threads, start: 1..MaxTurns, end: 1..MaxTurns]
  /\ memory.vectors \in Indexes /\ memory.chunks \in Indexes
  /\ files.vectors \in Indexes \cup {Missing, Garbled} /\ files.chunks \in Indexes \cup {Missing, Garbled}
  /\ recording \in [Recorders -> [pc: {"idle", "load", "add", "extend", "open", "vectors", "between", "chunks", "state"},
                                  thread: Threads \cup {NoThread}, count: 0..MaxTurns, id: 0..MaxRecaps]]
  /\ searching \subseteq Searchers /\ loaded \in BOOLEAN /\ unsound \in BOOLEAN /\ uneven \subseteq Threads
  /\ asked.about \in {"nothing", "route", "precedent"}

Init ==
  /\ turns = [t \in Threads |-> 0]
  /\ summary = [t \in Threads |-> [version |-> 0, end |-> 0]]
  /\ recaps = <<>> /\ memory = Empty
  /\ files = [vectors |-> Missing, chunks |-> Missing]
  /\ recording = [r \in Recorders |-> Idle] /\ searching = {}
  /\ loaded = TRUE /\ unsound = FALSE /\ uneven = {}
  /\ asked = NoQuery

At(r, pc) == recording[r].pc = pc
Enter(r, pc) == recording' = [recording EXCEPT ![r].pc = pc]
Leave(r) == recording' = [recording EXCEPT ![r] = Idle]

(* The jobs that are between their add and the end of their save.           *)
Indexing == {r \in Recorders : recording[r].pc \in {"extend", "open", "vectors", "between", "chunks"}}
RecordingOf(t) == {r \in Recorders : recording[r].thread = t}

(* --- record_thread_recap -------------------------------------------------------- *)

(* A turn has ended: its count is read, and a job queued.                   *)
EndTurn(r, t) ==
  /\ At(r, "idle") /\ turns[t] < MaxTurns
  /\ turns' = [turns EXCEPT ![t] = @ + 1]
  /\ recording' = [recording EXCEPT ![r] = [pc |-> "load", thread |-> t, count |-> turns[t] + 1, id |-> 0]]
  /\ uneven' = IF RecordingOf(t) # {} THEN uneven \cup {t} ELSE uneven
  /\ UNCHANGED <<summary, recaps, memory, files, searching, loaded, unsound, asked>>

(* A count below the end of the last recap is refused, one too close to it  *)
(* needs none; else the recap goes on from that end.                        *)
Due(last, count) == last.version = 0 \/ (count >= last.end /\ count - last.end >= RecapInterval)

Compose(r) ==
  /\ At(r, "load")
  /\ LET job == recording[r]
         last == summary[job.thread]
     IN IF Due(last, job.count)
        THEN /\ Len(recaps) < MaxRecaps
             /\ recaps' = Append(recaps, [thread |-> job.thread, start |-> last.end + 1, end |-> job.count])
             /\ recording' = [recording EXCEPT ![r].pc = "add", ![r].id = Len(recaps) + 1]
        ELSE Leave(r) /\ UNCHANGED recaps
  /\ UNCHANGED <<turns, summary, memory, files, searching, loaded, unsound, uneven, asked>>

(* ingest: no recap has the hash of another one. add stacks the vectors and *)
(* extends the chunks; nothing is loaded before.                            *)
Stack(r) ==
  /\ At(r, "add")
  /\ memory' = [memory EXCEPT !.vectors = Append(@, recording[r].id)]
  /\ unsound' = (unsound \/ ~loaded \/ Indexing # {} \/ searching # {})
  /\ Enter(r, "extend")
  /\ UNCHANGED <<turns, summary, recaps, files, searching, loaded, uneven, asked>>

Extend(r) ==
  /\ At(r, "extend")
  /\ memory' = [memory EXCEPT !.chunks = Append(@, recording[r].id)]
  /\ Enter(r, "open")
  /\ UNCHANGED <<turns, summary, recaps, files, searching, loaded, unsound, uneven, asked>>

(* save: each file is opened, which empties it, and then written.           *)
Save(r) ==
  /\ \/ At(r, "open") /\ files' = [files EXCEPT !.vectors = Garbled] /\ Enter(r, "vectors")
     \/ At(r, "vectors") /\ files' = [files EXCEPT !.vectors = memory.vectors] /\ Enter(r, "between")
     \/ At(r, "between") /\ files' = [files EXCEPT !.chunks = Garbled] /\ Enter(r, "chunks")
     \/ At(r, "chunks") /\ files' = [files EXCEPT !.chunks = memory.chunks] /\ Enter(r, "state")
  /\ UNCHANGED <<turns, summary, recaps, memory, searching, loaded, unsound, uneven, asked>>

SaveState(r) ==
  /\ At(r, "state")
  /\ LET job == recording[r]
     IN summary' = [summary EXCEPT ![job.thread] = [version |-> @.version + 1, end |-> job.count]]
  /\ Leave(r)
  /\ UNCHANGED <<turns, recaps, memory, files, searching, loaded, unsound, uneven, asked>>

(* The embedder or a write fails: chat logs a warning and answers.          *)
RecordFails(r) ==
  /\ recording[r].pc \in {"add", "vectors", "chunks", "state"}
  /\ uneven' = uneven \cup {recording[r].thread}
  /\ unsound' = (unsound \/ recording[r].pc \in {"vectors", "chunks"})
  /\ Leave(r)
  /\ UNCHANGED <<turns, summary, recaps, memory, files, searching, loaded, asked>>

(* --- search ---------------------------------------------------------------------- *)

(* load: nothing without both files; what does not parse raises.            *)
LoadVectors(s) ==
  /\ s \notin searching /\ Missing \notin {files.vectors, files.chunks} /\ files.vectors # Garbled
  /\ memory' = [memory EXCEPT !.vectors = files.vectors]
  /\ searching' = searching \cup {s}
  /\ unsound' = (unsound \/ Indexing # {})
  /\ UNCHANGED <<turns, summary, recaps, files, recording, loaded, uneven, asked>>

LoadChunks(s) ==
  /\ s \in searching
  /\ IF files.chunks = Garbled THEN UNCHANGED <<memory, loaded>>
     ELSE memory' = [memory EXCEPT !.chunks = files.chunks] /\ loaded' = TRUE
  /\ searching' = searching \ {s}
  /\ unsound' = (unsound \/ files.chunks = Garbled)
  /\ UNCHANGED <<turns, summary, recaps, files, recording, uneven, asked>>

(* The index of the process is empty until a search; so is the conversation *)
(* that a thread goes on with.                                              *)
Restart ==
  /\ turns' = [t \in Threads |-> 0]
  /\ memory' = Empty /\ searching' = {}
  /\ recording' = [r \in Recorders |-> Idle]
  /\ loaded' = (Missing \in {files.vectors, files.chunks})
  /\ unsound' = (unsound \/ Indexing # {})
  /\ uneven' = uneven \cup {recording[r].thread : r \in {q \in Recorders : ~At(q, "idle")}}
  /\ asked' = NoQuery
  /\ UNCHANGED <<summary, recaps, files>>

(* --- decide_thread_route ------------------------------------------------------------ *)

(* resolve_thread_routing_policy: the site before its organization before   *)
(* the defaults.                                                            *)
Over(base, override) ==
  [f \in DOMAIN base |-> IF f \in DOMAIN override THEN override[f] ELSE base[f]]
Resolve(organization, site) == Over(Over(Defaults, organization), site)
Valid(policy) == policy.fork <= policy.attach /\ policy.limit >= 1

(* The best hits of a search; which ones, of several equally good, is open. *)
Nearest(score, limit) ==
  LET all == DOMAIN score
  IN {hits \in SUBSET all : /\ Cardinality(hits) = (IF limit < Cardinality(all) THEN limit ELSE Cardinality(all))
                            /\ \A h \in hits, g \in all \ hits : score[h] >= score[g]}

(* A thread counts with the best of its hits.                               *)
Strongest(of, score, hits) ==
  [t \in {of[h] : h \in hits} |-> score[CHOOSE h \in hits : of[h] = t /\ \A g \in hits : of[g] = t => score[g] <= score[h]]]

Before(candidate, t, u) == candidate[t] > candidate[u] \/ (candidate[t] = candidate[u] /\ t < u)

decide_thread_route(candidate, policy, active) ==
  LET found == DOMAIN candidate
      best == CHOOSE t \in found : \A u \in found \ {t} : Before(candidate, t, u)
      attach == found # {} /\ candidate[best] >= policy.attach
      drifted == active # 0 /\ (active \notin found \/ candidate[active] < policy.fork)
      ambiguous == \E u \in found \ {best} : candidate[best] - candidate[u] <= policy.margin
      decision == IF policy.manual THEN "create_new" ELSE IF attach THEN "attach_existing"
                  ELSE IF drifted THEN "fork_from" ELSE "create_new"
  IN [decision |-> decision,
      thread |-> IF decision = "attach_existing" THEN best ELSE 0,
      confirmation |-> policy.manual \/ (decision = "attach_existing" /\ ambiguous) \/ decision \in policy.confirm]

(* A message is routed by an index with any recaps, of two threads.         *)
preflight_route(n, of, score, active, policy) ==
  /\ Valid(policy)
  /\ \E hits \in Nearest(score, policy.limit) :
       asked' = [about |-> "route", of |-> of, score |-> score, policy |-> policy,
                 route |-> decide_thread_route(Strongest(of, score, hits), policy, active)]
  /\ UNCHANGED <<turns, summary, recaps, memory, files, recording, searching, loaded, unsound, uneven>>

(* --- score_decision_precedent --------------------------------------------------------- *)

Minus(a, b) == IF a > b THEN a - b ELSE 0

(* The most similar precedent counts, however old; of equal ones the first. *)
score_decision_precedent(score, old, hits, risk, bar) ==
  LET best == CHOOSE h \in hits : \A g \in hits \ {h} : Before(score, h, g)
      final == IF hits = {} THEN 0 ELSE Minus(score[best], IF best \in old THEN bar.stale ELSE 0)
  IN IF risk = "high" \/ hits = {} THEN "mandatory_escalation"
     ELSE IF final >= bar.suggest /\ risk # "confirmation" THEN "suggest_only"
     ELSE IF final >= bar.confirmation THEN "require_confirmation"
     ELSE "mandatory_escalation"

preflight_precedent(score, old, risk, bar, limit) ==
  /\ bar.confirmation <= bar.suggest
  /\ \E hits \in Nearest(score, limit) :
       asked' = [about |-> "precedent", score |-> score, old |-> old, risk |-> risk, bar |-> bar, limit |-> limit,
                 tier |-> score_decision_precedent(score, old, hits, risk, bar)]
  /\ UNCHANGED <<turns, summary, recaps, memory, files, recording, searching, loaded, unsound, uneven>>

Record ==
  \/ \E r \in Recorders :
       \/ \E t \in Threads : EndTurn(r, t)
       \/ Compose(r) \/ Stack(r) \/ Extend(r) \/ Save(r) \/ SaveState(r) \/ RecordFails(r)
  \/ \E s \in Searchers : LoadVectors(s) \/ LoadChunks(s)

Scores(n) == [1..n -> 0..MaxScore]
Bars == [suggest: 1..MaxScore, confirmation: 1..MaxScore, stale: {1}]

Decide ==
  /\ asked = NoQuery
  /\ \E n \in 0..NRecaps, score \in Scores(NRecaps) :
       LET known == [h \in 1..n |-> score[h]]
       IN /\ \A h \in n + 1..NRecaps : score[h] = 0
          /\ \/ \E of \in [1..n -> 1..2], active \in 0..2, organization, site \in Overrides :
                  preflight_route(n, of, known, active, Resolve(organization, site))
             \/ \E old \in SUBSET (1..n), risk \in {"high", "confirmation", "low"}, bar \in Bars, limit \in 1..2 :
                  preflight_precedent(known, old, risk, bar, limit)

Next == Record \/ Decide

Spec == Init /\ [][Next \/ Restart]_vars

(* ---- Properties ------------------------------------------------------------------------- *)

(* The recaps of a thread are about turns, and about different ones,        *)
(* whatever restarts set its count back, unless recordings of it overlapped *)
(* or failed.                                                               *)
TurnsAreRecappedOnce ==
  \A i, j \in DOMAIN recaps :
    recaps[i].thread = recaps[j].thread /\ recaps[i].thread \notin uneven =>
      /\ recaps[i].start <= recaps[i].end
      /\ i < j => recaps[i].end < recaps[j].start

(* A recap that was recorded stays in both files of the index, in the same  *)
(* place, if no recording met another one, a search, or an index that was   *)
(* not loaded since the process started, and none was cut short.            *)
RecapsAreKept ==
  ~unsound /\ Indexing = {} /\ files.chunks # Missing =>
    /\ files.vectors = files.chunks
    /\ \A t \in Threads : summary[t].version > 0 =>
         \E k \in DOMAIN files.chunks :
           recaps[files.chunks[k]].thread = t /\ recaps[files.chunks[k]].end = summary[t].end

(* A message is attached without a person only to a thread with the best    *)
(* recap, and while no other thread with a recap within the margin contests *)
(* it, unless as many recaps as a search returns are as good as that one.   *)
ContestedIsConfirmed ==
  asked.about = "route" /\ asked.route.decision = "attach_existing" /\ ~asked.route.confirmation =>
    LET known == DOMAIN asked.score
        asGood(h) == {g \in known \ {h} : asked.score[g] >= asked.score[h]}
    IN \E b \in known :
         /\ asked.of[b] = asked.route.thread
         /\ \A g \in known : asked.score[g] <= asked.score[b]
         /\ \A h \in known :
              asked.of[h] # asked.route.thread /\ asked.score[h] + asked.policy.margin >= asked.score[b] =>
                Cardinality(asGood(h)) >= asked.policy.limit

(* Something is suggested without asking anyone only if the class of the    *)
(* risk allows it and a precedent warrants it, its age taken into account.  *)
SuggestionsAreWarranted ==
  asked.about = "precedent" /\ asked.tier = "suggest_only" =>
    /\ asked.risk = "low"
    /\ \E h \in DOMAIN asked.score :
         asked.score[h] >= asked.bar.suggest + (IF h \in asked.old THEN asked.bar.stale ELSE 0)
=============================================================================
