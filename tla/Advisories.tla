------------------------------- MODULE Advisories -------------------------------
(***************************************************************************)
(* The chronic-drift scan of the daemon and the advisories it leaves in    *)
(* the profiles of actors. The scan loads every profile of its domain,     *)
(* then goes from actor to actor: the values that the actor's turns left   *)
(* on the log are put on a grid of days, today's signature is compared     *)
(* with the history and folded into it, each band that drifts becomes a    *)
(* proposal and an advisory, and the profile that was loaded is saved as a *)
(* whole. Meanwhile turns load and save the profile too, and conversations *)
(* show an advisory from the profile they were built with. What spectrum   *)
(* and deviations make of a series is any set of drifting bands.           *)
(***************************************************************************)
EXTENDS Integers, Sequences, FiniteSetsExt

CONSTANTS
  Actors,
  Bands,       (* sequence of the bands, by priority                      *)
  MinSamples,  (* min_samples_for_drift                                   *)
  MinDays,     (* the days with values that a series needs                *)
  WindowDays,  (* window_days                                             *)
  MaxGap,      (* MAX_INTERP_GAP_DAYS                                     *)
  Ttl,         (* advisory_ttl_seconds, in days                           *)
  NoProfile,
  MaxDays,     (* bound: the last day                                     *)
  MaxScans,    (* bound: scans                                            *)
  MaxSaves     (* bound: turns of an actor                                *)

VARIABLES
  day,
  profile,   (* actor -> [sample_count, advisories, turns]                     *)
  observed,  (* actor -> the days with a value on the log                      *)
  saving,    (* actor -> the profile a turn has loaded                         *)
  chat,      (* actor -> [advisories, surfaced, shown] of its conversation     *)
  scan,      (* [running, left, loaded, records, report]                       *)
  scans,     (* scans begun                                                    *)
  folds,     (* history: actor -> signatures that were folded                  *)
  proposed,  (* history: <<actor, band>> in the result of a scan               *)
  cut,       (* history: actors whose findings were lost with the scan         *)
  clobbered  (* history: actors of whom a save wrote over another one          *)

vars == <<day, profile, observed, saving, chat, scan, scans, folds, proposed, cut, clobbered>>

AdvisoriesAssumption == MinSamples \in Nat /\ MinDays \in Nat

Days == 1..MaxDays
BandIds == DOMAIN Bands

Advisory == [band: BandIds, expires: 1..(MaxDays + Ttl)]

Profiles ==
  [sample_count: 0..MaxScans, turns: 0..MaxSaves,
   advisories: SUBSET Advisory]

NoScan ==
  [running |-> FALSE, left |-> {}, loaded |-> [a \in Actors |-> NoProfile], report |-> {},
   records |-> [a \in Actors |-> {}]]

TypeOK ==
  /\ day \in Days
  /\ profile \in [Actors -> Profiles]
  /\ observed \in [Actors -> SUBSET Days]
  /\ saving \in [Actors -> Profiles \cup {NoProfile}]
  /\ \A a \in Actors : chat[a] = NoProfile \/ chat[a].surfaced \in BOOLEAN
  /\ scan # NoScan => scan.running /\ scan.left \subseteq Actors /\ scan.loaded \in [Actors -> Profiles]

(* --- Pure parts ---------------------------------------------------------------- *)

(* resample_to_daily: the grid ends with the last day that has a value; it  *)
(* is of use with values on enough of its days and no gap that is too long. *)
Resampled(days) ==
  days # {} /\
  LET first == Max(days) - WindowDays + 1
  IN /\ Cardinality({d \in days : d >= first}) >= MinDays
     /\ \A d \in first..(Max(days) - MaxGap) : d..(d + MaxGap) \cap days # {}

(* check_spectral_drift: nothing drifts before the history is mature.       *)
Findings(history) == IF history.sample_count < MinSamples THEN {{}} ELSE SUBSET BandIds

Live(advisories) == {v \in advisories : v.expires > day}

(* upsert_spectral_advisory, for each finding: instead of the one there was *)
(* of its band, and of those that have expired.                             *)
Upsert(advisories, found) ==
  IF found = {} THEN advisories
  ELSE {v \in Live(advisories) : v.band \notin found} \cup {[band |-> b, expires |-> day + Ttl] : b \in found}

(* The history is folded, and the findings are written down.                *)
Analysed(p, found) == [p EXCEPT !.sample_count = @ + 1, !.advisories = Upsert(@, found)]

(* pull_active_advisory: of the first band that has one.                    *)
Pull(advisories) == LET bands == {v.band : v \in Live(advisories)}
                    IN IF bands = {} THEN 0 ELSE Min(bands)

(* ---- Actions -------------------------------------------------------------------- *)

Init ==
  /\ day = 1
  /\ profile = [a \in Actors |-> [sample_count |-> 0, advisories |-> {}, turns |-> 0]]
  /\ observed = [a \in Actors |-> {}]
  /\ saving = [a \in Actors |-> NoProfile]
  /\ chat = [a \in Actors |-> NoProfile]
  /\ scan = NoScan
  /\ scans = 0
  /\ folds = [a \in Actors |-> 0]
  /\ proposed = {}
  /\ cut = {}
  /\ clobbered = {}

daemonVars == <<scan, scans, folds, proposed, cut>>
turnVars == <<observed, saving, chat>>

Tick ==
  /\ day < MaxDays
  /\ day' = day + 1
  /\ UNCHANGED <<profile, turnVars, daemonVars, clobbered>>

(* rhythm_fft_analysis starts: _iter_actor_profiles loads what can be read, *)
(* and then the records are queried, or not.                                *)
StartScan(readable, queried) ==
  /\ scan = NoScan /\ scans < MaxScans
  /\ scans' = scans + 1
  /\ scan' = [running |-> TRUE, left |-> readable, loaded |-> profile, report |-> {},
              records |-> [a \in Actors |-> IF queried THEN observed[a] ELSE {}]]
  /\ UNCHANGED <<day, profile, turnVars, folds, proposed, cut, clobbered>>

(* One actor: without a series nothing is done, and with one the profile is *)
(* saved; a failure to save is logged, and the proposals remain.            *)
Skip(a) ==
  /\ scan.running /\ a \in scan.left
  /\ ~Resampled(scan.records[a])
  /\ scan' = [scan EXCEPT !.left = @ \ {a}]
  /\ UNCHANGED <<day, profile, turnVars, scans, folds, proposed, cut, clobbered>>

Analyse(a, found, saved) ==
  /\ scan.running /\ a \in scan.left
  /\ Resampled(scan.records[a])
  /\ found \in Findings(scan.loaded[a])
  /\ scan' = [scan EXCEPT !.left = @ \ {a}, !.report = @ \cup ({a} \X found)]
  /\ folds' = [folds EXCEPT ![a] = @ + 1]
  /\ profile' = IF saved THEN [profile EXCEPT ![a] = Analysed(scan.loaded[a], found)] ELSE profile
  /\ clobbered' = IF saved /\ profile[a] # scan.loaded[a] THEN clobbered \cup {a} ELSE clobbered
  /\ UNCHANGED <<day, turnVars, scans, proposed, cut>>

EndScan ==
  /\ scan.running /\ scan.left = {}
  /\ proposed' = proposed \cup scan.report
  /\ scan' = NoScan
  /\ UNCHANGED <<day, profile, turnVars, scans, folds, cut, clobbered>>

(* A turn: its value is on the log, then the profile is loaded,             *)
LoadProfile(a) ==
  /\ saving[a] = NoProfile
  /\ profile[a].turns < MaxSaves
  /\ observed' = [observed EXCEPT ![a] = @ \cup {day}]
  /\ saving' = [saving EXCEPT ![a] = profile[a]]
  /\ UNCHANGED <<day, profile, chat, daemonVars, clobbered>>

(* and saved with what the turn adds, or not.                               *)
SaveProfile(a, saved) ==
  /\ saving[a] # NoProfile
  /\ profile' = IF saved THEN [profile EXCEPT ![a] = [saving[a] EXCEPT !.turns = @ + 1]] ELSE profile
  /\ clobbered' = IF saved /\ profile[a] # saving[a] THEN clobbered \cup {a} ELSE clobbered
  /\ saving' = [saving EXCEPT ![a] = NoProfile]
  /\ UNCHANGED <<day, observed, chat, daemonVars>>

(* A conversation is built with the profile of the moment,                  *)
Build(a) ==
  /\ chat[a] = NoProfile
  /\ chat' = [chat EXCEPT ![a] = [advisories |-> profile[a].advisories, surfaced |-> FALSE, shown |-> <<>>]]
  /\ UNCHANGED <<day, profile, observed, saving, daemonVars, clobbered>>

(* and each of its steps drops the expired advisories of that profile, until *)
(* one is shown. What is saved then is saved under another key.              *)
Surface(a) ==
  /\ chat[a] # NoProfile /\ ~chat[a].surfaced
  /\ LET band == Pull(chat[a].advisories)
     IN chat' = [chat EXCEPT ![a].advisories = Live(@),
                             ![a].surfaced = band # 0,
                             ![a].shown = IF band = 0 THEN @ ELSE Append(@, [band |-> band, on |-> day])]
  /\ UNCHANGED <<day, profile, observed, saving, daemonVars, clobbered>>

(* The process stops: the findings of the scan are lost, the advisories it  *)
(* has saved are not.                                                       *)
Restart ==
  /\ saving' = [a \in Actors |-> NoProfile]
  /\ chat' = [a \in Actors |-> NoProfile]
  /\ scan' = NoScan
  /\ cut' = cut \cup {f[1] : f \in scan.report}
  /\ UNCHANGED <<day, profile, observed, scans, folds, proposed, clobbered>>

Next ==
  \/ Tick \/ EndScan
  \/ \E readable \in SUBSET Actors, queried \in BOOLEAN : StartScan(readable, queried)
  \/ \E a \in Actors :
       \/ Skip(a) \/ LoadProfile(a) \/ Build(a) \/ Surface(a)
       \/ \E found \in SUBSET BandIds, saved \in BOOLEAN : Analyse(a, found, saved)
       \/ \E saved \in BOOLEAN : SaveProfile(a, saved)

Spec == Init /\ [][Next \/ Restart]_vars

(* ---- Properties --------------------------------------------------------------------- *)

Single(advisories) == \A v, w \in advisories : v.band = w.band => v = w

(* A profile, and a conversation, has at most one advisory of a band, over  *)
(* saves that bring old ones back.                                          *)
OnePerBand ==
  \A a \in Actors :
    Single(profile[a].advisories) /\ (chat[a] # NoProfile => Single(chat[a].advisories))

(* An advisory took more than MinSamples signatures of an actor with values *)
(* on MinDays days, and the history counts the signatures, unless a save    *)
(* wrote over another one.                                                  *)
AdvisoryIsEarned ==
  \A a \in Actors :
    /\ profile[a].advisories # {} => folds[a] > MinSamples /\ Cardinality(observed[a]) >= MinDays
    /\ profile[a].sample_count <= folds[a]

(* Who has an advisory is known to those who review proposals, or will be   *)
(* when the scan ends, unless the process stopped within a scan.            *)
AdvisoryIsProposed ==
  \A a \in Actors \ cut : \A v \in profile[a].advisories : <<a, v.band>> \in proposed \cup scan.report

(* A conversation shows one advisory at most, of the first band it was      *)
(* built with, among those that were live on the day it was shown.          *)
ShownOnceWhileLive ==
  \A a \in Actors :
    chat[a] # NoProfile =>
      /\ Len(chat[a].shown) <= 1
      /\ \A i \in DOMAIN chat[a].shown :
           LET live == {v \in chat[a].advisories : v.expires > chat[a].shown[i].on}
           IN live # {} /\ chat[a].shown[i].band = Min({v.band : v \in live})

(* Neither the turns nor the signatures that a profile counts become fewer, *)
(* unless a save wrote over another one.                                    *)
KeepsCounts ==
  \A a \in Actors \ clobbered' :
    /\ profile'[a].turns >= profile[a].turns
    /\ profile'[a].sample_count >= profile[a].sample_count
=============================================================================
