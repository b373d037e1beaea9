------------------------------ MODULE PackPhysics ------------------------------
(***************************************************************************)
(* The physics file of a model pack and the commitments to it. An update    *)
(* reads the file, sets its keys, writes the result over the file by way of *)
(* one fixed temporary file, and appends the hash of what it wrote to the   *)
(* domain's ledger, each in a step of its own and without a lock. A session *)
(* is opened only if the physics the process read when it started are       *)
(* committed, but runs what is in the file by then. A physics is modelled   *)
(* by the set of the updates it holds.                                      *)
(***************************************************************************)
EXTENDS Naturals, FiniteSets

CONSTANTS
  Editors,     (* updates and commits of administrators, one each           *)
  Openers,     (* conversations that build a context of the domain          *)
  Absent,      (* the temporary file does not exist                         *)
  Torn,        (* a file that does not parse                                *)
  NoPhysics    (* the process could not read the file when it started       *)

VARIABLES
  physics,     (* domain-physics.json                                       *)
  aside,       (* domain-physics.json.tmp                                   *)
  edit,        (* Editors -> the request                                    *)
  session,     (* Openers -> the context                                    *)
  committed,   (* the physics with a CommitmentRecord of their hash         *)
  readable,    (* every line of every ledger parses                         *)
  cached,      (* the physics of the runtime context of this process        *)
  enforcing,   (* LUMINA_ENFORCE_POLICY_COMMITMENT                          *)
  moved,       (* history: the file has changed since the process started   *)
  crossed,     (* history: two updates have overlapped                      *)
  severed      (* history: an update was cut off between file and ledger    *)

vars == <<physics, aside, edit, session, committed, readable, cached, enforcing, moved, crossed, severed>>

Versions == SUBSET Editors
Tools == {"cmd_commit", "cmd_rollback"}   (* run beside the server *)
NoEdit == [op |-> "none", at |-> "idle", holds |-> {}, fd |-> "none"]
NoSession == [at |-> "idle", claims |-> {}, runs |-> {}, early |-> FALSE]

Edit ==
  [op: {"none", "update", "commit"} \cup Tools,
   at: {"idle", "loaded", "opened", "written", "hashed", "done", "failed"},
   holds: Versions, fd: {"none", "tmp", "file", "gone"}]

Session == [at: {"idle", "asserted", "open", "refused"}, claims: Versions, runs: Versions, early: BOOLEAN]

(* What stands for no physics is none.                                      *)
PackAssumption == Absent # Torn /\ \A v \in Versions : v # Torn /\ v # Absent /\ v # NoPhysics

TypeOK ==
  /\ physics \in Versions \cup {Torn}
  /\ aside \in Versions \cup {Torn, Absent}
  /\ edit \in [Editors -> Edit]
  /\ session \in [Openers -> Session]
  /\ committed \subseteq Versions
  /\ readable \in BOOLEAN /\ enforcing \in BOOLEAN
  /\ cached \in Versions \cup {NoPhysics}
  /\ moved \in BOOLEAN /\ crossed \in BOOLEAN /\ severed \in BOOLEAN

(* The pack as delivered, its hash committed beforehand or not.             *)
Init ==
  /\ physics = {} /\ aside = Absent /\ cached = {}
  /\ edit = [e \in Editors |-> NoEdit]
  /\ session = [o \in Openers |-> NoSession]
  /\ committed \in {{}, {{}}} /\ enforcing \in BOOLEAN
  /\ readable = TRUE /\ moved = FALSE /\ crossed = FALSE /\ severed = FALSE

At(e, at) == edit[e].at = at
Overlaps(e) == \E d \in Editors \ {e} : edit[d].op = "update" /\ edit[d].at \in {"loaded", "opened", "written"}
files == <<physics, aside>>
history == <<moved, crossed, severed>>
process == <<cached, enforcing>>
ledger == <<committed, readable>>

(* --- An update (PATCH .../physics, and the operation of that name) -------- *)

Load(e, op) ==
  /\ At(e, "idle")
  /\ edit' = [edit EXCEPT ![e] =
       IF physics = Torn THEN [NoEdit EXCEPT !.op = op, !.at = "failed"]
       ELSE [NoEdit EXCEPT !.op = op,
                           !.at = IF op = "update" THEN "loaded" ELSE "hashed",
                           !.holds = IF op = "update" THEN physics \cup {e} ELSE physics]]
  /\ UNCHANGED <<files, session, ledger, process, moved, severed>>

update_domain_physics(e) ==
  /\ cached # NoPhysics
  /\ Load(e, "update")
  /\ crossed' = (crossed \/ (physics # Torn /\ Overlaps(e)))

(* open(tmp, "w") empties the file, whoever has it open.                    *)
OpenTmp(e) ==
  /\ At(e, "loaded")
  /\ aside' = Torn
  /\ edit' = [edit EXCEPT ![e].at = "opened", ![e].fd = "tmp"]
  /\ UNCHANGED <<physics, session, ledger, process, history>>

(* Text written over another's may leave the end of that; what a request    *)
(* writes goes where the file that it opened has gone since.                *)
WriteTmp(e) ==
  /\ At(e, "opened")
  /\ \E text \in {edit[e].holds} \cup (IF crossed THEN {Torn} ELSE {}) :
       /\ physics' = IF edit[e].fd = "file" THEN text ELSE physics
       /\ aside' = IF edit[e].fd = "tmp" THEN text ELSE aside
  /\ moved' = (moved \/ edit[e].fd = "file")
  /\ edit' = [edit EXCEPT ![e].at = "written", ![e].fd = "none"]
  /\ UNCHANGED <<session, ledger, process, crossed, severed>>

(* tmp.replace(path): a second one finds no file and its request fails.     *)
ReplaceFile(e) ==
  /\ At(e, "written")
  /\ IF aside = Absent
     THEN /\ edit' = [edit EXCEPT ![e].at = "failed"]
          /\ UNCHANGED <<files, moved>>
     ELSE /\ physics' = aside /\ aside' = Absent /\ moved' = TRUE
          /\ edit' = [d \in Editors |->
               IF d = e THEN [edit[d] EXCEPT !.at = "hashed"]
               ELSE [edit[d] EXCEPT !.fd = CASE @ = "tmp" -> "file" [] @ = "file" -> "gone" [] OTHER -> @]]
  /\ UNCHANGED <<session, ledger, process, crossed, severed>>

(* The hash is of what the request holds in memory.                         *)
AppendCommitment(e) ==
  /\ At(e, "hashed")
  /\ committed' = committed \cup {edit[e].holds}
  /\ edit' = [edit EXCEPT ![e].at = "done"]
  /\ UNCHANGED <<files, session, readable, process, history>>

(* --- A commit of what is in the file -------------------------------------- *)

model_pack_commit(e) == cached # NoPhysics /\ Load(e, "commit") /\ UNCHANGED crossed

(* The tools append a record of the file's hash, be it of an activation or  *)
(* of a rollback: has_policy_commitment does not look at the kind.          *)
cmd_commit(e) == Load(e, "cmd_commit") /\ UNCHANGED crossed
cmd_rollback(e) == Load(e, "cmd_rollback") /\ UNCHANGED crossed

(* --- A session is opened -------------------------------------------------- *)

has_policy_commitment == readable /\ cached \in committed

assert_policy_commitment(o) ==
  /\ session[o].at = "idle" /\ cached # NoPhysics
  /\ session' = [session EXCEPT ![o] =
       [NoSession EXCEPT !.at = IF enforcing => has_policy_commitment THEN "asserted" ELSE "refused", !.claims = cached]]
  /\ UNCHANGED <<files, edit, ledger, process, history>>

(* The orchestrator gets the physics that are in the file, and records the  *)
(* opening as a commitment to those the process has read.                   *)
build_domain_context(o) ==
  /\ session[o].at = "asserted"
  /\ IF physics = Torn
     THEN /\ session' = [session EXCEPT ![o].at = "refused"]
          /\ UNCHANGED committed
     ELSE /\ session' = [session EXCEPT ![o].at = "open", ![o].runs = physics,
               ![o].early = crossed \/ severed \/ \E e \in Editors : edit[e].op = "update" /\ At(e, "hashed")]
          /\ committed' = committed \cup {session[o].claims}
  /\ UNCHANGED <<files, edit, readable, process, history>>

(* --- The process ---------------------------------------------------------- *)

(* The contexts of all domains are loaded before a request is served, and   *)
(* kept. An append that is cut off leaves a line that does not parse.       *)
Restart ==
  /\ cached' = IF physics = Torn THEN NoPhysics ELSE physics
  /\ enforcing' \in BOOLEAN
  /\ moved' = FALSE
  /\ severed' = (severed \/ \E e \in Editors : edit[e].op = "update" /\ At(e, "hashed"))
  /\ readable' \in
       IF \E e \in Editors : At(e, "hashed") /\ edit[e].op \notin Tools THEN {readable, FALSE} ELSE {readable}
  /\ edit' = [e \in Editors |->
       IF edit[e].op \in Tools \/ edit[e].at \in {"idle", "done"} THEN edit[e]
       ELSE [NoEdit EXCEPT !.op = edit[e].op, !.at = "failed"]]
  /\ session' = [o \in Openers |-> NoSession]
  /\ UNCHANGED <<files, committed, crossed>>

Next ==
  \/ \E e \in Editors :
       \/ update_domain_physics(e) \/ OpenTmp(e) \/ WriteTmp(e) \/ ReplaceFile(e) \/ AppendCommitment(e)
       \/ model_pack_commit(e) \/ cmd_commit(e) \/ cmd_rollback(e)
  \/ \E o \in Openers : assert_policy_commitment(o) \/ build_domain_context(o)

Spec == Init /\ [][Next \/ Restart]_vars

(* ---- Properties ---------------------------------------------------------- *)

(* An update that was answered is in the file, unless two have overlapped.  *)
UpdatesAreKept ==
  \A e \in Editors :
    edit[e].op = "update" /\ At(e, "done") /\ ~crossed => physics # Torn /\ e \in physics

(* A session under enforcement runs committed physics, unless it was opened *)
(* between an update's file and its record, or one was cut off there, or    *)
(* two have overlapped.                                                     *)
RunsCommitted ==
  enforcing => \A o \in Openers : session[o].at = "open" /\ ~session[o].early => session[o].runs \in committed

(* What a session's opening record names is what it runs, unless the file   *)
(* has changed since the process started.                                   *)
ClaimsWhatItRuns == \A o \in Openers : session[o].at = "open" /\ ~moved => session[o].runs = session[o].claims

(* A pack that was updated opens after a restart: only the physics as       *)
(* delivered are refused, unless an update was cut off or two overlapped.   *)
UpdatedPackOpens ==
  readable /\ ~crossed /\ ~severed => \A o \in Openers : session[o].at = "refused" => session[o].claims = {}
=============================================================================
