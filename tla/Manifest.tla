-------------------------------- MODULE Manifest --------------------------------
(***************************************************************************)
(* docs/MANIFEST.yaml, the recorded hashes of the project's artifacts, and  *)
(* the jobs of manifest_integrity.py on it: check, regen, and discover with *)
(* --add, run by a tool or by an endpoint of the server, with nothing to    *)
(* keep them apart. Each reads the manifest, hashes the files one after the *)
(* other, reads the manifest once more and writes it over itself. The text  *)
(* is modelled by its entries, a hash by the content it is of.              *)
(***************************************************************************)
EXTENDS Naturals, SequencesExt

CONSTANTS
  Jobs,        (* runs of the tool or of the endpoints, one each           *)
  Artifacts,   (* paths of files in the packs                              *)
  MaxEdits     (* bound on the changes of files                            *)

VARIABLES
  artifacts,   (* Artifacts -> the content of the file, or "gone"          *)
  manifest,    (* the entries in docs/MANIFEST.yaml, in order              *)
  job,         (* Jobs -> the run                                          *)
  edits,       (* how often files were changed                             *)
  had,         (* history: Artifacts -> the contents the file has had      *)
  vouched,     (* history: Artifacts -> the last hash a regen recorded     *)
  tangled,     (* history: two jobs that write have overlapped             *)
  clipped      (* history: a job was killed while it wrote                 *)

vars == <<artifacts, manifest, job, edits, had, vouched, tangled, clipped>>

Contents == {"v1", "v2"}
Elsewhere == "elsewhere"     (* a path cut off, where no file is *)
Entry == [path: Artifacts \cup {Elsewhere}, sha256: Contents \cup {"absent", "pending", "partial"}]
Paths(text) == {e.path : e \in Range(text)}

Regens == {"regen_manifest", "regen_manifest_report"}
Unhashed == [a \in Artifacts |-> "none"]
NoJob == [op |-> "none", at |-> "idle", text |-> <<>>, hashes |-> Unhashed, passed |-> TRUE, altered |-> {}]

TypeOK ==
  /\ artifacts \in [Artifacts -> Contents \cup {"gone"}]
  /\ manifest \in Seq(Entry)
  /\ job \in [Jobs -> [op: {"none", "check_manifest", "discover"} \cup Regens,
                       at: {"idle", "found", "parsed", "ready", "opened", "written", "done", "failed"},
                       text: Seq(Entry), hashes: [Artifacts -> Contents \cup {"none", "gone"}],
                       passed: BOOLEAN, altered: SUBSET Artifacts]]
  /\ edits \in 0..MaxEdits
  /\ had \in [Artifacts -> SUBSET Contents]
  /\ vouched \in [Artifacts -> Contents \cup {"none"}]
  /\ tangled \in BOOLEAN /\ clipped \in BOOLEAN

(* A manifest somebody wrote: entries may have no hash yet, or no such line.*)
Init ==
  /\ artifacts = [a \in Artifacts |-> "v1"] /\ had = [a \in Artifacts |-> {"v1"}]
  /\ \E S \in SUBSET Artifacts : \E h \in {"absent", "pending", "v1"} :
       manifest = [i \in DOMAIN SetToSeq(S) |-> [path |-> SetToSeq(S)[i], sha256 |-> h]]
  /\ job = [j \in Jobs |-> NoJob]
  /\ edits = 0 /\ vouched = Unhashed /\ tangled = FALSE /\ clipped = FALSE

At(j, at) == job[j].at = at
Go(j, at) == [job EXCEPT ![j].at = at]
End(j, at) == [job EXCEPT ![j] = [@ EXCEPT !.at = at, !.text = <<>>, !.hashes = Unhashed]]
Checking(j) == job[j].op = "check_manifest"
Served(j) == job[j].op = "regen_manifest_report"      (* by the endpoint *)
Busy(j) == ~Checking(j) /\ job[j].at \in {"found", "parsed", "ready", "opened"}
history == <<had, vouched, tangled, clipped>>
world == <<artifacts, edits, had>>

(* --- Reading -------------------------------------------------------------- *)

(* What the entries on disk say of files that were changed since.           *)
Altered == {a \in Artifacts : vouched[a] # "none" /\ artifacts[a] \notin {"gone", vouched[a]}}

_parse_artifacts(j, op) ==
  /\ At(j, "idle")
  /\ job' = [job EXCEPT ![j] =
       [NoJob EXCEPT !.op = op, !.text = manifest, !.at = IF op = "discover" THEN "found" ELSE "parsed",
          !.altered = IF \E i \in Jobs : Busy(i) THEN {} ELSE Altered]]
  /\ tangled' = (tangled \/ (op # "check_manifest" /\ \E i \in Jobs : Busy(i)))
  /\ UNCHANGED <<manifest, vouched, clipped, world>>

(* --- check ---------------------------------------------------------------- *)

(* The next entry. A file that is missing, and a hash that is pending, are  *)
(* reported but do not fail the check.                                      *)
Compare(j) ==
  LET e == Head(job[j].text) IN
  /\ Checking(j) /\ At(j, "parsed") /\ job[j].text # <<>>
  /\ job' = [job EXCEPT ![j].text = Tail(@),
       ![j].passed = @ /\ \/ e.path = Elsewhere \/ artifacts[e.path] = "gone"
                          \/ e.sha256 \in {"absent", "pending", artifacts[e.path]}]
  /\ UNCHANGED <<manifest, history, artifacts, edits>>

Report(j) ==
  /\ Checking(j) /\ At(j, "parsed") /\ job[j].text = <<>>
  /\ job' = End(j, "done")
  /\ UNCHANGED <<manifest, history, artifacts, edits>>

(* --- regen ---------------------------------------------------------------- *)

ToHash(j) == {a \in Paths(job[j].text) \cap Artifacts : job[j].hashes[a] = "none"}

_sha256_file(j, a) ==
  /\ ~Checking(j) /\ At(j, "parsed") /\ ToHash(j) # {} /\ a = SetToSeq(ToHash(j))[1]
  /\ job' = [job EXCEPT ![j].hashes[a] = artifacts[a]]
  /\ UNCHANGED <<manifest, history, artifacts, edits>>

(* The lines as they are by now. A hash replaces what the entry's line says,*)
(* an entry without such a line gets none.                                  *)
Rewrite(j) ==
  /\ ~Checking(j) /\ At(j, "parsed") /\ ToHash(j) = {}
  /\ job' = [job EXCEPT ![j].at = "ready",
       ![j].text = [i \in DOMAIN manifest |->
         LET e == manifest[i] IN
         IF e.sha256 = "absent" \/ e.path = Elsewhere \/ job[j].hashes[e.path] \in {"none", "gone"} THEN e
         ELSE [e EXCEPT !.sha256 = job[j].hashes[e.path]]]]
  /\ UNCHANGED <<manifest, history, artifacts, edits>>

(* --- discover --add ------------------------------------------------------- *)

Untracked(j) == {a \in Artifacts \ Paths(job[j].text) : artifacts[a] # "gone"}

NothingFound(j) ==
  /\ At(j, "found") /\ Untracked(j) = {}
  /\ job' = End(j, "done")
  /\ UNCHANGED <<manifest, history, artifacts, edits>>

(* What the first reading did not track is added to what the second reads.  *)
Append_entries(j) ==
  LET new == SetToSeq(Untracked(j)) IN
  /\ At(j, "found") /\ new # <<>>
  /\ job' = [job EXCEPT ![j].at = "ready",
       ![j].text = manifest \o [i \in DOMAIN new |-> [path |-> new[i], sha256 |-> "pending"]]]
  /\ UNCHANGED <<manifest, history, artifacts, edits>>

(* --- Writing: write_text empties the file first --------------------------- *)

Open(j) ==
  /\ At(j, "ready")
  /\ manifest' = <<>>
  /\ job' = Go(j, "opened")
  /\ UNCHANGED <<artifacts, edits, history>>

(* What was added is hashed by a regen that follows.                        *)
Write(j) ==
  /\ At(j, "opened")
  /\ manifest' = job[j].text
  /\ IF job[j].op = "discover" /\ job[j].hashes = Unhashed
     THEN /\ job' = Go(j, "parsed")
          /\ UNCHANGED vouched
     ELSE /\ job' = End(j, IF Served(j) THEN "written" ELSE "done")
          /\ vouched' = [a \in Artifacts |->
               IF \E e \in Range(job[j].text) : e.path = a /\ e.sha256 = job[j].hashes[a]
               THEN job[j].hashes[a] ELSE vouched[a]]
  /\ UNCHANGED <<world, tangled, clipped>>

(* The guard of the endpoint fails a regen whose record was not written,    *)
(* after the manifest is.                                                   *)
manifest_regen(j) ==
  /\ At(j, "written")
  /\ \E answer \in {"done", "failed"} : job' = Go(j, answer)
  /\ UNCHANGED <<manifest, history, artifacts, edits>>

(* --- The files and the processes ------------------------------------------ *)

(* What is edited while a check runs may or may not have been compared.     *)
Change(a) ==
  /\ edits < MaxEdits /\ edits' = edits + 1
  /\ \E content \in (Contents \cup {"gone"}) \ {artifacts[a]} :
       /\ artifacts' = [artifacts EXCEPT ![a] = content]
       /\ had' = [had EXCEPT ![a] = @ \cup ({content} \ {"gone"})]
  /\ job' = [j \in Jobs |-> IF Checking(j) THEN [job[j] EXCEPT !.altered = @ \ {a}] ELSE job[j]]
  /\ UNCHANGED <<manifest, vouched, tangled, clipped>>

(* A text cut off: in the path or in the hash of an entry, or before it.    *)
Clipped(text) ==
  {SubSeq(text, 1, k) : k \in 0..Len(text)} \cup
  UNION {{Append(SubSeq(text, 1, k - 1), e) :
            e \in {[path |-> Elsewhere, sha256 |-> "absent"]} \cup [path: {text[k].path}, sha256: {"absent", "partial"}]} :
         k \in DOMAIN text}

Stop(stopped) ==
  /\ manifest' \in {manifest} \cup UNION {Clipped(job[j].text) : j \in {i \in stopped : At(i, "opened")}}
  /\ clipped' = (clipped \/ \E j \in stopped : At(j, "opened"))
  /\ job' = [j \in Jobs |->
       IF j \in stopped /\ job[j].at \notin {"idle", "done"} THEN [NoJob EXCEPT !.op = job[j].op, !.at = "failed"] ELSE job[j]]
  /\ UNCHANGED <<world, vouched, tangled>>

Kill(j) == ~Served(j) /\ job[j].at \notin {"idle", "done", "failed"} /\ Stop({j})
Restart == Stop({j \in Jobs : Served(j)})

Next ==
  \/ \E j \in Jobs :
       \/ \E op \in Regens \cup {"check_manifest", "discover"} : _parse_artifacts(j, op)
       \/ Compare(j) \/ Report(j) \/ Rewrite(j) \/ NothingFound(j) \/ Append_entries(j)
       \/ \E a \in Artifacts : _sha256_file(j, a)
       \/ Open(j) \/ Write(j) \/ manifest_regen(j) \/ Kill(j)
  \/ \E a \in Artifacts : Change(a)

Spec == Init /\ [][Next \/ Restart]_vars

(* ---- Properties ---------------------------------------------------------- *)

(* However jobs cross or are killed, a hash in the manifest is of a content *)
(* that the file of that entry has had.                                     *)
HashesAreOfTheirFiles ==
  \A e \in Range(manifest) : e.sha256 \in Contents => e.path # Elsewhere /\ e.sha256 \in had[e.path]

(* What a regen recorded is in the manifest until another one records,      *)
(* unless two jobs crossed or one was killed in its write.                  *)
RegensAreKept ==
  ~tangled /\ ~clipped /\ (\A j \in Jobs : ~At(j, "opened")) =>
    \A a \in Artifacts : vouched[a] # "none" =>
      a \in Paths(manifest) /\ \A e \in Range(manifest) : e.path = a => e.sha256 \in {vouched[a], "absent"}

(* A check does not pass over a file that was changed since its hash was    *)
(* recorded and is there; with the same exceptions.                         *)
ChangesAreNoticed ==
  ~tangled /\ ~clipped => \A j \in Jobs :
    Checking(j) /\ At(j, "done") /\ job[j].passed => job[j].altered = {}
=============================================================================
