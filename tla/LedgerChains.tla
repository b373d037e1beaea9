------------------------------ MODULE LedgerChains ------------------------------
(***************************************************************************)
(* One ledger of the system log and everybody who appends to it: writers of *)
(* sessions, which keep the hash of their own last record in memory and     *)
(* begin at "genesis"; requests of administrators, whose records always say *)
(* "genesis"; and the tools beside the server, which read the ledger and    *)
(* append to what they read, one of them after a question. Nothing locks    *)
(* the file, and an append that is cut off leaves a line without its end. A *)
(* record is modelled by a number, its hash by that and whether it was      *)
(* changed on disk.                                                         *)
(***************************************************************************)
EXTENDS Naturals, SequencesExt

CONSTANTS
  Writers,     (* the writers of sessions whose records go to the ledger   *)
  Runs,        (* runs of the tools and verifications by the server        *)
  MaxRecords   (* bound on the records                                     *)

VARIABLES
  ledger,      (* the lines of the file, in order                          *)
  count,       (* records composed so far                                  *)
  writer,      (* Writers -> whether it is open and wrote, and _prev_hash  *)
  run,         (* Runs -> the tool                                         *)
  latest,      (* history: who appended last                               *)
  mixed,       (* history: somebody appended after another's record        *)
  snapped,     (* history: an append was cut off                           *)
  changed,     (* history: a line was changed or removed, at most once     *)
  broken       (* history: that was followed by another, in an intact file *)

vars == <<ledger, count, writer, run, latest, mixed, snapped, changed, broken>>
history == <<mixed, snapped, changed, broken>>

Numbers == 0..MaxRecords
Hash == Numbers \X BOOLEAN
genesis == <<0, FALSE>>
Line == [id: Numbers, prev: Hash, text: {"whole", "cut", "spoilt"}, altered: BOOLEAN]
hash_record(r) == <<r.id, r.altered>>

Tools == {"cmd_commit", "cmd_rollback", "run_security_freeze"}
Verifiers == {"cmd_verify_chain", "validate_log_chain"}
NoRun == [op |-> "none", at |-> "idle", last |-> genesis, verdict |-> "none", of |-> "clean", length |-> 0]

TypeOK ==
  /\ ledger \in Seq(Line) /\ Len(ledger) <= MaxRecords
  /\ count \in Numbers
  /\ writer \in [Writers -> [open: BOOLEAN, wrote: BOOLEAN, prev: Hash]]
  /\ run \in [Runs -> [op: {"none"} \cup Tools \cup Verifiers, at: {"idle", "loaded", "done"}, last: Hash,
                       verdict: {"none", "intact", "broken", "raised"}, of: {"clean", "broken"}, length: Numbers]]
  /\ latest \in Writers \cup Runs \cup {"admin", "none"}
  /\ mixed \in BOOLEAN /\ snapped \in BOOLEAN /\ changed \in BOOLEAN /\ broken \in BOOLEAN

Init ==
  /\ ledger = <<>> /\ count = 0 /\ latest = "none"
  /\ writer = [w \in Writers |-> [open |-> FALSE, wrote |-> FALSE, prev |-> genesis]]
  /\ run = [t \in Runs |-> NoRun]
  /\ mixed = FALSE /\ snapped = FALSE /\ changed = FALSE /\ broken = FALSE

(* --- The file ------------------------------------------------------------- *)

verify_chain(records) ==
  \A i \in DOMAIN records : records[i].prev = IF i = 1 THEN genesis ELSE hash_record(records[i - 1])

Parses(line) == line.text = "whole"
AllParse == \A i \in DOMAIN ledger : Parses(ledger[i])
Intact == AllParse /\ verify_chain(ledger)

(* What follows a line without its end becomes part of that line.           *)
Added(text, prev) ==
  IF ledger # <<>> /\ Last(ledger).text = "cut"
  THEN [ledger EXCEPT ![Len(ledger)].text = IF text = "whole" THEN "spoilt" ELSE "cut"]
  ELSE Append(ledger, [id |-> count + 1, prev |-> prev, text |-> text, altered |-> FALSE])

(* The record reaches the file, or a part of it does and the append fails.  *)
Append_record(by, prev) ==
  /\ count < MaxRecords /\ count' = count + 1
  /\ ledger' = Added("whole", prev)
  /\ latest' = by
  /\ UNCHANGED <<snapped, changed, broken>>

Append_fails(prev) ==
  /\ count < MaxRecords /\ count' = count + 1
  /\ ledger' = Added("cut", prev)
  /\ snapped' = TRUE
  /\ UNCHANGED <<mixed, changed, broken, latest>>

(* --- The server ----------------------------------------------------------- *)

(* Every context of a session gets a writer of its own, which starts over.  *)
SystemLogWriter(w) ==
  /\ ~writer[w].open
  /\ writer' = [writer EXCEPT ![w] = [open |-> TRUE, wrote |-> FALSE, prev |-> genesis]]
  /\ UNCHANGED <<ledger, count, run, latest, history>>

_append_log_record(w) ==
  /\ writer[w].open
  /\ UNCHANGED run
  /\ \/ /\ Append_record(w, writer[w].prev)
        /\ writer' = [writer EXCEPT ![w].wrote = TRUE, ![w].prev = <<count', FALSE>>]
        /\ mixed' = (mixed \/ latest # (IF writer[w].wrote THEN w ELSE "none"))
     \/ /\ Append_fails(writer[w].prev)
        /\ UNCHANGED writer

(* build_trace_event and build_commitment_record, their default in place.   *)
Admin_record ==
  /\ UNCHANGED <<writer, run>>
  /\ \/ Append_record("admin", genesis) /\ mixed' = (mixed \/ latest # "none")
     \/ Append_fails(genesis)

(* --- Verification --------------------------------------------------------- *)

Verify(t, op) ==
  /\ run[t].at = "idle"
  /\ run' = [run EXCEPT ![t] =
       [NoRun EXCEPT !.op = op, !.at = "done", !.of = IF broken THEN "broken" ELSE "clean",
          !.verdict = IF ~AllParse THEN "raised" ELSE IF verify_chain(ledger) THEN "intact" ELSE "broken"]]
  /\ UNCHANGED <<ledger, count, writer, latest, history>>

(* --- The tools ------------------------------------------------------------ *)

(* The freeze skips what does not parse, the others end there.              *)
load_ledger(t, op) ==
  LET records == SelectSeq(ledger, Parses) IN
  /\ run[t].at = "idle"
  /\ run' = [run EXCEPT ![t] =
       IF op # "run_security_freeze" /\ ~AllParse
       THEN [NoRun EXCEPT !.op = op, !.at = "done", !.verdict = "raised"]
       ELSE [NoRun EXCEPT !.op = op, !.at = "loaded", !.of = IF broken THEN "broken" ELSE "clean", !.length = count,
               !.last = IF records = <<>> THEN genesis ELSE hash_record(Last(records)),
               !.verdict = IF op # "run_security_freeze" THEN "none"
                           ELSE IF verify_chain(records) THEN "intact" ELSE "broken"]]
  /\ UNCHANGED <<ledger, count, writer, latest, history>>

append_record(t) ==
  /\ run[t].at = "loaded"
  /\ run' = [run EXCEPT ![t].at = "done"]
  /\ UNCHANGED writer
  /\ \/ Append_record(t, run[t].last) /\ mixed' = (mixed \/ count # run[t].length)
     \/ Append_fails(run[t].last)

(* The rollback asks after it has read, and is not confirmed.               *)
Aborted(t) ==
  /\ run[t].at = "loaded" /\ run[t].op = "cmd_rollback"
  /\ run' = [run EXCEPT ![t].at = "done"]
  /\ UNCHANGED <<ledger, count, writer, latest, history>>

(* --- The disk and the process --------------------------------------------- *)

(* One record is edited, or its line removed.                               *)
Change(i) ==
  /\ ~changed /\ changed' = TRUE
  /\ Parses(ledger[i])
  /\ broken' = (Intact /\ i < Len(ledger))
  /\ \/ ledger' = [ledger EXCEPT ![i].altered = TRUE]
     \/ ledger' = RemoveAt(ledger, i)
  /\ UNCHANGED <<count, writer, run, latest, mixed, snapped>>

Restart ==
  /\ writer' = [w \in Writers |-> [open |-> FALSE, wrote |-> FALSE, prev |-> genesis]]
  /\ UNCHANGED <<ledger, count, run, latest, history>>

Next ==
  \/ \E w \in Writers : SystemLogWriter(w) \/ _append_log_record(w)
  \/ Admin_record
  \/ \E t \in Runs :
       \/ \E op \in Verifiers : Verify(t, op)
       \/ \E op \in Tools : load_ledger(t, op)
       \/ append_record(t) \/ Aborted(t)
  \/ \E i \in DOMAIN ledger : Change(i)

Spec == Init /\ [][Next \/ Restart]_vars

(* ---- Properties ---------------------------------------------------------- *)

(* A ledger verifies if each append followed the appender's own last record *)
(* or, for a tool, what it had read, none was cut off and no line changed.  *)
SoleChainsVerify == ~mixed /\ ~snapped /\ ~changed => Intact

(* A record that was edited or removed before another one of an intact file *)
(* is noticed by every verification that reads the ledger afterwards,       *)
(* whoever appends in between.                                              *)
ChangesAreDetected == \A t \in Runs : run[t].of = "broken" => run[t].verdict # "intact"

(* The server and the validator never call a ledger broken that was written *)
(* by one at a time, whole and unchanged.                                   *)
AlarmsHaveCause ==
  \A t \in Runs :
    /\ run[t].verdict = "broken" => mixed \/ snapped \/ changed
    /\ run[t].verdict = "raised" => snapped
=============================================================================
