-------------------------------- MODULE Profiles --------------------------------
(***************************************************************************)
(* The profiles of the education pack: who teaches, assists and guards     *)
(* whom. A profile is one document, loaded, changed and saved as a whole,  *)
(* by coroutines which await every load and every save, by turns and by    *)
(* the daemon. Most operations change several profiles, one after another, *)
(* and nothing locks any of them. With SQLite there are two copies of a    *)
(* profile: turns load the row and save row and file, everything else uses *)
(* the file.                                                               *)
(***************************************************************************)
EXTENDS Naturals, Sequences

CONSTANTS
  Students, Teachers, Assistants, Guardians,
  NoOne,       (* nobody is assigned                                       *)
  Requests,    (* operations served at the same time                       *)
  MaxServed    (* operations served in one behaviour                       *)

VARIABLES
  engine,      (* "filesystem" or "sqlite"                                *)
  profile,     (* the documents kept as files, by path                     *)
  row,         (* the documents kept by key, where that is the database    *)
  req,         (* the operations being served                              *)
  served,      (* auxiliary: operations that have arrived                  *)
  spoilt,      (* auxiliary: people left by a save of an outdated copy, an *)
               (* operation cut short, or two that overlap on two people   *)
  uncascaded   (* auxiliary: teachers whose roster changed without the     *)
               (* assistants being told: by assign_ta, or unreadable       *)

vars == <<engine, profile, row, req, served, spoilt, uncascaded>>

People == Students \cup Teachers \cup Assistants \cup Guardians
Profile == [teacher: Teachers \cup {NoOne}, guardians: SUBSET Guardians,                      (* students   *)
            students: SUBSET Students, tas: SUBSET Assistants,                                (* teachers   *)
            supervisor: Teachers \cup {NoOne},                                                (* assistants *)
            children: SUBSET Students]                                                        (* guardians  *)
Empty == [teacher |-> NoOne, guardians |-> {}, students |-> {}, tas |-> {},
          supervisor |-> NoOne, children |-> {}]

(* A profile is made from the template of one role: nobody teaches, assists *)
(* or guards themself.                                                      *)
PeopleAssumption ==
  /\ NoOne \notin People
  /\ Teachers \cap (Students \cup Assistants) = {}
  /\ Students \cap Guardians = {}

(* --- The operations and what they load and save, in order ----------------- *)

(* A step loads or saves the profile of the student s, the teacher t, the   *)
(* assistant a or the guardian g of the operation, looks up the supervisor  *)
(* of a, or cascades to the assistants of t and tells each of them.         *)
Do(what, role) == [do |-> what, role |-> role, change |-> "none"]
Load(role) == Do("load", role)
Save(role, change) == [do |-> "save", role |-> role, change |-> change]

Program(op) ==
  CASE op \in {"assign_student", "request_teacher_assignment"} ->
         <<Load("s"), Save("s", "teacher"), Load("t"), Save("t", "add_student"),
           Do("cascade", "t"), Do("tell", "a"), Save("a", "add_student")>>
    [] op = "remove_student" ->
         <<Load("s"), Save("s", "no_teacher"), Load("t"), Save("t", "drop_student"),
           Do("cascade", "t"), Do("tell", "a"), Save("a", "drop_student")>>
    [] op \in {"assign_ta", "request_by_assistant"} -> <<Load("a"), Do("supervisor", "a")>>
    [] op = "assign_supervised" ->
         <<Load("t"), Save("t", "add_student"), Load("s"), Save("s", "teacher"),
           Save("t", "role"), Save("a", "add_student")>>
    [] op = "assign_alone" -> <<Save("a", "add_student")>>
    [] op = "request_alone" -> <<Save("a", "add_student"), Load("s"), Save("s", "other_fields")>>
    [] op = "request_ta_assignment" -> <<Load("a"), Load("t"), Save("a", "supervised"), Save("t", "add_ta")>>
    [] op = "assign_guardian" -> <<Load("s"), Save("s", "add_guardian"), Load("g"), Save("g", "add_child")>>
    [] op \in {"switch_active_module", "turn"} -> <<Load("s"), Save("s", "other_fields")>>
    [] op = "none" -> << >>

Kinds ==
  {"assign_student", "request_teacher_assignment", "remove_student", "assign_ta", "request_by_assistant",
   "assign_supervised", "assign_alone", "request_alone", "request_ta_assignment", "assign_guardian",
   "switch_active_module", "turn"}

(* An operation, the step of it that is next, those its cascade has yet to  *)
(* tell, and its copies of the profiles.                                    *)
Operation ==
  [op: Kinds \cup {"none"}, at: Nat, tell: SUBSET Assistants,
   s: People \cup {NoOne}, t: Teachers \cup {NoOne}, a: Assistants \cup {NoOne}, g: Guardians \cup {NoOne},
   held: [People -> Profile]]

Begin(op, s, t, a, g, held) ==
  [op |-> op, at |-> 1, tell |-> {}, s |-> s, t |-> t, a |-> a, g |-> g, held |-> held]
Nothing == [p \in People |-> Empty]
Idle == Begin("none", NoOne, NoOne, NoOne, NoOne, Nothing)

TypeOK ==
  /\ engine \in {"filesystem", "sqlite"}
  /\ profile \in [People -> Profile] /\ row \in [People -> Profile]
  /\ spoilt \subseteq People /\ uncascaded \subseteq Teachers /\ served \in Nat
  /\ req \in [Requests -> Operation]
  /\ \A r \in Requests : req[r].op # "none" => req[r].at \in DOMAIN Program(req[r].op)

Init ==
  /\ engine \in {"filesystem", "sqlite"}
  /\ profile = [p \in People |-> Empty] /\ row = profile
  /\ spoilt = {} /\ uncascaded = {}
  /\ req = [r \in Requests |-> Idle]
  /\ served = 0

Doing(r, what) == req[r].op # "none" /\ Program(req[r].op)[req[r].at].do = what
Change(r) == Program(req[r].op)[req[r].at].change
Role(r) == Program(req[r].op)[req[r].at].role
Who(r) ==
  CASE Role(r) = "s" -> req[r].s [] Role(r) = "t" -> req[r].t
    [] Role(r) = "a" -> req[r].a [] Role(r) = "g" -> req[r].g

Involved(r) == ({req[r].s, req[r].t, req[r].a, req[r].g} \cap People) \cup req[r].tell
Busy == {r \in Requests : req[r].op # "none"}
Common(q, r) == Involved(q) \cap Involved(r)
Overlap == {p \in People : \E q, r \in Busy : q # r /\ p \in Common(q, r) /\ Common(q, r) # {p}}
Leave(people) == spoilt' = spoilt \cup people \cup Overlap'

(* After its last step an operation tells the next assistant, if any.       *)
After(q) ==
  IF q.at < Len(Program(q.op)) THEN [q EXCEPT !.at = @ + 1]
  ELSE IF q.tell # {} THEN [q EXCEPT !.at = @ - 1, !.a = NoOne]
  ELSE Idle

Arrive(r, op, s, t, a, g) ==
  /\ req[r].op = "none" /\ served < MaxServed
  /\ served' = served + 1
  /\ req' = [req EXCEPT ![r] = Begin(op, s, t, a, g, Nothing)]
  /\ Leave({})
  /\ UNCHANGED <<engine, profile, row, uncascaded>>

assign_student(r, s, t) == Arrive(r, "assign_student", s, t, NoOne, NoOne)

(* As if the removal left the student's own profile as it was: for a mutant. *)
remove_student_from_roster_only(r, s, t) ==
  /\ req[r].op = "none" /\ served < MaxServed
  /\ served' = served + 1
  /\ req' = [req EXCEPT ![r] = [Begin("remove_student", s, t, NoOne, NoOne, Nothing) EXCEPT !.at = 3]]
  /\ Leave({})
  /\ UNCHANGED <<engine, profile, row, uncascaded>>

(* Whoever the student's teacher is, it is not that one any longer.         *)
remove_student(r, s, t) == Arrive(r, "remove_student", s, t, NoOne, NoOne)

(* The assistant's profile is loaded first and saved last; the teacher's    *)
(* roster grows, and the other assistants are not told.                     *)
assign_ta(r, a, s) == Arrive(r, "assign_ta", s, NoOne, a, NoOne)

(* A student asks for a teacher, or for an assistant, whose supervising     *)
(* teacher it is then; without one it is the assistant alone.               *)
request_teacher_assignment(r, s, who) ==
  IF who \in Teachers THEN Arrive(r, "request_teacher_assignment", s, who, NoOne, NoOne)
  ELSE Arrive(r, "request_by_assistant", s, NoOne, who, NoOne)

request_ta_assignment(r, a, t) == Arrive(r, "request_ta_assignment", NoOne, t, a, NoOne)

assign_guardian(r, s, g) == Arrive(r, "assign_guardian", s, NoOne, NoOne, g)

(* A switch of the active module, like the daemon's scan, changes other     *)
(* fields and saves these as they were.                                     *)
switch_active_module(r, s) == Arrive(r, "switch_active_module", s, NoOne, NoOne, NoOne)

(* So does a turn, but what it loads and saves is the document kept by key. *)
Turn(r, s) == Arrive(r, "turn", s, NoOne, NoOne, NoOne)

(* --- Their steps ---------------------------------------------------------- *)

(* An operation takes a profile that cannot be read for an empty one; a turn *)
(* gives up. The filesystem keeps one document under the key and the path.   *)
Read(r, who) ==
  IF req[r].op # "turn" THEN {profile[who], Empty}
  ELSE IF engine = "sqlite" THEN {row[who]} ELSE {profile[who]}

LoadProfile(r) ==
  /\ Doing(r, "load")
  /\ \E read \in Read(r, Who(r)) :
       req' = [req EXCEPT ![r] = After([@ EXCEPT !.held[Who(r)] = read])]
  /\ Leave({})
  /\ UNCHANGED <<engine, profile, row, served, uncascaded>>

Changed(r, p) ==
  LET q == req[r] change == Change(r) IN
  CASE change = "teacher"        -> [p EXCEPT !.teacher = q.t]
    [] change = "no_teacher"     -> [p EXCEPT !.teacher = NoOne]
    [] change = "add_student"    -> [p EXCEPT !.students = @ \cup {q.s}]
    [] change = "drop_student"   -> [p EXCEPT !.students = @ \ {q.s}]
    [] change = "supervised"     -> [p EXCEPT !.supervisor = q.t, !.students = q.held[q.t].students]
    [] change = "add_ta"         -> [p EXCEPT !.tas = @ \cup {q.a}]
    [] change = "add_guardian"   -> [p EXCEPT !.guardians = @ \cup {q.g}]
    [] change = "add_child"      -> [p EXCEPT !.children = @ \cup {q.s}]
    [] change \in {"role", "other_fields"} -> p

(* remove_student, assign_ta and the cascades do not save what they need    *)
(* not change; nor a request by an assistant the assistant's profile.       *)
Skips(r) ==
  /\ Change(r) \in {"add_student", "drop_student"}
  /\ Changed(r, req[r].held[Who(r)]) = req[r].held[Who(r)]
  /\ IF Role(r) = "t" THEN req[r].op \in {"remove_student", "assign_supervised"}
     ELSE req[r].op \notin {"assign_supervised", "assign_alone"}

Stale(r) == IF req[r].held[Who(r)] # profile[Who(r)] THEN {Who(r)} ELSE {}

SaveProfile(r) ==
  LET new == Changed(r, req[r].held[Who(r)]) IN
  /\ Doing(r, "save") /\ ~Skips(r)
  /\ profile' = [profile EXCEPT ![Who(r)] = new]
  /\ row' = IF req[r].op = "turn" THEN [row EXCEPT ![Who(r)] = new] ELSE row
  /\ req' = [req EXCEPT ![r] = After([@ EXCEPT !.held[Who(r)] = new])]
  /\ Leave(Stale(r))
  /\ UNCHANGED <<engine, served, uncascaded>>

(* A role in the student's domain is saved when the teacher gains it.       *)
SkipSave(r) ==
  /\ Doing(r, "save") /\ (Skips(r) \/ Change(r) = "role")
  /\ req' = [req EXCEPT ![r] = After(@)]
  /\ Leave(Stale(r))
  /\ UNCHANGED <<engine, profile, row, served, uncascaded>>

(* _sync_ta_students: the teacher's profile is loaded once more, and then   *)
(* one assistant's after the other.                                         *)
Cascade(r) ==
  /\ Doing(r, "cascade")
  /\ \E read \in Read(r, req[r].t) :
       /\ req' = [req EXCEPT ![r] = IF read.tas = {} THEN Idle ELSE After([@ EXCEPT !.tell = read.tas])]
       /\ uncascaded' = IF read.tas = profile[req[r].t].tas THEN uncascaded ELSE uncascaded \cup {req[r].t}
  /\ Leave({})
  /\ UNCHANGED <<engine, profile, row, served>>

Tell(r) ==
  /\ Doing(r, "tell")
  /\ \E a \in req[r].tell : \E read \in Read(r, a) :
       req' = [req EXCEPT ![r] = After([@ EXCEPT !.a = a, !.tell = req[r].tell \ {a}, !.held[a] = read])]
  /\ Leave({})
  /\ UNCHANGED <<engine, profile, row, served, uncascaded>>

(* The supervising teacher, as the copy of the assistant's profile has it.  *)
(* assign_ta changes the teacher's roster and tells no other assistant; a   *)
(* request is for that teacher then, and for the assistant if there is none. *)
Supervised(q, t) ==
  CASE q.op = "assign_ta" /\ t # NoOne -> Begin("assign_supervised", q.s, t, q.a, NoOne, q.held)
    [] q.op = "assign_ta" /\ t = NoOne -> Begin("assign_alone", q.s, NoOne, q.a, NoOne, q.held)
    [] q.op # "assign_ta" /\ t # NoOne -> Begin("request_teacher_assignment", q.s, t, NoOne, NoOne, q.held)
    [] q.op # "assign_ta" /\ t = NoOne -> Begin("request_alone", q.s, NoOne, q.a, NoOne, q.held)

Supervisor(r) ==
  LET t == req[r].held[req[r].a].supervisor IN
  /\ Doing(r, "supervisor")
  /\ req' = [req EXCEPT ![r] = Supervised(@, t)]
  /\ uncascaded' = IF req[r].op = "assign_ta" /\ t # NoOne THEN uncascaded \cup {t} ELSE uncascaded
  /\ Leave({})
  /\ UNCHANGED <<engine, profile, row, served>>

(* An error, or the process stopping, between two steps.                    *)
CutShort(r) ==
  /\ req[r].op # "none"
  /\ req' = [req EXCEPT ![r] = Idle]
  /\ Leave(Involved(r))
  /\ UNCHANGED <<engine, profile, row, served, uncascaded>>

Restart ==
  /\ req' = [r \in Requests |-> Idle]
  /\ Leave(UNION {Involved(r) : r \in Busy})
  /\ UNCHANGED <<engine, profile, row, served, uncascaded>>

Serve(r) ==
  \/ \E s \in Students, t \in Teachers : assign_student(r, s, t) \/ remove_student(r, s, t)
  \/ \E s \in Students, who \in Teachers \cup Assistants : request_teacher_assignment(r, s, who)
  \/ \E a \in Assistants, s \in Students : assign_ta(r, a, s)
  \/ \E a \in Assistants, t \in Teachers : request_ta_assignment(r, a, t)
  \/ \E s \in Students, g \in Guardians : assign_guardian(r, s, g)
  \/ \E s \in Students : switch_active_module(r, s)
  \/ \E p \in Students \cup Teachers : Turn(r, p)

Next ==
  \E r \in Requests :
    \/ Serve(r)
    \/ LoadProfile(r) \/ SaveProfile(r) \/ SkipSave(r) \/ Cascade(r) \/ Tell(r) \/ Supervisor(r)
    \/ CutShort(r)

Spec == Init /\ [][Next \/ Restart]_vars

(* ---- Properties ---------------------------------------------------------- *)

(* People no operation is busy with, and none has left half-changed.        *)
Settled(people) == people \cap (spoilt \cup UNION {Involved(r) : r \in Busy}) = {}

(* A student's teacher has the student on the roster: assignments, requests *)
(* by way of an assistant and removals change both profiles, in two saves.  *)
TeacherHasStudent ==
  \A s \in Students, t \in Teachers :
    Settled({s, t}) /\ profile[s].teacher = t => s \in profile[t].students

(* A guardian's children are the students who have that guardian.           *)
GuardiansAreMutual ==
  \A s \in Students, g \in Guardians :
    Settled({s, g}) => (g \in profile[s].guardians <=> s \in profile[g].children)

(* The roster of a supervising teacher reaches the assistants, through      *)
(* _sync_ta_students or the copy made when the assistant joins, unless      *)
(* assign_ta has changed it, it could not be read for the cascade, or a     *)
(* former supervisor still lists them: that teacher's removals reach them.  *)
AssistantsFollow ==
  \A a \in Assistants, t \in Teachers \ uncascaded :
    /\ Settled({a} \cup Teachers) /\ profile[a].supervisor = t
    /\ \A u \in Teachers \ {t} : a \notin profile[u].tas
    => a \in profile[t].tas /\ profile[t].students \subseteq profile[a].students
=============================================================================
