------------------------------ MODULE MCApiServer ------------------------------
(***************************************************************************)
(* Instances of ApiServer for TLC. The components share no variable but    *)
(* the backend, which never changes, so that what one of them does cannot  *)
(* matter to a property of another one: each behaviour here is one in      *)
(* which a single component moves, and the process restarts.               *)
(***************************************************************************)
EXTENDS ApiServer, Naturals, TLC

CONSTANTS t1, t2   (* texts *)

VARIABLE mover   (* the component that moves *)

(* An event of the own domain that everybody may see, and an audit event.   *)
SomeKinds ==
  {[level |-> "warning", category |-> "escalation", domain |-> "mine"],
   [level |-> "audit", category |-> "hash_chain", domain |-> "other"]}

First == CHOOSE r \in DomainRoles : TRUE
NoRights == [roles |-> [k \in Perm!Keys |-> Absent], governed |-> {}]
SomeRights == {NoRights} \cup [roles: [Perm!Keys -> {Absent, First}], governed: {{"module"}}]
NoPermissions ==
  [owner |-> FALSE, bits |-> {}, group |-> "user", members |-> {}, acl |-> {<<"user", "x">>},
   roles |-> DomainRoles, access |-> {}, guest_access |-> TRUE]
SomePermissions ==
  [owner: BOOLEAN, bits: SUBSET {"owner", "group", "others"}, group: {"admin", "user", "members"},
   members: {{}, DomainRoles}, acl: {{<<"user", "x">>}, {<<"admin", "i">>}}, roles: {DomainRoles},
   access: {{}, {First}}, guest_access: {TRUE}]

(* A manifest with an entry that has no hash; discover adds and hashes more. *)
SomeManifest == <<[path |-> CHOOSE a \in Threads : TRUE, sha256 |-> "absent"]>>

(* A pack without documents, with one text, and with another one before it.  *)
SomeEditions == {<< >>, <<t1>>, <<t2, t1>>}

SomeGlossaries == [Know!DomainIds -> [Terms -> {"no", "term", "alias"}]]
PlainGlossary == [d \in Know!DomainIds |-> [w \in Terms |-> "term"]]

(* One user is an operator, the other one a teacher; roles change to others. *)
SomeUsers == {u \in [Requests -> {"operator", "teacher"}] : \A role \in {"operator", "teacher"} : \E w \in Requests : u[w] = role}

MCInit ==
  /\ mover \in {"accounts", "tokens", "confirmations", "staging", "ingestion", "bus", "records", "documents", "night",
               "packs", "manifest", "chains", "feeds", "grants", "permissions", "governance",
               "retrieval", "knowledge", "graph"}
  /\ backend \in IF mover \in {"accounts", "records", "documents", "grants"}
                 THEN {"filesystem", "sqlite"} ELSE {"filesystem"}
  /\ enforcing \in IF mover = "packs" THEN BOOLEAN ELSE {TRUE}
  /\ committed \in IF mover = "packs" THEN {{}, {{}}} ELSE {{}}
  /\ manifest = IF mover = "manifest" THEN SomeManifest ELSE << >>
  /\ user \in IF mover = "feeds" THEN SomeUsers ELSE {[w \in Requests |-> "root"]}
  /\ rights \in IF mover = "grants" THEN SomeRights ELSE {NoRights}
  /\ permissions \in IF mover = "permissions" THEN SomePermissions ELSE {NoPermissions}
  /\ loadable \in IF mover = "governance" THEN BOOLEAN ELSE {TRUE}
  /\ documents = [s \in Stores |-> <<t1>>]
  /\ glossary \in IF mover = "knowledge" THEN SomeGlossaries ELSE {PlainGlossary}
  /\ Init
  /\ \A h \in Holders : account[h].role = "user"

MCNext ==
  /\ UNCHANGED mover
  /\ \/ /\ mover = "accounts" /\ AccountStep
        /\ served' # served /\ served' = MaxServed =>   (* the last request comes with the one before it, or alone *)
             \A w \in Requests : req[w].op = "none" \/ (req[w].pc = "load" /\ req[w].todo = Acc!Calls[req[w].op])
     \/ /\ mover = "tokens" /\ TokenStep
        /\ edits' # edits => clock + TTL < MaxTime   (* a lifetime passes after the change *)
     \/ mover = "confirmations" /\ ConfirmationStep
     \/ mover = "staging" /\ StagingStep
     \/ mover = "ingestion" /\ IngestionStep
     \/ mover = "bus" /\ BusStep
     \/ mover = "records" /\ RecordStep
     \/ mover = "documents" /\ DocumentStep
     \/ mover = "night" /\ NightStep
     \/ mover = "packs" /\ PackStep
     \/ mover = "manifest" /\ ManifestStep
     \/ mover = "chains" /\ ChainStep
     \/ mover = "feeds" /\ FeedStep /\ (\E w \in Requests : user'[w] \notin {"admin", "none"})
     \/ mover = "grants" /\ GrantStep
     \/ mover = "permissions" /\ PermissionStep
     \/ mover = "governance" /\ GovernanceStep
     \/ /\ mover = "retrieval" /\ RetrievalStep
        /\ changes' # changes => rebuild.step = "next"   (* a save does not read documents *)
     \/ mover = "knowledge" /\ KnowledgeStep
     \/ /\ mover = "graph" /\ GraphStep
        /\ query'.from = CHOOSE k \in Concepts : TRUE   (* queries from another concept are like it *)
     \/ /\ mover = "packs" \/ UNCHANGED packVars
        /\ mover = "knowledge" \/ UNCHANGED knowledgeVars
        /\ Restart

MCSpec == MCInit /\ [][MCNext]_<<vars, mover>>

(* The instance gives all requests, and what else is like them, the targets *)
(* and the modules the same names; and the accounts, two of the files, the  *)
(* terms and the stores.                                                    *)
Symmetry == Permutations(Requests) \cup Permutations(Users)
=============================================================================
