--------------------------------- MODULE Access ---------------------------------
(***************************************************************************)
(* What a person may do. Role and scope: the domain roles and the governed *)
(* modules in the user's row, which requests of the API and of the packs   *)
(* change and then record, each through a pool of threads, and the scope   *)
(* an administrator gets from them. Permissions: how the permissions of a  *)
(* domain's physics are evaluated for a role. Governance: the operations a *)
(* command may name, loaded when they are first asked for. Keys are module *)
(* ids as the packs declare them and bare names, of a domain or of a       *)
(* module. Whoever makes the requests may make them.                       *)
(***************************************************************************)
EXTENDS FiniteSets, Naturals

CONSTANTS
  Errands,      (* requests that change a user's row              *)
  DomainRoles,
  Absent,       (* no value under the key                         *)
  Unloaded,     (* nothing cached yet                             *)
  MaxGrants     (* bound: requests begun                          *)

VARIABLES
  engine,       (* filesystem, or sqlite where a change of the row is a transaction    *)
  rights,       (* the row: [roles: key -> role, governed: set of keys]           *)
  errand,       (* request -> where it is                                         *)
  recorded,     (* key -> the role its last record says                           *)
  grants,       (* number of requests begun                                       *)
  overlapped,   (* history: two requests were under way at once                   *)
  unrecorded,   (* history: a change was left without its record                  *)
  misnamed,     (* history: a revocation named another role than it took away     *)
  permissions,  (* the permissions, groups and domain roles of the physics        *)
  verdict,      (* the last answer of check_permission                            *)
  known,        (* the cached operations: of the file, none, or Unloaded          *)
  readable,     (* the physics of the system domain can be read                   *)
  spoiled       (* history: it could not, at some time since the process started  *)

rowVars == <<rights, errand, recorded, grants, overlapped, unrecorded, misnamed>>
ruleVars == <<permissions, verdict>>
policyVars == <<known, readable, spoiled>>
accessVars == <<engine, rowVars, ruleVars, policyVars>>

Keys == {"module", "bare"}
NoRole == "no_role"   (* the empty string: no domain role, or one that was revoked *)
RoleValues == DomainRoles \cup {NoRole, Absent}
Rows == [roles : [Keys -> RoleValues], governed : SUBSET Keys]

NoErrand == [kind |-> "none", key |-> "bare", role |-> NoRole, by |-> "api", stage |-> "idle", seen |-> Absent, copy |-> Absent]

NoVerdict == [role |-> "none", domain_role |-> NoRole, operation |-> "x", granted |-> FALSE]

Permissions ==
  [owner : BOOLEAN,                         (* the user is the owner               *)
   bits : SUBSET {"owner", "group", "others"},  (* the categories that may execute *)
   group : {"admin", "user", "members"},    (* a system role, or a defined group   *)
   members : SUBSET DomainRoles,            (* of the defined group                *)
   acl : SUBSET ({"user", "admin"} \X {"x", "i"}),
   roles : SUBSET DomainRoles,              (* that the physics lists              *)
   access : SUBSET DomainRoles,             (* by default_access, role_acl or acl  *)
   guest_access : BOOLEAN]

Errand ==
  [kind : {"none", "assign", "revoke", "add", "remove", "edit"}, key : Keys, role : DomainRoles \cup {NoRole},
   by : {"api", "pack"}, stage : {"idle", "load", "save", "record"},
   seen : Rows \cup {Absent}, copy : Rows \cup {Absent}]

Verdict ==
  [role : {"none", "root", "admin", "user", "guest"}, domain_role : DomainRoles \cup {NoRole},
   operation : {"x", "i"}, granted : BOOLEAN]

(* What stands for no role and for nothing cached is none of the values.    *)
AccessAssumption ==
  /\ NoRole \notin DomainRoles /\ Absent \notin DomainRoles \cup {NoRole}
  /\ Unloaded # "none"
  /\ MaxGrants \in Nat

TypeOK ==
  /\ engine \in {"filesystem", "sqlite"}
  /\ rights \in Rows
  /\ errand \in [Errands -> Errand]
  /\ recorded \in [Keys -> RoleValues] /\ grants \in 0..MaxGrants
  /\ overlapped \in BOOLEAN /\ unrecorded \in BOOLEAN /\ misnamed \in BOOLEAN
  /\ permissions \in Permissions
  /\ verdict \in Verdict
  /\ known \in {Unloaded, "of_file", "none"} /\ readable \in BOOLEAN /\ spoiled \in BOOLEAN

Init ==
  /\ engine \in {"filesystem", "sqlite"}
  /\ rights \in [roles : [Keys -> {Absent} \cup DomainRoles], governed : SUBSET Keys]
  /\ errand = [w \in Errands |-> NoErrand]
  /\ recorded = rights.roles /\ grants = 0
  /\ overlapped = FALSE /\ unrecorded = FALSE /\ misnamed = FALSE
  /\ permissions \in Permissions /\ verdict = NoVerdict
  /\ known = Unloaded /\ readable \in BOOLEAN /\ spoiled = ~readable

(* --- The scope of an administrator ---------------------------------------- *)

(* No scope at all is every scope.                                          *)
can_govern_domain(row, key) ==
  \/ row.governed = {} /\ \A k \in Keys : row.roles[k] = Absent
  \/ key \in row.governed
  \/ row.roles[key] # Absent

Governs(row) == {k \in Keys : can_govern_domain(row, k)}

(* What a pack may change: names of its own prefix, and bare names. The     *)
(* ids in the packs' module maps are neither.                               *)
_is_in_scope(key) == key # "module"

(* --- Requests that change a row ------------------------------------------- *)

Begin(w, kind, key, role, by) ==
  /\ grants < MaxGrants
  /\ errand[w].stage = "idle"
  /\ grants' = grants + 1
  /\ errand' = [errand EXCEPT ![w] =
       [kind |-> kind, key |-> key, role |-> role, by |-> by, stage |-> "load", seen |-> rights, copy |-> Absent]]
  /\ overlapped' = (overlapped \/ \E v \in Errands : errand[v].stage # "idle")
  /\ UNCHANGED <<rights, recorded, unrecorded, misnamed>>

assign_domain_role(w) ==
  \E key \in Keys, role \in DomainRoles : Begin(w, "assign", key, role, "api")

revoke_domain_role(w) ==
  \E key \in Keys :
    /\ rights.roles[key] \notin {NoRole, Absent}
    /\ Begin(w, "revoke", key, NoRole, "api")

(* The new scope is the one just read, unless the request gives another.    *)
update_user(w) == Begin(w, "edit", "bare", NoRole, "api")

assign_student(w) ==
  \E key \in Keys, role \in DomainRoles : _is_in_scope(key) /\ Begin(w, "assign", key, role, "pack")

assign_module(w) == \E key \in Keys : _is_in_scope(key) /\ Begin(w, "add", key, NoRole, "pack")

remove_module(w) == \E key \in Keys : _is_in_scope(key) /\ Begin(w, "remove", key, NoRole, "pack")

_load_users(w) ==
  /\ errand[w].stage = "load"
  /\ errand' = [errand EXCEPT ![w].stage = "save", ![w].copy = rights]
  /\ UNCHANGED <<rights, recorded, grants, overlapped, unrecorded, misnamed>>

(* A revocation leaves the empty role under the key.                        *)
update_user_domain_roles(row, key, role) == [row EXCEPT !.roles[key] = role]

update_user_governed_modules(row, add, remove) == [row EXCEPT !.governed = (@ \cup add) \ remove]

Updated(row, e) ==
  CASE e.kind \in {"assign", "revoke"} -> update_user_domain_roles(row, e.key, e.role)
    [] e.kind = "add"    -> update_user_governed_modules(row, {e.key}, {})
    [] e.kind = "remove" -> update_user_governed_modules(row, {}, {e.key})
    [] OTHER             -> [row EXCEPT !.governed = e.seen.governed]

_save_users(w) ==
  LET e == errand[w] IN
  /\ e.stage = "save"
  /\ rights' = Updated(IF engine = "sqlite" THEN rights ELSE e.copy, e)
  /\ errand' = [errand EXCEPT ![w].stage = "record"]
  /\ misnamed' = (misnamed \/ (e.kind = "revoke" /\ e.seen.roles[e.key] # rights.roles[e.key]))
  /\ UNCHANGED <<recorded, grants, overlapped, unrecorded>>

(* A record that cannot be written is logged away.                          *)
append_log_record(w) ==
  LET e == errand[w] IN
  /\ e.stage = "record"
  /\ errand' = [errand EXCEPT ![w] = NoErrand]
  /\ \/ /\ recorded' = IF e.kind \in {"assign", "revoke"} THEN [recorded EXCEPT ![e.key] = e.role] ELSE recorded
        /\ UNCHANGED unrecorded
     \/ unrecorded' = TRUE /\ UNCHANGED recorded
  /\ UNCHANGED <<rights, grants, overlapped, misnamed>>

Manage ==
  /\ \E w \in Errands :
       \/ assign_domain_role(w) \/ revoke_domain_role(w) \/ update_user(w)
       \/ assign_student(w) \/ assign_module(w) \/ remove_module(w)
       \/ _load_users(w) \/ _save_users(w) \/ append_log_record(w)
  /\ UNCHANGED <<engine, ruleVars, policyVars>>

(* --- Permissions ---------------------------------------------------------- *)

_is_group_member(role, domain_role) ==
  \/ role = "admin"
  \/ permissions.group = "members" /\ domain_role \in permissions.members
  \/ permissions.group = role

Category(role, domain_role) ==
  IF permissions.owner THEN "owner" ELSE IF _is_group_member(role, domain_role) THEN "group" ELSE "others"

_check_domain_role(domain_role) == domain_role \in permissions.roles \cap permissions.access

(* Ingestion is by the access list alone, a guest's access by its own block. *)
check_permission(role, domain_role, operation) ==
  \/ role = "root"
  \/ operation = "i" /\ <<role, "i">> \in permissions.acl
  \/ operation # "i" /\ role = "guest" /\ permissions.guest_access
  \/ /\ operation # "i" /\ role # "guest"
     /\ \/ Category(role, domain_role) \in permissions.bits
        \/ <<role, operation>> \in permissions.acl
        \/ _check_domain_role(domain_role)

(* The role of the module, or else the one of the domain.                   *)
user_dr ==
  IF rights.roles["module"] \notin {NoRole, Absent} THEN rights.roles["module"]
  ELSE IF rights.roles["bare"] \in DomainRoles THEN rights.roles["bare"] ELSE NoRole

Ask ==
  /\ \E role \in {"root", "admin", "user", "guest"}, operation \in {"x", "i"} :
       verdict' = [role |-> role, domain_role |-> user_dr, operation |-> operation,
                   granted |-> check_permission(role, user_dr, operation)]
  /\ UNCHANGED <<engine, rowVars, permissions, policyVars>>

(* --- Governance ----------------------------------------------------------- *)

(* A file that cannot be read is remembered as one without operations.      *)
_load_governance_config ==
  /\ known = Unloaded
  /\ known' = IF readable THEN "of_file" ELSE "none"
  /\ UNCHANGED <<engine, rowVars, ruleVars, readable, spoiled>>

(* Someone breaks the file, or mends it.                                    *)
EditSystemPhysics ==
  /\ readable' = ~readable /\ spoiled' = (spoiled \/ readable)
  /\ UNCHANGED <<engine, rowVars, ruleVars, known>>

(* --- The process ---------------------------------------------------------- *)

Restart ==
  /\ errand' = [w \in Errands |-> NoErrand]
  /\ unrecorded' = (unrecorded \/ \E w \in Errands : errand[w].stage = "record")
  /\ verdict' = NoVerdict
  /\ known' = Unloaded /\ spoiled' = ~readable
  /\ UNCHANGED <<engine, rights, recorded, grants, overlapped, misnamed, permissions, readable>>

Next == Manage \/ Ask \/ _load_governance_config \/ EditSystemPhysics

Spec == Init /\ [][Next \/ Restart]_accessVars

(* ---- Properties ---------------------------------------------------------- *)

(* The role a key holds is the one its last record says, once nobody is     *)
(* changing the row, unless requests overlapped or a record is missing.     *)
RolesAreAccountedFor ==
  (\A w \in Errands : errand[w].stage \notin {"save", "record"}) =>
    \/ overlapped \/ unrecorded
    \/ rights.roles = recorded

(* A revocation names the role it takes away, unless requests overlapped.   *)
RevocationsNameTheRole == misnamed => overlapped

(* A domain role only adds to what its holder may do, except that it makes  *)
(* a member of a group that may do less than the others.                    *)
RolesOnlyAdd ==
  \/ verdict.granted
  \/ verdict.role = "none" \/ ~check_permission(verdict.role, NoRole, verdict.operation)
  \/ "group" \notin permissions.bits /\ "others" \in permissions.bits /\ permissions.group = "members"

(* Commands go unrecognised only in a process in which the physics of the   *)
(* system domain could not be read at some time, and then until a restart.  *)
UnknownOnlyIfSpoiled == known = "none" => spoiled

Saves(w) == errand[w].stage = "save" /\ errand'[w].stage = "record"

(* A request that no other one overlaps: a pack changes only keys in its    *)
(* scope; and a revocation takes nothing from what an administrator         *)
(* governs, a removal gives nothing unless nothing is left, which is all.   *)
ScopesStand ==
  \A w \in Errands : Saves(w) /\ ~overlapped =>
    /\ errand[w].by = "pack" =>
         \A k \in Keys : ~_is_in_scope(k) =>
           rights'.roles[k] = rights.roles[k] /\ (k \in rights'.governed <=> k \in rights.governed)
    /\ errand[w].kind = "revoke" => Governs(rights') = Governs(rights)
    /\ errand[w].kind = "remove" =>
         \/ Governs(rights') \subseteq Governs(rights)
         \/ rights'.governed = {} /\ \A k \in Keys : rights'.roles[k] = Absent

=============================================================================
