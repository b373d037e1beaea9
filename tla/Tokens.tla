--------------------------------- MODULE Tokens ---------------------------------
(***************************************************************************)
(* Bearer tokens. A token carries what the account said when it was        *)
(* issued and counts until it expires; logging in, refreshing and          *)
(* switching the site read the account in a thread of the pool, and issue  *)
(* on the event loop later, from what was read. Revocations are kept in    *)
(* memory only.                                                            *)
(***************************************************************************)
EXTENDS Naturals, Sequences

CONSTANTS
  Users,       (* accounts                                                 *)
  Sites,       (* sites an account can be a member of                      *)
  NoSite,      (* a token without an operating context                     *)
  NoUser,      (* no account                                               *)
  Clients,     (* requests served at the same time                         *)
  TTL,         (* lifetime of a token                                      *)
  MaxTime,     (* bound on the clock                                       *)
  MaxIssued,   (* bound on the tokens issued                               *)
  MaxEdits     (* bound on the changes of accounts                         *)

TokensAssumption == NoUser \notin Users /\ NoSite \notin Sites /\ TTL \in Nat /\ MaxTime \in Nat

VARIABLES
  account,     (* the stored role, active flag and memberships             *)
  changed,     (* auxiliary: when an account was last changed              *)
  edits,       (* auxiliary: changes of accounts so far                    *)
  clock,
  tokens,      (* the tokens issued                                        *)
  revoked,     (* _REVOKED_JTIS                                            *)
  auth         (* the requests being served                                *)

vars == <<account, changed, edits, clock, tokens, revoked, auth>>

Roles == {"root", "admin", "user"}
Tracks == {"admin", "domain", "user"}
_scope_for_role(role) == CASE role = "root" -> "admin" [] role = "admin" -> "domain" [] OTHER -> "user"

Account == [role: Roles, active: BOOLEAN, sites: SUBSET Sites]
(* stale, auxiliary: the account had changed since it was read, or it was   *)
(* deactivated while its password was being set up.                         *)
Token == [user: Users, role: Roles, site: Sites \cup {NoSite}, iat: Nat, stale: BOOLEAN]
Operations == {"login", "refresh", "switch", "setup_password"}
Auth == [op: Operations \cup {"none"}, track: Tracks, user: Users \cup {NoUser}, token: Nat,
         site: Sites \cup {NoSite}, read: SUBSET Account]
NoAuth == [op |-> "none", track |-> "user", user |-> NoUser, token |-> 0, site |-> NoSite, read |-> {}]

TokenIds == 1..Len(tokens)

TypeOK ==
  /\ account \in [Users -> Account] /\ changed \in [Users -> Nat] /\ edits \in Nat
  /\ clock \in Nat /\ tokens \in Seq(Token)
  /\ revoked \subseteq TokenIds
  /\ auth \in [Clients -> Auth]

Init ==
  /\ account \in [Users -> [role: Roles, active: {TRUE}, sites: {Sites}]]
  /\ changed = [u \in Users |-> 0] /\ edits = 0
  /\ clock = 0 /\ tokens = << >> /\ revoked = {}
  /\ auth = [c \in Clients |-> NoAuth]

Idle(c) == auth[c].op = "none"
Finish(c) == auth' = [auth EXCEPT ![c] = NoAuth]

is_token_revoked(t) == t \in revoked
Scope(t) == _scope_for_role(tokens[t].role)
verify_scoped_jwt(t) == clock <= tokens[t].iat + TTL /\ ~is_token_revoked(t)

(* The claims are those of the account that was read.                       *)
Issue(c, acc, site) ==
  /\ Len(tokens) < MaxIssued
  /\ tokens' = Append(tokens, [user |-> auth[c].user, role |-> acc.role, site |-> site, iat |-> clock,
                               stale |-> acc # account[auth[c].user] \/ (~acc.active /\ auth[c].op = "setup_password")])
  /\ Finish(c)

default_operating_context(acc) == IF acc.sites = {} THEN {NoSite} ELSE acc.sites

(* --- Requests ------------------------------------------------------------ *)

(* login, admin_login, domain_login: only right passwords are of interest.  *)
Login(c, u, track) ==
  /\ Idle(c)
  /\ auth' = [auth EXCEPT ![c] = [NoAuth EXCEPT !.op = "login", !.track = track, !.user = u]]
  /\ UNCHANGED <<account, changed, edits, clock, tokens, revoked>>

(* setup_password: the account has just been activated.                     *)
SetupPassword(c, u) ==
  /\ Idle(c)
  /\ auth' = [auth EXCEPT ![c] = [NoAuth EXCEPT !.op = "setup_password", !.user = u]]
  /\ UNCHANGED <<account, changed, edits, clock, tokens, revoked>>

(* refresh takes a token of any track, admin_refresh and domain_refresh     *)
(* those of their own.                                                      *)
Refresh(c, t, track) ==
  /\ Idle(c) /\ verify_scoped_jwt(t)
  /\ track = "user" \/ Scope(t) = track
  /\ auth' = [auth EXCEPT ![c] = [NoAuth EXCEPT !.op = "refresh", !.track = track, !.user = tokens[t].user, !.token = t]]
  /\ UNCHANGED <<account, changed, edits, clock, tokens, revoked>>

switch_operating_context(c, t, site) ==
  /\ Idle(c) /\ verify_scoped_jwt(t) /\ Scope(t) = "user"
  /\ auth' = [auth EXCEPT ![c] = [NoAuth EXCEPT !.op = "switch", !.user = tokens[t].user, !.token = t, !.site = site]]
  /\ UNCHANGED <<account, changed, edits, clock, tokens, revoked>>

(* Whoever the request names, the token revoked is the caller's own.        *)
revoke_token(t) ==
  /\ verify_scoped_jwt(t)
  /\ revoked' = revoked \cup {t}
  /\ UNCHANGED <<account, changed, edits, clock, tokens, auth>>

(* get_user or get_user_by_username in the pool.                            *)
ReadAccount(c) ==
  /\ ~Idle(c) /\ auth[c].read = {}
  /\ auth' = [auth EXCEPT ![c].read = {account[auth[c].user]}]
  /\ UNCHANGED <<account, changed, edits, clock, tokens, revoked>>

Admits_inactive(c, acc) ==
  auth[c].op \in {"login", "refresh"} /\ auth[c].track # "user" => _scope_for_role(acc.role) = auth[c].track

(* Refusals: deactivated accounts, and roles of another track.              *)
Admits(c, acc) ==
  CASE auth[c].op = "login"          -> acc.active /\ _scope_for_role(acc.role) = auth[c].track
    [] auth[c].op = "refresh"        -> acc.active /\ (auth[c].track # "user" => _scope_for_role(acc.role) = auth[c].track)
    [] auth[c].op = "switch"         -> acc.active
    [] auth[c].op = "setup_password" -> TRUE

(* The site a new token is for; none when it is no longer assigned.         *)
resolve_operating_context(c, acc) ==
  CASE auth[c].op = "switch" -> {auth[c].site} \cap acc.sites
    [] auth[c].op = "setup_password" \/ auth[c].track # "user" -> {NoSite}
    [] auth[c].op = "refresh" /\ tokens[auth[c].token].site # NoSite -> {tokens[auth[c].token].site} \cap acc.sites
    [] OTHER -> default_operating_context(acc)

(* A switch revokes its token, writes a log record, and then issues: when   *)
(* the record cannot be written, it answers 500.                            *)
Answer(c) ==
  \E acc \in auth[c].read :
    /\ LET sites == resolve_operating_context(c, acc) IN
       IF ~Admits(c, acc) \/ sites = {}
       THEN Finish(c) /\ UNCHANGED <<tokens, revoked>>
       ELSE /\ revoked' = IF auth[c].op = "switch" THEN revoked \cup {auth[c].token} ELSE revoked
            /\ \/ \E site \in sites : Issue(c, acc, site)
               \/ auth[c].op = "switch" /\ Finish(c) /\ UNCHANGED tokens
    /\ UNCHANGED <<account, changed, edits, clock>>

(* --- Accounts, time and restarts ----------------------------------------- *)

(* The store calls of update_user and delete_user, each of its own field.   *)
ChangeAccount(u) ==
  /\ edits < MaxEdits
  /\ edits' = edits + 1
  /\ \/ \E role \in Roles : account' = [account EXCEPT ![u].role = role]
     \/ \E sites \in SUBSET Sites : account' = [account EXCEPT ![u].sites = sites]
     \/ account' = [account EXCEPT ![u].active = FALSE]
  /\ changed' = [changed EXCEPT ![u] = clock]
  /\ UNCHANGED <<clock, tokens, revoked, auth>>

Tick ==
  /\ clock < MaxTime
  /\ clock' = clock + 1
  /\ UNCHANGED <<account, changed, edits, tokens, revoked, auth>>

Restart ==
  /\ revoked' = {}
  /\ auth' = [c \in Clients |-> NoAuth]
  /\ UNCHANGED <<account, changed, edits, clock, tokens>>

Next ==
  \/ \E c \in Clients :
       \/ \E u \in Users, track \in Tracks : Login(c, u, track)
       \/ \E u \in Users : SetupPassword(c, u)
       \/ \E t \in TokenIds, track \in Tracks : Refresh(c, t, track)
       \/ \E t \in TokenIds, site \in Sites : switch_operating_context(c, t, site)
       \/ ReadAccount(c) \/ Answer(c)
  \/ \E t \in TokenIds : revoke_token(t)
  \/ \E u \in Users : ChangeAccount(u)
  \/ Tick

Spec == Init /\ [][Next \/ Restart]_vars

(* ---- Properties ---------------------------------------------------------- *)

True(t) ==
  LET acc == account[tokens[t].user] IN
    acc.active /\ acc.role = tokens[t].role /\ (tokens[t].site = NoSite \/ tokens[t].site \in acc.sites)

(* However tokens are refreshed and switched, one whose claims the account  *)
(* no longer bears out is refused once a lifetime has passed since the      *)
(* account changed: a deactivated user is locked out, a former root is no   *)
(* longer one, and a site is left. Tokens issued from an account read       *)
(* before the change are the exception, and one setup_password issues for   *)
(* an account deactivated meanwhile, which it does not look at.             *)
ClaimsExpire ==
  \A t \in TokenIds :
    verify_scoped_jwt(t) /\ ~True(t) /\ ~tokens[t].stale => clock <= changed[tokens[t].user] + TTL

(* A token that was refused, because it expired, was revoked or was         *)
(* replaced by a switch, is not accepted later, until a restart forgets the *)
(* revocations.                                                             *)
KeepsRefusals == \A t \in TokenIds : ~verify_scoped_jwt(t) /\ verify_scoped_jwt(t)' => Restart
=============================================================================
