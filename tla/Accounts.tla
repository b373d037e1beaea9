-------------------------------- MODULE Accounts --------------------------------
(***************************************************************************)
(* The user store and the invitations.  users.json is changed by loading,  *)
(* changing and saving all of it, without a lock, from threads of the pool *)
(* and from the event loop; every save goes through one users.json.tmp.    *)
(*                                                                         *)
(* A request is a coroutine: the list of store calls it has still to make. *)
(* Calls of threads are awaited; lookup, clear and token run on the event  *)
(* loop, which serves no other request meanwhile, while threads go on.     *)
(* Ids are uuids: an id is created at most once.                           *)
(*                                                                         *)
(* With the SQLite backend each call is a transaction of its own, and the  *)
(* calls made on the event loop raise: asyncio.run refuses a running loop. *)
(***************************************************************************)
EXTENDS Naturals, Sequences, FiniteSets

CONSTANTS
  Users,       (* user ids                                                 *)
  Names,       (* usernames                                                *)
  Requests,    (* requests served at the same time                         *)
  MaxServed,   (* requests served in one behaviour                         *)
  Torn,        (* content of a file that does not parse                    *)
  Absent,      (* no such file                                             *)
  NoUser       (* no such key in users.json                                *)

VARIABLES
  backend,     (* "filesystem" or "sqlite"                                 *)
  file,        (* users.json, or the table of users                        *)
  tmp,         (* users.json.tmp                                           *)
  invites,     (* _INVITE_TOKENS, by the user they are for                 *)
  expired,     (* users whose invitation has run out                       *)
  req,         (* the requests being served                                *)
  origin,      (* auxiliary: the operation an id was given out by          *)
  served,      (* auxiliary: requests that have arrived                    *)
  redeemed,    (* auxiliary: times the token of a user was accepted        *)
  overlap,     (* auxiliary: two calls that save have overlapped           *)
  raced        (* auxiliary: "name" or "promoted" when two requests checked *)
               (* a name, or found no users, before either created its own *)

vars == <<backend, file, tmp, invites, expired, req, origin, served, redeemed, overlap, raced>>

User == [name: Names, password: BOOLEAN, active: BOOLEAN, invite_token: BOOLEAN, promoted: BOOLEAN]
Store == [Users -> User \cup {NoUser}]

(* No record and no store is one of the values that stand for the lack of it. *)
AccountsAssumption == NoUser \notin User /\ Torn \notin Store /\ Absent \notin Store \cup {Torn}

(* The store calls of each request, in order; "role" and "touch" stand for  *)
(* updates of role, modules and memberships, which change no field kept here;*)
(* the administration commands make the same calls.                         *)
register == <<"check", "list", "create">>
invite_user == <<"check", "create", "token">>
setup_password == <<"lookup", "clear", "password", "activate">>
password_reset == <<"password">>
delete_user == <<"deactivate">>
update_user == <<"read", "role", "touch">>

Calls ==
  [register |-> register, invite_user |-> invite_user, setup_password |-> setup_password,
   password_reset |-> password_reset, delete_user |-> delete_user, update_user |-> update_user]

Operation == DOMAIN Calls
Call == {"check", "create", "token", "lookup", "clear", "password", "activate", "deactivate", "read", "role", "touch", "list"}
Creates == {"register", "invite_user"}

(* pc: awaited calls start at "load" and end in "await", from where the     *)
(* loop resumes the coroutine; inode is the file the open handle writes to. *)
Idle == [op |-> "none", user |-> NoUser, name |-> NoUser, todo |-> << >>, pc |-> "idle", snap |-> Torn, inode |-> "none",
         promoted |-> FALSE]
Request ==
  [op: Operation \cup {"none"}, user: Users \cup {NoUser}, name: Names \cup {NoUser}, todo: Seq(Call),
   pc: {"idle", "load", "open", "dump", "replace", "await"},
   snap: Store \cup {Torn}, inode: {"none", "tmp", "file", "gone"}, promoted: BOOLEAN]

Init ==
  /\ backend \in {"filesystem", "sqlite"}
  /\ file = [u \in Users |-> NoUser]
  /\ tmp = Absent
  /\ invites = {} /\ expired = {}
  /\ origin = [u \in Users |-> "none"]
  /\ req = [r \in Requests |-> Idle]
  /\ served = 0
  /\ redeemed = [u \in Users |-> 0]
  /\ overlap = FALSE /\ raced = {}

TypeOK ==
  /\ backend \in {"filesystem", "sqlite"}
  /\ file \in Store \cup {Torn} /\ tmp \in Store \cup {Torn, Absent}
  /\ invites \subseteq Users /\ expired \subseteq Users
  /\ origin \in [Users -> Creates \cup {"none"}]
  /\ req \in [Requests -> Request]
  /\ served \in Nat /\ redeemed \in [Users -> Nat]
  /\ overlap \in BOOLEAN /\ raced \subseteq {"name", "promoted"}

Registered(store) == {u \in Users : store[u] # NoUser}
Taken(store, n) == \E u \in Registered(store) : store[u].name = n
call(r) == Head(req[r].todo)
At(r, pc) == req[r].pc = pc
InSave(r) == req[r].pc \in {"open", "dump", "replace"}

(* The event loop is inside a synchronous store call of request r.          *)
OnEventLoop(r) == ~At(r, "idle") /\ ~At(r, "await") /\ (call(r) = "clear" \/ (call(r) = "token" /\ InSave(r)))
LoopIsFree == \A r \in Requests : ~OnEventLoop(r)

Finish(r) == req' = [req EXCEPT ![r] = Idle]
(* The call is over: the loop goes on with a synchronous one, and resumes   *)
(* an awaited one later.                                                    *)
Return(r) ==
  IF Len(req[r].todo) = 1 THEN Finish(r)
  ELSE req' = [req EXCEPT ![r].todo = Tail(@), ![r].snap = Torn, ![r].inode = "none",
                          ![r].pc = IF call(r) \in {"lookup", "clear"} THEN "load" ELSE "await"]

Arrive(r, op, u, n) ==
  /\ At(r, "idle") /\ LoopIsFree /\ served < MaxServed
  /\ op \in Creates <=> origin[u] = "none"
  /\ served' = served + 1
  /\ origin' = IF op \in Creates THEN [origin EXCEPT ![u] = op] ELSE origin
  /\ req' = [req EXCEPT ![r] = [op |-> op, user |-> u, name |-> n, todo |-> Calls[op], pc |-> "load",
                                snap |-> Torn, inode |-> "none", promoted |-> FALSE]]
  /\ UNCHANGED <<backend, file, tmp, invites, expired, redeemed, overlap, raced>>

Resume(r) ==
  /\ At(r, "await") /\ LoopIsFree
  /\ req' = [req EXCEPT ![r].pc = "load"]
  /\ UNCHANGED <<backend, file, tmp, invites, expired, origin, served, redeemed, overlap, raced>>

Creating(r) == {q \in Requests \ {r} : ~At(q, "idle") /\ call(q) \in {"list", "create"}}

(* --- Calls that only read ------------------------------------------------ *)

(* 409 when the name is taken, 500 when users.json does not parse.          *)
get_user_by_username(r) ==
  /\ At(r, "load") /\ call(r) = "check"
  /\ IF file = Torn \/ Taken(file, req[r].name) THEN Finish(r) /\ UNCHANGED raced
     ELSE /\ Return(r)
          /\ raced' = raced \cup {"name" : q \in {o \in Creating(r) : req[o].name = req[r].name}}
  /\ UNCHANGED <<backend, file, tmp, invites, expired, origin, served, redeemed, overlap>>

(* In bootstrap mode the first user is promoted to root.                    *)
list_users(r) ==
  /\ At(r, "load") /\ call(r) = "list"
  /\ IF file = Torn THEN Finish(r) /\ UNCHANGED raced
     ELSE /\ req' = [req EXCEPT ![r].todo = Tail(@), ![r].pc = "await", ![r].promoted = Registered(file) = {}]
          /\ raced' = raced \cup {"promoted" : q \in {o \in Creating(r) : req[o].promoted}}
  /\ UNCHANGED <<backend, file, tmp, invites, expired, origin, served, redeemed, overlap>>

get_user(r) ==
  /\ At(r, "load") /\ call(r) = "read"
  /\ IF file = Torn \/ file[req[r].user] = NoUser THEN Finish(r) ELSE Return(r)
  /\ UNCHANGED <<backend, file, tmp, invites, expired, origin, served, redeemed, overlap, raced>>

(* validate_invite_token: the token in memory is used up; on a miss the one *)
(* in users.json counts. Otherwise 403.                                     *)
validate_invite_token(r) ==
  LET u == req[r].user IN
  /\ At(r, "load") /\ call(r) = "lookup" /\ LoopIsFree
  /\ invites' = (invites \ expired) \ {u}
  /\ IF backend = "sqlite" THEN Finish(r)
     ELSE IF u \in invites \ expired THEN Return(r)
     ELSE IF file # Torn /\ file[u] # NoUser /\ file[u].invite_token /\ u \notin expired THEN Return(r)
     ELSE Finish(r)
  /\ UNCHANGED <<backend, file, tmp, expired, origin, served, redeemed, overlap, raced>>

(* --- Calls that save ----------------------------------------------------- *)

create_user(r) ==
  LET complete == req[r].op = "register" IN
  [name |-> req[r].name, password |-> complete, active |-> complete, invite_token |-> FALSE, promoted |-> req[r].promoted]
set_user_invite_token(rec) == [rec EXCEPT !.invite_token = TRUE]
clear_user_invite_token(rec) == [rec EXCEPT !.invite_token = FALSE]
update_user_password(rec) == [rec EXCEPT !.password = TRUE]
activate_user(rec) == [rec EXCEPT !.active = TRUE]
deactivate_user(rec) == [rec EXCEPT !.active = FALSE]

Changed(r, rec) ==
  CASE call(r) = "create"     -> create_user(r)
    [] call(r) = "token"      -> set_user_invite_token(rec)
    [] call(r) = "clear"      -> clear_user_invite_token(rec)
    [] call(r) = "password"   -> update_user_password(rec)
    [] call(r) = "activate"   -> activate_user(rec)
    [] call(r) = "deactivate" -> deactivate_user(rec)
    [] call(r) \in {"role", "touch"} -> rec

Reads == {"check", "list", "read", "lookup"}

Count(r) == redeemed' = IF call(r) = "clear" THEN [redeemed EXCEPT ![req[r].user] = @ + 1] ELSE redeemed

(* generate_invite_token stores the token in memory before the durable copy *)
(* is saved. A user who is not in the file is not updated: the request ends *)
(* with 404, unless it ignores the result.                                  *)
_load_users(r) ==
  LET u == req[r].user IN
  /\ backend = "filesystem"
  /\ At(r, "load") /\ call(r) \notin Reads
  /\ call(r) = "token" => LoopIsFree
  /\ invites' = IF call(r) = "token" THEN (invites \ expired) \cup {u} ELSE invites
  /\ IF file = Torn THEN Finish(r) /\ UNCHANGED <<redeemed, overlap>>
     ELSE IF file[u] = NoUser /\ call(r) # "create"
          THEN /\ IF call(r) \in {"clear", "touch"} THEN Return(r) ELSE Finish(r)
               /\ Count(r)
               /\ UNCHANGED overlap
     ELSE /\ req' = [req EXCEPT ![r].snap = [file EXCEPT ![u] = Changed(r, @)], ![r].pc = "open"]
          /\ overlap' = (overlap \/ \E q \in Requests \ {r} : InSave(q))
          /\ UNCHANGED redeemed
  /\ UNCHANGED <<backend, file, tmp, expired, origin, served, raced>>

OpenTmp_in_place(r) ==
  /\ At(r, "open")
  /\ file' = Torn
  /\ req' = [req EXCEPT ![r].pc = "dump", ![r].inode = "file"]
  /\ UNCHANGED <<backend, tmp, invites, expired, origin, served, redeemed, overlap, raced>>

(* Opening for writing truncates what is there.                             *)
OpenTmp(r) ==
  /\ At(r, "open")
  /\ tmp' = Torn
  /\ req' = [req EXCEPT ![r].pc = "dump", ![r].inode = "tmp"]
  /\ UNCHANGED <<backend, file, invites, expired, origin, served, redeemed, overlap, raced>>

(* The handle writes to the file it opened, wherever that is by now; over   *)
(* what another one wrote there the result may be a mixture.                *)
Dump(r) ==
  LET Written(old) == {req[r].snap} \cup (IF old = Torn THEN {} ELSE {Torn}) IN
  /\ At(r, "dump")
  /\ CASE req[r].inode = "tmp"  -> tmp' \in Written(tmp) /\ UNCHANGED file
       [] req[r].inode = "file" -> file' \in Written(file) /\ UNCHANGED tmp
       [] req[r].inode = "gone" -> UNCHANGED <<backend, file, tmp>>
  /\ req' = [req EXCEPT ![r].pc = "replace"]
  /\ UNCHANGED <<backend, invites, expired, origin, served, redeemed, overlap, raced>>

(* The write fails: OSError, and 500.                                       *)
DumpFails(r) ==
  /\ At(r, "dump")
  /\ Finish(r)
  /\ UNCHANGED <<backend, file, tmp, invites, expired, origin, served, redeemed, overlap, raced>>

Moved(q) == [q EXCEPT !.inode = CASE @ = "tmp" -> "file" [] @ = "file" -> "gone" [] OTHER -> @]

(* tmp.replace(path): FileNotFoundError when another save has taken tmp.    *)
Replace(r) ==
  /\ At(r, "replace")
  /\ IF tmp = Absent
     THEN Finish(r) /\ UNCHANGED <<backend, file, tmp, redeemed>>
     ELSE /\ file' = tmp
          /\ tmp' = Absent
          /\ Count(r)
          /\ LET next == IF Len(req[r].todo) = 1 THEN Idle
                         ELSE [req[r] EXCEPT !.todo = Tail(@), !.snap = Torn, !.inode = "none",
                                             !.pc = IF call(r) = "clear" THEN "load" ELSE "await"]
             IN  req' = [q \in Requests |-> IF q = r THEN next ELSE Moved(req[q])]
  /\ UNCHANGED <<backend, invites, expired, origin, served, overlap, raced>>

(* One transaction each: the UNIQUE username is checked by the insert. An   *)
(* invitation passes `active', which create_user does not take here.        *)
InsertRow(r) ==
  /\ backend = "sqlite" /\ At(r, "load") /\ call(r) = "create"
  /\ IF req[r].op # "register" \/ Taken(file, req[r].name)
     THEN Finish(r) /\ UNCHANGED file
     ELSE Return(r) /\ file' = [file EXCEPT ![req[r].user] = create_user(r)]
  /\ UNCHANGED <<backend, tmp, invites, expired, origin, served, redeemed, overlap, raced>>

UpdateRow(r) ==
  LET u == req[r].user IN
  /\ backend = "sqlite" /\ At(r, "load") /\ call(r) \notin Reads \cup {"create"}
  /\ IF file[u] = NoUser
     THEN (IF call(r) = "touch" THEN Return(r) ELSE Finish(r)) /\ UNCHANGED file
     ELSE Return(r) /\ file' = [file EXCEPT ![u] = Changed(r, @)]
  /\ UNCHANGED <<backend, tmp, invites, expired, origin, served, redeemed, overlap, raced>>

(* --- Time and crashes ---------------------------------------------------- *)

Expire(u) ==
  /\ u \in invites \ expired
  /\ expired' = expired \cup {u}
  /\ UNCHANGED <<backend, file, tmp, invites, req, origin, served, redeemed, overlap, raced>>

Restart ==
  /\ req' = [r \in Requests |-> Idle]
  /\ invites' = {}
  /\ UNCHANGED <<backend, file, tmp, expired, origin, served, redeemed, overlap, raced>>

Step(r) ==
  \/ \E op \in Operation, u \in Users, n \in Names : Arrive(r, op, u, n)
  \/ Resume(r) \/ get_user_by_username(r) \/ get_user(r) \/ validate_invite_token(r)
  \/ _load_users(r) \/ OpenTmp(r) \/ Dump(r) \/ DumpFails(r) \/ Replace(r)
  \/ list_users(r) \/ InsertRow(r) \/ UpdateRow(r)

Next == (\E r \in Requests : Step(r)) \/ (\E u \in Users : Expire(u))

Spec == Init /\ [][Next \/ Restart]_vars

(* ---- Properties ---------------------------------------------------------- *)

(* An invited user becomes active only through the token of the invitation, *)
(* however the saves of users.json interleave and whichever of them is lost.*)
ActiveWasRedeemed ==
  file # Torn => \A u \in Registered(file) : file[u].active => origin[u] = "register" \/ redeemed[u] > 0

(* The token of an invitation is accepted once: validate_invite_token takes *)
(* it out of memory, and the copy in users.json is cleared before the       *)
(* account is changed. A save that overlaps another can bring it back.      *)
RedeemedOnce == ~overlap => \A u \in Users : redeemed[u] <= 1

(* users.json parses unless two saves shared users.json.tmp: replacing it   *)
(* is atomic, so crashes and failed writes leave the old one.               *)
StoreIsReadable == file = Torn => overlap

(* register and invite_user refuse a taken name; between that check and     *)
(* the creation they suspend, so two of them must not have raced.           *)
UsernamesAreUnique ==
  ~overlap /\ "name" \notin raced /\ file # Torn =>
    \A u, v \in Registered(file) : file[u].name = file[v].name => u = v

(* The first user of an empty store becomes root, and nobody after it,      *)
(* unless two registrations both found the store empty.                     *)
OneIsPromoted ==
  ~overlap /\ "promoted" \notin raced /\ file # Torn =>
    Cardinality({u \in Registered(file) : file[u].promoted}) <= 1

(* setup_password stores the password before it activates the account, and  *)
(* nothing else activates one: an active user can log in.                   *)
ActiveHasPassword ==
  ~overlap /\ file # Torn => \A u \in Registered(file) : file[u].active => file[u].password

(* No request, and no save of a request that died, removes a user: accounts *)
(* are deactivated, never deleted.                                          *)
KeepsUsers == ~overlap' /\ file # Torn => Registered(file) \subseteq Registered(file')
=============================================================================
