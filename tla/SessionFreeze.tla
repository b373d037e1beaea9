---------------------------- MODULE SessionFreeze ----------------------------
(***************************************************************************)
(* The escalation lock of a chat session: an escalation freezes the        *)
(* session and its user, a teacher's resolution issues a one-time PIN, and *)
(* the PIN, typed into the chat or sent to the unlock endpoint, lifts the  *)
(* freeze.                                                                 *)
(*                                                                         *)
(* Chat turns run in the server's thread pool (Threads); the resolve and   *)
(* unlock endpoints are coroutines of the one event loop (Loop), so two of *)
(* them never interleave with each other but both interleave with turns.   *)
(* No lock protects the stores, so every read and every write of a store   *)
(* is a step of its own.                                                   *)
(***************************************************************************)
EXTENDS Integers

CONSTANTS
  Sessions,   (* session ids                                               *)
  Users,      (* authenticated user ids                                    *)
  NoUser,     (* the owner of an anonymous session                         *)
  NoSession,  (* no entry in the user-freeze store                         *)
  Owner,      (* Owner[s]: the user who sends the turns of session s       *)
  Threads,    (* thread-pool workers running process_message               *)
  Loop,       (* the event loop                                            *)
  MaxPins,    (* bound: PINs issued in one behaviour                       *)
  Expiry      (* whether time passes beyond the stores' TTLs               *)

ASSUME FreezeAssumption ==
  /\ NoUser \notin Users
  /\ NoSession \notin Sessions
  /\ Owner \in [Sessions -> Users \cup {NoUser}]
  /\ Loop \notin Threads
  /\ MaxPins \in Nat
  /\ Expiry \in BOOLEAN

Procs == Threads \cup {Loop}
Pin == 1 .. MaxPins
Text == 0            (* any message that is not a PIN a teacher handed out *)

VARIABLES
  open,        (* sessions with a container in _session_containers         *)
  frozen,      (* sessions whose registered container has frozen = True    *)
  pins,        (* _UNLOCK_PINS: session -> PIN, 0 when it has no entry     *)
  stalePins,   (* sessions whose stored PIN entry is past expires_at       *)
  userFreeze,  (* _FROZEN_USERS: user -> session_id of the entry           *)
  staleUsers,  (* users whose stored freeze entry is past expires_at       *)
  esc,         (* sessions with an EscalationRecord in the ledger          *)
  req,         (* the request each thread and the event loop is serving    *)
  issued,      (* number of PINs generated so far                          *)
  delivered,   (* PINs a resolve response handed to a teacher              *)
  pinFor,      (* auxiliary: the session a PIN was generated for           *)
  credit,      (* auxiliary: PINs generated less PINs accepted, by session *)
  spent        (* auxiliary: PINs that were accepted                       *)

sessions == <<open, frozen>>
pinStore == <<pins, stalePins>>
userStore == <<userFreeze, staleUsers>>
history == <<pinFor, credit, spent>>
vars == <<sessions, pinStore, userStore, esc, req, issued, delivered, history>>

Steps ==
  {"idle",
   "userGate", "userSid", "userPin", "userDel", "userLift", "userOpen",
   "sessGate", "sessPin", "sessDel", "sessOpen", "sessLift",
   "work", "escFreeze", "escPin", "escLock", "escUser",
   "resPin", "resLock", "resUser", "apiPin", "apiDel", "apiOpen"}

(* A request: where it is, its session and text, the session found in the  *)
(* user's freeze entry, whether the container object it looked up is still *)
(* the registered one, and an auxiliary flag: it is plain text that arrived*)
(* while its user was frozen and the freeze has stood ever since.          *)
Request ==
  [pc: Steps, sess: Sessions \cup {NoSession}, msg: 0 .. MaxPins,
   target: Sessions \cup {NoSession}, holds: BOOLEAN, blocked: BOOLEAN]

Idle == [pc |-> "idle", sess |-> NoSession, msg |-> Text, target |-> NoSession,
         holds |-> FALSE, blocked |-> FALSE]

TypeOK ==
  /\ open \subseteq Sessions
  /\ frozen \subseteq open
  /\ pins \in [Sessions -> 0 .. MaxPins]
  /\ stalePins \subseteq Sessions
  /\ userFreeze \in [Users -> Sessions \cup {NoSession}]
  /\ staleUsers \subseteq Users
  /\ esc \subseteq Sessions
  /\ req \in [Procs -> Request]
  /\ issued \in 0 .. MaxPins
  /\ delivered \subseteq Pin
  /\ pinFor \in [Pin -> Sessions \cup {NoSession}]
  /\ credit \in [Sessions -> Int]
  /\ spent \subseteq Pin

Init ==
  /\ open = {} /\ frozen = {} /\ esc = {}
  /\ pins = [s \in Sessions |-> 0] /\ stalePins = {}
  /\ userFreeze = [u \in Users |-> NoSession] /\ staleUsers = {}
  /\ req = [p \in Procs |-> Idle]
  /\ issued = 0 /\ delivered = {}
  /\ pinFor = [n \in Pin |-> NoSession]
  /\ credit = [s \in Sessions |-> 0]
  /\ spent = {}

At(p, step) == req[p].pc = step
Become(p, r) == req' = [req EXCEPT ![p] = r]
Goto(p, step) == Become(p, [req[p] EXCEPT !.pc = step])
Respond(p) == Become(p, Idle)
IsText(p) == req[p].msg = Text
OwnerOf(p) == Owner[req[p].sess]

-----------------------------------------------------------------------------
(* The in-memory stores of core/session_unlock.py.                         *)

_purge_expired ==
  /\ pins' = [s \in Sessions |-> IF s \in stalePins THEN 0 ELSE pins[s]]
  /\ stalePins' = {}

_purge_expired_user_freezes ==
  /\ userFreeze' = [u \in Users |-> IF u \in staleUsers THEN NoSession ELSE userFreeze[u]]
  /\ staleUsers' = {}

is_user_frozen(u) == u \in Users /\ userFreeze[u] # NoSession /\ u \notin staleUsers

(* A fresh PIN for s replaces whatever entry s had. PINs are numbered in   *)
(* the order they are drawn; a repeated draw (1 in 10^6) is left out.      *)
generate_unlock_pin(s) ==
  /\ issued < MaxPins
  /\ issued' = issued + 1
  /\ pins' = [x \in Sessions |-> IF x = s THEN issued + 1
                                 ELSE IF x \in stalePins THEN 0 ELSE pins[x]]
  /\ stalePins' = {}
  /\ pinFor' = [pinFor EXCEPT ![issued + 1] = s]
  /\ credit' = [credit EXCEPT ![s] = @ + 1]
  /\ UNCHANGED spent

freeze_user(u, s) ==
  /\ userFreeze' = [x \in Users |-> IF x = u THEN s
                                    ELSE IF x \in staleUsers THEN NoSession ELSE userFreeze[x]]
  /\ staleUsers' = {}

unfreeze_user(u) ==
  /\ userFreeze' = [userFreeze EXCEPT ![u] = NoSession]
  /\ staleUsers' = staleUsers \ {u}

(* The freeze of u is over for every request that arrived under it.        *)
Unblock(r, u) ==
  [p \in Procs |-> [r[p] EXCEPT !.blocked = @ /\ Owner[r[p].sess] # u]]

(* validate_unlock_pin, first half: purge, fetch the entry, compare.       *)
Compare(p, s, from, match) ==
  /\ At(p, from)
  /\ _purge_expired
  /\ \/ pins'[s] = req[p].msg /\ Goto(p, match)
     \/ pins'[s] # req[p].msg /\ Respond(p)
  /\ UNCHANGED <<sessions, userStore, esc, issued, delivered, history>>

(* Mutant: a missing entry is popped with a default instead of raising.    *)
Consume_pop_default(p, s, from, next) ==
  /\ At(p, from)
  /\ pins' = [pins EXCEPT ![s] = 0]
  /\ stalePins' = stalePins \ {s}
  /\ credit' = [credit EXCEPT ![s] = @ - 1]
  /\ spent' = spent \cup {req[p].msg}
  /\ Goto(p, next)
  /\ UNCHANGED <<sessions, userStore, esc, issued, delivered, pinFor>>

(* validate_unlock_pin, second half: delete the entry. An entry that is    *)
(* already gone raises KeyError and the request fails.                     *)
Consume(p, s, from, next) ==
  /\ At(p, from)
  /\ \/ /\ pins[s] = 0
        /\ Respond(p)
        /\ UNCHANGED <<pinStore, credit, spent>>
     \/ /\ pins[s] # 0
        /\ pins' = [pins EXCEPT ![s] = 0]
        /\ stalePins' = stalePins \ {s}
        /\ credit' = [credit EXCEPT ![s] = @ - 1]
        /\ spent' = spent \cup {req[p].msg}
        /\ Goto(p, next)
  /\ UNCHANGED <<sessions, userStore, esc, issued, delivered, pinFor>>

(* container.frozen = value, on the object p looked up earlier: a session  *)
(* closed in between has left an object nobody reads.                      *)
SetFrozen(p, s, value) ==
  frozen' = IF ~ req[p].holds THEN frozen
            ELSE IF value THEN frozen \cup {s} ELSE frozen \ {s}

-----------------------------------------------------------------------------
(* A chat turn: process_message up to and including the freeze gates, and  *)
(* the part of the pipeline that may write an EscalationRecord.            *)

(* get_or_create_session, then the text waits for the gates. A student     *)
(* types either ordinary text or a PIN a teacher passed on.                *)
Arrive(t) ==
  /\ At(t, "idle")
  /\ \E s \in Sessions, m \in {Text} \cup delivered :
       /\ Become(t, [Idle EXCEPT !.pc = "userGate", !.sess = s, !.msg = m,
                                !.blocked = m = Text /\ is_user_frozen(Owner[s])])
       /\ open' = open \cup {s}
  /\ UNCHANGED <<frozen, pinStore, userStore, esc, issued, delivered, history>>

(* Mutant: the gate looks at the session's own flag only.                  *)
UserGate_session_only(t) ==
  /\ At(t, "userGate")
  /\ IF req[t].sess \in frozen /\ IsText(t) THEN Respond(t) ELSE Goto(t, "sessGate")
  /\ UNCHANGED <<sessions, pinStore, userStore, esc, issued, delivered, history>>

(* check_user_freeze: is_user_frozen, then the PIN pattern.                *)
UserGate(t) ==
  /\ At(t, "userGate")
  /\ \/ OwnerOf(t) = NoUser /\ UNCHANGED userStore
     \/ OwnerOf(t) # NoUser /\ _purge_expired_user_freezes
  /\ \/ ~ is_user_frozen(OwnerOf(t)) /\ Goto(t, "sessGate")
     \/ is_user_frozen(OwnerOf(t)) /\ IsText(t) /\ Respond(t)
     \/ is_user_frozen(OwnerOf(t)) /\ ~ IsText(t) /\ Goto(t, "userSid")
  /\ UNCHANGED <<sessions, pinStore, esc, issued, delivered, history>>

(* The entry is fetched a second time, without a purge.                    *)
UserSid(t) ==
  LET s == userFreeze[OwnerOf(t)] IN
  /\ At(t, "userSid")
  /\ \/ s = NoSession /\ Respond(t)
     \/ s # NoSession /\ Become(t, [req[t] EXCEPT !.pc = "userPin", !.target = s])
  /\ UNCHANGED <<sessions, pinStore, userStore, esc, issued, delivered, history>>

UserPin(t) == Compare(t, req[t].target, "userPin", "userDel")
UserDel(t) == Consume(t, req[t].target, "userDel", "userLift")

UserLift(t) ==
  /\ At(t, "userLift")
  /\ unfreeze_user(OwnerOf(t))
  /\ req' = Unblock([req EXCEPT ![t] = [@ EXCEPT !.pc = "userOpen", !.holds = req[t].target \in open]],
                    OwnerOf(t))
  /\ UNCHANGED <<sessions, pinStore, esc, issued, delivered, history>>

(* Mutant: the session of the turn is unfrozen instead of the PIN's.       *)
UserOpen_wrong_session(t) ==
  /\ At(t, "userOpen")
  /\ frozen' = frozen \ {req[t].sess}
  /\ Become(t, [req[t] EXCEPT !.pc = "sessGate", !.holds = FALSE])
  /\ UNCHANGED <<open, pinStore, userStore, esc, issued, delivered, history>>

(* The gate returns None: the turn goes on to the next gate.               *)
UserOpen(t) ==
  /\ At(t, "userOpen")
  /\ SetFrozen(t, req[t].target, FALSE)
  /\ Become(t, [req[t] EXCEPT !.pc = "sessGate", !.holds = FALSE])
  /\ UNCHANGED <<open, pinStore, userStore, esc, issued, delivered, history>>

(* check_session_freeze.                                                   *)
SessGate(t) ==
  /\ At(t, "sessGate")
  /\ \/ req[t].sess \notin frozen /\ Goto(t, "work")
     \/ req[t].sess \in frozen /\ IsText(t) /\ Respond(t)
     \/ /\ req[t].sess \in frozen /\ ~ IsText(t)
        /\ Become(t, [req[t] EXCEPT !.pc = "sessPin", !.holds = TRUE])
  /\ UNCHANGED <<sessions, pinStore, userStore, esc, issued, delivered, history>>

SessPin(t) == Compare(t, req[t].sess, "sessPin", "sessDel")
SessDel(t) == Consume(t, req[t].sess, "sessDel", "sessOpen")

(* The response is "session_unlocked"; the text is not processed.          *)
SessOpen(t) ==
  /\ At(t, "sessOpen")
  /\ SetFrozen(t, req[t].sess, FALSE)
  /\ IF OwnerOf(t) = NoUser THEN Respond(t) ELSE Goto(t, "sessLift")
  /\ UNCHANGED <<open, pinStore, userStore, esc, issued, delivered, history>>

SessLift(t) ==
  /\ At(t, "sessLift")
  /\ unfreeze_user(OwnerOf(t))
  /\ req' = Unblock([req EXCEPT ![t] = Idle], OwnerOf(t))
  /\ UNCHANGED <<sessions, pinStore, esc, issued, delivered, history>>

(* Mutant: the auto-freeze no longer depends on the append.                *)
Work_freeze_unrecorded(t) ==
  /\ At(t, "work")
  /\ \/ esc' = esc \cup {req[t].sess} /\ Respond(t)
     \/ Goto(t, "escFreeze") /\ UNCHANGED esc
  /\ UNCHANGED <<sessions, pinStore, userStore, issued, delivered, history>>

(* The pipeline either ends without an escalation or appends an            *)
(* EscalationRecord and goes on to the auto-freeze, unless the module's    *)
(* physics opt out of it.                                                  *)
Work(t) ==
  /\ At(t, "work")
  /\ \/ Respond(t) /\ UNCHANGED esc
     \/ /\ esc' = esc \cup {req[t].sess}
        /\ Goto(t, "escFreeze") \/ Respond(t)
  /\ UNCHANGED <<sessions, pinStore, userStore, issued, delivered, history>>

EscFreeze(t) ==
  /\ At(t, "escFreeze")
  /\ IF req[t].sess \in open \ frozen
     THEN Become(t, [req[t] EXCEPT !.pc = "escPin", !.holds = TRUE])
     ELSE Respond(t)
  /\ UNCHANGED <<sessions, pinStore, userStore, esc, issued, delivered, history>>

(* The PIN of the auto-freeze is stored but shown to nobody.               *)
EscPin(t) ==
  /\ At(t, "escPin")
  /\ generate_unlock_pin(req[t].sess)
  /\ Goto(t, "escLock")
  /\ UNCHANGED <<sessions, userStore, esc, delivered>>

EscLock(t) ==
  /\ At(t, "escLock")
  /\ SetFrozen(t, req[t].sess, TRUE)
  /\ IF OwnerOf(t) = NoUser THEN Respond(t) ELSE Goto(t, "escUser")
  /\ UNCHANGED <<open, pinStore, userStore, esc, issued, delivered, history>>

EscUser(t) ==
  /\ At(t, "escUser")
  /\ freeze_user(OwnerOf(t), req[t].sess)
  /\ Respond(t)
  /\ UNCHANGED <<sessions, pinStore, esc, issued, delivered, history>>

-----------------------------------------------------------------------------
(* Event-loop handlers: resolve_escalation and unlock_session.             *)

(* The teacher picks an escalation record, open or already resolved, and   *)
(* asks for a PIN. A resolution without a PIN touches none of this state.  *)
Resolve ==
  /\ At(Loop, "idle")
  /\ \E s \in esc : Become(Loop, [Idle EXCEPT !.pc = "resPin", !.sess = s])
  /\ UNCHANGED <<sessions, pinStore, userStore, esc, issued, delivered, history>>

(* Without a container there is nothing to freeze; the response carries    *)
(* the PIN to the teacher all the same.                                    *)
ResPin ==
  /\ At(Loop, "resPin")
  /\ generate_unlock_pin(req[Loop].sess)
  /\ \/ /\ req[Loop].sess \in open
        /\ Become(Loop, [req[Loop] EXCEPT !.pc = "resLock", !.msg = issued + 1,
                                         !.holds = TRUE])
        /\ UNCHANGED delivered
     \/ /\ req[Loop].sess \notin open
        /\ Respond(Loop)
        /\ delivered' = delivered \cup {issued + 1}
  /\ UNCHANGED <<sessions, userStore, esc>>

ResLock ==
  /\ At(Loop, "resLock")
  /\ SetFrozen(Loop, req[Loop].sess, TRUE)
  /\ \/ OwnerOf(Loop) # NoUser /\ Goto(Loop, "resUser") /\ UNCHANGED delivered
     \/ /\ OwnerOf(Loop) = NoUser
        /\ Respond(Loop)
        /\ delivered' = delivered \cup {req[Loop].msg}
  /\ UNCHANGED <<open, pinStore, userStore, esc, issued, history>>

ResUser ==
  /\ At(Loop, "resUser")
  /\ freeze_user(OwnerOf(Loop), req[Loop].sess)
  /\ delivered' = delivered \cup {req[Loop].msg}
  /\ Respond(Loop)
  /\ UNCHANGED <<sessions, pinStore, esc, issued, history>>

(* POST /api/sessions/{id}/unlock with a PIN.                              *)
Unlock ==
  /\ At(Loop, "idle")
  /\ \E s \in Sessions, m \in delivered :
       Become(Loop, [Idle EXCEPT !.pc = "apiPin", !.sess = s, !.msg = m])
  /\ UNCHANGED <<sessions, pinStore, userStore, esc, issued, delivered, history>>

ApiPin == Compare(Loop, req[Loop].sess, "apiPin", "apiDel")
ApiDel == Consume(Loop, req[Loop].sess, "apiDel", "apiOpen")

ApiOpen ==
  /\ At(Loop, "apiOpen")
  /\ frozen' = frozen \ {req[Loop].sess}
  /\ Respond(Loop)
  /\ UNCHANGED <<open, pinStore, userStore, esc, issued, delivered, history>>

-----------------------------------------------------------------------------
(* Session close, passing time, process restart.                           *)

(* The session whose container a request refers to.                        *)
HeldSession(p) == IF At(p, "userOpen") THEN req[p].target ELSE req[p].sess

(* Mutant: the frozen flag outlives its container.                         *)
Close_keeps_flag(s) ==
  /\ s \in open
  /\ open' = open \ {s}
  /\ req' = [p \in Procs |-> [req[p] EXCEPT !.holds = @ /\ HeldSession(p) # s]]
  /\ UNCHANGED <<frozen, pinStore, userStore, esc, issued, delivered, history>>

(* _close_session drops the container, and its frozen flag with it.        *)
Close(s) ==
  /\ s \in open
  /\ open' = open \ {s}
  /\ frozen' = frozen \ {s}
  /\ req' = [p \in Procs |-> [req[p] EXCEPT !.holds = @ /\ HeldSession(p) # s]]
  /\ UNCHANGED <<pinStore, userStore, esc, issued, delivered, history>>

PinExpires(s) ==
  /\ Expiry /\ pins[s] # 0 /\ s \notin stalePins
  /\ stalePins' = stalePins \cup {s}
  /\ UNCHANGED <<sessions, pins, userStore, esc, req, issued, delivered, history>>

FreezeExpires(u) ==
  /\ Expiry /\ userFreeze[u] # NoSession /\ u \notin staleUsers
  /\ staleUsers' = staleUsers \cup {u}
  /\ req' = Unblock(req, u)
  /\ UNCHANGED <<sessions, pinStore, userFreeze, esc, issued, delivered, history>>

(* Everything but the ledger's escalation records lives in the process.    *)
Restart ==
  /\ open' = {} /\ frozen' = {}
  /\ pins' = [s \in Sessions |-> 0] /\ stalePins' = {}
  /\ userFreeze' = [u \in Users |-> NoSession] /\ staleUsers' = {}
  /\ req' = [p \in Procs |-> Idle]
  /\ UNCHANGED <<esc, issued, delivered, history>>

Turn(t) ==
  \/ Arrive(t) \/ UserGate(t) \/ UserSid(t) \/ UserPin(t) \/ UserDel(t)
  \/ UserLift(t) \/ UserOpen(t) \/ SessGate(t) \/ SessPin(t) \/ SessDel(t)
  \/ SessOpen(t) \/ SessLift(t) \/ Work(t) \/ EscFreeze(t) \/ EscPin(t)
  \/ EscLock(t) \/ EscUser(t)

Handler ==
  \/ Resolve \/ ResPin \/ ResLock \/ ResUser
  \/ Unlock \/ ApiPin \/ ApiDel \/ ApiOpen

Next ==
  \/ \E t \in Threads : Turn(t)
  \/ Handler
  \/ \E s \in Sessions : Close(s) \/ PinExpires(s)
  \/ \E u \in Users : FreezeExpires(u)
  \/ Restart

Spec == Init /\ [][Next]_vars

-----------------------------------------------------------------------------
(* Nothing is locked that a teacher could not unlock: every frozen session, *)
(* stored PIN and frozen user goes back to an EscalationRecord that is in   *)
(* the ledger, which is all resolve_escalation needs to issue a new PIN.    *)
LocksHaveEscalations ==
  /\ frozen \subseteq esc
  /\ \A s \in Sessions : pins[s] # 0 => s \in esc
  /\ \A u \in Users : userFreeze[u] # NoSession => userFreeze[u] \in esc

(* A PIN store entry is used up at most once, whatever the interleaving of  *)
(* turns and endpoints validating it: a session is unlocked no more often   *)
(* than PINs were generated for it, the one still stored not counted.       *)
UnlocksConsumePins ==
  \A s \in Sessions : credit[s] >= (IF pins[s] = 0 THEN 0 ELSE 1)

(* A request that is about to lift the freeze of session s: its PIN was     *)
(* accepted, was generated for s and was handed out by a teacher.           *)
Justified(p, s) ==
  req[p].msg \in delivered \cap spent /\ pinFor[req[p].msg] = s

(* A session leaves the frozen state, other than by being closed or by a    *)
(* restart, only in a request holding an accepted PIN that a teacher issued *)
(* for that very session.                                                   *)
LiftedByOwnPin ==
  [][\A s \in Sessions :
       s \in frozen /\ s \notin frozen' /\ s \in open' =>
         \E p \in Procs : req[p] # req'[p] /\ HeldSession(p) = s /\ Justified(p, s)]_vars

(* While a user is frozen, text the user sends in any session, a new one    *)
(* included, does not get past the first gate.                              *)
FrozenUserIsBlocked == \A t \in Threads : req[t].blocked => At(t, "userGate")

-----------------------------------------------------------------------------
(* The inductive invariant behind the properties, by topic.                 *)

(* What a request carries at each step.                                     *)
Carries(p) ==
  /\ ~ At(p, "idle") => req[p].sess \in Sessions
  /\ req[p].pc \in {"userPin", "userDel", "userLift", "userOpen"} => req[p].target \in Sessions
  /\ req[p].pc \in {"userSid", "userPin", "userDel", "userLift", "sessLift", "escUser", "resUser"}
       => OwnerOf(p) \in Users
  /\ req[p].pc \in {"userSid", "userPin", "userDel", "userLift", "userOpen", "sessPin", "sessDel",
                    "sessOpen", "apiPin", "apiDel", "apiOpen", "resLock", "resUser"}
       => ~ IsText(p)
  /\ ~ IsText(p) => req[p].msg \in 1 .. issued
  /\ ~ IsText(p) /\ req[p].pc \notin {"resLock", "resUser"} => req[p].msg \in delivered
  /\ req[p].holds => HeldSession(p) \in open

RequestInv == \A p \in Procs : Carries(p)

(* Which session a stored, a compared and an accepted PIN belongs to.       *)
PinInv ==
  /\ \A s \in Sessions : pins[s] # 0 => pins[s] <= issued /\ pinFor[pins[s]] = s
  /\ \A p \in Procs :
       /\ req[p].pc \in {"userDel", "userLift", "userOpen"} => pinFor[req[p].msg] = req[p].target
       /\ req[p].pc \in {"sessDel", "sessOpen", "apiDel", "apiOpen"} => pinFor[req[p].msg] = req[p].sess
       /\ req[p].pc \in {"userLift", "userOpen", "sessOpen", "apiOpen"} => req[p].msg \in spent

(* The escalation is recorded before anything is locked for it.             *)
EscInv ==
  /\ LocksHaveEscalations
  /\ \A p \in Procs :
       req[p].pc \in {"escFreeze", "escPin", "escLock", "escUser", "resPin", "resLock", "resUser"}
         => req[p].sess \in esc

(* The freeze that met a plain text on arrival still stands.                *)
BlockInv ==
  \A p \in Procs : req[p].blocked => At(p, "userGate") /\ IsText(p) /\ is_user_frozen(OwnerOf(p))

TypedInv == TypeOK /\ RequestInv /\ delivered \subseteq 1 .. issued

IInv == TypedInv /\ PinInv /\ EscInv /\ BlockInv /\ UnlocksConsumePins

-----------------------------------------------------------------------------
(* What a comment says and the code does not do.                            *)

(* "Also freeze the user across all sessions so creating a new conversation *)
(* cannot bypass the lock": a locked session's owner is locked too.         *)
FrozenSessionFreezesUser ==
  (\A p \in Procs : At(p, "idle")) =>
    \A s \in frozen : Owner[s] \in Users => userFreeze[Owner[s]] # NoSession
=============================================================================
