------------------------- MODULE SessionFreezeProofs -------------------------
(***************************************************************************)
(* Theorems about SessionFreeze, for any sessions, users, owners, threads  *)
(* and number of PINs.                                                     *)
(***************************************************************************)
EXTENDS SessionFreeze, TLAPS

USE FreezeAssumption DEF FreezeAssumption

-----------------------------------------------------------------------------
(* How the steps change the request slots.                                 *)

Typed == req \in [Procs -> Request]

(* Every slot but p's is as it was.                                        *)
KeepsOthers(p) == \A q \in Procs \ {p} : req'[q] = req[q]

LEMMA BecomeEffect ==
  ASSUME Typed, NEW p \in Procs, NEW r \in Request, Become(p, r)
  PROVE  Typed' /\ KeepsOthers(p) /\ req'[p] = r
BY DEF Typed, Become, KeepsOthers

LEMMA GotoEffect ==
  ASSUME Typed, NEW p \in Procs, NEW step \in Steps, Goto(p, step)
  PROVE  /\ Typed' /\ KeepsOthers(p)
         /\ req'[p].pc = step /\ req'[p].sess = req[p].sess /\ req'[p].msg = req[p].msg
         /\ req'[p].target = req[p].target /\ req'[p].holds = req[p].holds
BY DEF Typed, Request, Goto, Become, KeepsOthers

LEMMA RespondEffect ==
  ASSUME Typed, NEW p \in Procs, Respond(p)
  PROVE  /\ Typed' /\ KeepsOthers(p)
         /\ req'[p].pc = "idle" /\ req'[p].sess = NoSession /\ req'[p].msg = Text
         /\ req'[p].holds = FALSE
BY DEF Typed, Request, Respond, Become, KeepsOthers, Idle, Steps, Text

(* Only the auxiliary flag "blocked" differs.                              *)
LEMMA UnblockEffect ==
  ASSUME NEW r \in [Procs -> Request], NEW u, req' = Unblock(r, u)
  PROVE  /\ Typed'
         /\ \A q \in Procs : /\ req'[q].pc = r[q].pc /\ req'[q].sess = r[q].sess
                             /\ req'[q].msg = r[q].msg /\ req'[q].target = r[q].target
                             /\ req'[q].holds = r[q].holds
BY DEF Typed, Request, Unblock

(* What another process's step must leave alone for p's request to carry   *)
(* what it did.                                                            *)
LEMMA CarriesFrame ==
  ASSUME NEW p \in Procs, Carries(p), issued \in Nat, issued' \in Nat, issued <= issued',
         delivered \subseteq delivered',
         req'[p].pc = req[p].pc, req'[p].sess = req[p].sess, req'[p].msg = req[p].msg,
         req'[p].target = req[p].target, req'[p].holds => HeldSession(p) \in open'
  PROVE  Carries(p)'
BY DEF Carries, At, OwnerOf, HeldSession, IsText, Text

LEMMA CarriesOthers ==
  ASSUME NEW p \in Procs, KeepsOthers(p), RequestInv, issued \in Nat, issued' \in Nat,
         issued <= issued', delivered \subseteq delivered', open \subseteq open', Carries(p)'
  PROVE  RequestInv'
<1> SUFFICES ASSUME NEW q \in Procs PROVE Carries(q)'
  BY DEF RequestInv
<1>1. CASE q = p
  BY <1>1
<1>2. CASE q # p
  <2>1. req'[q] = req[q] /\ Carries(q)
    BY <1>2 DEF KeepsOthers, RequestInv
  <2>2. req'[q].holds => HeldSession(q) \in open'
    BY <2>1 DEF Carries
  <2> QED BY <2>1, <2>2, CarriesFrame
<1> QED BY <1>1, <1>2

(* A finished request carries nothing.                                     *)
LEMMA CarriesIdle ==
  ASSUME NEW p \in Procs, Typed, Respond(p)
  PROVE  Carries(p)'
BY RespondEffect DEF Carries, At, OwnerOf, HeldSession, IsText

-----------------------------------------------------------------------------
(* Types.                                                                  *)

(* The part of TypeOK that is not about the request slots.                 *)
StoresOK ==
  /\ open \subseteq Sessions
  /\ frozen \subseteq open
  /\ pins \in [Sessions -> 0 .. MaxPins]
  /\ stalePins \subseteq Sessions
  /\ userFreeze \in [Users -> Sessions \cup {NoSession}]
  /\ staleUsers \subseteq Users
  /\ esc \subseteq Sessions
  /\ issued \in 0 .. MaxPins
  /\ delivered \subseteq Pin
  /\ pinFor \in [Pin -> Sessions \cup {NoSession}]
  /\ credit \in [Sessions -> Int]
  /\ spent \subseteq Pin

LEMMA TypeOKSplit == TypeOK <=> StoresOK /\ Typed
BY DEF TypeOK, StoresOK, Typed

LEMMA ComparePreserves ==
  ASSUME TypedInv, NEW p \in Procs, NEW s \in Sessions, NEW from \in Steps, NEW match \in Steps,
         \/ from = "userPin" /\ match = "userDel"
         \/ from = "sessPin" /\ match = "sessDel"
         \/ from = "apiPin" /\ match = "apiDel",
         Compare(p, s, from, match)
  PROVE  TypedInv'
<1>1. /\ StoresOK /\ Typed /\ issued \in Nat
      /\ RequestInv /\ delivered \subseteq 1 .. issued
  BY TypeOKSplit DEF TypedInv, StoresOK
<1>2. StoresOK'
  BY <1>1 DEF Compare, _purge_expired, StoresOK, sessions, userStore, history
<1>3. UNCHANGED <<open, issued, delivered>>
  BY DEF Compare, sessions
<1>4. CASE Goto(p, match)
  <2>1. Carries(p) /\ req[p].pc = from
    BY <1>1 DEF RequestInv, Compare, At
  <2>2. Carries(p)'
    BY <2>1, <1>1, <1>3, <1>4, GotoEffect DEF Carries, At, OwnerOf, HeldSession, IsText
  <2> QED BY <1>1, <1>2, <1>3, <1>4, <2>2, GotoEffect, CarriesOthers DEF TypedInv, TypeOK, StoresOK, Typed
<1>5. CASE Respond(p)
  <2>1. Typed' /\ KeepsOthers(p) /\ Carries(p)'
    BY <1>1, <1>5, CarriesIdle, RespondEffect
  <2> QED BY <1>1, <1>2, <1>3, <2>1, CarriesOthers DEF TypedInv, TypeOK, StoresOK, Typed
<1> QED BY <1>4, <1>5 DEF Compare

LEMMA ConsumePreserves ==
  ASSUME TypedInv, NEW p \in Procs, NEW s \in Sessions, NEW from \in Steps, NEW next \in Steps,
         \/ from = "userDel" /\ next = "userLift"
         \/ from = "sessDel" /\ next = "sessOpen"
         \/ from = "apiDel" /\ next = "apiOpen",
         Consume(p, s, from, next)
  PROVE  TypedInv'
<1>1. /\ StoresOK /\ Typed /\ issued \in Nat
      /\ RequestInv /\ delivered \subseteq 1 .. issued
  BY TypeOKSplit DEF TypedInv, StoresOK
<1>2. Carries(p) /\ req[p].pc = from
  BY DEF TypedInv, RequestInv, Consume, At
<1>3. req[p].msg \in Pin
  BY <1>1, <1>2 DEF Carries, StoresOK
<1>4. StoresOK'
  <2>1. UNCHANGED <<open, frozen, userFreeze, staleUsers, esc, issued, delivered, pinFor>>
    BY DEF Consume, sessions, userStore
  <2>2. pins' \in [Sessions -> 0 .. MaxPins] /\ stalePins' \subseteq Sessions
    BY <1>1 DEF Consume, StoresOK, pinStore
  <2>3. \/ UNCHANGED <<credit, spent>>
        \/ credit' = [credit EXCEPT ![s] = @ - 1] /\ spent' = spent \cup {req[p].msg}
    BY DEF Consume
  <2>4. credit \in [Sessions -> Int] /\ spent \subseteq Pin
    BY <1>1 DEF StoresOK
  <2>5. credit' \in [Sessions -> Int]
    <3>1. credit[s] - 1 \in Int
      BY <2>4
    <3> QED BY <2>3, <2>4, <3>1
  <2>6. spent' \subseteq Pin
    BY <1>3, <2>3, <2>4
  <2> QED BY <1>1, <2>1, <2>2, <2>5, <2>6 DEF StoresOK
<1>5. UNCHANGED <<open, issued, delivered>>
  BY DEF Consume, sessions
<1>6. CASE Goto(p, next)
  <2>1. Carries(p)'
    BY <1>1, <1>2, <1>5, <1>6, GotoEffect DEF Carries, At, OwnerOf, HeldSession, IsText
  <2> QED BY <1>1, <1>4, <1>5, <1>6, <2>1, GotoEffect, CarriesOthers DEF TypedInv, TypeOK, StoresOK, Typed
<1>7. CASE Respond(p)
  <2>1. Typed' /\ KeepsOthers(p) /\ Carries(p)'
    BY <1>1, <1>7, CarriesIdle, RespondEffect
  <2> QED BY <1>1, <1>4, <1>5, <2>1, CarriesOthers DEF TypedInv, TypeOK, StoresOK, Typed
<1> QED BY <1>6, <1>7 DEF Consume

LEMMA IdleRequest == Idle \in Request /\ Idle.pc = "idle" /\ Idle.msg = Text /\ Idle.holds = FALSE
BY DEF Idle, Request, Steps, Text

(* One process's step, and the stores it leaves well typed.                *)
LEMMA Assemble ==
  ASSUME TypedInv, NEW p \in Procs, StoresOK', Typed', KeepsOthers(p), Carries(p)',
         open \subseteq open', issued <= issued', delivered \subseteq delivered',
         delivered' \subseteq 1 .. issued'
  PROVE  TypedInv'
<1>1. RequestInv /\ issued \in Nat /\ issued' \in Nat
  BY DEF TypedInv, TypeOK, StoresOK
<1>2. RequestInv'
  BY <1>1, CarriesOthers
<1> QED BY <1>2 DEF TypedInv, TypeOK, StoresOK, Typed

(* What the proof of each action starts from.                              *)
LEMMA Facts ==
  ASSUME TypedInv, NEW p \in Procs
  PROVE  /\ StoresOK /\ Typed /\ RequestInv /\ delivered \subseteq 1 .. issued
         /\ issued \in Nat /\ issued <= MaxPins
         /\ Carries(p) /\ req[p] \in Request
<1>1. StoresOK /\ Typed /\ RequestInv /\ delivered \subseteq 1 .. issued
  BY TypeOKSplit DEF TypedInv
<1> QED BY <1>1 DEF StoresOK, Typed, RequestInv

(* The step of a request that has done its work on the stores.             *)
Stores ==
  /\ StoresOK' /\ open \subseteq open' /\ issued <= issued'
  /\ delivered \subseteq delivered' /\ delivered' \subseteq 1 .. issued'

(* The rest of the proof once the new request slot is known.               *)
LEMMA RespondPreserves ==
  ASSUME TypedInv, NEW p \in Procs, Stores, Respond(p)
  PROVE  TypedInv'
BY Facts, RespondEffect, CarriesIdle, Assemble DEF Stores

LEMMA BecomePreserves ==
  ASSUME TypedInv, NEW p \in Procs, Stores, NEW r \in Request, Become(p, r),
         req'[p] = r => Carries(p)'
  PROVE  TypedInv'
BY Facts, BecomeEffect, Assemble DEF Stores

LEMMA GotoPreserves ==
  ASSUME TypedInv, NEW p \in Procs, Stores, NEW step \in Steps, Goto(p, step), 
         step \notin {"userPin", "userDel", "userLift", "userOpen", "sessPin",
                      "sessDel", "sessOpen", "apiPin", "apiDel", "apiOpen", "resLock"},
         ~ At(p, "idle"), ~ At(p, "userOpen"),
         At(p, "resLock") <=> step = "resUser", ~ At(p, "resUser"),
         step = "userSid" => ~ IsText(p) /\ OwnerOf(p) # NoUser,
         step \in {"sessLift", "escUser", "resUser"} => OwnerOf(p) # NoUser
  PROVE  TypedInv'
<1>1. Typed' /\ KeepsOthers(p)
  BY Facts, GotoEffect
<1>2. req[p].sess \in Sessions /\ (OwnerOf(p) # NoUser => OwnerOf(p) \in Users)
  BY Facts DEF Carries, OwnerOf
<1>3. Carries(p)'
  BY <1>2, Facts, GotoEffect DEF Carries, At, OwnerOf, HeldSession, IsText, Stores, StoresOK
<1> QED BY <1>1, <1>3, Assemble DEF Stores

-----------------------------------------------------------------------------
(* The steps of a chat turn, one lemma each.                               *)

LEMMA ArriveTyped == ASSUME TypedInv, NEW t \in Threads, Arrive(t) PROVE TypedInv'
<1>1. t \in Procs
  BY DEF Procs
<1>2. PICK s \in Sessions, m \in {Text} \cup delivered :
        Become(t, [Idle EXCEPT !.pc = "userGate", !.sess = s, !.msg = m,
                               !.blocked = m = Text /\ is_user_frozen(Owner[s])])
  BY DEF Arrive
<1>3. Stores
  BY <1>1, Facts DEF Arrive, StoresOK, Stores, sessions, pinStore, userStore, history
<1>4. PICK r \in Request :
        Become(t, r) /\ r.pc = "userGate" /\ r.sess = s /\ r.msg = m /\ r.holds = FALSE
  <2> DEFINE r == [Idle EXCEPT !.pc = "userGate", !.sess = s, !.msg = m,
                               !.blocked = m = Text /\ is_user_frozen(Owner[s])]
  <2>1. m \in 0 .. MaxPins
    BY <1>1, Facts DEF StoresOK, Pin, Text
  <2>2. r \in Request /\ r.pc = "userGate" /\ r.sess = s /\ r.msg = m /\ r.holds = FALSE
    BY <2>1 DEF Idle, Request, Steps, Text
  <2> QED BY <1>2, <2>2
<1>5. req'[t] = r => Carries(t)'
  BY <1>1, <1>3, <1>4, Facts DEF Carries, At, HeldSession, IsText, Stores, StoresOK
<1> QED BY <1>1, <1>3, <1>4, <1>5, BecomePreserves

LEMMA UserGateTyped == ASSUME TypedInv, NEW t \in Threads, UserGate(t) PROVE TypedInv'
<1>1. t \in Procs
  BY DEF Procs
<1>2. Stores
  BY <1>1, Facts DEF UserGate, StoresOK, Stores, sessions, pinStore, userStore, history, _purge_expired_user_freezes
<1>3. CASE Respond(t)
  BY <1>1, <1>2, <1>3, RespondPreserves
<1>4. CASE Goto(t, "sessGate")
  BY <1>1, <1>2, <1>4, Facts, GotoPreserves DEF UserGate, At, Steps
<1>5. CASE Goto(t, "userSid") /\ is_user_frozen(OwnerOf(t)) /\ ~ IsText(t)
  BY <1>1, <1>2, <1>5, GotoPreserves DEF UserGate, At, Steps, is_user_frozen
<1> QED BY <1>3, <1>4, <1>5 DEF UserGate

LEMMA UserSidTyped == ASSUME TypedInv, NEW t \in Threads, UserSid(t) PROVE TypedInv'
<1>1. t \in Procs
  BY DEF Procs
<1>2. Stores
  BY <1>1, Facts DEF UserSid, StoresOK, Stores, sessions, pinStore, userStore, history
<1>3. CASE Respond(t)
  BY <1>1, <1>2, <1>3, RespondPreserves
<1> DEFINE s == userFreeze[OwnerOf(t)]
           r == [req[t] EXCEPT !.pc = "userPin", !.target = s]
<1>4. CASE s # NoSession /\ Become(t, r)
  <2>1. OwnerOf(t) \in Users
    BY <1>1, Facts DEF UserSid, At, Carries
  <2>2. s \in Sessions
    BY <1>1, <1>4, <2>1, Facts DEF StoresOK
  <2> HIDE DEF s
  <2>3. r \in Request /\ r.pc = "userPin" /\ r.target \in Sessions /\ r.sess = req[t].sess
        /\ r.msg = req[t].msg /\ r.holds = req[t].holds
    BY <1>1, <2>2, Facts DEF Request, Steps
  <2> HIDE DEF r
  <2>4. req'[t] = r => Carries(t)'
    BY <1>1, <1>2, <2>1, <2>3, Facts DEF UserSid, Carries, At, OwnerOf, HeldSession, IsText, Stores
  <2> QED BY <1>1, <1>2, <1>4, <2>3, <2>4, BecomePreserves
<1> QED BY <1>3, <1>4 DEF UserSid

LEMMA UserOpenTyped == ASSUME TypedInv, NEW t \in Threads, UserOpen(t) PROVE TypedInv'
<1>1. t \in Procs
  BY DEF Procs
<1>2. Stores
  BY <1>1, Facts DEF UserOpen, StoresOK, Stores, sessions, pinStore, userStore, history, SetFrozen
<1>3. CASE Become(t, [req[t] EXCEPT !.pc = "sessGate", !.holds = FALSE])
  <2> DEFINE r == [req[t] EXCEPT !.pc = "sessGate", !.holds = FALSE]
  <2>1. r \in Request /\ r.pc = "sessGate" /\ r.holds = FALSE /\ r.sess = req[t].sess /\ r.msg = req[t].msg
    BY <1>1, <1>2, <1>3, Facts DEF Request, Steps, Stores, StoresOK
  <2> HIDE DEF r
  <2>2. req'[t] = r => Carries(t)'
    BY <1>1, <1>2, <1>3, <2>1, Facts DEF UserOpen, Carries, At, OwnerOf, HeldSession, IsText, Stores, StoresOK
  <2>3. Become(t, r)
    BY <1>3 DEF r
  <2> QED BY <1>1, <1>2, <2>1, <2>2, <2>3, BecomePreserves
<1> QED BY <1>3 DEF UserOpen

LEMMA SessGateTyped == ASSUME TypedInv, NEW t \in Threads, SessGate(t) PROVE TypedInv'
<1>1. t \in Procs
  BY DEF Procs
<1>2. Stores
  BY <1>1, Facts DEF SessGate, StoresOK, Stores, sessions, pinStore, userStore, history
<1>3. CASE Respond(t)
  BY <1>1, <1>2, <1>3, RespondPreserves
<1>4. CASE Goto(t, "work")
  BY <1>1, <1>2, <1>4, Facts, GotoPreserves DEF SessGate, At, Steps
<1>5. CASE req[t].sess \in frozen /\ ~ IsText(t) /\ Become(t, [req[t] EXCEPT !.pc = "sessPin", !.holds = TRUE])
  <2> DEFINE r == [req[t] EXCEPT !.pc = "sessPin", !.holds = TRUE]
  <2>1. r \in Request /\ r.pc = "sessPin" /\ r.sess = req[t].sess /\ r.msg = req[t].msg
    BY <1>1, <1>2, <1>5, Facts DEF Request, Steps, Stores, StoresOK
  <2> HIDE DEF r
  <2>2. req'[t] = r => Carries(t)'
    BY <1>1, <1>2, <1>5, <2>1, Facts DEF SessGate, Carries, At, OwnerOf, HeldSession, IsText, Stores, StoresOK
  <2>3. Become(t, r)
    BY <1>5 DEF r
  <2> QED BY <1>1, <1>2, <2>1, <2>2, <2>3, BecomePreserves
<1> QED BY <1>3, <1>4, <1>5 DEF SessGate

LEMMA SessOpenTyped == ASSUME TypedInv, NEW t \in Threads, SessOpen(t) PROVE TypedInv'
<1>1. t \in Procs
  BY DEF Procs
<1>2. Stores
  BY <1>1, Facts DEF SessOpen, StoresOK, Stores, sessions, pinStore, userStore, history, SetFrozen, HeldSession, At, Carries
<1>3. CASE Respond(t)
  BY <1>1, <1>2, <1>3, RespondPreserves
<1>4. CASE Goto(t, "sessLift") /\ OwnerOf(t) # NoUser
  BY <1>1, <1>2, <1>4, Facts, GotoPreserves DEF SessOpen, At, Steps
<1> QED BY <1>3, <1>4 DEF SessOpen

LEMMA WorkTyped == ASSUME TypedInv, NEW t \in Threads, Work(t) PROVE TypedInv'
<1>1. t \in Procs
  BY DEF Procs
<1>2. Stores
  BY <1>1, Facts DEF Work, StoresOK, Stores, sessions, pinStore, userStore, history, At, Carries
<1>3. CASE Respond(t)
  BY <1>1, <1>2, <1>3, RespondPreserves
<1>4. CASE Goto(t, "escFreeze")
  BY <1>1, <1>2, <1>4, Facts, GotoPreserves DEF Work, At, Steps
<1> QED BY <1>3, <1>4 DEF Work

LEMMA EscFreezeTyped == ASSUME TypedInv, NEW t \in Threads, EscFreeze(t) PROVE TypedInv'
<1>1. t \in Procs
  BY DEF Procs
<1>2. Stores
  BY <1>1, Facts DEF EscFreeze, StoresOK, Stores, sessions, pinStore, userStore, history
<1>3. CASE Respond(t)
  BY <1>1, <1>2, <1>3, RespondPreserves
<1>4. CASE req[t].sess \in open \ frozen /\ Become(t, [req[t] EXCEPT !.pc = "escPin", !.holds = TRUE])
  <2> DEFINE r == [req[t] EXCEPT !.pc = "escPin", !.holds = TRUE]
  <2>1. r \in Request /\ r.pc = "escPin" /\ r.sess = req[t].sess /\ r.msg = req[t].msg
    BY <1>1, <1>2, <1>4, Facts DEF Request, Steps, Stores, StoresOK
  <2> HIDE DEF r
  <2>2. req'[t] = r => Carries(t)'
    BY <1>1, <1>2, <1>4, <2>1, Facts DEF EscFreeze, Carries, At, OwnerOf, HeldSession, IsText, Stores, StoresOK
  <2>3. Become(t, r)
    BY <1>4 DEF r
  <2> QED BY <1>1, <1>2, <2>1, <2>2, <2>3, BecomePreserves
<1> QED BY <1>3, <1>4 DEF EscFreeze

LEMMA EscPinTyped == ASSUME TypedInv, NEW t \in Threads, EscPin(t) PROVE TypedInv'
<1>1. t \in Procs
  BY DEF Procs
<1>2. Stores
  BY <1>1, Facts DEF EscPin, StoresOK, Stores, sessions, pinStore, userStore, history, generate_unlock_pin, At, Carries, Pin
<1>3. CASE Goto(t, "escLock")
  BY <1>1, <1>2, <1>3, Facts, GotoPreserves DEF EscPin, At, Steps
<1> QED BY <1>3 DEF EscPin

LEMMA EscLockTyped == ASSUME TypedInv, NEW t \in Threads, EscLock(t) PROVE TypedInv'
<1>1. t \in Procs
  BY DEF Procs
<1>2. Stores
  BY <1>1, Facts DEF EscLock, StoresOK, Stores, sessions, pinStore, userStore, history, SetFrozen, HeldSession, At, Carries
<1>3. CASE Respond(t)
  BY <1>1, <1>2, <1>3, RespondPreserves
<1>4. CASE Goto(t, "escUser") /\ OwnerOf(t) # NoUser
  BY <1>1, <1>2, <1>4, Facts, GotoPreserves DEF EscLock, At, Steps
<1> QED BY <1>3, <1>4 DEF EscLock

LEMMA EscUserTyped == ASSUME TypedInv, NEW t \in Threads, EscUser(t) PROVE TypedInv'
<1>1. t \in Procs
  BY DEF Procs
<1>2. Stores
  BY <1>1, Facts DEF EscUser, StoresOK, Stores, sessions, pinStore, userStore, history, freeze_user, At, Carries
<1>3. CASE Respond(t)
  BY <1>1, <1>2, <1>3, RespondPreserves
<1> QED BY <1>3 DEF EscUser

-----------------------------------------------------------------------------
(* The steps of the endpoints.                                             *)

LEMMA ResolveTyped == ASSUME TypedInv, Resolve PROVE TypedInv'
<1>1. Loop \in Procs
  BY DEF Procs
<1>2. Stores
  BY <1>1, Facts DEF Resolve, StoresOK, Stores, sessions, pinStore, userStore, history
<1>3. PICK s \in esc : Become(Loop, [Idle EXCEPT !.pc = "resPin", !.sess = s])
  BY DEF Resolve
<1>4. s \in Sessions /\ Text \in 0 .. MaxPins
  BY <1>1, Facts DEF StoresOK, Text
<1> DEFINE r == [Idle EXCEPT !.pc = "resPin", !.sess = s]
<1>5. r \in Request /\ r.pc = "resPin" /\ r.sess = s /\ r.msg = Text /\ r.holds = FALSE
  BY <1>4 DEF Idle, Request, Steps
<1>6. Become(Loop, r)
  BY <1>3
<1> HIDE DEF r
<1>7. req'[Loop] = r => Carries(Loop)'
  BY <1>4, <1>5 DEF Carries, At, HeldSession, IsText
<1> QED BY <1>1, <1>2, <1>5, <1>6, <1>7, BecomePreserves

LEMMA UnlockTyped == ASSUME TypedInv, Unlock PROVE TypedInv'
<1>1. Loop \in Procs
  BY DEF Procs
<1>2. Stores
  BY <1>1, Facts DEF Unlock, StoresOK, Stores, sessions, pinStore, userStore, history
<1>3. PICK s \in Sessions, m \in delivered :
        Become(Loop, [Idle EXCEPT !.pc = "apiPin", !.sess = s, !.msg = m])
  BY DEF Unlock
<1> DEFINE r == [Idle EXCEPT !.pc = "apiPin", !.sess = s, !.msg = m]
<1>4. m \in 0 .. MaxPins
  BY <1>1, Facts DEF StoresOK, Pin
<1>5. r \in Request /\ r.pc = "apiPin" /\ r.sess = s /\ r.msg = m /\ r.holds = FALSE
  BY <1>4 DEF Idle, Request, Steps, Text
<1>6. Become(Loop, r)
  BY <1>3
<1> HIDE DEF r
<1>7. req'[Loop] = r => Carries(Loop)'
  BY <1>1, <1>2, <1>5, Facts DEF Carries, At, HeldSession, IsText, Text, Stores, Unlock
<1> QED BY <1>1, <1>2, <1>5, <1>6, <1>7, BecomePreserves

LEMMA ResPinTyped == ASSUME TypedInv, ResPin PROVE TypedInv'
<1>1. Loop \in Procs
  BY DEF Procs
<1>2. Stores
  BY <1>1, Facts DEF ResPin, StoresOK, Stores, sessions, pinStore, userStore, history, generate_unlock_pin, At, Carries, Pin
<1>3. CASE Respond(Loop)
  BY <1>1, <1>2, <1>3, RespondPreserves
<1>4. CASE req[Loop].sess \in open /\ Become(Loop, [req[Loop] EXCEPT !.pc = "resLock", !.msg = issued + 1, !.holds = TRUE])
           /\ UNCHANGED delivered
  <2> DEFINE r == [req[Loop] EXCEPT !.pc = "resLock", !.msg = issued + 1, !.holds = TRUE]
  <2>1. issued + 1 \in 1 .. issued' /\ issued + 1 \in 0 .. MaxPins /\ issued + 1 # Text
    BY <1>1, Facts DEF ResPin, generate_unlock_pin, Text
  <2>2. r \in Request /\ r.pc = "resLock" /\ r.msg = issued + 1 /\ r.sess = req[Loop].sess
    BY <1>1, <2>1, Facts DEF Request, Steps
  <2>3. Become(Loop, r)
    BY <1>4
  <2> HIDE DEF r
  <2>4. req'[Loop] = r => Carries(Loop)'
    BY <1>1, <1>4, <2>1, <2>2, Facts DEF ResPin, Carries, At, OwnerOf, HeldSession, IsText, sessions
  <2> QED BY <1>1, <1>2, <2>2, <2>3, <2>4, BecomePreserves
<1> QED BY <1>3, <1>4 DEF ResPin

LEMMA ResLockTyped == ASSUME TypedInv, ResLock PROVE TypedInv'
<1>1. Loop \in Procs
  BY DEF Procs
<1>2. req[Loop].msg \in 1 .. issued /\ req[Loop].msg \in Pin /\ req[Loop].sess \in Sessions
  BY <1>1, Facts DEF ResLock, At, Carries, Pin
<1>3. Stores
  BY <1>1, <1>2, Facts DEF ResLock, StoresOK, Stores, sessions, pinStore, userStore, history, SetFrozen, HeldSession, At, Carries
<1>4. CASE Respond(Loop)
  BY <1>1, <1>3, <1>4, RespondPreserves
<1>5. CASE Goto(Loop, "resUser") /\ OwnerOf(Loop) # NoUser
  BY <1>1, <1>3, <1>5, GotoPreserves DEF ResLock, At, Steps
<1> QED BY <1>4, <1>5 DEF ResLock

LEMMA ResUserTyped == ASSUME TypedInv, ResUser PROVE TypedInv'
<1>1. Loop \in Procs
  BY DEF Procs
<1>2. req[Loop].msg \in 1 .. issued /\ req[Loop].msg \in Pin /\ req[Loop].sess \in Sessions
  BY <1>1, Facts DEF ResUser, At, Carries, Pin
<1>3. Stores
  BY <1>1, <1>2, Facts DEF ResUser, StoresOK, Stores, sessions, pinStore, userStore, history, freeze_user
<1>4. CASE Respond(Loop)
  BY <1>1, <1>3, <1>4, RespondPreserves
<1> QED BY <1>4 DEF ResUser

LEMMA ApiOpenTyped == ASSUME TypedInv, ApiOpen PROVE TypedInv'
<1>1. Loop \in Procs
  BY DEF Procs
<1>2. Stores
  BY <1>1, Facts DEF ApiOpen, StoresOK, Stores, sessions, pinStore, userStore, history
<1>3. CASE Respond(Loop)
  BY <1>1, <1>2, <1>3, RespondPreserves
<1> QED BY <1>3 DEF ApiOpen

-----------------------------------------------------------------------------
(* The steps that rewrite every request slot: lifting or losing a user's   *)
(* freeze, closing a session, restarting.                                  *)

SameButFlags(q, r) ==
  /\ req'[q].pc = r.pc /\ req'[q].sess = r.sess /\ req'[q].msg = r.msg
  /\ req'[q].target = r.target

LEMMA UnblockPreserves ==
  ASSUME TypedInv, NEW p \in Procs, Stores, NEW r \in Request, NEW u,
         req' = Unblock([req EXCEPT ![p] = r], u),
         SameButFlags(p, r) /\ req'[p].holds = r.holds => Carries(p)'
  PROVE  TypedInv'
<1> DEFINE x == [req EXCEPT ![p] = r]
<1>1. x \in [Procs -> Request] /\ x[p] = r /\ \A q \in Procs \ {p} : x[q] = req[q]
  BY Facts DEF Typed
<1> HIDE DEF x
<1>2. req' = Unblock(x, u)
  BY DEF x
<1>3. /\ Typed'
      /\ \A q \in Procs : SameButFlags(q, x[q]) /\ req'[q].holds = x[q].holds
  BY <1>1, <1>2, UnblockEffect DEF SameButFlags
<1>4. ASSUME NEW q \in Procs PROVE Carries(q)'
  <2>1. CASE q = p
    BY <1>1, <1>3, <2>1
  <2>2. CASE q # p
    <3>1. SameButFlags(q, req[q]) /\ req'[q].holds = req[q].holds
      BY <1>1, <1>3, <2>2
    <3>2. Carries(q) /\ issued \in Nat /\ issued' \in Nat
      BY Facts DEF Stores, StoresOK
    <3>3. req'[q].holds => HeldSession(q) \in open'
      BY <3>1, <3>2 DEF Carries, Stores
    <3> QED BY <3>1, <3>2, <3>3, CarriesFrame DEF SameButFlags, Stores
  <2> QED BY <2>1, <2>2
<1> QED BY <1>3, <1>4 DEF TypedInv, TypeOK, Stores, StoresOK, RequestInv, Typed

LEMMA UnfreezeStores ==
  ASSUME TypedInv, NEW u, unfreeze_user(u),
         UNCHANGED <<sessions, pinStore, esc, issued, delivered, history>>
  PROVE  Stores
<1>1. StoresOK /\ delivered \subseteq 1 .. issued /\ issued \in Nat
  BY Facts DEF Procs
<1>2. userFreeze' \in [Users -> Sessions \cup {NoSession}] /\ staleUsers' \subseteq Users
  BY <1>1 DEF unfreeze_user, StoresOK
<1>3. UNCHANGED <<open, frozen, pins, stalePins, esc, issued, delivered, pinFor, credit, spent>>
  BY DEF sessions, pinStore, history
<1> QED BY <1>1, <1>2, <1>3 DEF Stores, StoresOK

LEMMA UserLiftTyped == ASSUME TypedInv, NEW t \in Threads, UserLift(t) PROVE TypedInv'
<1>1. t \in Procs
  BY DEF Procs
<1>2. Stores
  BY <1>1, UnfreezeStores DEF UserLift
<1> DEFINE h == req[t].target \in open
           r == [req[t] EXCEPT !.pc = "userOpen", !.holds = h]
<1>3. r \in Request /\ r.pc = "userOpen" /\ r.sess = req[t].sess /\ r.msg = req[t].msg
      /\ r.target = req[t].target /\ r.holds = h
  <2>1. h \in BOOLEAN
    OBVIOUS
  <2> HIDE DEF h
  <2> QED BY <1>1, <2>1, Facts DEF Request, Steps
<1>4. [req EXCEPT ![t] = [@ EXCEPT !.pc = "userOpen",
                                   !.holds = req[t].target \in open]]
        = [req EXCEPT ![t] = r]
  BY <1>1, Facts DEF Typed
<1>5. req' = Unblock([req EXCEPT ![t] = r], OwnerOf(t))
  BY <1>4 DEF UserLift
<1> HIDE DEF r
<1>6. SameButFlags(t, r) /\ req'[t].holds = r.holds => Carries(t)'
  BY <1>1, <1>2, <1>3, Facts DEF UserLift, SameButFlags, Carries, At, OwnerOf, HeldSession, IsText, Stores
<1> QED BY <1>1, <1>2, <1>3, <1>5, <1>6, UnblockPreserves

LEMMA SessLiftTyped == ASSUME TypedInv, NEW t \in Threads, SessLift(t) PROVE TypedInv'
<1>1. t \in Procs
  BY DEF Procs
<1>2. Stores
  BY <1>1, UnfreezeStores DEF SessLift
<1>3. SameButFlags(t, Idle) /\ req'[t].holds = Idle.holds => Carries(t)'
  BY IdleRequest DEF SameButFlags, Carries, At, IsText
<1> QED BY <1>1, <1>2, <1>3, IdleRequest, UnblockPreserves DEF SessLift

LEMMA FreezeExpiresTyped == ASSUME TypedInv, NEW u \in Users, FreezeExpires(u) PROVE TypedInv'
<1>1. Loop \in Procs
  BY DEF Procs
<1>2. Stores
  BY <1>1, Facts DEF FreezeExpires, StoresOK, Stores, sessions, pinStore, history
<1>3. req[Loop] \in Request /\ req = [req EXCEPT ![Loop] = req[Loop]] /\ Carries(Loop)
  BY <1>1, Facts DEF Typed
<1>4. req' = Unblock([req EXCEPT ![Loop] = req[Loop]], u)
  BY <1>3 DEF FreezeExpires
<1>5. SameButFlags(Loop, req[Loop]) /\ req'[Loop].holds = req[Loop].holds => Carries(Loop)'
  <2>1. issued \in Nat /\ issued' \in Nat
    BY <1>1, <1>2, Facts DEF Stores, StoresOK
  <2>2. req'[Loop].holds = req[Loop].holds /\ SameButFlags(Loop, req[Loop])
          => (req'[Loop].holds => HeldSession(Loop) \in open')
    BY <1>2, <1>3 DEF Carries, Stores
  <2> QED BY <1>1, <1>2, <1>3, <2>1, <2>2, CarriesFrame DEF SameButFlags, Stores
<1> QED BY <1>1, <1>2, <1>3, <1>4, <1>5, UnblockPreserves

LEMMA CloseTyped == ASSUME TypedInv, NEW s \in Sessions, Close(s) PROVE TypedInv'
<1>1. /\ StoresOK /\ Typed /\ RequestInv /\ delivered \subseteq 1 .. issued
      /\ issued \in Nat
  BY Facts DEF Procs
<1>2. StoresOK' /\ UNCHANGED <<issued, delivered>>
  BY <1>1 DEF Close, StoresOK, pinStore, userStore, history
<1>3. /\ Typed'
      /\ \A q \in Procs : /\ SameButFlags(q, req[q])
                          /\ req'[q].holds = (req[q].holds /\ HeldSession(q) # s)
  BY <1>1 DEF Close, Typed, Request, SameButFlags
<1>4. ASSUME NEW q \in Procs PROVE Carries(q)'
  <2>1. Carries(q)
    BY <1>1 DEF RequestInv
  <2>2. req'[q].holds => HeldSession(q) \in open'
    BY <1>3, <2>1 DEF Close, Carries
  <2> QED BY <1>1, <1>2, <1>3, <2>1, <2>2, CarriesFrame DEF SameButFlags
<1> QED BY <1>1, <1>2, <1>3, <1>4 DEF TypedInv, TypeOK, StoresOK, RequestInv, Typed

LEMMA RestartTyped == ASSUME TypedInv, Restart PROVE TypedInv'
<1>1. /\ StoresOK /\ delivered \subseteq 1 .. issued
  BY Facts DEF Procs
<1>2. StoresOK' /\ UNCHANGED <<issued, delivered>>
  BY <1>1 DEF Restart, StoresOK, history
<1>3. Typed' /\ \A q \in Procs : req'[q] = Idle
  BY IdleRequest DEF Restart, Typed
<1>4. \A q \in Procs : Carries(q)'
  BY <1>3, IdleRequest DEF Carries, At, IsText
<1> QED BY <1>1, <1>2, <1>3, <1>4 DEF TypedInv, TypeOK, StoresOK, RequestInv, Typed

LEMMA PinExpiresTyped == ASSUME TypedInv, NEW s \in Sessions, PinExpires(s) PROVE TypedInv'
BY DEF TypedInv, TypeOK, PinExpires, sessions, userStore, history, RequestInv, Carries, At, OwnerOf,
       HeldSession, IsText

-----------------------------------------------------------------------------
(* Together.                                                               *)

LEMMA TypedInvInit == Init => TypedInv
<1> SUFFICES ASSUME Init PROVE TypedInv
  OBVIOUS
<1>1. TypeOK
  BY IdleRequest DEF Init, TypeOK, Pin
<1>2. RequestInv
  BY IdleRequest DEF Init, RequestInv, Carries, At, IsText
<1> QED BY <1>1, <1>2 DEF TypedInv, Init

LEMMA TurnTyped == ASSUME TypedInv, NEW t \in Threads, Turn(t) PROVE TypedInv'
<1>1. t \in Procs
  BY DEF Procs
<1>2. CASE UserPin(t)
  <2>1. req[t].target \in Sessions
    BY <1>1, <1>2, Facts DEF UserPin, Compare, At, Carries
  <2> QED BY <1>1, <1>2, <2>1, ComparePreserves DEF UserPin, Steps
<1>3. CASE UserDel(t)
  <2>1. req[t].target \in Sessions
    BY <1>1, <1>3, Facts DEF UserDel, Consume, At, Carries
  <2> QED BY <1>1, <1>3, <2>1, ConsumePreserves DEF UserDel, Steps
<1>4. CASE SessPin(t)
  <2>1. req[t].sess \in Sessions
    BY <1>1, <1>4, Facts DEF SessPin, Compare, At, Carries
  <2> QED BY <1>1, <1>4, <2>1, ComparePreserves DEF SessPin, Steps
<1>5. CASE SessDel(t)
  <2>1. req[t].sess \in Sessions
    BY <1>1, <1>5, Facts DEF SessDel, Consume, At, Carries
  <2> QED BY <1>1, <1>5, <2>1, ConsumePreserves DEF SessDel, Steps
<1> QED
  BY <1>2, <1>3, <1>4, <1>5, ArriveTyped, UserGateTyped, UserSidTyped, UserLiftTyped,
     UserOpenTyped, SessGateTyped, SessOpenTyped, SessLiftTyped, WorkTyped, EscFreezeTyped,
     EscPinTyped, EscLockTyped, EscUserTyped
  DEF Turn

LEMMA HandlerTyped == ASSUME TypedInv, Handler PROVE TypedInv'
<1>1. Loop \in Procs
  BY DEF Procs
<1>2. CASE ApiPin
  <2>1. req[Loop].sess \in Sessions
    BY <1>1, <1>2, Facts DEF ApiPin, Compare, At, Carries
  <2> QED BY <1>1, <1>2, <2>1, ComparePreserves DEF ApiPin, Steps
<1>3. CASE ApiDel
  <2>1. req[Loop].sess \in Sessions
    BY <1>1, <1>3, Facts DEF ApiDel, Consume, At, Carries
  <2> QED BY <1>1, <1>3, <2>1, ConsumePreserves DEF ApiDel, Steps
<1> QED
  BY <1>2, <1>3, ResolveTyped, ResPinTyped, ResLockTyped, ResUserTyped, UnlockTyped, ApiOpenTyped
  DEF Handler

LEMMA TypedInvStep == TypedInv /\ [Next]_vars => TypedInv'
<1> SUFFICES ASSUME TypedInv, [Next]_vars PROVE TypedInv'
  OBVIOUS
<1>1. CASE UNCHANGED vars
  BY <1>1 DEF TypedInv, TypeOK, vars, sessions, pinStore, userStore, history, RequestInv, Carries,
              At, OwnerOf, HeldSession, IsText
<1> QED
  BY <1>1, TurnTyped, HandlerTyped, CloseTyped, PinExpiresTyped, FreezeExpiresTyped, RestartTyped
  DEF Next

(* Every store and every request slot keeps its shape.                     *)
THEOREM TypeCorrect == Spec => []TypeOK
<1>1. Spec => []TypedInv
  BY TypedInvInit, TypedInvStep, PTL DEF Spec
<1> QED BY <1>1, PTL DEF TypedInv

-----------------------------------------------------------------------------
(* Where a step takes its request, what it leaves in it, and that it lets  *)
(* the others' be (their flags aside).                                     *)

Fields(q) ==
  req'[q].sess = req[q].sess /\ req'[q].msg = req[q].msg /\ req'[q].target = req[q].target

Others(p) == \A q \in Procs \ {p} : req'[q].pc = req[q].pc /\ Fields(q)

Moves(p, from, to) == At(p, from) /\ req'[p].pc = to /\ Fields(p)

TurnMoves(t) ==
  \/ Arrive(t) /\ req'[t].pc = "userGate"
  \/ UserGate(t) /\ (Moves(t, "userGate", "sessGate") \/ Moves(t, "userGate", "userSid"))
  \/ /\ UserSid(t) /\ req'[t].pc = "userPin" /\ req'[t].target = userFreeze[OwnerOf(t)]
     /\ req'[t].sess = req[t].sess /\ req'[t].msg = req[t].msg
  \/ UserPin(t) /\ Moves(t, "userPin", "userDel") /\ pins'[req[t].target] = req[t].msg
  \/ UserDel(t) /\ Moves(t, "userDel", "userLift") /\ req[t].msg \in spent'
  \/ UserLift(t) /\ Moves(t, "userLift", "userOpen")
  \/ UserOpen(t) /\ Moves(t, "userOpen", "sessGate")
  \/ SessGate(t) /\ (Moves(t, "sessGate", "work") \/ Moves(t, "sessGate", "sessPin"))
  \/ SessPin(t) /\ Moves(t, "sessPin", "sessDel") /\ pins'[req[t].sess] = req[t].msg
  \/ SessDel(t) /\ Moves(t, "sessDel", "sessOpen") /\ req[t].msg \in spent'
  \/ SessOpen(t) /\ Moves(t, "sessOpen", "sessLift")
  \/ Work(t) /\ Moves(t, "work", "escFreeze") /\ req[t].sess \in esc'
  \/ EscFreeze(t) /\ Moves(t, "escFreeze", "escPin")
  \/ EscPin(t) /\ Moves(t, "escPin", "escLock")
  \/ EscLock(t) /\ Moves(t, "escLock", "escUser")

HandlerMoves ==
  \/ Resolve /\ req'[Loop].pc = "resPin" /\ req'[Loop].sess \in esc
  \/ ResPin /\ req'[Loop].pc = "resLock" /\ req'[Loop].sess = req[Loop].sess
  \/ ResLock /\ Moves(Loop, "resLock", "resUser")
  \/ Unlock /\ req'[Loop].pc = "apiPin"
  \/ ApiPin /\ Moves(Loop, "apiPin", "apiDel") /\ pins'[req[Loop].sess] = req[Loop].msg
  \/ ApiDel /\ Moves(Loop, "apiDel", "apiOpen") /\ req[Loop].msg \in spent'

LEMMA BecomeFields ==
  ASSUME Typed, NEW p \in Procs, NEW r, Become(p, r)
  PROVE  req'[p] = r /\ Others(p)
BY DEF Typed, Become, Others, Fields

LEMMA TurnEffect ==
  ASSUME TypedInv, NEW t \in Threads, Turn(t)
  PROVE  Others(t) /\ (req'[t].pc = "idle" \/ TurnMoves(t))
<1>1. t \in Procs /\ Typed /\ req[t] \in Request
  BY Facts DEF Procs
<1>2. ASSUME Respond(t) PROVE Others(t) /\ req'[t].pc = "idle"
  BY <1>1, <1>2, BecomeFields, IdleRequest DEF Respond
<1>3. ASSUME NEW step \in Steps, Goto(t, step)
      PROVE  Others(t) /\ req'[t].pc = step /\ Fields(t)
  <2>1. req'[t] = [req[t] EXCEPT !.pc = step] /\ Others(t)
    BY <1>1, <1>3, BecomeFields DEF Goto
  <2> QED BY <1>1, <2>1 DEF Request, Fields
<1>4. CASE Arrive(t)
  <2>1. PICK s \in Sessions, m \in {Text} \cup delivered :
          Become(t, [Idle EXCEPT !.pc = "userGate", !.sess = s, !.msg = m,
                                 !.blocked = m = Text /\ is_user_frozen(Owner[s])])
    BY <1>4 DEF Arrive
  <2> DEFINE b == m = Text /\ is_user_frozen(Owner[s])
             r == [Idle EXCEPT !.pc = "userGate", !.sess = s, !.msg = m, !.blocked = b]
  <2>2. Become(t, r)
    BY <2>1
  <2> HIDE DEF b
  <2>3. r.pc = "userGate"
    BY DEF Idle
  <2> HIDE DEF r
  <2>4. Others(t) /\ req'[t].pc = "userGate"
    BY <1>1, <2>2, <2>3, BecomeFields
  <2> QED BY <1>4, <2>4 DEF TurnMoves
<1>5. CASE UserGate(t)
  BY <1>2, <1>3, <1>5 DEF UserGate, TurnMoves, Moves, At, Steps
<1>6. CASE UserSid(t)
  <2>1. ASSUME Become(t, [req[t] EXCEPT !.pc = "userPin", !.target = userFreeze[OwnerOf(t)]])
        PROVE  Others(t) /\ req'[t].pc = "userPin" /\ req'[t].target = userFreeze[OwnerOf(t)]
              /\ req'[t].sess = req[t].sess /\ req'[t].msg = req[t].msg
    <3>1. Others(t) /\ req'[t] = [req[t] EXCEPT !.pc = "userPin", !.target = userFreeze[OwnerOf(t)]]
      BY <1>1, <2>1, BecomeFields
    <3> QED BY <1>1, <3>1 DEF Request, Fields
  <2> QED BY <1>2, <1>3, <1>6, <2>1 DEF UserSid, TurnMoves, Moves, At, Steps
<1>7. CASE UserPin(t)
  BY <1>2, <1>3, <1>7 DEF UserPin, TurnMoves, Moves, At, Steps, Compare
<1>8. CASE UserDel(t)
  BY <1>2, <1>3, <1>8 DEF UserDel, TurnMoves, Moves, At, Steps, Consume
<1>9. CASE UserLift(t)
  <2> DEFINE h == req[t].target \in open
             x == [req EXCEPT ![t] = [req[t] EXCEPT !.pc = "userOpen", !.holds = h]]
  <2>1. h \in BOOLEAN
    OBVIOUS
  <2>2. req' = Unblock(x, OwnerOf(t))
    BY <1>9 DEF UserLift
  <2> HIDE DEF h
  <2>3. /\ x \in [Procs -> Request]
        /\ x[t].pc = "userOpen" /\ x[t].sess = req[t].sess
        /\ x[t].msg = req[t].msg /\ x[t].target = req[t].target
        /\ \A q \in Procs \ {t} : x[q] = req[q]
    <3>1. [req[t] EXCEPT !.pc = "userOpen", !.holds = h] \in Request
      BY <1>1, <2>1 DEF Request, Steps
    <3> QED BY <1>1, <3>1 DEF Typed, Request
  <2> HIDE DEF x
  <2>4. Others(t) /\ req'[t].pc = "userOpen" /\ Fields(t)
    BY <1>1, <2>2, <2>3, UnblockEffect DEF Others, Fields
  <2> QED BY <1>9, <2>4 DEF UserLift, TurnMoves, Moves
<1>10. CASE UserOpen(t)
  <2>1. ASSUME Become(t, [req[t] EXCEPT !.pc = "sessGate", !.holds = FALSE])
        PROVE  Others(t) /\ req'[t].pc = "sessGate" /\ Fields(t)
    <3>1. Others(t) /\ req'[t] = [req[t] EXCEPT !.pc = "sessGate", !.holds = FALSE]
      BY <1>1, <2>1, BecomeFields
    <3> QED BY <1>1, <3>1 DEF Request, Fields
  <2> QED BY <1>2, <1>3, <1>10, <2>1 DEF UserOpen, TurnMoves, Moves, At, Steps
<1>11. CASE SessGate(t)
  <2>1. ASSUME Become(t, [req[t] EXCEPT !.pc = "sessPin", !.holds = TRUE])
        PROVE  Others(t) /\ req'[t].pc = "sessPin" /\ Fields(t)
    <3>1. Others(t) /\ req'[t] = [req[t] EXCEPT !.pc = "sessPin", !.holds = TRUE]
      BY <1>1, <2>1, BecomeFields
    <3> QED BY <1>1, <3>1 DEF Request, Fields
  <2> QED BY <1>2, <1>3, <1>11, <2>1 DEF SessGate, TurnMoves, Moves, At, Steps
<1>12. CASE SessPin(t)
  BY <1>2, <1>3, <1>12 DEF SessPin, TurnMoves, Moves, At, Steps, Compare
<1>13. CASE SessDel(t)
  BY <1>2, <1>3, <1>13 DEF SessDel, TurnMoves, Moves, At, Steps, Consume
<1>14. CASE SessOpen(t)
  BY <1>2, <1>3, <1>14 DEF SessOpen, TurnMoves, Moves, At, Steps
<1>15. CASE SessLift(t)
  <2> DEFINE x == [req EXCEPT ![t] = Idle]
  <2>1. /\ x \in [Procs -> Request] /\ x[t] = Idle
        /\ \A q \in Procs \ {t} : x[q] = req[q]
    BY <1>1, IdleRequest DEF Typed
  <2>2. req' = Unblock(x, OwnerOf(t))
    BY <1>15 DEF SessLift
  <2> HIDE DEF x
  <2> QED BY <1>1, <2>1, <2>2, IdleRequest, UnblockEffect DEF Others, Fields
<1>16. CASE Work(t)
  BY <1>2, <1>3, <1>16 DEF Work, TurnMoves, Moves, At, Steps
<1>17. CASE EscFreeze(t)
  <2>1. ASSUME Become(t, [req[t] EXCEPT !.pc = "escPin", !.holds = TRUE])
        PROVE  Others(t) /\ req'[t].pc = "escPin" /\ Fields(t)
    <3>1. Others(t) /\ req'[t] = [req[t] EXCEPT !.pc = "escPin", !.holds = TRUE]
      BY <1>1, <2>1, BecomeFields
    <3> QED BY <1>1, <3>1 DEF Request, Fields
  <2> QED BY <1>2, <1>3, <1>17, <2>1 DEF EscFreeze, TurnMoves, Moves, At, Steps
<1>18. CASE EscPin(t)
  BY <1>2, <1>3, <1>18 DEF EscPin, TurnMoves, Moves, At, Steps
<1>19. CASE EscLock(t)
  BY <1>2, <1>3, <1>19 DEF EscLock, TurnMoves, Moves, At, Steps
<1>20. CASE EscUser(t)
  BY <1>2, <1>3, <1>20 DEF EscUser, TurnMoves, Moves, At, Steps
<1> QED
  BY <1>4, <1>5, <1>6, <1>7, <1>8, <1>9, <1>10, <1>11, <1>12, <1>13, <1>14, <1>15, <1>16, <1>17, <1>18, <1>19, <1>20
  DEF Turn

LEMMA HandlerEffect ==
  ASSUME TypedInv, Handler
  PROVE  Others(Loop) /\ (req'[Loop].pc = "idle" \/ HandlerMoves)
<1>1. Loop \in Procs /\ Typed /\ req[Loop] \in Request
  BY Facts DEF Procs
<1>2. ASSUME Respond(Loop) PROVE Others(Loop) /\ req'[Loop].pc = "idle"
  BY <1>1, <1>2, BecomeFields, IdleRequest DEF Respond
<1>3. ASSUME NEW step \in Steps, Goto(Loop, step)
      PROVE  Others(Loop) /\ req'[Loop].pc = step /\ Fields(Loop)
  <2>1. req'[Loop] = [req[Loop] EXCEPT !.pc = step] /\ Others(Loop)
    BY <1>1, <1>3, BecomeFields DEF Goto
  <2> QED BY <1>1, <2>1 DEF Request, Fields
<1>4. CASE Resolve
  <2>1. PICK s \in esc : Become(Loop, [Idle EXCEPT !.pc = "resPin", !.sess = s])
    BY <1>4 DEF Resolve
  <2>2. Others(Loop) /\ req'[Loop] = [Idle EXCEPT !.pc = "resPin", !.sess = s]
    BY <1>1, <2>1, BecomeFields
  <2> QED BY <1>4, <2>2 DEF HandlerMoves, Idle
<1>5. CASE ResPin
  <2> DEFINE r == [req[Loop] EXCEPT !.pc = "resLock", !.msg = issued + 1, !.holds = TRUE]
  <2>1. ASSUME Become(Loop, r)
        PROVE  Others(Loop) /\ req'[Loop].pc = "resLock" /\ req'[Loop].sess = req[Loop].sess
    <3>1. Others(Loop) /\ req'[Loop] = r
      BY <1>1, <2>1, BecomeFields
    <3> QED BY <1>1, <3>1 DEF Request
  <2> QED BY <1>2, <1>5, <2>1 DEF ResPin, HandlerMoves
<1>6. CASE ResLock
  BY <1>2, <1>3, <1>6 DEF ResLock, HandlerMoves, Moves, At, Steps
<1>7. CASE ResUser
  BY <1>2, <1>7 DEF ResUser
<1>8. CASE Unlock
  <2>1. PICK s \in Sessions, m \in delivered :
          Become(Loop, [Idle EXCEPT !.pc = "apiPin", !.sess = s, !.msg = m])
    BY <1>8 DEF Unlock
  <2>2. Others(Loop) /\ req'[Loop] = [Idle EXCEPT !.pc = "apiPin", !.sess = s, !.msg = m]
    BY <1>1, <2>1, BecomeFields
  <2> QED BY <1>8, <2>2 DEF HandlerMoves, Idle
<1>9. CASE ApiPin
  BY <1>2, <1>3, <1>9 DEF ApiPin, Compare, HandlerMoves, Moves, At, Steps
<1>10. CASE ApiDel
  BY <1>2, <1>3, <1>10 DEF ApiDel, Consume, HandlerMoves, Moves, At, Steps
<1>11. CASE ApiOpen
  BY <1>2, <1>11 DEF ApiOpen
<1> QED BY <1>4, <1>5, <1>6, <1>7, <1>8, <1>9, <1>10, <1>11 DEF Handler

-----------------------------------------------------------------------------
(* Escalations behind locks.                                               *)

EscSteps == {"escFreeze", "escPin", "escLock", "escUser", "resPin", "resLock", "resUser"}

LEMMA EscOthers ==
  ASSUME EscInv, NEW p \in Procs, Others(p), esc \subseteq esc', LocksHaveEscalations',
         req'[p].pc \in EscSteps => req'[p].sess \in esc'
  PROVE  EscInv'
<1>1. ASSUME NEW q \in Procs, req'[q].pc \in EscSteps PROVE req'[q].sess \in esc'
  <2>1. CASE q = p
    BY <1>1, <2>1
  <2>2. CASE q # p
    BY <1>1, <2>2 DEF EscInv, EscSteps, Others, Fields
  <2> QED BY <2>1, <2>2
<1> QED BY <1>1 DEF EscInv, EscSteps

LEMMA TurnLocks ==
  ASSUME TypedInv, EscInv, NEW t \in Threads, Turn(t)
  PROVE  esc \subseteq esc' /\ LocksHaveEscalations'
<1>1. t \in Procs /\ StoresOK /\ LocksHaveEscalations
      /\ (req[t].pc \in EscSteps => req[t].sess \in esc)
  BY Facts DEF Procs, EscInv, EscSteps
<1>2. CASE EscPin(t)
  BY <1>1, <1>2 DEF EscPin, At, EscSteps, generate_unlock_pin, LocksHaveEscalations, sessions,
     userStore, StoresOK
<1>3. CASE EscLock(t)
  BY <1>1, <1>3 DEF EscLock, At, EscSteps, SetFrozen, HeldSession, LocksHaveEscalations, pinStore,
     userStore
<1>4. CASE EscUser(t)
  BY <1>1, <1>4 DEF EscUser, At, EscSteps, freeze_user, LocksHaveEscalations, sessions, pinStore
<1>5. CASE UserGate(t)
  BY <1>1, <1>5 DEF UserGate, _purge_expired_user_freezes, LocksHaveEscalations, sessions,
     pinStore, userStore
<1>6. CASE UserPin(t) \/ SessPin(t)
  BY <1>1, <1>6 DEF UserPin, SessPin, Compare, _purge_expired, LocksHaveEscalations, sessions,
     userStore
<1>7. CASE UserDel(t) \/ SessDel(t)
  BY <1>1, <1>7 DEF UserDel, SessDel, Consume, LocksHaveEscalations, sessions, pinStore,
     userStore, StoresOK
<1>8. CASE UserLift(t) \/ SessLift(t)
  BY <1>1, <1>8 DEF UserLift, SessLift, unfreeze_user, LocksHaveEscalations, sessions, pinStore,
     StoresOK
<1>9. CASE UserOpen(t) \/ SessOpen(t)
  BY <1>1, <1>9 DEF UserOpen, SessOpen, SetFrozen, LocksHaveEscalations, pinStore, userStore
<1>10. CASE Arrive(t) \/ UserSid(t) \/ SessGate(t) \/ Work(t) \/ EscFreeze(t)
  BY <1>1, <1>10 DEF Arrive, UserSid, SessGate, Work, EscFreeze, LocksHaveEscalations, sessions,
     pinStore, userStore
<1> QED BY <1>2, <1>3, <1>4, <1>5, <1>6, <1>7, <1>8, <1>9, <1>10 DEF Turn

LEMMA HandlerLocks ==
  ASSUME TypedInv, EscInv, Handler
  PROVE  esc \subseteq esc' /\ LocksHaveEscalations'
<1>1. Loop \in Procs /\ StoresOK /\ LocksHaveEscalations
      /\ (req[Loop].pc \in EscSteps => req[Loop].sess \in esc)
  BY Facts DEF Procs, EscInv, EscSteps
<1>2. CASE ResPin
  BY <1>1, <1>2 DEF ResPin, At, EscSteps, generate_unlock_pin, LocksHaveEscalations, sessions,
     userStore, StoresOK
<1>3. CASE ResLock
  BY <1>1, <1>3 DEF ResLock, At, EscSteps, SetFrozen, LocksHaveEscalations, pinStore, userStore
<1>4. CASE ResUser
  BY <1>1, <1>4 DEF ResUser, At, EscSteps, freeze_user, LocksHaveEscalations, sessions, pinStore
<1>5. CASE ApiPin
  BY <1>1, <1>5 DEF ApiPin, Compare, _purge_expired, LocksHaveEscalations, sessions, userStore
<1>6. CASE ApiDel
  BY <1>1, <1>6 DEF ApiDel, Consume, LocksHaveEscalations, sessions, pinStore, userStore, StoresOK
<1>7. CASE ApiOpen \/ Resolve \/ Unlock
  BY <1>1, <1>7 DEF ApiOpen, Resolve, Unlock, LocksHaveEscalations, sessions, pinStore, userStore
<1> QED BY <1>2, <1>3, <1>4, <1>5, <1>6, <1>7 DEF Handler

(* The steps outside any request leave its place and session alone.        *)
LEMMA EscInvEnvironment ==
  ASSUME TypedInv, EscInv,
         \/ \E s \in Sessions : Close(s) \/ PinExpires(s)
         \/ \E u \in Users : FreezeExpires(u)
         \/ Restart \/ UNCHANGED vars
  PROVE  EscInv'
<1>1. Typed /\ LocksHaveEscalations
  BY Facts DEF EscInv, Procs
<1>2. esc' = esc /\ LocksHaveEscalations'
  BY <1>1 DEF Close, PinExpires, FreezeExpires, Restart, vars, LocksHaveEscalations, sessions,
     pinStore, userStore
<1>3. \A q \in Procs : req'[q].pc \in EscSteps => req'[q].pc = req[q].pc /\ req'[q].sess = req[q].sess
  <2>1. ASSUME NEW s \in Sessions, Close(s)
        PROVE  \A q \in Procs : req'[q].pc = req[q].pc /\ req'[q].sess = req[q].sess
    BY <1>1, <2>1 DEF Close, Typed, Request
  <2>2. ASSUME NEW u \in Users, FreezeExpires(u)
        PROVE  \A q \in Procs : req'[q].pc = req[q].pc /\ req'[q].sess = req[q].sess
    BY <1>1, <2>2, UnblockEffect DEF FreezeExpires, Typed
  <2>3. CASE Restart
    BY <2>3, IdleRequest DEF Restart, EscSteps
  <2>4. CASE req' = req
    BY <2>4
  <2> QED BY <2>1, <2>2, <2>3, <2>4 DEF PinExpires, vars
<1> QED BY <1>2, <1>3 DEF EscInv, EscSteps

LEMMA EscInvStep == TypedInv /\ EscInv /\ [Next]_vars => EscInv'
<1> SUFFICES ASSUME TypedInv, EscInv, [Next]_vars PROVE EscInv'
  OBVIOUS
<1>1. ASSUME NEW t \in Threads, Turn(t) PROVE EscInv'
  <2>1. t \in Procs /\ Others(t) /\ esc \subseteq esc' /\ LocksHaveEscalations'
    BY <1>1, TurnEffect, TurnLocks DEF Procs
  <2>2. req'[t].pc \in EscSteps => req'[t].sess \in esc'
    <3>1. req'[t].pc = "idle" \/ TurnMoves(t)
      BY <1>1, TurnEffect
    <3>2. req[t].pc \in EscSteps => req[t].sess \in esc
      BY <2>1 DEF EscInv, EscSteps
    <3> QED BY <2>1, <3>1, <3>2 DEF TurnMoves, Moves, At, Fields, EscSteps
  <2> QED BY <2>1, <2>2, EscOthers
<1>2. CASE Handler
  <2>1. Loop \in Procs /\ Others(Loop) /\ esc \subseteq esc' /\ LocksHaveEscalations'
    BY <1>2, HandlerEffect, HandlerLocks DEF Procs
  <2>2. req'[Loop].pc \in EscSteps => req'[Loop].sess \in esc'
    <3>1. req'[Loop].pc = "idle" \/ HandlerMoves
      BY <1>2, HandlerEffect
    <3>2. req[Loop].pc \in EscSteps => req[Loop].sess \in esc
      BY <2>1 DEF EscInv, EscSteps
    <3> QED BY <2>1, <3>1, <3>2 DEF HandlerMoves, ResPin, Moves, At, Fields, EscSteps
  <2> QED BY <2>1, <2>2, EscOthers
<1> QED BY <1>1, <1>2, EscInvEnvironment DEF Next

(* Whatever is locked, a teacher can find the escalation to resolve it by. *)
THEOREM LocksAreResolvable == Spec => []LocksHaveEscalations
<1>1. Init => EscInv
  BY IdleRequest DEF Init, EscInv, LocksHaveEscalations
<1>2. Spec => [](TypedInv /\ EscInv)
  BY <1>1, TypedInvInit, TypedInvStep, EscInvStep, PTL DEF Spec
<1> QED BY <1>2, PTL DEF EscInv

-----------------------------------------------------------------------------
(* PINs behind unlocks.                                                    *)

LEMMA CreditStep == TypedInv /\ UnlocksConsumePins /\ [Next]_vars => UnlocksConsumePins'
<1> SUFFICES ASSUME TypedInv, UnlocksConsumePins, [Next]_vars PROVE UnlocksConsumePins'
  OBVIOUS
<1>1. StoresOK
  BY Facts DEF Procs
<1>2. CASE UNCHANGED <<pins, credit>>
  BY <1>2 DEF UnlocksConsumePins
<1>3. ASSUME NEW s \in Sessions, generate_unlock_pin(s) PROVE UnlocksConsumePins'
  BY <1>1, <1>3 DEF generate_unlock_pin, UnlocksConsumePins, StoresOK
<1>4. CASE (_purge_expired \/ Restart) /\ UNCHANGED credit
  BY <1>1, <1>4 DEF _purge_expired, Restart, UnlocksConsumePins, StoresOK
<1>5. ASSUME NEW p \in Procs, NEW s \in Sessions, NEW from, NEW next, Consume(p, s, from, next)
      PROVE  UnlocksConsumePins'
  BY <1>1, <1>5 DEF Consume, UnlocksConsumePins, StoresOK, pinStore
<1>6. ASSUME NEW p \in Procs, NEW s, NEW from, NEW match, Compare(p, s, from, match)
      PROVE  UnlocksConsumePins'
  BY <1>4, <1>6 DEF Compare, history
<1>7. ASSUME NEW t \in Threads, Turn(t) PROVE UnlocksConsumePins'
  <2>1. /\ t \in Procs
        /\ ~ At(t, "idle") => req[t].sess \in Sessions
        /\ At(t, "userDel") => req[t].target \in Sessions
    BY Facts DEF Procs, Carries, At
  <2>2. CASE UserPin(t) \/ SessPin(t)
    BY <1>6, <2>1, <2>2 DEF UserPin, SessPin
  <2>3. CASE UserDel(t) \/ SessDel(t)
    BY <1>5, <2>1, <2>3 DEF UserDel, SessDel, Consume, At
  <2>4. CASE EscPin(t)
    BY <1>3, <2>1, <2>4 DEF EscPin, At
  <2> QED
    BY <1>2, <1>7, <2>2, <2>3, <2>4
    DEF Turn, Arrive, UserGate, UserSid, UserLift, UserOpen, SessGate, SessOpen, SessLift, Work,
        EscFreeze, EscLock, EscUser, pinStore, history
<1>8. CASE Handler
  <2>1. Loop \in Procs /\ (~ At(Loop, "idle") => req[Loop].sess \in Sessions)
    BY Facts DEF Procs, Carries, At
  <2>2. CASE ApiPin
    BY <1>6, <2>1, <2>2 DEF ApiPin
  <2>3. CASE ApiDel
    BY <1>5, <2>1, <2>3 DEF ApiDel, Consume, At
  <2>4. CASE ResPin
    BY <1>3, <2>1, <2>4 DEF ResPin, At
  <2> QED
    BY <1>2, <1>8, <2>2, <2>3, <2>4
    DEF Handler, Resolve, ResLock, ResUser, Unlock, ApiOpen, pinStore, history
<1>9. CASE Restart
  BY <1>4, <1>9 DEF Restart, history
<1> QED
  BY <1>2, <1>7, <1>8, <1>9
  DEF Next, Close, PinExpires, FreezeExpires, pinStore, history, vars

(* A session is never unlocked more often than PINs were issued for it.    *)
THEOREM UnlocksAreEarned == Spec => []UnlocksConsumePins
<1>1. Init => UnlocksConsumePins
  <2> SUFFICES ASSUME Init, NEW s \in Sessions
               PROVE  credit[s] >= (IF pins[s] = 0 THEN 0 ELSE 1)
    BY DEF UnlocksConsumePins
  <2> QED BY DEF Init
<1> QED BY <1>1, TypedInvInit, TypedInvStep, CreditStep, PTL DEF Spec

-----------------------------------------------------------------------------
(* Freezes lifted with the session's own PIN.                              *)

StoredPins ==
  \A s \in Sessions : pins[s] # 0 => pins[s] \in 1 .. issued /\ pinFor[pins[s]] = s

AtTarget == {"userDel", "userLift", "userOpen"}
AtSession == {"sessDel", "sessOpen", "apiDel", "apiOpen"}
Accepted == {"userLift", "userOpen", "sessOpen", "apiOpen"}

CarriedPin(p) ==
  /\ req[p].pc \in AtTarget => pinFor[req[p].msg] = req[p].target
  /\ req[p].pc \in AtSession => pinFor[req[p].msg] = req[p].sess
  /\ req[p].pc \in Accepted => req[p].msg \in spent

LEMMA PinInvSplit == TypedInv => (PinInv <=> StoredPins /\ \A p \in Procs : CarriedPin(p))
<1> SUFFICES ASSUME TypedInv PROVE PinInv <=> StoredPins /\ \A p \in Procs : CarriedPin(p)
  OBVIOUS
<1>1. StoresOK
  BY Facts DEF Procs
<1>2. StoredPins <=> \A s \in Sessions : pins[s] # 0 => pins[s] <= issued /\ pinFor[pins[s]] = s
  BY <1>1 DEF StoredPins, StoresOK
<1> QED BY <1>2 DEF PinInv, CarriedPin, AtTarget, AtSession, Accepted

(* A PIN keeps its session, and a used PIN stays used.                     *)
LEMMA PinsAreRemembered ==
  ASSUME TypedInv, [Next]_vars
  PROVE  /\ \A n \in 1 .. issued : pinFor'[n] = pinFor[n]
         /\ spent \subseteq spent'
<1>1. StoresOK
  BY Facts DEF Procs
<1>2. ASSUME NEW s, generate_unlock_pin(s)
      PROVE  (\A n \in 1 .. issued : pinFor'[n] = pinFor[n]) /\ spent \subseteq spent'
  BY <1>1, <1>2 DEF generate_unlock_pin, StoresOK, Pin
<1>3. ASSUME NEW t \in Threads, Turn(t)
      PROVE  (\A n \in 1 .. issued : pinFor'[n] = pinFor[n]) /\ spent \subseteq spent'
  BY <1>2, <1>3
  DEF Turn, Arrive, UserGate, UserSid, UserPin, UserDel, UserLift, UserOpen, SessGate, SessPin,
      SessDel, SessOpen, SessLift, Work, EscFreeze, EscPin, EscLock, EscUser, Compare, Consume,
      history
<1>4. CASE Handler
  BY <1>2, <1>4
  DEF Handler, Resolve, ResPin, ResLock, ResUser, Unlock, ApiPin, ApiDel, ApiOpen, Compare,
      Consume, history
<1> QED
  BY <1>3, <1>4 DEF Next, Close, PinExpires, FreezeExpires, Restart, history, vars

LEMMA StoredPinsStep == TypedInv /\ StoredPins /\ [Next]_vars => StoredPins'
<1> SUFFICES ASSUME TypedInv, StoredPins, [Next]_vars PROVE StoredPins'
  OBVIOUS
<1>1. StoresOK /\ issued \in Nat
  BY Facts DEF Procs
<1>2. ASSUME NEW s \in Sessions, generate_unlock_pin(s) PROVE StoredPins'
  <2>1. ASSUME NEW x \in Sessions, pins'[x] # 0
        PROVE  pins'[x] \in 1 .. issued' /\ pinFor'[pins'[x]] = x
    <3>1. CASE x = s
      BY <1>1, <1>2, <2>1, <3>1 DEF generate_unlock_pin, StoresOK, Pin
    <3>2. CASE x # s
      <4>1. pins'[x] = pins[x] /\ pins[x] \in 1 .. issued /\ pinFor[pins[x]] = x
        BY <1>2, <2>1, <3>2 DEF generate_unlock_pin, StoredPins
      <4>2. pins[x] # issued + 1 /\ issued' = issued + 1 /\ pins[x] \in Pin
        BY <1>1, <1>2, <4>1 DEF generate_unlock_pin, Pin, StoresOK
      <4> QED BY <1>1, <1>2, <4>1, <4>2 DEF generate_unlock_pin, StoresOK
    <3> QED BY <3>1, <3>2
  <2> QED BY <2>1 DEF StoredPins
<1>3. ASSUME UNCHANGED <<issued, pinFor>>,
             \A x \in Sessions : pins'[x] = pins[x] \/ pins'[x] = 0
      PROVE  StoredPins'
  BY <1>3 DEF StoredPins
<1>4. ASSUME NEW p, NEW s, NEW from, NEW next,
             Compare(p, s, from, next) \/ Consume(p, s, from, next)
      PROVE  StoredPins'
  <2>1. \A x \in Sessions : pins'[x] = pins[x] \/ pins'[x] = 0
    BY <1>1, <1>4 DEF Compare, Consume, _purge_expired, pinStore, StoresOK
  <2> QED BY <1>3, <1>4, <2>1 DEF Compare, Consume, history
<1>5. ASSUME NEW t \in Threads, Turn(t) PROVE StoredPins'
  <2>1. ~ At(t, "idle") => req[t].sess \in Sessions
    BY Facts DEF Procs, Carries
  <2>2. CASE UserPin(t) \/ SessPin(t) \/ UserDel(t) \/ SessDel(t)
    BY <1>4, <2>2 DEF UserPin, SessPin, UserDel, SessDel
  <2>3. CASE EscPin(t)
    BY <1>2, <2>1, <2>3 DEF EscPin, At
  <2> QED
    BY <1>3, <1>5, <2>2, <2>3
    DEF Turn, Arrive, UserGate, UserSid, UserLift, UserOpen, SessGate, SessOpen, SessLift, Work,
        EscFreeze, EscLock, EscUser, pinStore, history
<1>6. CASE Handler
  <2>1. ~ At(Loop, "idle") => req[Loop].sess \in Sessions
    BY Facts DEF Procs, Carries
  <2>2. CASE ApiPin \/ ApiDel
    BY <1>4, <2>2 DEF ApiPin, ApiDel
  <2>3. CASE ResPin
    BY <1>2, <2>1, <2>3 DEF ResPin, At
  <2> QED
    BY <1>3, <1>6, <2>2, <2>3
    DEF Handler, Resolve, ResLock, ResUser, Unlock, ApiOpen, pinStore, history
<1>7. CASE Restart
  BY <1>3, <1>7 DEF Restart, history
<1> QED
  BY <1>3, <1>5, <1>6, <1>7
  DEF Next, Close, PinExpires, FreezeExpires, pinStore, history, vars

(* A PIN in a request stays what it was while the request stays put.       *)
LEMMA CarriedPinKept ==
  ASSUME TypedInv, [Next]_vars, NEW q \in Procs, CarriedPin(q), req'[q].pc = req[q].pc, Fields(q)
  PROVE  CarriedPin(q)'
<1>1. req[q].pc \in AtTarget \cup AtSession => req[q].msg \in 1 .. issued
  BY Facts DEF AtTarget, AtSession, Carries
<1>2. /\ req[q].pc \in AtTarget \cup AtSession => pinFor'[req[q].msg] = pinFor[req[q].msg]
      /\ spent \subseteq spent'
  BY <1>1, PinsAreRemembered
<1> QED BY <1>2 DEF CarriedPin, Fields

LEMMA CarriedPinStep ==
  ASSUME TypedInv, StoredPins, StoredPins', \A p \in Procs : CarriedPin(p), [Next]_vars,
         NEW q \in Procs
  PROVE  CarriedPin(q)'
<1>1. ASSUME NEW t \in Threads, Turn(t) PROVE CarriedPin(q)'
  <2>1. t \in Procs /\ Others(t) /\ (req'[t].pc = "idle" \/ TurnMoves(t))
    BY <1>1, TurnEffect DEF Procs
  <2>2. CASE q # t
    BY <2>1, <2>2, CarriedPinKept DEF Others
  <2>3. CASE q = t /\ req'[t].pc \notin AtTarget \cup AtSession
    BY <2>3 DEF CarriedPin, AtTarget, AtSession, Accepted
  <2>4. CASE q = t /\ req'[t].pc \in AtTarget \cup AtSession
    <3>1. /\ TurnMoves(t) /\ Carries(t) /\ CarriedPin(t)
      BY <2>1, <2>4, Facts DEF AtTarget, AtSession
    <3>2. /\ Fields(t) /\ req[t].msg \in 1 .. issued
          /\ req[t].pc \in {"userPin", "userDel", "userLift", "sessPin", "sessDel"}
      BY <2>4, <3>1 DEF TurnMoves, Moves, At, AtTarget, AtSession, Carries
    <3>3. pinFor'[req[t].msg] = pinFor[req[t].msg] /\ spent \subseteq spent'
      BY <3>2, PinsAreRemembered
    <3>4. CASE UserPin(t)
      <4>1. req[t].target \in Sessions /\ req[t].msg # 0
        BY <3>1, <3>4 DEF UserPin, Compare, At, Carries, IsText, Text
      <4>2. req'[t].pc = "userDel" /\ pins'[req[t].target] = req[t].msg
        BY <2>4, <3>1, <3>4 DEF TurnMoves, Moves, At, UserPin, Compare, AtTarget, AtSession,
           Arrive, UserGate, UserSid, UserDel, UserLift, UserOpen, SessGate, SessPin, SessDel,
           SessOpen, Work, EscFreeze, EscPin, EscLock, Consume
      <4> QED BY <2>4, <3>2, <4>1, <4>2 DEF StoredPins, CarriedPin, Fields, AtTarget, AtSession,
              Accepted
    <3>5. CASE SessPin(t)
      <4>1. req[t].sess \in Sessions /\ req[t].msg # 0
        BY <3>1, <3>5 DEF SessPin, Compare, At, Carries, IsText, Text
      <4>2. req'[t].pc = "sessDel" /\ pins'[req[t].sess] = req[t].msg
        BY <2>4, <3>1, <3>5 DEF TurnMoves, Moves, At, SessPin, Compare, AtTarget, AtSession,
           Arrive, UserGate, UserSid, UserDel, UserLift, UserOpen, SessGate, UserPin, SessDel,
           SessOpen, Work, EscFreeze, EscPin, EscLock, Consume
      <4> QED BY <2>4, <3>2, <4>1, <4>2 DEF StoredPins, CarriedPin, Fields, AtTarget, AtSession,
              Accepted
    <3>6. CASE Moves(t, "userDel", "userLift") /\ req[t].msg \in spent'
      BY <2>4, <3>1, <3>3, <3>6 DEF CarriedPin, Moves, At, Fields, AtTarget, AtSession, Accepted
    <3>7. CASE Moves(t, "userLift", "userOpen")
      BY <2>4, <3>1, <3>3, <3>7 DEF CarriedPin, Moves, At, Fields, AtTarget, AtSession, Accepted
    <3>8. CASE Moves(t, "sessDel", "sessOpen") /\ req[t].msg \in spent'
      BY <2>4, <3>1, <3>3, <3>8 DEF CarriedPin, Moves, At, Fields, AtTarget, AtSession, Accepted
    <3> QED
      BY <2>4, <3>1, <3>4, <3>5, <3>6, <3>7, <3>8 DEF TurnMoves, Moves, AtTarget, AtSession
  <2> QED BY <2>2, <2>3, <2>4
<1>2. CASE Handler
  <2>1. Loop \in Procs /\ Others(Loop) /\ (req'[Loop].pc = "idle" \/ HandlerMoves)
    BY <1>2, HandlerEffect DEF Procs
  <2>2. CASE q # Loop
    BY <2>1, <2>2, CarriedPinKept DEF Others
  <2>3. CASE q = Loop /\ req'[Loop].pc \notin AtTarget \cup AtSession
    BY <2>3 DEF CarriedPin, AtTarget, AtSession, Accepted
  <2>4. CASE q = Loop /\ req'[Loop].pc \in AtTarget \cup AtSession
    <3>1. \/ Moves(Loop, "apiPin", "apiDel") /\ pins'[req[Loop].sess] = req[Loop].msg
          \/ Moves(Loop, "apiDel", "apiOpen") /\ req[Loop].msg \in spent'
      BY <2>1, <2>4 DEF HandlerMoves, Moves, AtTarget, AtSession
    <3>2. req[Loop].sess \in Sessions /\ req[Loop].msg \in 1 .. issued /\ req[Loop].msg # 0
      BY <2>1, <3>1, Facts DEF Moves, At, Carries, IsText, Text
    <3>3. pinFor'[req[Loop].msg] = pinFor[req[Loop].msg] /\ CarriedPin(Loop)
      BY <2>1, <3>2, PinsAreRemembered
    <3> QED BY <2>4, <3>1, <3>2, <3>3 DEF StoredPins, CarriedPin, Moves, At, Fields, AtTarget,
            AtSession, Accepted
  <2> QED BY <2>2, <2>3, <2>4
<1>3. ASSUME NEW s \in Sessions, Close(s) PROVE CarriedPin(q)'
  <2>1. req'[q].pc = req[q].pc /\ Fields(q)
    BY <1>3, Facts DEF Close, Typed, Request, Fields
  <2> QED BY <2>1, CarriedPinKept
<1>4. ASSUME NEW u \in Users, FreezeExpires(u) PROVE CarriedPin(q)'
  <2>1. req'[q].pc = req[q].pc /\ Fields(q)
    BY <1>4, Facts, UnblockEffect DEF FreezeExpires, Typed, Fields
  <2> QED BY <2>1, CarriedPinKept
<1>5. CASE Restart
  BY <1>5, IdleRequest DEF Restart, CarriedPin, AtTarget, AtSession, Accepted
<1>6. CASE req' = req
  BY <1>6, CarriedPinKept DEF Fields
<1> QED BY <1>1, <1>2, <1>3, <1>4, <1>5, <1>6 DEF Next, PinExpires, vars

LEMMA PinInvStep == TypedInv /\ PinInv /\ [Next]_vars => PinInv'
<1> SUFFICES ASSUME TypedInv, PinInv, [Next]_vars PROVE PinInv'
  OBVIOUS
<1>1. StoredPins /\ \A p \in Procs : CarriedPin(p)
  BY PinInvSplit
<1>2. StoredPins'
  BY <1>1, StoredPinsStep
<1>3. \A q \in Procs : CarriedPin(q)'
  BY <1>1, <1>2, CarriedPinStep
<1> QED BY <1>2, <1>3 DEF PinInv, StoredPins, CarriedPin, AtTarget, AtSession, Accepted

LEMMA LiftStep ==
  ASSUME TypedInv, PinInv, [Next]_vars, NEW s \in Sessions,
         s \in frozen, s \notin frozen', s \in open'
  PROVE  \E p \in Procs : req[p] # req'[p] /\ HeldSession(p) = s /\ Justified(p, s)
<1>1. ASSUME NEW p \in Procs, req[p].pc \in {"userOpen", "sessOpen", "apiOpen"},
             req'[p].pc # req[p].pc, HeldSession(p) = s
      PROVE  req[p] # req'[p] /\ HeldSession(p) = s /\ Justified(p, s)
  <2>1. req[p].msg \in delivered
    BY <1>1, Facts DEF Carries
  <2>2. req[p].msg \in spent /\ pinFor[req[p].msg] = s
    BY <1>1 DEF PinInv, HeldSession, At
  <2> QED BY <1>1, <2>1, <2>2 DEF Justified
<1>2. ASSUME NEW t \in Threads, Turn(t)
      PROVE  \E p \in Procs : req[p] # req'[p] /\ HeldSession(p) = s /\ Justified(p, s)
  <2>1. t \in Procs /\ (req'[t].pc = "idle" \/ TurnMoves(t))
    BY <1>2, TurnEffect DEF Procs
  <2>2. CASE UserOpen(t)
    <3>1. req[t].pc = "userOpen" /\ HeldSession(t) = s
      BY <2>2 DEF UserOpen, SetFrozen, At, HeldSession
    <3>2. req'[t].pc # "userOpen"
      BY <2>1, <3>1 DEF TurnMoves, Moves, At, Arrive, UserSid
    <3> QED BY <1>1, <2>1, <3>1, <3>2
  <2>3. CASE SessOpen(t)
    <3>1. req[t].pc = "sessOpen" /\ HeldSession(t) = s
      BY <2>3 DEF SessOpen, SetFrozen, At, HeldSession
    <3>2. req'[t].pc # "sessOpen"
      BY <2>1, <3>1 DEF TurnMoves, Moves, At, Arrive, UserSid
    <3> QED BY <1>1, <2>1, <3>1, <3>2
  <2> QED
    BY <1>2, <2>2, <2>3
    DEF Turn, Arrive, UserGate, UserSid, UserPin, UserDel, UserLift, SessGate, SessPin, SessDel,
        SessLift, Work, EscFreeze, EscPin, EscLock, EscUser, Compare, Consume, SetFrozen, sessions
<1>3. CASE Handler
  <2>1. Loop \in Procs /\ (req'[Loop].pc = "idle" \/ HandlerMoves)
    BY <1>3, HandlerEffect DEF Procs
  <2>2. CASE ApiOpen
    <3>1. req[Loop].pc = "apiOpen" /\ HeldSession(Loop) = s
      BY <2>2 DEF ApiOpen, At, HeldSession
    <3>2. req'[Loop].pc # "apiOpen"
      BY <2>1, <3>1 DEF HandlerMoves, Moves, At
    <3> QED BY <1>1, <2>1, <3>1, <3>2
  <2> QED
    BY <1>3, <2>2
    DEF Handler, Resolve, ResPin, ResLock, ResUser, Unlock, ApiPin, ApiDel, Compare, Consume,
        SetFrozen, sessions
<1> QED
  BY <1>2, <1>3 DEF Next, Close, PinExpires, FreezeExpires, Restart, vars, sessions

(* An open session is only unlocked by a request that holds an accepted    *)
(* PIN of that very session, which a teacher handed out.                   *)
THEOREM LiftsAreEarned == Spec => LiftedByOwnPin
<1>1. Init => PinInv
  BY IdleRequest DEF Init, PinInv
<1>2. Spec => [](TypedInv /\ PinInv)
  BY <1>1, TypedInvInit, TypedInvStep, PinInvStep, PTL DEF Spec
<1>3. TypedInv /\ PinInv /\ [Next]_vars =>
        [\A s \in Sessions :
           s \in frozen /\ s \notin frozen' /\ s \in open' =>
             \E p \in Procs : req[p] # req'[p] /\ HeldSession(p) = s /\ Justified(p, s)]_vars
  BY LiftStep
<1> QED BY <1>2, <1>3, PTL DEF Spec, LiftedByOwnPin

-----------------------------------------------------------------------------
(* Text of a frozen user at the first gate.                                *)

FreezeStays == \A u : is_user_frozen(u) => is_user_frozen(u)'

LEMMA BecomeKeeps ==
  ASSUME Typed, NEW p \in Procs, NEW r, Become(p, r)
  PROVE  req'[p] = r /\ KeepsOthers(p)
BY DEF Typed, Become, KeepsOthers

LEMMA BlockOthers ==
  ASSUME BlockInv, NEW p \in Procs, KeepsOthers(p), FreezeStays,
         req'[p].blocked => At(p, "userGate")' /\ IsText(p)' /\ is_user_frozen(OwnerOf(p))'
  PROVE  BlockInv'
<1>1. ASSUME NEW q \in Procs, req'[q].blocked
      PROVE  At(q, "userGate")' /\ IsText(q)' /\ is_user_frozen(OwnerOf(q))'
  <2>1. CASE q = p
    BY <1>1, <2>1
  <2>2. CASE q # p
    <3>1. req'[q] = req[q] /\ At(q, "userGate") /\ IsText(q) /\ is_user_frozen(OwnerOf(q))
      BY <1>1, <2>2 DEF KeepsOthers, BlockInv
    <3>2. OwnerOf(q)' = OwnerOf(q)
      BY <3>1 DEF OwnerOf
    <3> QED BY <3>1, <3>2 DEF FreezeStays, At, IsText, is_user_frozen
  <2> QED BY <2>1, <2>2
<1> QED BY <1>1 DEF BlockInv

LEMMA UnblockBlocks ==
  ASSUME NEW x \in [Procs -> Request], NEW u, req' = Unblock(x, u),
         \A v : is_user_frozen(v) /\ v # u => is_user_frozen(v)',
         \A q \in Procs : x[q].blocked => req[q] = x[q], BlockInv
  PROVE  BlockInv'
<1>1. ASSUME NEW q \in Procs, req'[q].blocked
      PROVE  At(q, "userGate")' /\ IsText(q)' /\ is_user_frozen(OwnerOf(q))'
  <2>1. x[q].blocked /\ Owner[x[q].sess] # u
    BY <1>1 DEF Unblock, Request
  <2>2. /\ req'[q].pc = req[q].pc /\ req'[q].msg = req[q].msg /\ req'[q].sess = req[q].sess
        /\ OwnerOf(q) # u /\ req[q].blocked
    BY <2>1, UnblockEffect DEF OwnerOf
  <2>3. At(q, "userGate") /\ IsText(q) /\ is_user_frozen(OwnerOf(q))
    BY <2>2 DEF BlockInv
  <2>4. OwnerOf(q)' = OwnerOf(q)
    BY <2>2 DEF OwnerOf
  <2> QED BY <2>2, <2>3, <2>4 DEF At, IsText, is_user_frozen
<1> QED BY <1>1 DEF BlockInv

(* Everything a turn does but arriving and lifting a freeze.               *)
LEMMA TurnFlags ==
  ASSUME TypedInv, BlockInv, NEW t \in Threads, Turn(t),
         ~ Arrive(t), ~ UserLift(t), ~ SessLift(t)
  PROVE  KeepsOthers(t) /\ ~ req'[t].blocked
<1>1. /\ t \in Procs /\ Typed /\ req[t] \in Request
      /\ req[t].blocked => At(t, "userGate") /\ IsText(t) /\ is_user_frozen(OwnerOf(t))
  BY Facts DEF Procs, BlockInv
<1>2. ASSUME Respond(t) PROVE KeepsOthers(t) /\ ~ req'[t].blocked
  BY <1>1, <1>2, BecomeKeeps DEF Respond, Idle
<1>3. ASSUME NEW step, Goto(t, step), ~ req[t].blocked
      PROVE  KeepsOthers(t) /\ ~ req'[t].blocked
  <2>1. req'[t] = [req[t] EXCEPT !.pc = step] /\ KeepsOthers(t)
    BY <1>1, <1>3, BecomeKeeps DEF Goto
  <2> QED BY <1>1, <1>3, <2>1 DEF Request
<1>4. ASSUME NEW step, NEW h, Become(t, [req[t] EXCEPT !.pc = step, !.holds = h]), ~ req[t].blocked
      PROVE  KeepsOthers(t) /\ ~ req'[t].blocked
  <2>1. req'[t] = [req[t] EXCEPT !.pc = step, !.holds = h] /\ KeepsOthers(t)
    BY <1>1, <1>4, BecomeKeeps
  <2> QED BY <1>1, <1>4, <2>1 DEF Request
<1>5. CASE UserGate(t)
  BY <1>1, <1>2, <1>3, <1>5 DEF UserGate
<1>6. CASE UserSid(t)
  <2>1. ASSUME NEW x, Become(t, [req[t] EXCEPT !.pc = "userPin", !.target = x])
        PROVE  KeepsOthers(t) /\ ~ req'[t].blocked
    <3>1. req'[t] = [req[t] EXCEPT !.pc = "userPin", !.target = x] /\ KeepsOthers(t)
      BY <1>1, <2>1, BecomeKeeps
    <3> QED BY <1>1, <1>6, <3>1 DEF Request, UserSid, At
  <2> QED BY <1>2, <1>6, <2>1 DEF UserSid
<1>7. ~ At(t, "userGate") => ~ req[t].blocked
  BY <1>1
<1>8. CASE UserPin(t) \/ SessPin(t)
  BY <1>2, <1>3, <1>7, <1>8 DEF UserPin, SessPin, Compare, At
<1>9. CASE UserDel(t) \/ SessDel(t)
  BY <1>2, <1>3, <1>7, <1>9 DEF UserDel, SessDel, Consume, At
<1>10. CASE UserOpen(t) \/ SessGate(t) \/ EscFreeze(t)
  BY <1>2, <1>3, <1>4, <1>7, <1>10 DEF UserOpen, SessGate, EscFreeze, At
<1>11. CASE SessOpen(t) \/ Work(t) \/ EscPin(t) \/ EscLock(t) \/ EscUser(t)
  BY <1>2, <1>3, <1>7, <1>11 DEF SessOpen, Work, EscPin, EscLock, EscUser, At
<1> QED BY <1>5, <1>6, <1>8, <1>9, <1>10, <1>11 DEF Turn

LEMMA TurnFreezeStays ==
  ASSUME TypedInv, NEW t \in Threads, Turn(t), ~ UserLift(t), ~ SessLift(t)
  PROVE  FreezeStays
<1>1. CASE EscUser(t)
  <2>1. req[t].sess \in Sessions
    BY <1>1, Facts DEF EscUser, At, Carries, Procs
  <2> QED BY <1>1, <2>1 DEF EscUser, freeze_user, FreezeStays, is_user_frozen
<1>2. CASE UserGate(t)
  BY <1>2 DEF UserGate, _purge_expired_user_freezes, FreezeStays, is_user_frozen, userStore
<1> QED
  BY <1>1, <1>2
  DEF Turn, Arrive, UserSid, UserPin, UserDel, UserOpen, SessGate, SessPin, SessDel, SessOpen,
      Work, EscFreeze, EscPin, EscLock, Compare, Consume, userStore, FreezeStays, is_user_frozen

LEMMA HandlerFlags ==
  ASSUME TypedInv, BlockInv, Handler
  PROVE  KeepsOthers(Loop) /\ ~ req'[Loop].blocked /\ FreezeStays
<1>1. /\ Loop \in Procs /\ Typed /\ req[Loop] \in Request /\ ~ Idle.blocked /\ Carries(Loop)
      /\ ~ At(Loop, "userGate") => ~ req[Loop].blocked
  BY Facts DEF Procs, BlockInv, Idle
<1>2. ASSUME NEW r \in Request, Become(Loop, r), ~ r.blocked
      PROVE  KeepsOthers(Loop) /\ ~ req'[Loop].blocked
  BY <1>1, <1>2, BecomeKeeps
<1>3. ASSUME Respond(Loop) PROVE KeepsOthers(Loop) /\ ~ req'[Loop].blocked
  BY <1>1, <1>2, <1>3, IdleRequest DEF Respond
<1>4. ASSUME NEW step, Goto(Loop, step), ~ At(Loop, "userGate")
      PROVE  KeepsOthers(Loop) /\ ~ req'[Loop].blocked
  <2>1. req'[Loop] = [req[Loop] EXCEPT !.pc = step] /\ KeepsOthers(Loop)
    BY <1>1, <1>4, BecomeKeeps DEF Goto
  <2> QED BY <1>1, <1>4, <2>1 DEF Request
<1>5. CASE Resolve
  <2>1. PICK s \in esc : Become(Loop, [Idle EXCEPT !.pc = "resPin", !.sess = s])
    BY <1>5 DEF Resolve
  <2>2. KeepsOthers(Loop) /\ req'[Loop] = [Idle EXCEPT !.pc = "resPin", !.sess = s]
    BY <1>1, <2>1, BecomeKeeps
  <2> QED BY <1>5, <2>2 DEF Resolve, Idle, FreezeStays, is_user_frozen, userStore
<1>6. CASE Unlock
  <2>1. PICK s \in Sessions, m \in delivered :
          Become(Loop, [Idle EXCEPT !.pc = "apiPin", !.sess = s, !.msg = m])
    BY <1>6 DEF Unlock
  <2>2. KeepsOthers(Loop) /\ req'[Loop] = [Idle EXCEPT !.pc = "apiPin", !.sess = s, !.msg = m]
    BY <1>1, <2>1, BecomeKeeps
  <2> QED BY <1>6, <2>2 DEF Unlock, Idle, FreezeStays, is_user_frozen, userStore
<1>7. CASE ResPin
  <2> DEFINE r == [req[Loop] EXCEPT !.pc = "resLock", !.msg = issued + 1, !.holds = TRUE]
  <2>1. ASSUME Become(Loop, r) PROVE KeepsOthers(Loop) /\ ~ req'[Loop].blocked
    <3>1. KeepsOthers(Loop) /\ req'[Loop] = r
      BY <1>1, <2>1, BecomeKeeps
    <3> QED BY <1>1, <1>7, <3>1 DEF ResPin, At, Request
  <2> QED BY <1>3, <1>7, <2>1 DEF ResPin, FreezeStays, is_user_frozen, userStore
<1>8. CASE ResUser
  <2>1. req[Loop].sess \in Sessions
    BY <1>1, <1>8 DEF ResUser, At, Carries
  <2> QED BY <1>3, <1>8, <2>1 DEF ResUser, freeze_user, FreezeStays, is_user_frozen
<1>9. CASE ApiPin \/ ApiDel
  BY <1>3, <1>4, <1>9 DEF ApiPin, ApiDel, Compare, Consume, At, FreezeStays, is_user_frozen,
     userStore
<1>10. CASE ResLock \/ ApiOpen
  BY <1>3, <1>4, <1>10 DEF ResLock, ApiOpen, At, FreezeStays, is_user_frozen, userStore
<1> QED BY <1>5, <1>6, <1>7, <1>8, <1>9, <1>10 DEF Handler

LEMMA BlockInvStep == TypedInv /\ BlockInv /\ [Next]_vars => BlockInv'
<1> SUFFICES ASSUME TypedInv, BlockInv, [Next]_vars PROVE BlockInv'
  OBVIOUS
<1>1. Typed /\ \A p \in Procs : req[p] \in Request
  BY Facts DEF Procs, Typed
<1>2. ASSUME NEW t \in Threads, Arrive(t) PROVE BlockInv'
  <2>1. PICK s \in Sessions, m \in {Text} \cup delivered :
          Become(t, [Idle EXCEPT !.pc = "userGate", !.sess = s, !.msg = m,
                                 !.blocked = m = Text /\ is_user_frozen(Owner[s])])
    BY <1>2 DEF Arrive
  <2> DEFINE b == m = Text /\ is_user_frozen(Owner[s])
             r == [Idle EXCEPT !.pc = "userGate", !.sess = s, !.msg = m, !.blocked = b]
  <2>2. Become(t, r)
    BY <2>1
  <2> HIDE DEF b
  <2>3. r.pc = "userGate" /\ r.sess = s /\ r.msg = m /\ r.blocked = b
    BY DEF Idle
  <2> HIDE DEF r
  <2>4. t \in Procs /\ KeepsOthers(t) /\ req'[t] = r
    BY <1>1, <2>2, BecomeKeeps DEF Procs
  <2>5. FreezeStays
    BY <1>2 DEF Arrive, FreezeStays, is_user_frozen, userStore
  <2>6. b => m = Text /\ is_user_frozen(Owner[s])'
    BY <2>5 DEF b, FreezeStays
  <2> QED BY <2>3, <2>4, <2>5, <2>6, BlockOthers DEF At, IsText, OwnerOf, is_user_frozen
<1>3. ASSUME NEW t \in Threads, UserLift(t) PROVE BlockInv'
  <2> DEFINE h == req[t].target \in open
             x == [req EXCEPT ![t] = [req[t] EXCEPT !.pc = "userOpen", !.holds = h]]
  <2>1. h \in BOOLEAN /\ t \in Procs
    BY DEF Procs
  <2>2. req' = Unblock(x, OwnerOf(t))
    BY <1>3 DEF UserLift
  <2> HIDE DEF h
  <2>3. /\ x \in [Procs -> Request]
        /\ \A q \in Procs \ {t} : x[q] = req[q]
        /\ x[t].blocked = req[t].blocked
    <3>1. [req[t] EXCEPT !.pc = "userOpen", !.holds = h] \in Request
      BY <1>1, <2>1 DEF Request, Steps
    <3> QED BY <1>1, <2>1, <3>1 DEF Typed, Request
  <2> HIDE DEF x
  <2>4. \A q \in Procs : x[q].blocked => req[q] = x[q]
    BY <1>3, <2>1, <2>3 DEF UserLift, BlockInv, At
  <2>5. \A v : is_user_frozen(v) /\ v # OwnerOf(t) => is_user_frozen(v)'
    BY <1>3 DEF UserLift, unfreeze_user, is_user_frozen
  <2> QED BY <2>2, <2>3, <2>4, <2>5, UnblockBlocks
<1>4. ASSUME NEW t \in Threads, SessLift(t) PROVE BlockInv'
  <2> DEFINE x == [req EXCEPT ![t] = Idle]
  <2>1. /\ x \in [Procs -> Request] /\ t \in Procs
        /\ \A q \in Procs : x[q].blocked => req[q] = x[q]
    BY <1>1, IdleRequest DEF Typed, Idle, Procs
  <2>2. req' = Unblock(x, OwnerOf(t))
    BY <1>4 DEF SessLift
  <2> HIDE DEF x
  <2>3. \A v : is_user_frozen(v) /\ v # OwnerOf(t) => is_user_frozen(v)'
    BY <1>4 DEF SessLift, unfreeze_user, is_user_frozen
  <2> QED BY <2>1, <2>2, <2>3, UnblockBlocks
<1>5. ASSUME NEW t \in Threads, Turn(t) PROVE BlockInv'
  <2>1. CASE ~ Arrive(t) /\ ~ UserLift(t) /\ ~ SessLift(t)
    BY <1>5, <2>1, TurnFlags, TurnFreezeStays, BlockOthers DEF Procs
  <2> QED BY <1>2, <1>3, <1>4, <2>1
<1>6. CASE Handler
  BY <1>6, HandlerFlags, BlockOthers DEF Procs
<1>7. ASSUME NEW u \in Users, FreezeExpires(u) PROVE BlockInv'
  <2>1. \A v : is_user_frozen(v) /\ v # u => is_user_frozen(v)'
    BY <1>7 DEF FreezeExpires, is_user_frozen
  <2> QED BY <1>1, <1>7, <2>1, UnblockBlocks DEF FreezeExpires, Typed
<1>8. ASSUME NEW s \in Sessions, Close(s) PROVE BlockInv'
  <2>1. \A q \in Procs : /\ req'[q].pc = req[q].pc /\ req'[q].sess = req[q].sess
                        /\ req'[q].msg = req[q].msg /\ req'[q].blocked = req[q].blocked
    BY <1>1, <1>8 DEF Close, Request
  <2>2. UNCHANGED <<userFreeze, staleUsers>>
    BY <1>8 DEF Close, userStore
  <2> QED BY <2>1, <2>2 DEF BlockInv, At, IsText, OwnerOf, is_user_frozen
<1>9. CASE Restart
  BY <1>9 DEF Restart, BlockInv, Idle
<1>10. CASE UNCHANGED <<req, userFreeze, staleUsers>>
  BY <1>10 DEF BlockInv, At, IsText, OwnerOf, is_user_frozen
<1> QED
  BY <1>5, <1>6, <1>7, <1>8, <1>9, <1>10 DEF Next, PinExpires, vars, userStore

(* Text that a frozen user sends, in whichever session, stays at the gate. *)
THEOREM FrozenUsersAreHeld == Spec => []FrozenUserIsBlocked
<1>1. Init => BlockInv
  BY DEF Init, BlockInv, Idle
<1>2. BlockInv => FrozenUserIsBlocked
  BY DEF BlockInv, FrozenUserIsBlocked, Procs
<1> QED BY <1>1, <1>2, TypedInvInit, TypedInvStep, BlockInvStep, PTL DEF Spec

=============================================================================
