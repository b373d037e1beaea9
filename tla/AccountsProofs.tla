----------------------------- MODULE AccountsProofs -----------------------------
(***************************************************************************)
(* Lemmas about Accounts, for any sets of users, names and requests: its   *)
(* invariant, and that its properties follow. ApiServerProofs applies them *)
(* to the accounts of the server.                                          *)
(*                                                                         *)
(* The inductive invariant has a part that holds always, and one that holds*)
(* while no two saves have overlapped: there is then at most one save at a *)
(* time, and what it is about to write is the file with its own change.    *)
(***************************************************************************)
EXTENDS Accounts, FiniteSetTheorems, TLAPS

(* What is left of the calls of an operation.                              *)
Rests ==
  [register |-> {register, <<"list", "create">>, <<"create">>},
   invite_user |-> {invite_user, <<"create", "token">>, <<"token">>},
   setup_password |-> {setup_password, <<"clear", "password", "activate">>, <<"password", "activate">>, <<"activate">>},
   password_reset |-> {password_reset},
   delete_user |-> {delete_user},
   update_user |-> {update_user, <<"role", "touch">>, <<"touch">>}]

(* A request is within its operation, for an id that has been given out;    *)
(* who has passed the invitation has redeemed it.                           *)
Proper(r) ==
  LET q == req[r] IN
  IF q.op = "none" THEN q = Idle
  ELSE /\ q.user \in Users /\ q.name \in Names /\ q.pc # "idle" /\ q.todo \in Rests[q.op]
       /\ origin[q.user] # "none" /\ (q.op \in Creates => origin[q.user] = q.op)
       /\ IF InSave(r) THEN backend = "filesystem" /\ call(r) \notin Reads /\ q.snap # Torn
                           ELSE q.inode = "none"
       /\ q.pc \in {"dump", "replace"} => q.inode # "none"
       /\ q.pc = "await" => call(r) # "clear"
       /\ q.promoted => q.op = "register" /\ call(r) = "create"
       /\ q.op = "setup_password" /\ backend = "sqlite" => call(r) = "lookup"
       /\ call(r) = "activate" \/ (q.op = "setup_password" /\ call(r) = "password") => redeemed[q.user] > 0

(* Who is active in a copy of the store may be.                             *)
Entitled(s) ==
  \A u \in Registered(s) : origin[u] # "none" /\ (s[u].active => origin[u] = "register" \/ redeemed[u] > 0)

Always ==
  /\ TypeOK
  /\ \A r \in Requests : Proper(r) /\ (req[r].snap # Torn => Entitled(req[r].snap))
  /\ \A q, r \in Requests :
       /\ {req[q].op, req[r].op} \subseteq Creates /\ req[q].user = req[r].user => q = r
       /\ OnEventLoop(q) /\ OnEventLoop(r) => q = r
  /\ \A u \in Users : u \in invites \/ redeemed[u] > 0 => origin[u] # "none"
  /\ backend = "sqlite" => \A u \in Users : redeemed[u] = 0
  /\ IF file = Torn THEN backend = "filesystem" ELSE Entitled(file)
  /\ tmp \notin {Torn, Absent} => Entitled(tmp)

Saving(r) ==
  LET u == req[r].user IN
  /\ req[r].snap = [file EXCEPT ![u] = Changed(r, @)]
  /\ file[u] # NoUser \/ call(r) = "create"
  /\ req[r].pc = "dump" => req[r].inode = "tmp" /\ tmp = Torn
  /\ req[r].pc = "replace" => tmp = req[r].snap

CreatingOne(r) == req[r].op # "none" /\ call(r) \in {"list", "create"}
Live(u) == u \in invites \/ (file[u] # NoUser /\ file[u].invite_token)

SavesAreApart ==
  /\ file # Torn
  /\ \A q, r \in Requests : InSave(q) /\ InSave(r) => q = r
  /\ \A r \in Requests : InSave(r) => Saving(r)

FileInv ==
  /\ \A r \in Requests : req[r].op \in Creates /\ call(r) # "token" => file[req[r].user] = NoUser
  /\ \A u \in Users : file[u] # NoUser /\ file[u].active => file[u].password
  /\ \A r \in Requests : req[r].op # "none" /\ call(r) = "activate" =>
       file[req[r].user] = NoUser \/ file[req[r].user].password

NamesInv ==
  "name" \notin raced =>
    /\ \A u, v \in Registered(file) : file[u].name = file[v].name => u = v
    /\ \A r \in Requests : CreatingOne(r) => ~Taken(file, req[r].name)
    /\ \A q, r \in Requests : CreatingOne(q) /\ CreatingOne(r) /\ req[q].name = req[r].name => q = r

PromotedInv ==
  "promoted" \notin raced =>
    /\ \A u, v \in Registered(file) : file[u].promoted /\ file[v].promoted => u = v
    /\ \A r \in Requests : req[r].promoted => \A u \in Registered(file) : ~file[u].promoted
    /\ \A q, r \in Requests : req[q].promoted /\ req[r].promoted => q = r

RedeemInv ==
  backend = "filesystem" =>
    /\ \A q \in Requests : req[q].op \in Creates => (call(q) = "token" /\ InSave(q)) \/ ~Live(req[q].user)
    /\ \A q, r \in Requests :
         req[q].op \in Creates /\ req[r].op = "setup_password" /\ call(r) # "lookup" => req[q].user # req[r].user
    /\ \A r \in Requests : req[r].op # "none" /\ call(r) = "clear" =>
         redeemed[req[r].user] = 0 /\ req[r].user \notin invites
    /\ \A u \in Users : redeemed[u] > 0 =>
         redeemed[u] = 1 /\ ~Live(u) /\ \A q \in Requests : req[q].op \in Creates => req[q].user # u

Apart == SavesAreApart /\ FileInv /\ NamesInv /\ PromotedInv /\ RedeemInv
AccountInv == Always /\ (~overlap => Apart)

(* What is called next.                                                    *)
Follows(op, c, d) ==
  \/ op = "register" /\ ((c = "check" /\ d = "list") \/ (c = "list" /\ d = "create"))
  \/ op = "invite_user" /\ ((c = "check" /\ d = "create") \/ (c = "create" /\ d = "token"))
  \/ op = "setup_password" /\
      ((c = "lookup" /\ d = "clear") \/ (c = "clear" /\ d = "password") \/ (c = "password" /\ d = "activate"))
  \/ op = "update_user" /\ ((c = "read" /\ d = "role") \/ (c = "role" /\ d = "touch"))

Within(op, c) ==
  \/ op = "register" /\ c \in {"check", "list", "create"}
  \/ op = "invite_user" /\ c \in {"check", "create", "token"}
  \/ op = "setup_password" /\ c \in {"lookup", "clear", "password", "activate"}
  \/ op = "password_reset" /\ c = "password"
  \/ op = "delete_user" /\ c = "deactivate"
  \/ op = "update_user" /\ c \in {"read", "role", "touch"}

(* The first and the rest of short tuples.                                 *)
LEMMA Tuples ==
  ASSUME NEW a, NEW b, NEW c, NEW d
  PROVE  /\ Len(<<a>>) = 1 /\ Head(<<a>>) = a
         /\ Len(<<a, b>>) = 2 /\ Head(<<a, b>>) = a /\ Tail(<<a, b>>) = <<b>>
         /\ Len(<<a, b, c>>) = 3 /\ Head(<<a, b, c>>) = a /\ Tail(<<a, b, c>>) = <<b, c>>
         /\ Len(<<a, b, c, d>>) = 4 /\ Head(<<a, b, c, d>>) = a /\ Tail(<<a, b, c, d>>) = <<b, c, d>>
OBVIOUS

LEMMA Calling ==
  ASSUME NEW op \in Operation, NEW todo \in Rests[op]
  PROVE  /\ todo \in Seq(Call) /\ Within(op, Head(todo))
         /\ Len(todo) # 1 => Tail(todo) \in Rests[op] /\ Follows(op, Head(todo), Head(Tail(todo)))
<1>0. Operation = {"register", "invite_user", "setup_password", "password_reset", "delete_user", "update_user"}
  BY DEF Operation, Calls
<1> USE Tuples
<1>1. CASE op = "register"
  <2>1. Rests[op] = {<<"check", "list", "create">>, <<"list", "create">>, <<"create">>}
    BY <1>1 DEF Rests, register
  <2>2. CASE todo = <<"check", "list", "create">>
    BY <1>1, <2>1, <2>2 DEF Within, Follows, Call
  <2>3. CASE todo = <<"list", "create">>
    BY <1>1, <2>1, <2>3 DEF Within, Follows, Call
  <2>4. CASE todo = <<"create">>
    BY <1>1, <2>1, <2>4 DEF Within, Follows, Call
  <2>5. QED
    BY <2>1, <2>2, <2>3, <2>4
<1>2. CASE op = "invite_user"
  <2>1. Rests[op] = {<<"check", "create", "token">>, <<"create", "token">>, <<"token">>}
    BY <1>2 DEF Rests, invite_user
  <2>2. CASE todo = <<"check", "create", "token">>
    BY <1>2, <2>1, <2>2 DEF Within, Follows, Call
  <2>3. CASE todo = <<"create", "token">>
    BY <1>2, <2>1, <2>3 DEF Within, Follows, Call
  <2>4. CASE todo = <<"token">>
    BY <1>2, <2>1, <2>4 DEF Within, Follows, Call
  <2>5. QED
    BY <2>1, <2>2, <2>3, <2>4
<1>3. CASE op = "setup_password"
  <2>1. Rests[op] = {<<"lookup", "clear", "password", "activate">>, <<"clear", "password", "activate">>, <<"password", "activate">>, <<"activate">>}
    BY <1>3 DEF Rests, setup_password
  <2>2. CASE todo = <<"lookup", "clear", "password", "activate">>
    BY <1>3, <2>1, <2>2 DEF Within, Follows, Call
  <2>3. CASE todo = <<"clear", "password", "activate">>
    BY <1>3, <2>1, <2>3 DEF Within, Follows, Call
  <2>4. CASE todo = <<"password", "activate">>
    BY <1>3, <2>1, <2>4 DEF Within, Follows, Call
  <2>5. CASE todo = <<"activate">>
    BY <1>3, <2>1, <2>5 DEF Within, Follows, Call
  <2>6. QED
    BY <2>1, <2>2, <2>3, <2>4, <2>5
<1>4. CASE op = "password_reset"
  <2>1. Rests[op] = {<<"password">>}
    BY <1>4 DEF Rests, password_reset
  <2>2. CASE todo = <<"password">>
    BY <1>4, <2>1, <2>2 DEF Within, Follows, Call
  <2>3. QED
    BY <2>1, <2>2
<1>5. CASE op = "delete_user"
  <2>1. Rests[op] = {<<"deactivate">>}
    BY <1>5 DEF Rests, delete_user
  <2>2. CASE todo = <<"deactivate">>
    BY <1>5, <2>1, <2>2 DEF Within, Follows, Call
  <2>3. QED
    BY <2>1, <2>2
<1>6. CASE op = "update_user"
  <2>1. Rests[op] = {<<"read", "role", "touch">>, <<"role", "touch">>, <<"touch">>}
    BY <1>6 DEF Rests, update_user
  <2>2. CASE todo = <<"read", "role", "touch">>
    BY <1>6, <2>1, <2>2 DEF Within, Follows, Call
  <2>3. CASE todo = <<"role", "touch">>
    BY <1>6, <2>1, <2>3 DEF Within, Follows, Call
  <2>4. CASE todo = <<"touch">>
    BY <1>6, <2>1, <2>4 DEF Within, Follows, Call
  <2>5. QED
    BY <2>1, <2>2, <2>3, <2>4
<1>7. QED
  BY <1>0, <1>1, <1>2, <1>3, <1>4, <1>5, <1>6

LEMMA RequestFacts ==
  ASSUME Always, NEW r \in Requests
  PROVE  /\ req[r] \in Request /\ Proper(r) /\ req \in [Requests -> Request]
         /\ req[r].op = "none" <=> At(r, "idle")
         /\ req[r].op # "none" =>
              /\ req[r].op \in Operation /\ req[r].user \in Users /\ req[r].name \in Names
              /\ req[r].todo \in Rests[req[r].op] /\ Within(req[r].op, call(r)) /\ req[r].todo \in Seq(Call)
              /\ Len(req[r].todo) # 1 =>
                   Tail(req[r].todo) \in Rests[req[r].op] /\ Follows(req[r].op, call(r), Head(Tail(req[r].todo)))
<1>1. req[r] \in Request /\ Proper(r) /\ req \in [Requests -> Request]
  BY DEF Always, TypeOK
<1>2. req[r].op \in Operation \cup {"none"}
  BY <1>1 DEF Request
<1>3. CASE req[r].op = "none"
  BY <1>1, <1>3 DEF Proper, Idle, At
<1>4. CASE req[r].op # "none"
  <2>1. req[r].op \in Operation /\ req[r].todo \in Rests[req[r].op]
    BY <1>1, <1>2, <1>4 DEF Proper
  <2>2. QED
    BY <1>1, <1>4, <2>1, Calling DEF Proper, call, At
<1>5. QED
  BY <1>1, <1>3, <1>4

(* A copy of the store in which everybody is entitled stays such a copy.    *)
LEMMA StaysEntitled ==
  ASSUME Always, NEW s \in Store, Entitled(s), redeemed' \in [Users -> Nat],
         \A u \in Users : redeemed[u] <= redeemed'[u] /\ (origin[u] # "none" => origin'[u] = origin[u])
  PROVE  Entitled(s)'
<1>1. redeemed \in [Users -> Nat] /\ origin \in [Users -> Creates \cup {"none"}]
  BY DEF Always, TypeOK
<1>2. QED
  BY <1>1 DEF Entitled, Registered

(* What a step of a request may do to the stores.                           *)
StoresMove ==
  /\ UNCHANGED <<backend, origin, expired, served>>
  /\ redeemed' \in [Users -> Nat] /\ \A u \in Users : redeemed[u] <= redeemed'[u]
  /\ \A u \in Users : u \in invites' \/ redeemed'[u] > 0 => origin[u] # "none"
  /\ redeemed' = redeemed \/ backend = "filesystem"
  /\ invites' \subseteq Users /\ overlap' \in BOOLEAN /\ raced' \subseteq {"name", "promoted"}
  /\ file' \in Store \cup {Torn} /\ tmp' \in Store \cup {Torn, Absent}
  /\ file' = file \/ IF file' = Torn THEN backend = "filesystem" ELSE Entitled(file)'
  /\ tmp' = tmp \/ (tmp' \notin {Torn, Absent} => Entitled(tmp)')

(* A step of a request, which may move the file another one writes to.      *)
LEMMA RequestMoves ==
  ASSUME Always, NEW r \in Requests, req' \in [Requests -> Request],
         \A q \in Requests \ {r} : req'[q] = req[q] \/ req'[q] = Moved(req[q]),
         req'[r].op = "none" \/ (req'[r].op = req[r].op /\ req'[r].user = req[r].user),
         Proper(r)', req'[r].snap # Torn => Entitled(req[r].snap)',
         OnEventLoop(r)' => OnEventLoop(r) \/ LoopIsFree,
         StoresMove
  PROVE  Always'
<1> USE DEF StoresMove
<1>1. TypeOK'
  BY DEF Always, TypeOK
<1>2. \A q \in Requests \ {r} :
        /\ req'[q].op = req[q].op /\ req'[q].user = req[q].user /\ req'[q].name = req[q].name
        /\ req'[q].todo = req[q].todo /\ req'[q].pc = req[q].pc /\ req'[q].snap = req[q].snap
        /\ req'[q].promoted = req[q].promoted /\ (req[q].inode = "none" => req'[q] = req[q])
        /\ (req[q].inode # "none" => req'[q].inode # "none")
  <2> SUFFICES ASSUME NEW q \in Requests \ {r}, req'[q] = Moved(req[q])
               PROVE  /\ req'[q].op = req[q].op /\ req'[q].user = req[q].user /\ req'[q].name = req[q].name
                      /\ req'[q].todo = req[q].todo /\ req'[q].pc = req[q].pc /\ req'[q].snap = req[q].snap
                      /\ req'[q].promoted = req[q].promoted /\ (req[q].inode = "none" => req'[q] = req[q])
                      /\ (req[q].inode # "none" => req'[q].inode # "none")
    OBVIOUS
  <2>1. req[q] \in Request
    BY RequestFacts
  <2>2. QED
    BY <2>1 DEF Moved, Request
<1>3. \A q \in Requests \ {r} : Proper(q)'
  <2> SUFFICES ASSUME NEW q \in Requests \ {r} PROVE Proper(q)'
    OBVIOUS
  <2>1. Proper(q)
    BY RequestFacts
  <2>2. req[q].op = "none" => req'[q] = req[q]
    BY <1>2, <2>1 DEF Proper, Idle
  <2>3. ~InSave(q) /\ req[q].op # "none" => req'[q].inode = "none"
    BY <1>2, <2>1 DEF Proper
  <2>4. redeemed \in [Users -> Nat]
    BY DEF Always, TypeOK
  <2>5. req[q].user \in Users => (redeemed[req[q].user] > 0 => redeemed'[req[q].user] > 0)
    BY <2>4
  <2>6. QED
    BY <1>2, <2>1, <2>2, <2>3, <2>5 DEF Proper, InSave, call
<1>4. \A s \in Store : Entitled(s) => Entitled(s)'
  BY StaysEntitled
<1>5. \A q \in Requests \ {r} : req'[q].snap # Torn => Entitled(req[q].snap)'
  <2> SUFFICES ASSUME NEW q \in Requests \ {r}, req'[q].snap # Torn PROVE Entitled(req[q].snap)'
    OBVIOUS
  <2>1. req[q].snap = req'[q].snap /\ req[q].snap \in Store /\ Entitled(req[q].snap)
    BY <1>2, RequestFacts DEF Always, Request
  <2>2. QED
    BY <1>4, <2>1 DEF Entitled
<1>6. \A p, q \in Requests :
        {req'[p].op, req'[q].op} \subseteq Creates /\ req'[p].user = req'[q].user => p = q
  <2>1. "none" \notin Creates
    BY DEF Creates
  <2>2. \A q \in Requests : req'[q].op \in Creates => req'[q].op = req[q].op /\ req'[q].user = req[q].user
    BY <1>2, <2>1
  <2>3. QED
    BY <2>2 DEF Always
<1>7. \A p, q \in Requests : OnEventLoop(p)' /\ OnEventLoop(q)' => p = q
  <2>1. \A q \in Requests \ {r} : OnEventLoop(q)' <=> OnEventLoop(q)
    BY <1>2 DEF OnEventLoop, At, call, InSave
  <2>2. QED
    BY <2>1 DEF Always, LoopIsFree
<1>8. IF file' = Torn THEN backend' = "filesystem" ELSE Entitled(file)'
  <2>1. CASE file' = file
    <3>1. IF file = Torn THEN backend = "filesystem" ELSE file \in Store /\ Entitled(file)
      BY DEF Always, TypeOK
    <3>2. QED
      BY <1>4, <2>1, <3>1 DEF Entitled
  <2>2. QED
    BY <2>1
<1>9. tmp' \notin {Torn, Absent} => Entitled(tmp)'
  <2>1. CASE tmp' = tmp
    <3>1. tmp \notin {Torn, Absent} => tmp \in Store /\ Entitled(tmp)
      BY DEF Always, TypeOK
    <3>2. QED
      BY <1>4, <2>1, <3>1 DEF Entitled
  <2>2. QED
    BY <2>1
<1>10. QED
  BY <1>1, <1>3, <1>5, <1>6, <1>7, <1>8, <1>9 DEF Always, StoresMove

LEMMA RequestEnds ==
  ASSUME Always, NEW r \in Requests, Finish(r), StoresMove
  PROVE  Always'
<1>1. Idle \in Request /\ Idle.op = "none" /\ Idle.snap = Torn /\ Idle.pc = "idle"
  BY DEF Idle, Request
<1>2. req' \in [Requests -> Request] /\ req'[r] = Idle /\ \A q \in Requests \ {r} : req'[q] = req[q]
  BY <1>1, RequestFacts DEF Finish
<1>3. Proper(r)' /\ ~OnEventLoop(r)'
  BY <1>1, <1>2 DEF Proper, OnEventLoop, At, Idle
<1>4. QED
  BY <1>1, <1>2, <1>3, RequestMoves

(* What is left of a request after a call.                                  *)
Rest(r) ==
  [req[r] EXCEPT !.todo = Tail(@), !.snap = Torn, !.inode = "none",
                 !.pc = IF call(r) \in {"lookup", "clear"} THEN "load" ELSE "await"]

LEMMA RestFacts ==
  ASSUME Always, NEW r \in Requests, req[r].op # "none", Len(req[r].todo) # 1
  PROVE  /\ Rest(r) \in Request
         /\ Rest(r).op = req[r].op /\ Rest(r).user = req[r].user /\ Rest(r).name = req[r].name
         /\ Rest(r).promoted = req[r].promoted /\ Rest(r).todo = Tail(req[r].todo)
         /\ Rest(r).snap = Torn /\ Rest(r).inode = "none"
         /\ Rest(r).pc = IF call(r) \in {"lookup", "clear"} THEN "load" ELSE "await"
         /\ Follows(req[r].op, call(r), Head(Rest(r).todo))
<1>1. req[r] \in Request /\ Tail(req[r].todo) \in Rests[req[r].op] /\ req[r].op \in Operation
      /\ Follows(req[r].op, call(r), Head(Tail(req[r].todo)))
  BY RequestFacts
<1>2. Tail(req[r].todo) \in Seq(Call)
  BY <1>1, Calling
<1>3. QED
  BY <1>1, <1>2 DEF Rest, Request

LEMMA RequestContinues ==
  ASSUME Always, NEW r \in Requests, req[r].op # "none", Len(req[r].todo) # 1,
         req' \in [Requests -> Request], req'[r] = Rest(r),
         \A q \in Requests \ {r} : req'[q] = req[q] \/ req'[q] = Moved(req[q]),
         StoresMove,
         call(r) = "lookup" => LoopIsFree /\ backend # "sqlite",
         call(r) = "clear" => redeemed'[req[r].user] > 0
  PROVE  Always'
<1> USE RestFacts, RequestFacts
<1>1. Proper(r)'
  <2>1. Tail(req[r].todo) \in Rests[req[r].op] /\ Follows(req[r].op, call(r), Head(Tail(req[r].todo)))
    OBVIOUS
  <2>2. call(r)' = Head(Tail(req[r].todo))
    BY DEF call
  <2>3. ~req[r].promoted
    BY <2>1 DEF Proper, Follows
  <2>4. redeemed \in [Users -> Nat]
    BY DEF Always, TypeOK
  <2>5. call(r) = "password" /\ req[r].op = "setup_password" => redeemed'[req[r].user] > 0
    <3>1. redeemed[req[r].user] <= redeemed'[req[r].user]
      BY DEF StoresMove
    <3>2. QED
      BY <2>4, <3>1 DEF Proper, StoresMove
  <2>6. call(r)' = "activate" \/ (req[r].op = "setup_password" /\ call(r)' = "password")
        => redeemed'[req[r].user] > 0
    BY <2>1, <2>2, <2>5 DEF Follows
  <2>7. backend = "sqlite" => req[r].op # "setup_password"
    BY <2>1 DEF Proper, Follows
  <2>8. /\ Rest(r).pc \notin {"idle", "open", "dump", "replace"}
        /\ Rest(r).pc = "await" => call(r)' # "clear"
    BY <2>1, <2>2 DEF Follows
  <2> HIDE RestFacts
  <2>9. /\ req'[r].op = req[r].op /\ req'[r].user = req[r].user /\ req'[r].name = req[r].name
        /\ req'[r].todo = Tail(req[r].todo) /\ req'[r].inode = "none" /\ req'[r].promoted = req[r].promoted
        /\ req'[r].pc = Rest(r).pc
    BY RestFacts
  <2>10. UNCHANGED <<backend, origin>>
    BY DEF StoresMove
  <2>11. QED
    BY <2>1, <2>2, <2>3, <2>6, <2>7, <2>8, <2>9, <2>10 DEF Proper, InSave
<1>2. OnEventLoop(r)' => LoopIsFree
  BY DEF OnEventLoop, At, call, InSave, Follows
<1>3. QED
  BY <1>1, <1>2, RequestMoves

LEMMA RequestReturns ==
  ASSUME Always, NEW r \in Requests, req[r].op # "none", Return(r), StoresMove,
         call(r) = "lookup" => LoopIsFree /\ backend # "sqlite",
         call(r) = "clear" => redeemed'[req[r].user] > 0
  PROVE  Always'
<1>1. CASE Len(req[r].todo) = 1
  BY <1>1, RequestEnds DEF Return
<1>2. CASE Len(req[r].todo) # 1
  <2>1. req' = [req EXCEPT ![r] = Rest(r)]
    BY <1>2 DEF Return, Rest
  <2>2. req' \in [Requests -> Request] /\ req'[r] = Rest(r) /\ \A q \in Requests \ {r} : req'[q] = req[q]
    BY <1>2, <2>1, RestFacts, RequestFacts
  <2>3. QED
    BY <1>2, <2>2, RequestContinues
<1>3. QED
  BY <1>1, <1>2

LEMMA StoresKept ==
  ASSUME Always, UNCHANGED <<backend, origin, expired, served, file, tmp>>, redeemed' = redeemed,
         invites' \subseteq invites, overlap' \in BOOLEAN, raced' \subseteq {"name", "promoted"}
  PROVE  StoresMove
BY DEF Always, TypeOK, StoresMove

LEMMA ArriveKeeps ==
  ASSUME Always, NEW r \in Requests, NEW op \in Operation, NEW u \in Users, NEW n \in Names, Arrive(r, op, u, n)
  PROVE  Always'
<1> DEFINE new == [op |-> op, user |-> u, name |-> n, todo |-> Calls[op], pc |-> "load",
                   snap |-> Torn, inode |-> "none", promoted |-> FALSE]
<1> USE RequestFacts
<1>1. Calls[op] \in Rests[op] /\ Calls[op] \in Seq(Call) /\ op # "none"
      /\ Head(Calls[op]) \notin {"clear", "activate"} /\ (op = "setup_password" => Head(Calls[op]) = "lookup")
  <2>1. op \in {"register", "invite_user", "setup_password", "password_reset", "delete_user", "update_user"}
    BY DEF Operation, Calls
  <2>2. Calls[op] \in Rests[op]
    BY <2>1 DEF Calls, Rests
  <2>3. /\ op = "register" => Head(Calls[op]) = "check"
        /\ op = "invite_user" => Head(Calls[op]) = "check"
        /\ op = "setup_password" => Head(Calls[op]) = "lookup"
        /\ op = "password_reset" => Head(Calls[op]) = "password"
        /\ op = "delete_user" => Head(Calls[op]) = "deactivate"
        /\ op = "update_user" => Head(Calls[op]) = "read"
    BY Tuples DEF Calls, register, invite_user, setup_password, password_reset, delete_user, update_user
  <2>4. QED
    BY <2>1, <2>2, <2>3, Calling
<1>2. new \in Request
  BY <1>1 DEF Request
<1>3. req' \in [Requests -> Request] /\ req'[r] = new /\ \A q \in Requests \ {r} : req'[q] = req[q]
  BY <1>2 DEF Arrive
<1>4. /\ origin' \in [Users -> Creates \cup {"none"}] /\ origin'[u] # "none"
      /\ (op \in Creates => origin[u] = "none" /\ origin'[u] = op)
      /\ \A v \in Users : origin[v] # "none" => origin'[v] = origin[v]
  <2>1. origin \in [Users -> Creates \cup {"none"}]
    BY DEF Always, TypeOK
  <2>2. QED
    BY <2>1 DEF Arrive, Creates
<1>5. TypeOK'
  BY <1>3, <1>4 DEF Always, TypeOK, Arrive
<1>6. \A s \in Store : Entitled(s) => Entitled(s)'
  <2>1. redeemed' = redeemed /\ redeemed \in [Users -> Nat]
    BY DEF Arrive, Always, TypeOK
  <2>2. QED
    BY <1>4, <2>1, StaysEntitled
<1>7. Proper(r)'
  BY <1>1, <1>3, <1>4 DEF Proper, InSave, call
<1>8. \A q \in Requests \ {r} : Proper(q)'
  BY <1>3, <1>4 DEF Proper, InSave, call, Arrive
<1>9. \A q \in Requests : req'[q].snap # Torn => Entitled(req[q].snap)'
  <2> SUFFICES ASSUME NEW q \in Requests, req'[q].snap # Torn PROVE Entitled(req[q].snap)'
    OBVIOUS
  <2>1. q # r /\ req'[q] = req[q]
    BY <1>3
  <2>2. req[q].snap \in Store /\ Entitled(req[q].snap)
    BY <2>1 DEF Always, Request
  <2>3. QED
    BY <1>6, <2>1, <2>2 DEF Entitled
<1>10. \A p, q \in Requests :
        {req'[p].op, req'[q].op} \subseteq Creates /\ req'[p].user = req'[q].user => p = q
  <2>1. \A q \in Requests \ {r} : req[q].op \in Creates => origin[req[q].user] # "none"
    BY DEF Proper, Creates
  <2>2. QED
    BY <1>3, <1>4, <2>1 DEF Always
<1>11. \A p, q \in Requests : OnEventLoop(p)' /\ OnEventLoop(q)' => p = q
  <2>1. \A q \in Requests : q # r => ~OnEventLoop(q)'
    BY <1>3 DEF Arrive, LoopIsFree, OnEventLoop, At, call, InSave
  <2>2. QED
    BY <2>1
<1>12. (IF file' = Torn THEN backend' = "filesystem" ELSE Entitled(file)') /\ (tmp' \notin {Torn, Absent} => Entitled(tmp)')
  <2>1. file' = file /\ tmp' = tmp
    BY DEF Arrive
  <2>2. /\ backend' = backend /\ IF file = Torn THEN backend = "filesystem" ELSE file \in Store /\ Entitled(file)
        /\ tmp \notin {Torn, Absent} => tmp \in Store /\ Entitled(tmp)
    BY DEF Always, TypeOK, Arrive
  <2>3. QED
    BY <1>6, <2>1, <2>2 DEF Entitled
<1>13. /\ \A v \in Users : v \in invites' \/ redeemed'[v] > 0 => origin'[v] # "none"
       /\ backend' = "sqlite" => \A v \in Users : redeemed'[v] = 0
  BY <1>4 DEF Always, Arrive
<1>14. QED
  BY <1>5, <1>7, <1>8, <1>9, <1>10, <1>11, <1>12, <1>13 DEF Always

LEMMA ReadsKeep ==
  ASSUME Always, NEW r \in Requests,
         Resume(r) \/ get_user_by_username(r) \/ get_user(r) \/ validate_invite_token(r)
           \/ list_users(r) \/ DumpFails(r)
  PROVE  Always'
<1> USE RequestFacts, StoresKept
<1>0. invites \subseteq Users /\ overlap \in BOOLEAN /\ raced \subseteq {"name", "promoted"}
      /\ backend \in {"filesystem", "sqlite"}
  BY DEF Always, TypeOK
<1>1. CASE Resume(r)
  <2>1. req[r] \in Request /\ req[r].pc = "await" /\ req[r].op # "none"
    BY <1>1 DEF Resume, At
  <2>2. [req[r] EXCEPT !.pc = "load"] \in Request
    BY <2>1 DEF Request
  <2>3. req' \in [Requests -> Request] /\ req'[r] = [req[r] EXCEPT !.pc = "load"]
        /\ \A q \in Requests \ {r} : req'[q] = req[q]
    BY <1>1, <2>2 DEF Resume
  <2>4. /\ req'[r].op = req[r].op /\ req'[r].user = req[r].user /\ req'[r].name = req[r].name
        /\ req'[r].todo = req[r].todo /\ req'[r].pc = "load" /\ req'[r].snap = req[r].snap
        /\ req'[r].promoted = req[r].promoted /\ req'[r].inode = req[r].inode
    BY <2>1, <2>3 DEF Request
  <2>5. redeemed' = redeemed /\ origin' = origin /\ backend' = backend /\ StoresMove /\ LoopIsFree
    BY <1>0, <1>1 DEF Resume
  <2>6. Proper(r)'
    BY <2>1, <2>4, <2>5 DEF Proper, InSave, call
  <2>7. req'[r].snap # Torn => Entitled(req[r].snap)'
    BY <2>4, <2>5 DEF Always, Entitled
  <2>8. QED
    BY <2>3, <2>4, <2>5, <2>6, <2>7, RequestMoves
<1>2. CASE get_user_by_username(r)
  <2>1. StoresMove /\ (Finish(r) \/ Return(r)) /\ call(r) = "check" /\ req[r].op # "none"
    BY <1>0, <1>2, ZenonT(30) DEF get_user_by_username, At
  <2>2. QED
    BY <2>1, RequestEnds, RequestReturns
<1>3. CASE get_user(r)
  <2>1. StoresMove /\ (Finish(r) \/ Return(r)) /\ call(r) = "read" /\ req[r].op # "none"
    BY <1>0, <1>3 DEF get_user, At
  <2>2. QED
    BY <2>1, RequestEnds, RequestReturns
<1>4. CASE validate_invite_token(r)
  <2>1. /\ StoresMove /\ (Finish(r) \/ (backend # "sqlite" /\ Return(r)))
        /\ call(r) = "lookup" /\ req[r].op # "none" /\ LoopIsFree
    BY <1>0, <1>4 DEF validate_invite_token, At
  <2>2. QED
    BY <2>1, RequestEnds, RequestReturns
<1>5. CASE list_users(r)
  <2>1. StoresMove /\ call(r) = "list" /\ req[r].op # "none" /\ At(r, "load") /\ redeemed' = redeemed
    BY <1>0, <1>5 DEF list_users, At
  <2>2. CASE Finish(r)
    BY <2>1, <2>2, RequestEnds
  <2>3. CASE req' = [req EXCEPT ![r].todo = Tail(@), ![r].pc = "await", ![r].promoted = Registered(file) = {}]
    <3> DEFINE new == [req[r] EXCEPT !.todo = Tail(@), !.pc = "await", !.promoted = Registered(file) = {}]
    <3>1. /\ req[r] \in Request /\ req[r].op = "register" /\ Len(req[r].todo) # 1
          /\ Tail(req[r].todo) \in Rests[req[r].op] /\ Head(Tail(req[r].todo)) = "create"
      <4>1. Len(req[r].todo) # 1
        BY <2>1, Tuples DEF Proper, Rests, Operation, Calls, call, register, invite_user,
             setup_password, password_reset, delete_user, update_user
      <4>2. QED
        BY <2>1, <4>1 DEF Follows, Within
    <3>2. Tail(req[r].todo) \in Seq(Call)
      BY <2>1, <3>1, Calling
    <3>3. new \in Request
      BY <3>1, <3>2, ZenonT(30) DEF Request
    <3>4. req' \in [Requests -> Request] /\ req'[r] = new /\ \A q \in Requests \ {r} : req'[q] = req[q]
      BY <2>3, <3>3
    <3>5. /\ new.op = req[r].op /\ new.user = req[r].user /\ new.name = req[r].name /\ new.pc = "await"
          /\ new.todo = Tail(req[r].todo) /\ new.snap = req[r].snap /\ new.inode = req[r].inode
      BY <3>1 DEF Request
    <3> HIDE DEF new
    <3>6. Proper(r)'
      BY <2>1, <3>1, <3>4, <3>5 DEF Proper, InSave, call, At, StoresMove
    <3>7. req'[r].snap # Torn => Entitled(req[r].snap)'
      BY <2>1, <3>4, <3>5 DEF Always, Entitled, StoresMove
    <3>8. ~OnEventLoop(r)'
      BY <3>4, <3>5 DEF OnEventLoop, At
    <3>9. QED
      BY <2>1, <3>4, <3>5, <3>6, <3>7, <3>8, RequestMoves
  <2>4. QED
    BY <1>5, <2>2, <2>3 DEF list_users
<1>6. CASE DumpFails(r)
  <2>1. StoresMove /\ Finish(r)
    BY <1>0, <1>6 DEF DumpFails
  <2>2. QED
    BY <2>1, RequestEnds
<1>7. QED
  BY <1>1, <1>2, <1>3, <1>4, <1>5, <1>6

LEMMA CallsAreCalls == ASSUME Always, NEW r \in Requests PROVE req[r].op # "none" => call(r) \in Call
BY RequestFacts DEF Within, Call

(* What a call makes of a store in which everybody is entitled.             *)
LEMMA ChangeIsEntitled ==
  ASSUME Always, NEW r \in Requests, req[r].op # "none", call(r) \notin Reads, NEW s \in Store, Entitled(s),
         s[req[r].user] # NoUser \/ call(r) = "create"
  PROVE  /\ [s EXCEPT ![req[r].user] = Changed(r, @)] \in Store
         /\ Entitled([s EXCEPT ![req[r].user] = Changed(r, @)])
         /\ Changed(r, s[req[r].user]) \in User
<1> DEFINE u == req[r].user
           new == Changed(r, s[u])
<1> USE RequestFacts
<1>1. /\ req[r] \in Request /\ u \in Users /\ req[r].name \in Names /\ req[r].promoted \in BOOLEAN
      /\ origin[u] # "none" /\ (req[r].op \in Creates => origin[u] = req[r].op)
      /\ (call(r) = "activate" => redeemed[u] > 0) /\ Within(req[r].op, call(r))
  BY DEF Proper, Request
<1>2. s[u] # NoUser => s[u] \in User /\ (s[u].active => origin[u] = "register" \/ redeemed[u] > 0)
  BY <1>1 DEF Store, Entitled, Registered
<1>3. new \in User /\ (new.active => origin[u] = "register" \/ redeemed[u] > 0)
  <2>1. CASE call(r) = "create"
    <3>1. new = create_user(r)
      BY <2>1 DEF Changed
    <3>2. req[r].op = "register" => origin[u] = "register"
      BY <1>1 DEF Creates
    <3>3. CASE req[r].op = "register"
      BY <1>1, <3>1, <3>2, <3>3 DEF create_user, User
    <3>4. CASE req[r].op # "register"
      <4>1. new = [name |-> req[r].name, password |-> FALSE, active |-> FALSE, invite_token |-> FALSE,
                   promoted |-> req[r].promoted]
        BY <3>1, <3>4 DEF create_user
      <4>2. QED
        BY <1>1, <4>1 DEF User
    <3>5. QED
      BY <3>3, <3>4
  <2>2. CASE call(r) = "activate"
    <3>1. new = activate_user(s[u])
      BY <2>2 DEF Changed
    <3>2. QED
      BY <1>1, <1>2, <2>2, <3>1 DEF activate_user, User
  <2>3. CASE call(r) \notin {"create", "activate"}
    <3>1. s[u] \in User /\ (s[u].active => origin[u] = "register" \/ redeemed[u] > 0)
      BY <1>2, <2>3
    <3>2. call(r) \in {"token", "clear", "password", "deactivate", "role", "touch"}
      BY <1>1, <2>3 DEF Within, Reads
    <3>3. new = CASE call(r) = "token" -> set_user_invite_token(s[u])
                  [] call(r) = "clear" -> clear_user_invite_token(s[u])
                  [] call(r) = "password" -> update_user_password(s[u])
                  [] call(r) = "deactivate" -> deactivate_user(s[u])
                  [] OTHER -> s[u]
      BY <3>2 DEF Changed
    <3>4. QED
      BY <3>1, <3>2, <3>3 DEF User, set_user_invite_token, clear_user_invite_token, update_user_password,
                              deactivate_user
  <2>4. QED
    BY <2>1, <2>2, <2>3
<1> HIDE DEF new
<1>4. QED
  BY <1>1, <1>3 DEF Store, Entitled, Registered, new

LEMMA LoadKeeps ==
  ASSUME AccountsAssumption, Always, NEW r \in Requests, _load_users(r)
  PROVE  Always'
<1> DEFINE u == req[r].user
<1> USE RequestFacts
<1>1. /\ req[r] \in Request /\ u \in Users /\ req[r].op # "none" /\ call(r) \notin Reads
      /\ At(r, "load") /\ backend = "filesystem"
  BY DEF _load_users, At
<1>2. /\ invites' \subseteq Users /\ overlap' \in BOOLEAN /\ redeemed \in [Users -> Nat]
      /\ UNCHANGED <<backend, file, tmp, expired, origin, served, raced>>
      /\ file # Torn => file \in Store /\ Entitled(file)
      /\ raced \subseteq {"name", "promoted"}
  BY <1>1 DEF _load_users, Always, TypeOK
<1>3. Count(r) => redeemed' \in [Users -> Nat] /\ (call(r) = "clear" => redeemed'[u] > 0)
                      /\ \A v \in Users : redeemed[v] <= redeemed'[v]
  BY <1>1, <1>2 DEF Count
<1>4. redeemed' = redeemed \/ Count(r)
  BY DEF _load_users
<1>5. StoresMove
  <2>0. ASSUME NEW v \in Users, v \in invites' \/ redeemed'[v] > 0 PROVE origin[v] # "none"
    <3>1. v = u \/ (redeemed'[v] = redeemed[v] /\ (v \in invites' => v \in invites))
      BY <1>1, <1>2, <1>4 DEF Count, _load_users
    <3>2. QED
      BY <1>1, <2>0, <3>1 DEF Always, Proper
  <2>1. file \in Store \cup {Torn} /\ tmp \in Store \cup {Torn, Absent} /\ \A v \in Users : redeemed[v] <= redeemed[v]
    BY <1>2 DEF Always, TypeOK
  <2>2. QED
    BY <1>1, <1>2, <1>3, <1>4, <2>0, <2>1 DEF StoresMove
<1>6. CASE Finish(r)
  BY <1>5, <1>6, RequestEnds
<1>7. CASE Return(r) /\ Count(r)
  BY <1>1, <1>3, <1>5, <1>7, RequestReturns DEF Reads
<1>8. CASE /\ req' = [req EXCEPT ![r].snap = [file EXCEPT ![u] = Changed(r, @)], ![r].pc = "open"]
           /\ file # Torn /\ (file[u] # NoUser \/ call(r) = "create") /\ redeemed' = redeemed
  <2> DEFINE copy == [file EXCEPT ![u] = Changed(r, @)]
             new == [req[r] EXCEPT !.snap = copy, !.pc = "open"]
  <2>1. copy \in Store /\ Entitled(copy)
    BY <1>1, <1>2, <1>8, ChangeIsEntitled
  <2>2. new \in Request /\ new.op = req[r].op /\ new.user = u /\ new.name = req[r].name /\ new.todo = req[r].todo
        /\ new.pc = "open" /\ new.snap = copy /\ new.promoted = req[r].promoted
    BY <1>1, <2>1 DEF Request
  <2>3. req' \in [Requests -> Request] /\ req'[r] = new /\ \A q \in Requests \ {r} : req'[q] = req[q]
    BY <1>8, <2>2
  <2> HIDE DEF new, copy
  <2>4. Torn \notin Store
    BY DEF AccountsAssumption
  <2>5. Proper(r)'
    BY <1>1, <1>2, <1>8, <2>1, <2>2, <2>3, <2>4, ZenonT(30) DEF Proper, InSave, call
  <2>6. Entitled(req[r].snap)'
    <3>1. req'[r].snap = copy
      BY <2>2, <2>3
    <3>2. \A c \in Store : Entitled(c) => Entitled(c)'
      BY <1>2, <1>8, StaysEntitled
    <3>3. QED
      BY <2>1, <3>1, <3>2 DEF Entitled
  <2>7. OnEventLoop(r)' => OnEventLoop(r) \/ LoopIsFree
    BY <1>1, <2>2, <2>3 DEF OnEventLoop, At, call, InSave, _load_users
  <2>8. QED
    BY <1>5, <2>2, <2>3, <2>5, <2>6, <2>7, RequestMoves
<1>9. QED
  BY <1>6, <1>7, <1>8 DEF _load_users

LEMMA WritesKeep ==
  ASSUME Always, NEW r \in Requests, OpenTmp(r) \/ Dump(r)
  PROVE  Always'
<1> USE RequestFacts
<1>1. /\ req[r] \in Request /\ InSave(r) /\ req[r].op # "none" /\ req[r].snap \in Store
      /\ req[r].snap # Torn /\ Entitled(req[r].snap) /\ backend = "filesystem"
  <2>1. InSave(r) /\ req[r].op # "none"
    BY DEF OpenTmp, Dump, At, InSave
  <2>2. QED
    BY <2>1 DEF Proper, Always, Request
<1>2. /\ invites \subseteq Users /\ overlap \in BOOLEAN /\ redeemed \in [Users -> Nat] /\ raced \subseteq {"name", "promoted"}
      /\ file \in Store \cup {Torn} /\ tmp \in Store \cup {Torn, Absent}
  BY DEF Always, TypeOK
<1>3. UNCHANGED <<backend, invites, expired, origin, served, redeemed, overlap, raced>>
  BY DEF OpenTmp, Dump
<1>4. \A c \in Store : Entitled(c) => Entitled(c)'
  BY <1>2, <1>3, StaysEntitled
<1>5. PICK inode \in {"tmp", "file", "gone"}, pc \in {"dump", "replace"} :
        req' = [req EXCEPT ![r] = [req[r] EXCEPT !.pc = pc, !.inode = inode]]
  <2>1. CASE OpenTmp(r)
    BY <2>1 DEF OpenTmp
  <2>2. CASE Dump(r)
    <3>1. req[r] = [req[r] EXCEPT !.inode = req[r].inode] /\ req[r].inode \in {"tmp", "file", "gone"}
      BY <1>1, <2>2 DEF Request, Proper, Dump, At
    <3>2. req' = [req EXCEPT ![r] = [req[r] EXCEPT !.pc = "replace"]]
      BY <2>2 DEF Dump
    <3>3. [req[r] EXCEPT !.pc = "replace"] = [req[r] EXCEPT !.pc = "replace", !.inode = req[r].inode]
      BY <1>1 DEF Request
    <3>4. QED
      BY <3>1, <3>2, <3>3
  <2>3. QED
    BY <2>1, <2>2
<1> DEFINE new == [req[r] EXCEPT !.pc = pc, !.inode = inode]
<1>6. /\ new \in Request /\ new.op = req[r].op /\ new.user = req[r].user /\ new.name = req[r].name
      /\ new.todo = req[r].todo /\ new.pc = pc /\ new.inode = inode /\ new.snap = req[r].snap /\ new.promoted = req[r].promoted
  BY <1>1 DEF Request
<1>7. req' \in [Requests -> Request] /\ req'[r] = new /\ \A q \in Requests \ {r} : req'[q] = req[q]
  BY <1>5, <1>6
<1> HIDE DEF new
<1>8. StoresMove
  <2>1. file' \in {file, Torn, req[r].snap} /\ tmp' \in {tmp, Torn, req[r].snap}
    <3>1. CASE OpenTmp(r)
      BY <3>1 DEF OpenTmp
    <3>2. CASE Dump(r)
      <4>1. req[r].inode \in {"tmp", "file", "gone"}
        BY <1>1, <3>2 DEF Request, Proper, Dump, At
      <4>2. QED
        BY <3>2, <4>1 DEF Dump
    <3>3. QED
      BY <3>1, <3>2
  <2>2. Entitled(req[r].snap)'
    BY <1>1, <1>4, <1>6, <1>7 DEF Entitled
  <2>3. file' = req[r].snap => Entitled(file)'
    BY <1>1, <1>4 DEF Entitled
  <2>4. tmp' = req[r].snap => Entitled(tmp)'
    BY <1>1, <1>4 DEF Entitled
  <2>5. \A v \in Users : redeemed[v] <= redeemed'[v]
    BY <1>2, <1>3
  <2>6. QED
    BY <1>1, <1>2, <1>3, <2>1, <2>3, <2>4, <2>5 DEF StoresMove, Always
<1>9. Proper(r)'
  BY <1>1, <1>3, <1>6, <1>7 DEF Proper, InSave, call
<1>10. Entitled(req[r].snap)'
  BY <1>1, <1>4, <1>6, <1>7 DEF Entitled
<1>11. OnEventLoop(r)' => OnEventLoop(r)
  BY <1>1, <1>6, <1>7 DEF OnEventLoop, At, call, InSave
<1>12. QED
  BY <1>6, <1>7, <1>8, <1>9, <1>10, <1>11, RequestMoves

LEMMA ReplaceKeeps ==
  ASSUME Always, NEW r \in Requests, Replace(r)
  PROVE  Always'
<1> USE RequestFacts
<1>1. /\ req[r] \in Request /\ req[r].op # "none" /\ req[r].user \in Users /\ call(r) \notin Reads
      /\ backend = "filesystem" /\ req \in [Requests -> Request]
  BY DEF Replace, At, Proper, InSave
<1>2. /\ invites \subseteq Users /\ overlap \in BOOLEAN /\ redeemed \in [Users -> Nat] /\ raced \subseteq {"name", "promoted"}
      /\ file \in Store \cup {Torn} /\ tmp \in Store \cup {Torn, Absent}
  BY DEF Always, TypeOK
<1>3. UNCHANGED <<backend, invites, expired, origin, served, overlap, raced>>
  BY DEF Replace
<1>4. CASE tmp = Absent
  <2>1. Finish(r) /\ UNCHANGED <<backend, file, tmp, redeemed>>
    BY <1>4 DEF Replace
  <2>2. StoresMove
    BY <1>2, <1>3, <2>1, StoresKept
  <2>3. QED
    BY <2>1, <2>2, RequestEnds
<1>5. CASE tmp # Absent
  <2>1. file' = tmp /\ tmp' = Absent /\ Count(r)
    BY <1>5 DEF Replace
  <2>2. redeemed' \in [Users -> Nat] /\ (call(r) = "clear" => redeemed'[req[r].user] > 0)
        /\ \A v \in Users : redeemed[v] <= redeemed'[v]
    BY <1>1, <1>2, <2>1 DEF Count
  <2>3. StoresMove
    <3>0. ASSUME NEW v \in Users, v \in invites' \/ redeemed'[v] > 0 PROVE origin[v] # "none"
      <4>1. v = req[r].user \/ redeemed'[v] = redeemed[v]
        BY <1>1, <1>2, <2>1 DEF Count
      <4>2. QED
        BY <1>1, <1>3, <3>0, <4>1 DEF Always, Proper
    <3>1. tmp # Torn => Entitled(tmp) /\ tmp \in Store
      BY <1>2, <1>5 DEF Always
    <3>2. \A c \in Store : Entitled(c) => Entitled(c)'
      BY <1>3, <2>2, StaysEntitled
    <3>3. file' # Torn => Entitled(file)'
      BY <2>1, <3>1, <3>2 DEF Entitled
    <3>4. QED
      BY <1>1, <1>2, <1>3, <1>5, <2>1, <2>2, <3>0, <3>1, <3>3 DEF StoresMove
  <2> DEFINE next == IF Len(req[r].todo) = 1 THEN Idle
                     ELSE [req[r] EXCEPT !.todo = Tail(@), !.snap = Torn, !.inode = "none",
                                         !.pc = IF call(r) = "clear" THEN "load" ELSE "await"]
  <2>4. req' = [q \in Requests |-> IF q = r THEN next ELSE Moved(req[q])]
    BY <1>5 DEF Replace
  <2>5. \A q \in Requests : Moved(req[q]) \in Request
    BY <1>1 DEF Moved, Request
  <2>6. next = IF Len(req[r].todo) = 1 THEN Idle ELSE Rest(r)
    <3>1. call(r) # "lookup"
      BY <1>1 DEF Reads
    <3>2. QED
      BY <3>1 DEF Rest
  <2>7. Idle \in Request /\ Idle.op = "none" /\ Idle.snap = Torn /\ Idle.pc = "idle"
    BY DEF Idle, Request
  <2>8. next \in Request
    BY <1>1, <2>6, <2>7, RestFacts
  <2> HIDE DEF next
  <2>9. /\ req' \in [Requests -> Request] /\ req'[r] = next
        /\ \A q \in Requests \ {r} : req'[q] = req[q] \/ req'[q] = Moved(req[q])
    BY <2>4, <2>5, <2>8
  <2>10. CASE Len(req[r].todo) = 1
    <3>1. req'[r] = Idle
      BY <2>6, <2>9, <2>10
    <3>2. Proper(r)' /\ ~OnEventLoop(r)' /\ req'[r].op = "none" /\ req'[r].snap = Torn
      BY <2>7, <3>1 DEF Proper, OnEventLoop, At, Idle
    <3>3. QED
      BY <2>3, <2>9, <3>2, RequestMoves
  <2>11. CASE Len(req[r].todo) # 1
    BY <1>1, <2>2, <2>3, <2>6, <2>9, <2>11, RequestContinues DEF Reads
  <2>12. QED
    BY <2>10, <2>11
<1>6. QED
  BY <1>4, <1>5

LEMMA RowsKeep ==
  ASSUME AccountsAssumption, Always, NEW r \in Requests, InsertRow(r) \/ UpdateRow(r)
  PROVE  Always'
<1> USE RequestFacts
<1>1. /\ req[r].op # "none" /\ req[r].user \in Users /\ call(r) \notin Reads /\ call(r) # "clear"
      /\ backend = "sqlite" /\ (call(r) = "create" <=> InsertRow(r))
  <2>1. req[r].op # "none" /\ backend = "sqlite" /\ call(r) \notin Reads
        /\ (call(r) = "create" <=> InsertRow(r))
    BY DEF InsertRow, UpdateRow, At, Reads
  <2>2. call(r) # "clear"
    BY <2>1 DEF Proper, Within
  <2>3. QED
    BY <2>1, <2>2
<1>2. /\ UNCHANGED <<backend, tmp, invites, expired, origin, served, redeemed, overlap, raced>>
      /\ Finish(r) \/ Return(r)
      /\ file' = file \/ (file' = [file EXCEPT ![req[r].user] = Changed(r, @)]
                            /\ (file[req[r].user] # NoUser \/ call(r) = "create"))
  BY DEF InsertRow, UpdateRow, Changed
<1>3. /\ invites \subseteq Users /\ overlap \in BOOLEAN /\ redeemed \in [Users -> Nat] /\ raced \subseteq {"name", "promoted"}
      /\ file \in Store \cup {Torn} /\ tmp \in Store \cup {Torn, Absent}
  BY DEF Always, TypeOK
<1>4. CASE file' = file
  <2>1. StoresMove
    BY <1>2, <1>3, <1>4, StoresKept
  <2>2. QED
    BY <1>1, <1>2, <2>1, RequestEnds, RequestReturns DEF Reads
<1>5. CASE file' # file
  <2>1. Entitled(file) /\ file \in Store
    BY <1>1, <1>3 DEF Always
  <2>2. file' \in Store /\ Entitled(file')
    BY <1>1, <1>2, <1>5, <2>1, ChangeIsEntitled
  <2>3. \A c \in Store : Entitled(c) => Entitled(c)'
    BY <1>2, <1>3, StaysEntitled
  <2>4. Entitled(file)'
    BY <2>2, <2>3 DEF Entitled
  <2>5. StoresMove
    BY <1>2, <1>3, <2>2, <2>4 DEF StoresMove, AccountsAssumption, Always
  <2>6. QED
    BY <1>1, <1>2, <2>5, RequestEnds, RequestReturns DEF Reads
<1>6. QED
  BY <1>4, <1>5

LEMMA AlwaysStays ==
  ASSUME AccountsAssumption, Always, Next \/ Restart \/ UNCHANGED vars
  PROVE  Always'
<1>1. ASSUME NEW u \in Users, Expire(u) PROVE Always'
  BY <1>1 DEF Always, Expire, TypeOK, Proper, Entitled, InSave, OnEventLoop, call, At
<1>2. CASE UNCHANGED vars
  BY <1>2 DEF vars, Always, TypeOK, Proper, Entitled, InSave, OnEventLoop, call, At
<1>3. CASE Restart
  <2>1. Idle \in Request /\ Idle.op = "none" /\ Idle.snap = Torn /\ Idle.pc = "idle"
        /\ "none" \notin Creates
    BY DEF Idle, Request, Creates
  <2>2. \A r \in Requests : req'[r] = Idle
    BY <1>3 DEF Restart
  <2>3. TypeOK'
    BY <1>3, <2>1 DEF Always, Restart, TypeOK
  <2>4. \A r \in Requests : Proper(r)' /\ ~OnEventLoop(r)'
    BY <2>1, <2>2 DEF Proper, Idle, OnEventLoop, At
  <2>5. (IF file' = Torn THEN backend' = "filesystem" ELSE Entitled(file)') /\ (tmp' \notin {Torn, Absent} => Entitled(tmp)')
    BY <1>3 DEF Restart, Always, Entitled
  <2>6. /\ \A u \in Users : u \in invites' \/ redeemed'[u] > 0 => origin'[u] # "none"
        /\ backend' = "sqlite" => \A u \in Users : redeemed'[u] = 0
    BY <1>3 DEF Restart, Always
  <2>7. QED
    BY <2>1, <2>2, <2>3, <2>4, <2>5, <2>6 DEF Always
<1>4. CASE Next
  BY <1>1, <1>4, ArriveKeeps, ReadsKeep, LoadKeeps, WritesKeep, ReplaceKeeps, RowsKeep DEF Next, Step
<1>5. QED
  BY <1>2, <1>3, <1>4

LEMMA SaveFacts ==
  ASSUME Always, SavesAreApart, NEW r \in Requests
  PROVE  /\ InSave(r) => req[r].op # "none" /\ backend = "filesystem" /\ call(r) \notin Reads
         /\ ~InSave(r) => req[r].inode = "none"
         /\ req[r] \in Request
BY RequestFacts DEF Proper, InSave, At, Idle

LEMMA SavingStays ==
  ASSUME NEW q \in Requests, Saving(q), UNCHANGED <<file, tmp>>,
         req'[q].op = req[q].op, req'[q].user = req[q].user, req'[q].name = req[q].name, req'[q].todo = req[q].todo,
         req'[q].promoted = req[q].promoted, req'[q].snap = req[q].snap, req'[q].inode = req[q].inode, req'[q].pc = req[q].pc
  PROVE  Saving(q)'
<1>1. call(q)' = call(q)
  BY DEF call
<1>2. ASSUME NEW rec PROVE Changed(q, rec)' = Changed(q, rec)
  BY <1>1 DEF Changed, create_user, set_user_invite_token, clear_user_invite_token,
              update_user_password, activate_user, deactivate_user
<1>3. Changed(q, file[req[q].user])' = Changed(q, file[req[q].user])
  BY <1>2
<1>4. QED
  BY <1>1, <1>3 DEF Saving

(* A request ends without a change of the store.                            *)
LEMMA ApartEnds ==
  ASSUME Always, Apart, NEW r \in Requests, req' = [req EXCEPT ![r] = Idle],
         UNCHANGED <<backend, file, tmp, redeemed>>, raced \subseteq raced',
         \/ invites' \subseteq invites
         \/ req[r].op # "none" /\ call(r) = "token" /\ invites' \subseteq invites \cup {req[r].user}
  PROVE  Apart'
<1>1. /\ req'[r].op = "none" /\ ~InSave(r)' /\ "none" \notin Creates /\ ~req'[r].promoted
      /\ \A q \in Requests \ {r} : req'[q] = req[q]
  BY RequestFacts DEF Idle, InSave, Creates
<1>2. req[r].op # "none" /\ call(r) = "token" => req[r].op = "invite_user" /\ req[r].op \in Creates
  BY RequestFacts DEF Within, Creates
<1>3. SavesAreApart'
  BY <1>1, SavingStays DEF Apart, SavesAreApart, InSave
<1>4. FileInv'
  BY <1>1 DEF Apart, FileInv, call
<1>5. NamesInv'
  BY <1>1 DEF Apart, NamesInv, CreatingOne, call, Registered, Taken
<1>6. PromotedInv'
  BY <1>1 DEF Apart, PromotedInv, Registered
<1>7. RedeemInv'
  <2> SUFFICES ASSUME backend = "filesystem" PROVE RedeemInv'
    BY DEF RedeemInv
  <2>1. \A u \in Users : Live(u)' => Live(u) \/ (u = req[r].user /\ req[r].op # "none" /\ call(r) = "token")
    BY DEF Live
  <2>2. \A q \in Requests : req'[q].op # "none" => q # r /\ req'[q] = req[q] /\ call(q)' = call(q)
    BY <1>1 DEF call
  <2>3. \A q \in Requests : req[q].op \in Creates => req[q].op # "none" /\ req[q].user \in Users
    BY <1>1, RequestFacts
  <2>4. \A q \in Requests : req'[q].op \in Creates => (call(q)' = "token" /\ InSave(q)') \/ ~Live(req[q].user)'
    BY <1>1, <1>2, <2>1, <2>2, <2>3 DEF Apart, RedeemInv, Always, InSave
  <2>5. \A q \in Requests : req'[q].op # "none" /\ call(q)' = "clear" =>
          redeemed'[req'[q].user] = 0 /\ req'[q].user \notin invites'
    <3> SUFFICES ASSUME NEW q \in Requests, req[q].op # "none", call(q) = "clear", q # r
                 PROVE  redeemed[req[q].user] = 0 /\ req[q].user \notin invites'
      BY <2>2
    <3>1. req[q].op = "setup_password"
      BY RequestFacts DEF Within
    <3>2. QED
      BY <1>2, <3>1 DEF Apart, RedeemInv
  <2>6. \A u \in Users : redeemed'[u] > 0 =>
          redeemed'[u] = 1 /\ ~Live(u)' /\ \A q \in Requests : req'[q].op \in Creates => req'[q].user # u
    BY <1>1, <1>2, <2>1, <2>2, <2>3 DEF Apart, RedeemInv
  <2>7. QED
    BY <1>1, <2>2, <2>4, <2>5, <2>6 DEF Apart, RedeemInv
<1>8. QED
  BY <1>3, <1>4, <1>5, <1>6, <1>7 DEF Apart

(* A request arrives, or goes on, with the store left alone.                *)
LEMMA ApartGoesOn ==
  ASSUME Always, Always', Apart, NEW r \in Requests, NEW new \in Request, req' = [req EXCEPT ![r] = new],
         UNCHANGED <<backend, file, tmp, redeemed>>, raced \subseteq raced', invites' \subseteq invites,
         new.op # "none", new.pc \in {"load", "await"}, ~InSave(r),
         \/ req[r].op = new.op /\ req[r].user = new.user /\ req[r].name = new.name /\ req[r].promoted = new.promoted
            /\ call(r)' = call(r)
         \/ req[r].op = new.op /\ req[r].user = new.user /\ req[r].name = new.name
            /\ call(r) \in Reads /\ Follows(new.op, call(r), call(r)')
            /\ (call(r) # "list" => new.promoted = req[r].promoted)
         \/ req[r].op = "none" /\ ~new.promoted /\ call(r)' \notin {"list", "create", "token", "clear", "activate"}
            /\ (new.op \in Creates => origin[new.user] = "none")
            /\ (new.op = "setup_password" => call(r)' = "lookup"),
         req[r].op # "none" /\ call(r) = "check" /\ call(r)' # "check" =>
           /\ ~Taken(file, new.name)
           /\ "name" \notin raced' => \A q \in Requests \ {r} : CreatingOne(q) => req[q].name # new.name,
         new.promoted /\ ~req[r].promoted =>
           Registered(file) = {} /\ ("promoted" \notin raced' => \A q \in Requests \ {r} : ~req[q].promoted),
         req[r].op # "none" /\ call(r) = "lookup" /\ call(r)' = "clear" =>
           backend = "filesystem" /\ Live(new.user) /\ new.user \notin invites' /\ LoopIsFree
  PROVE  Apart'
<1>1. /\ req'[r] = new /\ ~InSave(r)' /\ "none" \notin Creates
      /\ \A q \in Requests \ {r} : req'[q] = req[q] /\ call(q)' = call(q) /\ InSave(q)' = InSave(q)
  BY RequestFacts DEF Idle, InSave, Creates, call
<1>2. new.user \in Users /\ new.name \in Names /\ Within(new.op, call(r)')
  <2>1. Proper(r)' /\ new.op \in Operation /\ new.todo \in Rests[new.op]
    BY <1>1 DEF Always, Proper, Request
  <2>2. QED
    BY <1>1, <2>1, Calling DEF Proper, call
<1>3. SavesAreApart'
  BY <1>1, SavingStays DEF Apart, SavesAreApart
<1>4. FileInv'
  <2>1. new.op \in Creates /\ call(r)' # "token" => file[new.user] = NoUser
    <3>1. req[r].op = "none" => file[new.user] = NoUser \/ new.op \notin Creates
      BY <1>2 DEF Always, Entitled, Registered, Apart, SavesAreApart
    <3>2. req[r].op # "none" /\ new.op \in Creates /\ call(r)' # "token" => call(r) # "token"
      BY DEF Reads
    <3>3. QED
      BY <3>1, <3>2 DEF Apart, FileInv
  <2>2. call(r)' = "activate" => file[new.user] = NoUser \/ file[new.user].password
    BY DEF Apart, FileInv, Follows, Reads
  <2>3. QED
    BY <1>1, <2>1, <2>2 DEF Apart, FileInv
<1>5. NamesInv'
  <2>1. CreatingOne(r)' => CreatingOne(r) \/ (req[r].op # "none" /\ call(r) = "check")
    BY <1>1, <1>2 DEF CreatingOne, Follows
  <2>2. \A q \in Requests \ {r} : CreatingOne(q)' = CreatingOne(q)
    BY <1>1 DEF CreatingOne
  <2>3. CreatingOne(r) => req[r].name = new.name /\ req[r].op # "none"
    BY DEF CreatingOne
  <2>4. CreatingOne(r)' => call(r)' # "check"
    BY DEF CreatingOne
  <2>5. \A n \in Names : Taken(file, n)' = Taken(file, n)
    BY DEF Taken, Registered
  <2>6. \A q \in Requests : CreatingOne(q) => req[q].name \in Names
    BY RequestFacts DEF CreatingOne
  <2>7. "name" \notin raced' => \A q \in Requests : CreatingOne(q)' => ~Taken(file, req[q].name)'
    BY <1>1, <1>2, <2>1, <2>2, <2>3, <2>4, <2>5, <2>6 DEF Apart, NamesInv
  <2>8. "name" \notin raced' =>
          \A p, q \in Requests : CreatingOne(p)' /\ CreatingOne(q)' /\ req'[p].name = req'[q].name => p = q
    BY <1>1, <2>1, <2>2, <2>3, <2>4 DEF Apart, NamesInv
  <2>9. QED
    BY <2>7, <2>8 DEF Apart, NamesInv, Registered
<1>6. PromotedInv'
  BY <1>1 DEF Apart, PromotedInv, Registered
<1>7. RedeemInv'
  <2> SUFFICES ASSUME backend = "filesystem" PROVE RedeemInv'
    BY DEF RedeemInv
  <2>1. \A u \in Users : Live(u)' => Live(u)
    BY DEF Live
  <2>2. \A q \in Requests : req[q].op \in Creates => req[q].op # "none" /\ req[q].user \in Users
    BY <1>1, RequestFacts
  <2>3. new.op \in Creates => ~Live(new.user)
    <3>1. CASE req[r].op = "none"
      <4>1. file[new.user] # NoUser => origin[new.user] # "none"
        BY <1>2 DEF Always, Entitled, Registered, Apart, SavesAreApart
      <4>2. QED
        BY <1>2, <3>1, <4>1 DEF Always, Live
    <3>2. CASE req[r].op # "none"
      BY <3>2 DEF Apart, RedeemInv
    <3>3. QED
      BY <3>1, <3>2
  <2>4. \A q \in Requests : req'[q].op \in Creates => (call(q)' = "token" /\ InSave(q)') \/ ~Live(req[q].user)'
    <3>1. \A q \in Requests \ {r} : req'[q].op \in Creates => (call(q)' = "token" /\ InSave(q)') \/ ~Live(req[q].user)'
      BY <1>1, <2>1, <2>2 DEF Apart, RedeemInv
    <3>2. QED
      BY <1>1, <1>2, <2>1, <2>3, <3>1
  <2>5. call(r)' = "clear" => (req[r].op # "none" /\ call(r) = "lookup") \/ (req[r].op # "none" /\ call(r) = "clear")
    BY <1>2 DEF Follows
  <2>6. req[r].op # "none" /\ call(r) = "lookup" /\ call(r)' = "clear" =>
          redeemed[new.user] = 0 /\ \A q \in Requests : req[q].op \in Creates => req[q].user # new.user
    <3> SUFFICES ASSUME req[r].op # "none", call(r) = "lookup", call(r)' = "clear"
                 PROVE  redeemed[new.user] = 0 /\ \A q \in Requests : req[q].op \in Creates => req[q].user # new.user
      OBVIOUS
    <3>1. \A q \in Requests : req[q].op \in Creates /\ req[q].user = new.user => OnEventLoop(q)
      BY <2>2 DEF Apart, RedeemInv, OnEventLoop, InSave, At
    <3>2. redeemed \in [Users -> Nat]
      BY DEF Always, TypeOK
    <3>3. QED
      BY <1>2, <3>1, <3>2 DEF Apart, RedeemInv, LoopIsFree
  <2>7. \A q \in Requests : req'[q].op # "none" /\ call(q)' = "clear" =>
          redeemed'[req'[q].user] = 0 /\ req'[q].user \notin invites'
    BY <1>1, <2>5, <2>6 DEF Apart, RedeemInv
  <2>8. \A q, p \in Requests :
          req'[q].op \in Creates /\ req'[p].op = "setup_password" /\ call(p)' # "lookup" => req'[q].user # req'[p].user
    <3>1. /\ req[r].op = "none" /\ new.op \in Creates =>
                \A p \in Requests \ {r} : req[p].op # "none" => req[p].user # new.user
          /\ req[r].op # "none" => new.op = req[r].op /\ new.user = req[r].user
      BY RequestFacts DEF Proper
    <3>2. \A q \in Requests \ {r} : \A p \in Requests \ {r} :
            req[q].op \in Creates /\ req[p].op = "setup_password" /\ call(p) # "lookup" => req[q].user # req[p].user
      BY DEF Apart, RedeemInv
    <3>3. new.op \in Creates => \A p \in Requests \ {r} :
            req[p].op = "setup_password" /\ call(p) # "lookup" => req[p].user # new.user
      BY <3>1 DEF Apart, RedeemInv
    <3>4. new.op = "setup_password" /\ call(r)' # "lookup" =>
            \A q \in Requests \ {r} : req[q].op \in Creates => req[q].user # new.user
      <4>1. CASE call(r) = "lookup"
        BY <2>6, <4>1 DEF Follows
      <4>2. CASE call(r) # "lookup"
        BY <3>1, <4>2 DEF Apart, RedeemInv
      <4>3. QED
        BY <4>1, <4>2
    <3>5. new.op = "setup_password" => new.op \notin Creates
      BY DEF Creates
    <3>6. QED
      BY <1>1, <3>2, <3>3, <3>4, <3>5
  <2>9. \A u \in Users : redeemed[u] > 0 =>
          redeemed[u] = 1 /\ ~Live(u)' /\ \A q \in Requests : req'[q].op \in Creates => req'[q].user # u
    BY <1>1, <2>1, <2>2 DEF Apart, RedeemInv, Always
  <2>10. QED
    BY <2>4, <2>7, <2>8, <2>9 DEF RedeemInv
<1>8. QED
  BY <1>3, <1>4, <1>5, <1>6, <1>7 DEF Apart

(* A call begins to save, and writes users.json.tmp.                        *)
LEMMA ApartSaves ==
  ASSUME Always, Apart, NEW r \in Requests, req[r].op # "none", call(r) \notin Reads,
         NEW new \in Request, req' = [req EXCEPT ![r] = new],
         new.op = req[r].op, new.user = req[r].user, new.name = req[r].name, new.todo = req[r].todo,
         new.promoted = req[r].promoted, new.pc \in {"open", "dump", "replace"},
         \A q \in Requests \ {r} : ~InSave(q),
         UNCHANGED <<backend, file, redeemed, raced>>, Saving(r)', backend = "filesystem",
         \/ invites' \subseteq invites
         \/ call(r) = "token" /\ invites' \subseteq invites \cup {req[r].user}
  PROVE  Apart'
<1>1. /\ req'[r] = new /\ call(r)' = call(r) /\ InSave(r)' /\ "none" \notin Creates
      /\ \A q \in Requests \ {r} : req'[q] = req[q] /\ ~InSave(q)'
      /\ \A q \in Requests : call(q)' = call(q) /\ req'[q].op = req[q].op /\ req'[q].user = req[q].user
                            /\ req'[q].name = req[q].name /\ req'[q].promoted = req[q].promoted
  BY RequestFacts DEF InSave, Creates, call
<1>2. SavesAreApart'
  BY <1>1 DEF Apart, SavesAreApart
<1>3. FileInv'
  BY <1>1 DEF Apart, FileInv
<1>4. NamesInv'
  BY <1>1 DEF Apart, NamesInv, CreatingOne, Registered, Taken
<1>5. PromotedInv'
  BY <1>1 DEF Apart, PromotedInv, Registered
<1>6. RedeemInv'
  <2>1. \A v \in Users : Live(v)' => Live(v) \/ (v = req[r].user /\ call(r) = "token")
    BY DEF Live
  <2>2. call(r) = "token" => req[r].op \in Creates
    BY RequestFacts DEF Within, Creates
  <2>3. \A q \in Requests : req[q].op \in Creates => req[q].op # "none" /\ req[q].user \in Users
    BY <1>1, RequestFacts
  <2>4. \A q \in Requests : req[q].op \in Creates => (call(q)' = "token" /\ InSave(q)') \/ ~Live(req[q].user)'
    BY <1>1, <2>1, <2>2, <2>3 DEF Apart, RedeemInv, Always
  <2>5. \A q \in Requests : req[q].op # "none" /\ call(q) = "clear" =>
          redeemed[req[q].user] = 0 /\ req[q].user \notin invites'
    <3> SUFFICES ASSUME NEW q \in Requests, req[q].op # "none", call(q) = "clear"
                 PROVE  redeemed[req[q].user] = 0 /\ req[q].user \notin invites'
      OBVIOUS
    <3>1. req[q].op = "setup_password"
      BY RequestFacts DEF Within
    <3>2. QED
      BY <2>2, <3>1 DEF Apart, RedeemInv
  <2>6. \A v \in Users : redeemed[v] > 0 =>
          redeemed[v] = 1 /\ ~Live(v)' /\ \A q \in Requests : req[q].op \in Creates => req[q].user # v
    BY <2>1, <2>2 DEF Apart, RedeemInv
  <2>7. QED
    BY <1>1, <2>4, <2>5, <2>6 DEF Apart, RedeemInv
<1>7. QED
  BY <1>2, <1>3, <1>4, <1>5, <1>6 DEF Apart

(* What a call makes of a user's record.                                    *)
LEMMA ChangeFacts ==
  ASSUME Always, NEW r \in Requests, req[r].op # "none", call(r) \notin Reads, NEW rec \in User \cup {NoUser},
         rec # NoUser \/ call(r) = "create"
  PROVE  LET new == Changed(r, rec) IN
         IF call(r) = "create"
         THEN /\ new.name = req[r].name /\ new.promoted = req[r].promoted /\ ~new.invite_token
              /\ (new.active => new.password)
         ELSE /\ rec \in User /\ new.name = rec.name /\ new.promoted = rec.promoted
              /\ new.invite_token => call(r) # "clear" /\ (rec.invite_token \/ call(r) = "token")
              /\ rec.password => new.password
              /\ new.active => rec.active \/ call(r) = "activate"
              /\ call(r) = "password" => new.password
<1>1. CASE call(r) = "create"
  <2>1. Changed(r, rec) = create_user(r)
    BY <1>1 DEF Changed
  <2>2. QED
    BY <1>1, <2>1 DEF create_user
<1>2. CASE call(r) # "create"
  <2>1. rec \in User
    BY <1>2
  <2>2. call(r) \in {"token", "clear", "password", "activate", "deactivate", "role", "touch"}
    BY <1>2, RequestFacts DEF Within, Reads
  <2>3. Changed(r, rec) =
          CASE call(r) = "token" -> set_user_invite_token(rec)
            [] call(r) = "clear" -> clear_user_invite_token(rec)
            [] call(r) = "password" -> update_user_password(rec)
            [] call(r) = "activate" -> activate_user(rec)
            [] call(r) = "deactivate" -> deactivate_user(rec)
            [] OTHER -> rec
    BY <2>2 DEF Changed
  <2>4. QED
    BY <1>2, <2>1, <2>2, <2>3 DEF User, set_user_invite_token, clear_user_invite_token,
       update_user_password, activate_user, deactivate_user
<1>3. QED
  BY <1>1, <1>2

(* A call changes the store; clearing an invitation counts, whether or not  *)
(* the user is there.                                                       *)
LEMMA ApartWrites ==
  ASSUME AccountsAssumption, Always, Always', Apart, NEW r \in Requests, req[r].op # "none", call(r) \notin Reads,
         \A q \in Requests \ {r} : req'[q] = req[q],
         \/ req'[r] = Idle
         \/ req'[r].op = req[r].op /\ req'[r].user = req[r].user /\ req'[r].name = req[r].name
            /\ Follows(req[r].op, call(r), call(r)'),
         ~InSave(r)', (\A q \in Requests \ {r} : ~InSave(q)) \/ (call(r) = "clear" /\ UNCHANGED <<file, tmp>>),
         UNCHANGED <<backend, invites, raced>>,
         \/ file[req[r].user] # NoUser /\ file' = [file EXCEPT ![req[r].user] = Changed(r, @)]
         \/ call(r) = "create" /\ file' = [file EXCEPT ![req[r].user] = Changed(r, @)]
         \/ file[req[r].user] = NoUser /\ call(r) = "clear" /\ file' = file,
         redeemed' = IF call(r) = "clear" THEN [redeemed EXCEPT ![req[r].user] = @ + 1] ELSE redeemed
  PROVE  Apart'
<1> DEFINE u == req[r].user
           new == file'[u]
<1>1. /\ u \in Users /\ req[r].op \in Operation /\ Within(req[r].op, call(r)) /\ file \in Store
      /\ file[u] \in User \cup {NoUser} /\ NoUser \notin User /\ redeemed \in [Users -> Nat]
      /\ Entitled(file) /\ backend \in {"filesystem", "sqlite"}
  <2>1. file \in Store /\ Entitled(file) /\ redeemed \in [Users -> Nat] /\ backend \in {"filesystem", "sqlite"}
    BY DEF Always, TypeOK, Apart, SavesAreApart
  <2>2. QED
    BY <2>1, RequestFacts DEF AccountsAssumption, Store
<1>2. \A v \in Users \ {u} : file'[v] = file[v]
  BY <1>1 DEF Store
<1>3. \/ file[u] = NoUser /\ call(r) = "clear" /\ new = NoUser
      \/ new # NoUser /\ (file[u] # NoUser \/ call(r) = "create") /\ new = Changed(r, file[u])
  <2>1. file[u] # NoUser \/ call(r) = "create" => Changed(r, file[u]) \in User
    BY <1>1, ChangeIsEntitled
  <2>2. QED
    BY <1>1, <2>1 DEF Store
<1>4. new # NoUser =>
        IF call(r) = "create"
        THEN /\ new.name = req[r].name /\ new.promoted = req[r].promoted /\ ~new.invite_token
             /\ (new.active => new.password)
        ELSE /\ file[u] # NoUser /\ new.name = file[u].name /\ new.promoted = file[u].promoted
             /\ new.invite_token => call(r) # "clear" /\ (file[u].invite_token \/ call(r) = "token")
             /\ file[u].password => new.password
             /\ new.active => file[u].active \/ call(r) = "activate"
             /\ call(r) = "password" => new.password
  BY <1>1, <1>3, ChangeFacts
<1> HIDE DEF new
<1>5. file' \in Store
  BY <1>1, <1>3, ChangeIsEntitled DEF new
<1>6. SavesAreApart'
  <2>1. \A q \in Requests : InSave(q)' => q # r /\ InSave(q) /\ UNCHANGED <<file, tmp>>
    BY DEF InSave
  <2>2. \A q \in Requests : InSave(q)' => Saving(q)'
    BY <2>1, SavingStays DEF Apart, SavesAreApart
  <2>3. QED
    BY <1>5, <2>1, <2>2 DEF AccountsAssumption, Apart, SavesAreApart
<1>7. "none" \notin Creates /\ Idle.op = "none" /\ (call(r) = "create" => req[r].op \in Creates)
      /\ \A q \in Requests \ {r} : call(q)' = call(q)
      /\ (req'[r].op # "none" =>
             /\ req'[r].op = req[r].op /\ req'[r].user = u /\ req'[r].name = req[r].name
             /\ Follows(req[r].op, call(r), call(r)'))
  BY <1>1 DEF Creates, Idle, call, Within
<1>8. \A q \in Requests \ {r} : req[q].op \in Creates /\ req[q].user = u => call(r) # "create"
  BY <1>7 DEF Always
<1>9. \A q \in Requests : req[q].op # "none" => req[q].user \in Users /\ req[q].name \in Names /\ Within(req[q].op, call(q))
  BY RequestFacts
<1>10. FileInv'
  <2>1. \A q \in Requests : req'[q].op \in Creates /\ call(q)' # "token" => file'[req'[q].user] = NoUser
    <3>1. ASSUME NEW q \in Requests \ {r}, req[q].op \in Creates, call(q) # "token"
          PROVE  file'[req[q].user] = NoUser
      <4>1. file[req[q].user] = NoUser
        BY <3>1 DEF Apart, FileInv
      <4>2. QED
        BY <1>2, <1>3, <1>4, <1>7, <1>8, <1>9, <3>1, <4>1 DEF new
    <3>2. req'[r].op \in Creates => call(r)' = "token"
      BY <1>7 DEF Follows, Reads, Creates
    <3>3. QED
      BY <1>7, <3>1, <3>2
  <2>2. \A v \in Users : file'[v] # NoUser /\ file'[v].active => file'[v].password
    <3>1. new # NoUser /\ new.active => new.password
      BY <1>1, <1>4 DEF Apart, FileInv
    <3>2. QED
      BY <1>2, <3>1 DEF Apart, FileInv, new
  <2>3. \A q \in Requests : req'[q].op # "none" /\ call(q)' = "activate" =>
          file'[req'[q].user] = NoUser \/ file'[req'[q].user].password
    <3>1. ASSUME NEW q \in Requests \ {r}, req[q].op # "none", call(q) = "activate"
          PROVE  file'[req[q].user] = NoUser \/ file'[req[q].user].password
      <4>1. file[req[q].user] = NoUser \/ file[req[q].user].password
        BY <3>1 DEF Apart, FileInv
      <4>2. CASE req[q].user = u
        <5>1. req[q].op = "setup_password" /\ backend = "filesystem"
          BY <1>1, <1>9, <3>1, RequestFacts DEF Within, Proper
        <5>2. call(r) # "create"
          BY <1>7, <3>1, <4>2, <5>1 DEF Apart, RedeemInv
        <5>3. QED
          BY <1>3, <1>4, <4>1, <4>2, <5>2 DEF new
      <4>3. QED
        BY <1>2, <1>9, <3>1, <4>1, <4>2
    <3>2. req'[r].op # "none" /\ call(r)' = "activate" => new = NoUser \/ new.password
      <4>1. req'[r].op # "none" /\ call(r)' = "activate" => call(r) = "password"
        BY <1>7 DEF Follows
      <4>2. QED
        BY <1>4, <4>1
    <3>3. QED
      BY <1>7, <3>1, <3>2 DEF new
  <2>4. QED
    BY <2>1, <2>2, <2>3 DEF FileInv
<1>11. \A q \in Requests : CreatingOne(q)' => q # r /\ CreatingOne(q) /\ req'[q] = req[q]
  BY <1>7 DEF CreatingOne, Follows, Reads
<1>12. call(r) = "create" => CreatingOne(r)
  BY DEF CreatingOne
<1>13. NamesInv'
  <2> SUFFICES ASSUME "name" \notin raced PROVE NamesInv'
    BY DEF NamesInv
  <2>1. \A v \in Users : file'[v] # NoUser =>
          (file[v] # NoUser /\ file'[v].name = file[v].name) \/ (v = u /\ call(r) = "create" /\ file'[v].name = req[r].name)
    BY <1>2, <1>4 DEF new
  <2>2. call(r) = "create" => \A v \in Users : file[v] # NoUser => file[v].name # req[r].name
    BY <1>12 DEF Apart, NamesInv, Taken, Registered
  <2>3. \A v, w \in Registered(file)' : file'[v].name = file'[w].name => v = w
    BY <2>1, <2>2 DEF Apart, NamesInv, Registered
  <2>4. \A q \in Requests : CreatingOne(q)' => ~Taken(file, req[q].name)'
    BY <1>11, <1>12, <2>1 DEF Apart, NamesInv, Taken, Registered
  <2>5. QED
    BY <1>11, <2>3, <2>4 DEF Apart, NamesInv
<1>14. PromotedInv'
  <2> SUFFICES ASSUME "promoted" \notin raced PROVE PromotedInv'
    BY DEF PromotedInv
  <2>1. \A v \in Users : file'[v] # NoUser =>
          (file[v] # NoUser /\ file'[v].promoted = file[v].promoted)
            \/ (v = u /\ call(r) = "create" /\ file'[v].promoted = req[r].promoted)
    BY <1>2, <1>4 DEF new
  <2>2. \A q \in Requests : req'[q].promoted => q # r /\ req'[q] = req[q]
    <3>1. ~req'[r].promoted
      <4>1. Proper(r)'
        BY DEF Always
      <4>2. CASE req'[r] = Idle
        BY <4>2 DEF Idle
      <4>3. CASE req'[r] # Idle
        <5>1. req'[r].promoted => req'[r].op = "register" /\ call(r)' = "create"
          BY <4>1, <4>3 DEF Proper
        <5>2. QED
          BY <1>7, <4>3, <5>1 DEF Follows, Reads
      <4>4. QED
        BY <4>2, <4>3
    <3>2. QED
      BY <3>1
  <2>3. req[r].promoted => \A v \in Users : file[v] # NoUser => ~file[v].promoted
    BY DEF Apart, PromotedInv, Registered
  <2>4. \A v, w \in Registered(file)' : file'[v].promoted /\ file'[w].promoted => v = w
    BY <2>1, <2>3 DEF Apart, PromotedInv, Registered
  <2>5. \A q \in Requests : req'[q].promoted => \A v \in Registered(file)' : ~file'[v].promoted
    BY <2>1, <2>2 DEF Apart, PromotedInv, Registered
  <2>6. QED
    BY <2>2, <2>4, <2>5 DEF Apart, PromotedInv
<1>15. RedeemInv'
  <2> SUFFICES ASSUME backend = "filesystem" PROVE RedeemInv'
    BY DEF RedeemInv
  <2>1. \A v \in Users : Live(v)' =>
          (Live(v) \/ (v = u /\ call(r) = "token")) /\ (v = u /\ call(r) = "clear" => u \in invites)
    BY <1>2, <1>4 DEF Live, new
  <2>2. \A q \in Requests : req'[q].op # "none" => req'[q].op = req[q].op /\ req'[q].user = req[q].user /\ req[q].user \in Users
    BY <1>1, <1>7, <1>9
  <2>3. call(r) = "token" => req[r].op \in Creates /\ req'[r].op = "none"
    BY <1>1, <1>7 DEF Within, Creates, Follows
  <2>4. call(r) = "clear" => req[r].op = "setup_password" /\ redeemed[u] = 0 /\ u \notin invites
    BY <1>1 DEF Within, Apart, RedeemInv
  <2>5. \A q \in Requests : req'[q].op \in Creates => ~Live(req[q].user)'
    <3> SUFFICES ASSUME NEW q \in Requests, req'[q].op \in Creates, Live(req[q].user)' PROVE FALSE
      OBVIOUS
    <3>1. req'[q].op = req[q].op /\ req'[q].user = req[q].user /\ req[q].user \in Users
      BY <1>7, <2>2
    <3>2. Live(req[q].user) \/ (req[q].user = u /\ call(r) = "token")
      BY <2>1, <3>1 DEF Live
    <3>3. CASE req[q].user = u /\ call(r) = "token"
      BY <1>7, <2>3, <3>1, <3>3 DEF Always
    <3>4. CASE Live(req[q].user)
      <4>1. call(q) = "token" /\ InSave(q)
        BY <3>1, <3>4 DEF Apart, RedeemInv
      <4>2. q = r
        <5>1. CASE call(r) = "clear"
          <6>1. OnEventLoop(q) /\ OnEventLoop(r)
            BY <4>1, <5>1, RequestFacts DEF Proper, OnEventLoop, At, InSave
          <6>2. QED
            BY <6>1 DEF Always
        <5>2. QED
          BY <4>1, <5>1
      <4>3. QED
        BY <1>7, <2>3, <4>1, <4>2
    <3>5. QED
      BY <3>2, <3>3, <3>4
  <2>6. \A q, p \in Requests :
          req'[q].op \in Creates /\ req'[p].op = "setup_password" /\ call(p)' # "lookup" => req'[q].user # req'[p].user
    <3>1. \A p \in Requests : req'[p].op = "setup_password" /\ call(p)' # "lookup" =>
            req[p].op = "setup_password" /\ call(p) # "lookup"
      BY <1>7 DEF Reads
    <3>2. QED
      BY <1>7, <2>2, <3>1 DEF Apart, RedeemInv
  <2>7. \A q \in Requests : req'[q].op # "none" /\ call(q)' = "clear" =>
          redeemed'[req'[q].user] = 0 /\ req'[q].user \notin invites'
    <3> SUFFICES ASSUME NEW q \in Requests, req'[q].op # "none", call(q)' = "clear"
                 PROVE  redeemed'[req'[q].user] = 0 /\ req'[q].user \notin invites'
      OBVIOUS
    <3>1. q # r
      BY <1>7 DEF Follows, Reads
    <3>2. req'[q] = req[q] /\ call(q) = "clear" /\ req[q].op # "none"
      BY <1>7, <3>1
    <3>3. OnEventLoop(q)
      BY <3>2, RequestFacts DEF Proper, OnEventLoop, At
    <3>4. call(r) = "clear" => OnEventLoop(r)
      BY RequestFacts DEF Proper, OnEventLoop, At
    <3>5. call(r) # "clear"
      BY <3>1, <3>3, <3>4 DEF Always
    <3>6. QED
      BY <3>2, <3>5 DEF Apart, RedeemInv
  <2>8. \A v \in Users : redeemed'[v] > 0 =>
          redeemed'[v] = 1 /\ ~Live(v)' /\ \A q \in Requests : req'[q].op \in Creates => req'[q].user # v
    <3> SUFFICES ASSUME NEW v \in Users, redeemed'[v] > 0
                 PROVE  redeemed'[v] = 1 /\ ~Live(v)' /\ \A q \in Requests : req'[q].op \in Creates => req'[q].user # v
      OBVIOUS
    <3>1. CASE v = u /\ call(r) = "clear"
      <4>1. redeemed'[v] = 1 /\ ~Live(v)'
        BY <1>1, <2>1, <2>4, <3>1
      <4>2. \A q \in Requests : req'[q].op \in Creates => req'[q].user # v
        BY <1>7, <2>2, <2>4, <3>1 DEF Apart, RedeemInv
      <4>3. QED
        BY <4>1, <4>2
    <3>2. CASE ~(v = u /\ call(r) = "clear")
      <4>1. redeemed'[v] = redeemed[v]
        BY <1>1, <3>2
      <4>2. redeemed[v] = 1 /\ ~Live(v) /\ \A q \in Requests : req[q].op \in Creates => req[q].user # v
        BY <4>1 DEF Apart, RedeemInv
      <4>3. v # u \/ call(r) # "token"
        BY <2>3, <4>2
      <4>4. QED
        BY <1>7, <2>1, <2>2, <4>1, <4>2, <4>3
    <3>3. QED
      BY <3>1, <3>2
  <2>9. QED
    BY <2>5, <2>6, <2>7, <2>8 DEF RedeemInv
<1>16. QED
  BY <1>6, <1>10, <1>13, <1>14, <1>15 DEF Apart

LEMMA ApartReads ==
  ASSUME Always, Always', Apart, NEW r \in Requests,
         \/ \E op \in Operation, u \in Users, n \in Names : Arrive(r, op, u, n)
         \/ Resume(r) \/ get_user_by_username(r) \/ get_user(r) \/ validate_invite_token(r)
         \/ list_users(r) \/ DumpFails(r)
  PROVE  Apart'
<1> USE RequestFacts
<1>0. /\ UNCHANGED <<backend, file, tmp, redeemed>> /\ invites' \subseteq invites /\ raced \subseteq raced'
      /\ file # Torn /\ backend \in {"filesystem", "sqlite"}
  BY DEF Arrive, Resume, get_user_by_username, get_user, validate_invite_token, list_users,
         DumpFails, Apart, SavesAreApart, Always, TypeOK
<1>1. CASE Finish(r)
  BY <1>0, <1>1, ApartEnds DEF Finish
<1>2. ASSUME NEW op \in Operation, NEW u \in Users, NEW n \in Names, Arrive(r, op, u, n) PROVE Apart'
  <2> DEFINE new == [op |-> op, user |-> u, name |-> n, todo |-> Calls[op], pc |-> "load",
                     snap |-> Torn, inode |-> "none", promoted |-> FALSE]
  <2>1. req' = [req EXCEPT ![r] = new] /\ req[r].op = "none" /\ (op \in Creates => origin[u] = "none")
    BY <1>2 DEF Arrive
  <2>2. op \in {"register", "invite_user", "setup_password", "password_reset", "delete_user", "update_user"}
    BY DEF Operation, Calls
  <2>3. /\ op \in {"register", "invite_user"} => Head(Calls[op]) = "check"
        /\ op = "setup_password" => Head(Calls[op]) = "lookup"
        /\ op = "password_reset" => Head(Calls[op]) = "password"
        /\ op = "delete_user" => Head(Calls[op]) = "deactivate"
        /\ op = "update_user" => Head(Calls[op]) = "read"
    BY Tuples DEF Calls, register, invite_user, setup_password, password_reset, delete_user, update_user
  <2>4. req'[r] = new /\ call(r)' = Head(Calls[op]) /\ ~InSave(r)
    BY <2>1 DEF call, InSave, At
  <2>5. new \in Request
    <3>1. req'[r] \in Request
      BY DEF Always, TypeOK
    <3>2. QED
      BY <2>4, <3>1
  <2>6. new.op = op /\ new.user = u /\ new.pc = "load" /\ ~new.promoted /\ op # "none"
    BY <2>2
  <2> HIDE DEF new
  <2>7. QED
    BY <1>0, <2>1, <2>2, <2>3, <2>4, <2>5, <2>6, ApartGoesOn
<1>3. CASE Resume(r)
  <2> DEFINE new == [req[r] EXCEPT !.pc = "load"]
  <2>1. req' = [req EXCEPT ![r] = new] /\ req[r].op # "none" /\ ~InSave(r) /\ req[r] \in Request
    BY <1>3 DEF Resume, At, InSave
  <2>2. /\ new \in Request /\ new.op = req[r].op /\ new.user = req[r].user /\ new.name = req[r].name
        /\ new.todo = req[r].todo /\ new.pc = "load" /\ new.promoted = req[r].promoted
    BY <2>1 DEF Request
  <2> HIDE DEF new
  <2>3. req'[r] = new /\ call(r)' = call(r)
    BY <2>1, <2>2 DEF call
  <2>4. QED
    BY <1>0, <2>1, <2>2, <2>3, ApartGoesOn
<1>4. ASSUME Return(r), Len(req[r].todo) # 1, At(r, "load"), call(r) \in {"check", "read", "lookup"},
             call(r) = "check" =>
               /\ ~Taken(file, req[r].name)
               /\ "name" \notin raced' => \A q \in Requests \ {r} : CreatingOne(q) => req[q].name # req[r].name,
             call(r) = "lookup" =>
               backend = "filesystem" /\ Live(req[r].user) /\ req[r].user \notin invites' /\ LoopIsFree
      PROVE  Apart'
  <2>1. req[r].op # "none" /\ ~InSave(r)
    BY <1>4 DEF At, InSave
  <2>2. req' = [req EXCEPT ![r] = Rest(r)]
    BY <1>4 DEF Return, Rest
  <2>3. Rest(r) \in Request /\ req'[r] = Rest(r) /\ call(r)' = Head(Rest(r).todo)
    BY <1>4, <2>1, <2>2, RestFacts DEF call
  <2>4. call(r) \in Reads
    BY <1>4 DEF Reads
  <2> DEFINE new == Rest(r)
  <2>5. /\ new \in Request /\ req' = [req EXCEPT ![r] = new] /\ new.op = req[r].op /\ new.user = req[r].user
        /\ new.name = req[r].name /\ new.promoted = req[r].promoted /\ new.pc \in {"load", "await"}
        /\ Follows(new.op, call(r), call(r)')
    BY <1>4, <2>1, <2>2, <2>3, RestFacts
  <2> HIDE DEF new
  <2>6. QED
    BY <1>0, <1>4, <2>1, <2>4, <2>5, ApartGoesOn
<1>5. CASE Return(r) /\ Len(req[r].todo) = 1
  BY <1>1, <1>5 DEF Return
<1>6. CASE get_user_by_username(r)
  <2>1. CASE Return(r) /\ Len(req[r].todo) # 1
    <3>1. At(r, "load") /\ call(r) = "check" /\ ~Taken(file, req[r].name)
      <4>1. At(r, "load") /\ call(r) = "check" /\ req[r].op # "none"
        BY <1>6 DEF get_user_by_username, At
      <4>2. req'[r].op # "none"
        BY <2>1, <4>1, RestFacts DEF Return, Rest
      <4>3. ~Finish(r)
        BY <4>2 DEF Finish, Idle
      <4>4. QED
        BY <1>6, <4>1, <4>3 DEF get_user_by_username
    <3>2. raced' = raced \cup {"name" : q \in {o \in Creating(r) : req[o].name = req[r].name}}
      BY <1>0, <1>6, <3>1 DEF get_user_by_username
    <3>3. \A q \in Requests \ {r} : CreatingOne(q) => q \in Creating(r)
      BY DEF Creating, CreatingOne
    <3>4. "name" \notin raced' => \A q \in Requests \ {r} : CreatingOne(q) => req[q].name # req[r].name
      BY <3>2, <3>3
    <3>5. QED
      BY <1>4, <2>1, <3>1, <3>4
  <2>2. QED
    BY <1>1, <1>5, <1>6, <2>1 DEF get_user_by_username
<1>7. CASE get_user(r)
  <2>1. At(r, "load") /\ call(r) = "read" /\ (Finish(r) \/ Return(r))
    BY <1>7 DEF get_user
  <2>2. QED
    BY <1>1, <1>4, <1>5, <2>1
<1>8. CASE validate_invite_token(r)
  <2>1. At(r, "load") /\ call(r) = "lookup" /\ LoopIsFree /\ req[r].user \notin invites'
        /\ (Finish(r) \/ (Return(r) /\ backend = "filesystem" /\ Live(req[r].user)))
    BY <1>0, <1>8 DEF validate_invite_token, Live
  <2>2. QED
    BY <1>1, <1>4, <1>5, <2>1
<1>9. CASE list_users(r)
  <2>1. At(r, "load") /\ call(r) = "list" /\ req[r].op # "none" /\ ~InSave(r)
    BY <1>9 DEF list_users, At, InSave
  <2> DEFINE new == [req[r] EXCEPT !.todo = Tail(@), !.pc = "await", !.promoted = Registered(file) = {}]
  <2>2. req' = [req EXCEPT ![r] = new] /\ raced' = raced \cup {"promoted" : q \in {o \in Creating(r) : req[o].promoted}}
    BY <1>0, <1>9 DEF list_users
  <2>3. /\ req[r] \in Request /\ Len(req[r].todo) # 1
        /\ Follows(req[r].op, call(r), Head(Tail(req[r].todo)))
    <3>1. Len(req[r].todo) # 1
      BY <2>1, Tuples DEF Proper, Rests, Operation, Calls, call, register, invite_user,
           setup_password, password_reset, delete_user, update_user
    <3>2. QED
      BY <2>1, <3>1
  <2>4. /\ new.op = req[r].op /\ new.user = req[r].user /\ new.name = req[r].name /\ new.pc = "await"
        /\ new.todo = Tail(req[r].todo) /\ new.promoted = (Registered(file) = {})
    BY <2>3 DEF Request
  <2> HIDE DEF new
  <2>5. req'[r] = new /\ new \in Request /\ call(r)' = Head(Tail(req[r].todo)) /\ call(r) \in Reads
    BY <2>1, <2>2, <2>4 DEF call, Always, TypeOK, Reads
  <2>6. \A q \in Requests \ {r} : req[q].promoted => q \in Creating(r)
    BY DEF Creating, Proper, Idle, At
  <2>7. "promoted" \notin raced' => \A q \in Requests \ {r} : ~req[q].promoted
    BY <2>2, <2>6
  <2>8. QED
    BY <1>0, <2>1, <2>2, <2>3, <2>4, <2>5, <2>7, ApartGoesOn
<1>10. QED
  BY <1>1, <1>2, <1>3, <1>6, <1>7, <1>8, <1>9 DEF DumpFails

LEMMA ApartChanges ==
  ASSUME AccountsAssumption, Always, Always', Apart, ~overlap', NEW r \in Requests,
         _load_users(r) \/ OpenTmp(r) \/ Dump(r) \/ Replace(r) \/ InsertRow(r) \/ UpdateRow(r)
  PROVE  Apart'
<1> DEFINE u == req[r].user
<1> USE RequestFacts
<1>0. /\ file # Torn /\ file \in Store /\ backend \in {"filesystem", "sqlite"} /\ req[r] \in Request
      /\ req[r].op # "none" /\ call(r) \notin Reads /\ u \in Users
  <2>1. req[r].op # "none"
    BY DEF _load_users, OpenTmp, Dump, Replace, InsertRow, UpdateRow, At
  <2>2. call(r) \notin Reads
    BY <2>1, SaveFacts DEF Apart, _load_users, OpenTmp, Dump, Replace, InsertRow, UpdateRow, At,
       InSave, Reads
  <2>3. QED
    BY <2>1, <2>2 DEF Apart, SavesAreApart, Always, TypeOK
<1>1. ASSUME Return(r)
      PROVE  /\ \A q \in Requests \ {r} : req'[q] = req[q]
             /\ \/ req'[r] = Idle
                \/ /\ req'[r].op = req[r].op /\ req'[r].user = u /\ req'[r].name = req[r].name
                   /\ Follows(req[r].op, call(r), call(r)')
             /\ ~InSave(r)'
  <2>1. CASE Len(req[r].todo) = 1
    <3>1. req'[r] = Idle /\ \A q \in Requests \ {r} : req'[q] = req[q]
      BY <1>1, <2>1 DEF Return, Finish
    <3>2. Idle.pc = "idle"
      BY DEF Idle
    <3>3. QED
      BY <3>1, <3>2 DEF InSave
  <2>2. CASE Len(req[r].todo) # 1
    <3>1. req' = [req EXCEPT ![r] = Rest(r)]
      BY <1>1, <2>2 DEF Return, Rest
    <3>2. req'[r] = Rest(r)
      BY <3>1
    <3>3. QED
      BY <1>0, <2>2, <3>1, <3>2, RestFacts DEF call, InSave
  <2>3. QED
    BY <2>1, <2>2
<1>2. CASE _load_users(r)
  <2>1. backend = "filesystem" /\ UNCHANGED <<backend, file, tmp, raced>> /\ At(r, "load")
        /\ \/ invites' = invites
           \/ call(r) = "token" /\ invites' \subseteq invites \cup {u}
    BY <1>2 DEF _load_users
  <2>2. CASE Finish(r) /\ redeemed' = redeemed
    BY <1>0, <2>1, <2>2, ApartEnds DEF Finish
  <2>3. CASE Return(r) /\ call(r) = "clear" /\ file[u] = NoUser /\ Count(r) /\ overlap' = overlap
    <3>1. invites' = invites
      BY <2>1, <2>3
    <3>2. QED
      BY <1>0, <1>1, <2>1, <2>3, <3>1, ApartWrites DEF Count
  <2>4. CASE Return(r) /\ call(r) = "touch" /\ redeemed' = redeemed
    <3>1. Len(req[r].todo) = 1
      BY <1>0, <2>4 DEF Follows
    <3>2. QED
      BY <1>0, <2>1, <2>4, <3>1, ApartEnds DEF Return, Finish
  <2>5. CASE /\ req' = [req EXCEPT ![r].snap = [file EXCEPT ![u] = Changed(r, @)], ![r].pc = "open"]
             /\ overlap' = (overlap \/ \E q \in Requests \ {r} : InSave(q)) /\ redeemed' = redeemed
             /\ file[u] # NoUser \/ call(r) = "create"
    <3> DEFINE copy == [file EXCEPT ![u] = Changed(r, @)]
               new == [req[r] EXCEPT !.snap = copy, !.pc = "open"]
    <3>1. copy \in Store
      BY <1>0, <2>5, ChangeIsEntitled DEF Always
    <3>2. /\ new \in Request /\ new.op = req[r].op /\ new.user = u /\ new.name = req[r].name /\ new.todo = req[r].todo
          /\ new.pc = "open" /\ new.snap = copy /\ new.promoted = req[r].promoted
      BY <1>0, <3>1 DEF Request
    <3>3. req' = [req EXCEPT ![r] = new]
      BY <2>5
    <3> HIDE DEF new
    <3>4. req'[r] = new /\ call(r)' = call(r)
      BY <3>2, <3>3 DEF call
    <3>5. Saving(r)'
      <4>1. ASSUME NEW rec PROVE Changed(r, rec)' = Changed(r, rec)
        BY <3>2, <3>4 DEF Changed, create_user, set_user_invite_token, clear_user_invite_token,
                    update_user_password, activate_user, deactivate_user
      <4>2. Changed(r, file[req[r].user])' = Changed(r, file[u])
        BY <2>1, <3>2, <3>4, <4>1
      <4>3. QED
        BY <2>1, <2>5, <3>2, <3>4, <4>2 DEF Saving
    <3>6. \A q \in Requests \ {r} : ~InSave(q)
      BY <2>5
    <3> HIDE DEF copy
    <3>7. QED
      BY <1>0, <2>1, <2>5, <3>2, <3>3, <3>5, <3>6, ApartSaves
  <2>6. QED
    BY <1>0, <1>2, <2>2, <2>3, <2>4, <2>5 DEF _load_users, Count
<1>3. ASSUME InSave(r), backend = "filesystem", NEW new \in Request, req' = [req EXCEPT ![r] = new],
             new.op = req[r].op, new.user = u, new.name = req[r].name, new.todo = req[r].todo, new.promoted = req[r].promoted,
             new.snap = req[r].snap, new.pc = "replace" \/ new.pc = "dump",
             new.pc = "dump" => new.inode = "tmp" /\ tmp' = Torn, new.pc = "replace" => tmp' = req[r].snap,
             UNCHANGED <<backend, file, redeemed, raced, invites>>
      PROVE  Apart'
  <2>1. req'[r] = new /\ call(r)' = call(r)
    BY <1>3 DEF call
  <2>2. Saving(r)'
    <3>1. ASSUME NEW rec PROVE Changed(r, rec)' = Changed(r, rec)
      BY <1>3, <2>1 DEF Changed, create_user, set_user_invite_token, clear_user_invite_token,
                  update_user_password, activate_user, deactivate_user
    <3>2. Changed(r, file[req[r].user])' = Changed(r, file[u])
      BY <1>3, <2>1, <3>1
    <3>3. Saving(r)
      BY <1>3 DEF Apart, SavesAreApart
    <3>4. QED
      BY <1>3, <2>1, <3>2, <3>3 DEF Saving
  <2>3. \A q \in Requests \ {r} : ~InSave(q)
    BY <1>3 DEF Apart, SavesAreApart
  <2>4. QED
    BY <1>0, <1>3, <2>2, <2>3, ApartSaves
<1>4. CASE OpenTmp(r)
  <2> DEFINE new == [req[r] EXCEPT !.pc = "dump", !.inode = "tmp"]
  <2>1. /\ new \in Request /\ new.op = req[r].op /\ new.user = u /\ new.name = req[r].name /\ new.todo = req[r].todo
        /\ new.pc = "dump" /\ new.snap = req[r].snap /\ new.promoted = req[r].promoted /\ new.inode = "tmp"
    BY <1>0 DEF Request
  <2>2. req' = [req EXCEPT ![r] = new] /\ tmp' = Torn /\ UNCHANGED <<backend, file, redeemed, raced, invites>> /\ InSave(r)
    BY <1>4 DEF OpenTmp, InSave, At
  <2>3. backend = "filesystem"
    BY <2>2, SaveFacts DEF Apart
  <2> HIDE DEF new
  <2>4. QED
    BY <1>3, <2>1, <2>2, <2>3
<1>5. CASE Dump(r)
  <2> DEFINE new == [req[r] EXCEPT !.pc = "replace"]
  <2>1. /\ new \in Request /\ new.op = req[r].op /\ new.user = u /\ new.name = req[r].name /\ new.todo = req[r].todo
        /\ new.pc = "replace" /\ new.snap = req[r].snap /\ new.promoted = req[r].promoted
    BY <1>0 DEF Request
  <2>2. req' = [req EXCEPT ![r] = new] /\ UNCHANGED <<backend, redeemed, raced, invites>> /\ InSave(r) /\ req[r].pc = "dump"
    BY <1>5 DEF Dump, InSave, At
  <2>3. backend = "filesystem" /\ req[r].inode = "tmp" /\ tmp = Torn
    BY <2>2, SaveFacts DEF Apart, SavesAreApart, Saving
  <2>4. tmp' = req[r].snap /\ file' = file
    BY <1>5, <2>3 DEF Dump
  <2> HIDE DEF new
  <2>5. QED
    BY <1>3, <2>1, <2>2, <2>3, <2>4
<1>6. CASE Replace(r)
  <2>1. InSave(r) /\ req[r].pc = "replace" /\ UNCHANGED <<backend, invites, raced>>
    BY <1>6 DEF Replace, InSave, At
  <2>2. /\ Saving(r) /\ tmp = req[r].snap /\ tmp = [file EXCEPT ![u] = Changed(r, @)]
        /\ file[u] # NoUser \/ call(r) = "create"
        /\ \A q \in Requests \ {r} : ~InSave(q)
    BY <2>1 DEF Apart, SavesAreApart, Saving
  <2>3. tmp # Absent
    BY <1>0, <2>2, ChangeIsEntitled DEF AccountsAssumption, Always
  <2>4. file' = tmp /\ Count(r)
    BY <1>6, <2>3 DEF Replace
  <2> DEFINE next == IF Len(req[r].todo) = 1 THEN Idle
                     ELSE [req[r] EXCEPT !.todo = Tail(@), !.snap = Torn, !.inode = "none",
                                         !.pc = IF call(r) = "clear" THEN "load" ELSE "await"]
  <2>5. req' = [q \in Requests |-> IF q = r THEN next ELSE Moved(req[q])]
    BY <1>6, <2>3 DEF Replace
  <2>6. next = IF Len(req[r].todo) = 1 THEN Idle ELSE Rest(r)
    <3>1. call(r) # "lookup"
      BY <1>0 DEF Reads
    <3>2. QED
      BY <3>1 DEF Rest
  <2> HIDE DEF next
  <2>7. \A q \in Requests \ {r} : req'[q] = req[q]
    <3> SUFFICES ASSUME NEW q \in Requests \ {r} PROVE req'[q] = req[q]
      OBVIOUS
    <3>1. req[q].inode = "none" /\ req[q] \in Request
      BY <2>2, SaveFacts DEF Apart
    <3>2. Moved(req[q]) = req[q]
      BY <3>1 DEF Moved, Request
    <3>3. QED
      BY <2>5, <3>2
  <2>8. /\ \/ req'[r] = Idle
           \/ /\ req'[r].op = req[r].op /\ req'[r].user = u /\ req'[r].name = req[r].name
              /\ Follows(req[r].op, call(r), call(r)')
        /\ ~InSave(r)'
    <3>1. req'[r] = next
      BY <2>5
    <3>2. CASE Len(req[r].todo) = 1
      <4>1. Idle.pc = "idle"
        BY DEF Idle
      <4>2. QED
        BY <2>6, <3>1, <3>2, <4>1 DEF InSave
    <3>3. CASE Len(req[r].todo) # 1
      BY <1>0, <2>6, <3>1, <3>3, RestFacts DEF call, InSave
    <3>4. QED
      BY <3>2, <3>3
  <2>9. QED
    BY <1>0, <2>1, <2>2, <2>4, <2>7, <2>8, ApartWrites DEF Count
<1>7. CASE InsertRow(r) \/ UpdateRow(r)
  <2>1. /\ UNCHANGED <<backend, tmp, invites, redeemed, raced>> /\ backend = "sqlite"
        /\ \A q \in Requests : ~InSave(q)
    <3>1. UNCHANGED <<backend, tmp, invites, redeemed, raced>> /\ backend = "sqlite"
      BY <1>7 DEF InsertRow, UpdateRow
    <3>2. QED
      BY <3>1, SaveFacts DEF Apart
  <2>2. call(r) # "clear"
    BY <1>0, <2>1 DEF Proper, Within
  <2>3. CASE Finish(r) /\ file' = file
    BY <2>1, <2>3, ApartEnds DEF Finish
  <2>4. CASE Return(r) /\ file' = file /\ call(r) = "touch"
    <3>1. Len(req[r].todo) = 1
      BY <1>0, <2>4 DEF Follows
    <3>2. QED
      BY <2>1, <2>4, <3>1, ApartEnds DEF Return, Finish
  <2>5. CASE Return(r) /\ file' = [file EXCEPT ![u] = Changed(r, @)] /\ (file[u] # NoUser \/ call(r) = "create")
    BY <1>0, <1>1, <2>1, <2>2, <2>5, ApartWrites
  <2>6. QED
    BY <1>7, <2>3, <2>4, <2>5 DEF InsertRow, UpdateRow, Changed
<1>8. QED
  BY <1>2, <1>4, <1>5, <1>6, <1>7

LEMMA AccountInit ==
  ASSUME AccountsAssumption, Init
  PROVE  AccountInv
<1> USE DEF Init
<1>1. Idle \in Request /\ Idle.op = "none" /\ Idle.snap = Torn /\ Idle.pc = "idle" /\ ~Idle.promoted
      /\ "none" \notin Creates
  BY DEF Idle, Request, Creates
<1>2. file \in Store /\ Registered(file) = {} /\ file # Torn /\ \A u \in Users : file[u] = NoUser
  BY DEF Store, Registered, AccountsAssumption
<1>3. \A r \in Requests : req[r] = Idle
  OBVIOUS
<1>4. TypeOK
  BY <1>1, <1>2 DEF TypeOK
<1>5. Always
  BY <1>1, <1>2, <1>3, <1>4 DEF Always, Proper, Entitled, OnEventLoop, At
<1>6. \A r \in Requests : ~InSave(r) /\ req[r].op = "none" /\ ~req[r].promoted
  BY <1>1, <1>3 DEF InSave
<1>7. Apart
  BY <1>1, <1>2, <1>6 DEF Apart, SavesAreApart, FileInv, NamesInv, PromotedInv, RedeemInv, CreatingOne, Live
<1>8. QED
  BY <1>5, <1>7 DEF AccountInv

(* What has overlapped has.                                                *)
LEMMA OverlapStays == (Next \/ Restart \/ UNCHANGED vars) /\ overlap => overlap'
BY ZenonT(30) DEF vars, Restart, Next, Step, Expire, Arrive, Resume, get_user_by_username, get_user,
   validate_invite_token, _load_users, OpenTmp, Dump, DumpFails, Replace, list_users, InsertRow, UpdateRow

LEMMA AccountsStay ==
  ASSUME AccountsAssumption, AccountInv, Next \/ Restart \/ UNCHANGED vars
  PROVE  AccountInv'
<1>1. Next \/ Restart \/ UNCHANGED vars
  OBVIOUS
<1>2. Always /\ Always'
  BY <1>1, AlwaysStays DEF AccountInv
<1> SUFFICES ASSUME ~overlap' PROVE Apart'
  BY <1>2 DEF AccountInv
<1>3. overlap => overlap'
  BY <1>1, OverlapStays
<1>4. Apart
  BY <1>3 DEF AccountInv
<1>5. ASSUME UNCHANGED <<backend, file, tmp, req, redeemed, raced>>, invites' = invites PROVE Apart'
  <2>1. \A r \in Requests : Saving(r) => Saving(r)'
    BY <1>5, SavingStays
  <2>2. SavesAreApart'
    BY <1>4, <1>5, <2>1 DEF Apart, SavesAreApart, InSave
  <2>3. FileInv' /\ NamesInv' /\ PromotedInv'
    BY <1>4, <1>5 DEF Apart, FileInv, NamesInv, PromotedInv, CreatingOne, call, Taken, Registered
  <2>4. RedeemInv'
    BY <1>4, <1>5 DEF Apart, RedeemInv, call, InSave, Live
  <2>5. QED
    BY <2>2, <2>3, <2>4 DEF Apart
<1>6. CASE UNCHANGED vars
  BY <1>5, <1>6 DEF vars
<1>7. CASE Restart
  <2>1. Idle.op = "none" /\ Idle.pc = "idle" /\ ~Idle.promoted /\ "none" \notin Creates
    BY DEF Idle, Creates
  <2>2. \A r \in Requests : req'[r] = Idle
    BY <1>7 DEF Restart
  <2>3. \A r \in Requests : ~InSave(r)' /\ req'[r].op = "none" /\ ~req'[r].promoted
    BY <2>1, <2>2 DEF InSave
  <2>4. UNCHANGED <<backend, file, redeemed, raced>> /\ \A u \in Users : Live(u)' => Live(u)
    BY <1>7 DEF Restart, Live
  <2>5. SavesAreApart' /\ FileInv' /\ PromotedInv'
    BY <1>4, <2>1, <2>3, <2>4 DEF Apart, SavesAreApart, FileInv, PromotedInv, Registered
  <2>6. NamesInv'
    BY <1>4, <2>3, <2>4 DEF Apart, NamesInv, CreatingOne, Registered
  <2>7. RedeemInv'
    BY <1>4, <2>1, <2>3, <2>4 DEF Apart, RedeemInv
  <2>8. QED
    BY <2>5, <2>6, <2>7 DEF Apart
<1>8. CASE Next
  BY <1>2, <1>4, <1>5, <1>8, ApartReads, ApartChanges DEF Next, Step, Expire
<1>9. QED
  BY <1>1, <1>6, <1>7, <1>8

(* The invariant implies the properties.                                   *)
LEMMA AccountsSound ==
  ASSUME AccountInv
  PROVE  /\ ActiveWasRedeemed /\ ActiveHasPassword /\ RedeemedOnce
         /\ UsernamesAreUnique /\ OneIsPromoted /\ StoreIsReadable
<1>1. ActiveWasRedeemed /\ StoreIsReadable
  BY DEF AccountInv, Always, Apart, SavesAreApart, Entitled, ActiveWasRedeemed, StoreIsReadable
<1>2. ActiveHasPassword
  BY DEF AccountInv, Apart, FileInv, ActiveHasPassword, Registered
<1>3. RedeemedOnce
  <2> SUFFICES ASSUME ~overlap, NEW u \in Users PROVE redeemed[u] <= 1
    BY DEF RedeemedOnce
  <2>1. redeemed[u] \in Nat /\ backend \in {"filesystem", "sqlite"} /\ (backend = "sqlite" => redeemed[u] = 0)
    BY DEF AccountInv, Always, TypeOK
  <2>2. QED
    BY <2>1 DEF AccountInv, Apart, RedeemInv
<1>4. UsernamesAreUnique
  BY DEF AccountInv, Apart, NamesInv, UsernamesAreUnique
<1>5. OneIsPromoted
  <2> SUFFICES ASSUME ~overlap, "promoted" \notin raced
               PROVE  Cardinality({u \in Registered(file) : file[u].promoted}) <= 1
    BY DEF OneIsPromoted
  <2> DEFINE S == {u \in Registered(file) : file[u].promoted}
  <2>1. \A u, v \in S : u = v
    BY DEF AccountInv, Apart, PromotedInv
  <2>2. S = {} \/ \E u \in S : S = {u}
    BY <2>1
  <2> HIDE DEF S
  <2>3. Cardinality(S) <= 1
    <3>1. CASE S = {}
      BY <3>1, FS_EmptySet
    <3>2. CASE \E u \in S : S = {u}
      BY <3>2, FS_Singleton
    <3>3. QED
      BY <2>2, <3>1, <3>2
  <2>4. QED
    BY <2>3 DEF S
<1>6. QED
  BY <1>1, <1>2, <1>3, <1>4, <1>5

(* While saves do not overlap no step removes a user: what replaces the file *)
(* is the file with the change of one record.                               *)
LEMMA UsersAreKept ==
  ASSUME AccountsAssumption, AccountInv, Next \/ Restart \/ UNCHANGED vars
  PROVE  KeepsUsers
<1> SUFFICES ASSUME ~overlap', NEW u \in Users, file[u] # NoUser PROVE file'[u] # NoUser
  BY DEF KeepsUsers, Registered
<1>1. Always /\ Apart
  BY OverlapStays DEF AccountInv
<1>2. file \in Store /\ Entitled(file) /\ NoUser \notin User
  BY <1>1 DEF Always, TypeOK, Apart, SavesAreApart, AccountsAssumption
<1>3. ASSUME NEW r \in Requests, req[r].op # "none", call(r) \notin Reads,
             file[req[r].user] # NoUser \/ call(r) = "create",
             file' = [file EXCEPT ![req[r].user] = Changed(r, @)]
      PROVE  file'[u] # NoUser
  <2>1. Changed(r, file[req[r].user]) \in User
    BY <1>1, <1>2, <1>3, ChangeIsEntitled
  <2>2. QED
    BY <1>2, <1>3, <2>1 DEF Store
<1>4. ASSUME NEW r \in Requests, Dump(r) PROVE file'[u] # NoUser
  <2>1. req[r].inode = "tmp"
    BY <1>1, <1>4 DEF Dump, At, InSave, Apart, SavesAreApart, Saving
  <2>2. QED
    BY <1>4, <2>1 DEF Dump
<1>5. ASSUME NEW r \in Requests, Replace(r) PROVE file'[u] # NoUser
  <2>1. CASE tmp = Absent
    BY <1>5, <2>1 DEF Replace
  <2>2. CASE tmp # Absent
    <3>1. InSave(r) /\ req[r].pc = "replace" /\ file' = tmp
      BY <1>5, <2>2 DEF Replace, At, InSave
    <3>2. req[r].op # "none" /\ call(r) \notin Reads /\ Saving(r)
      BY <1>1, <3>1, SaveFacts DEF Apart, SavesAreApart
    <3>3. QED
      BY <1>3, <3>1, <3>2 DEF Saving
  <2>3. QED
    BY <2>1, <2>2
<1>6. ASSUME NEW r \in Requests, InsertRow(r) \/ UpdateRow(r) PROVE file'[u] # NoUser
  <2>1. req[r].op # "none"
    BY <1>1, <1>6 DEF Always, Proper, Idle, InsertRow, UpdateRow, At
  <2>2. \/ file' = file
        \/ /\ call(r) \notin Reads /\ (file[req[r].user] # NoUser \/ call(r) = "create")
           /\ file' = [file EXCEPT ![req[r].user] = Changed(r, @)]
    BY <1>6 DEF InsertRow, UpdateRow, Changed, Reads
  <2>3. QED
    BY <1>3, <2>1, <2>2
<1>7. CASE Next
  <2>1. \/ file' = file
        \/ \E r \in Requests : Dump(r) \/ Replace(r) \/ InsertRow(r) \/ UpdateRow(r)
    BY <1>7, ZenonT(30) DEF Next, Step, Expire, Arrive, Resume, get_user_by_username, get_user,
       validate_invite_token, _load_users, OpenTmp, DumpFails, list_users
  <2>2. QED
    BY <1>4, <1>5, <1>6, <2>1
<1>8. QED
  BY <1>7 DEF Restart, vars
=============================================================================
