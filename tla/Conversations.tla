------------------------------ MODULE Conversations ------------------------------
(***************************************************************************)
(* One conversation: its container with a context per domain, the saved    *)
(* session state, and the requests that use them from threads of the pool  *)
(* without a lock: turns, resumptions, rebuilds of a context and closes    *)
(* (by the endpoint, or by the idle cleanup on the event loop).            *)
(*                                                                         *)
(* A request is cut where it makes a slow call: building a context,        *)
(* appending a record, processing a message. What it does to the container *)
(* between two such calls is one step.                                     *)
(***************************************************************************)
EXTENDS Naturals, FiniteSets

CONSTANTS
  Domains,       (* domain ids, resolved                                   *)
  NoDomain,      (* a thread that serves no request                        *)
  NoContext,     (* no such context                                        *)
  NoState,       (* nothing was saved                                      *)
  Legacy,        (* saved state of the old shape, without contexts         *)
  Workers,       (* threads that serve requests of this conversation       *)
  MaxRequests,   (* requests served in one behaviour                       *)
  MaxOverlapping,(* the same, when some of them overlap                    *)
  MaxContexts,   (* _MAX_CONTEXTS_PER_SESSION                              *)
  Container,     (* containers: one more than threads, so that one is free *)
  NoContainer    (* the conversation has no container                      *)

LimitAssumption == MaxContexts \in Nat \ {0} /\ MaxRequests \in Nat /\ MaxOverlapping \in 0..MaxRequests

VARIABLES
  live,          (* the container in _session_containers                   *)
  active,        (* active_domain_id of each container                     *)
  contexts,      (* the contexts of each container                         *)
  entries,       (* entries of its TTL manager                             *)
  stale,         (* entries whose TTL has passed                           *)
  persisted,     (* the saved session state                                *)
  thread,        (* the requests being served                              *)
  begun,         (* auxiliary: requests so far                             *)
  answered,      (* auxiliary: turns of a domain that were answered, or    *)
                 (* NoContext once its context was pruned, or left out of a*)
                 (* new container                                          *)
  overlapped,    (* auxiliary: two requests were served at a time          *)
  crossed,       (* auxiliary: a domain became the active one while a      *)
                 (* request of another one was served                      *)
  resumed        (* auxiliary: the conversation was resumed                *)

store == <<live, active, contexts, entries, stale>>
aux == <<begun, answered, overlapped, crossed, resumed>>
vars == <<store, persisted, thread, aux>>

Context == [turn_count: Nat, task: Domains]
Contexts == [Domains -> Context \cup {NoContext}]
Fresh(d) == [turn_count |-> 0, task |-> d]
Nothing == [d \in Domains |-> NoContext]
Has(c) == {d \in Domains : contexts[c][d] # NoContext}

Idle == [pc |-> "idle", op |-> "none", domain |-> NoDomain, container |-> NoContainer, session |-> NoContext,
         served |-> NoDomain]
Request ==
  [pc: {"idle", "build", "create", "switch", "process", "hydrate", "rebuild", "close"},
   op: {"none", "turn", "resume", "rebuild", "close"}, domain: Domains \cup {NoDomain},
   container: Container \cup {NoContainer}, session: Context \cup {NoContext}, served: Domains \cup {NoDomain}]

TypeOK ==
  /\ live \in Container \cup {NoContainer}
  /\ active \in [Container -> Domains \cup {NoDomain}]
  /\ contexts \in [Container -> Contexts]
  /\ entries \in [Container -> SUBSET Domains] /\ stale \in [Container -> SUBSET Domains]
  /\ persisted \in Contexts \cup {NoState, Legacy}
  /\ thread \in [Workers -> Request]
  /\ begun \in 0..MaxRequests /\ answered \in [Domains -> Nat \cup {NoContext}]
  /\ overlapped \in BOOLEAN /\ crossed \in BOOLEAN /\ resumed \in BOOLEAN

Init ==
  /\ live = NoContainer
  /\ active = [c \in Container |-> NoDomain]
  /\ contexts = [c \in Container |-> Nothing]
  /\ entries = [c \in Container |-> {}] /\ stale = [c \in Container |-> {}]
  /\ persisted = NoState
  /\ thread = [t \in Workers |-> Idle]
  /\ begun = 0 /\ answered = [d \in Domains |-> 0]
  /\ overlapped = FALSE /\ crossed = FALSE /\ resumed = FALSE

At(t, pc) == thread[t].pc = pc
Others(t) == {u \in Workers \ {t} : ~At(u, "idle")}
Crosses(t, d) == \E u \in Others(t) : thread[u].domain \notin {d, NoDomain}
Leave(t) == thread' = [thread EXCEPT ![t] = Idle]
Go(t, pc, op, d, c) ==
  thread' = [thread EXCEPT ![t] = [Idle EXCEPT !.pc = pc, !.op = op, !.domain = d, !.container = c]]

Begin(t) ==
  /\ At(t, "idle")
  /\ begun < IF overlapped \/ Others(t) # {} THEN MaxOverlapping ELSE MaxRequests
  /\ begun' = begun + 1
  /\ overlapped' = (overlapped \/ Others(t) # {})

(* container.active_context.to_session_dict(): whatever domain is active    *)
(* when a turn gets there.                                                  *)
Serve(t, op, d, domain, context) ==
  thread' = [thread EXCEPT ![t] =
    [pc |-> IF op = "turn" THEN "process" ELSE "hydrate", op |-> op, domain |-> d, container |-> NoContainer,
     session |-> context, served |-> domain]]

(* --- get_or_create_session ------------------------------------------------ *)

(* The saved state of the domain is read before its context is built.       *)
NewSession(t, op, d) ==
  LET restored == IF persisted \in {NoState, Legacy} THEN NoContext ELSE persisted[d] IN
  /\ live = NoContainer
  /\ Begin(t)
  /\ thread' = [thread EXCEPT ![t] = [Idle EXCEPT !.pc = "create", !.op = op, !.domain = d, !.session = restored]]
  /\ UNCHANGED <<store, persisted, answered, crossed, resumed>>

(* The entry is touched, and what has expired is pruned but for the active  *)
(* context. RuntimeError when another context would be one too many.        *)
EnterSession(t, op, d) ==
  LET c == live
      expired == stale[c] \ {d}
      pruned == expired \ {active[c]}
      kept == [e \in Domains |-> IF e \in pruned THEN NoContext ELSE contexts[c][e]]
      switches == d # active[c] /\ kept[d] # NoContext
  IN
  /\ live # NoContainer
  /\ Begin(t)
  /\ entries' = [entries EXCEPT ![c] = (@ \ expired) \cup {d}]
  /\ stale' = [stale EXCEPT ![c] = {}]
  /\ contexts' = [contexts EXCEPT ![c] = kept]
  /\ answered' = [e \in Domains |-> IF e \in pruned THEN NoContext ELSE answered[e]]
  /\ active' = IF switches THEN [active EXCEPT ![c] = d] ELSE active
  /\ crossed' = (crossed \/ (switches /\ Crosses(t, d)))
  /\ IF d = active[c] THEN Serve(t, op, d, d, kept[d])
     ELSE IF switches THEN Go(t, "switch", op, d, c)
     ELSE IF Cardinality({e \in Domains : kept[e] # NoContext}) >= MaxContexts THEN Leave(t)
     ELSE Go(t, "build", op, d, c)
  /\ UNCHANGED <<live, persisted, resumed>>

(* A context that is switched to is built without the saved state.          *)
BuildContext(t) ==
  LET d == thread[t].domain  c == thread[t].container IN
  /\ At(t, "build")
  /\ contexts' = [contexts EXCEPT ![c][d] = Fresh(d)]
  /\ active' = [active EXCEPT ![c] = d]
  /\ entries' = [entries EXCEPT ![c] = @ \cup {d}] /\ stale' = [stale EXCEPT ![c] = @ \ {d}]
  /\ persisted' = contexts'[c]
  /\ answered' = [answered EXCEPT ![d] = 0]
  /\ crossed' = (crossed \/ Crosses(t, d))
  /\ Go(t, "switch", thread[t].op, d, c)
  /\ UNCHANGED <<live, begun, overlapped, resumed>>

(* The record of the switch is appended.                                    *)
DomainSwitch(t) ==
  LET c == thread[t].container IN
  /\ At(t, "switch")
  /\ Serve(t, thread[t].op, thread[t].domain, active[c], contexts[c][active[c]])
  /\ UNCHANGED <<store, persisted, aux>>

(* A new container takes over the saved state of the requested domain, and  *)
(* that is all that is saved of it then.                                    *)
CreateSession(t) ==
  LET d == thread[t].domain
      c == CHOOSE k \in Container : k # live /\ \A u \in Workers : thread[u].container # k
      context == IF thread[t].session = NoContext THEN Fresh(d) ELSE thread[t].session
  IN
  /\ At(t, "create")
  /\ live' = c
  /\ contexts' = [contexts EXCEPT ![c] = [Nothing EXCEPT ![d] = context]]
  /\ active' = [active EXCEPT ![c] = d]
  /\ entries' = [entries EXCEPT ![c] = {d}] /\ stale' = [stale EXCEPT ![c] = {}]
  /\ persisted' = contexts'[c]
  /\ answered' = [e \in Domains |-> IF e # d THEN NoContext
                                 ELSE IF answered[e] = NoContext THEN context.turn_count ELSE answered[e]]
  /\ crossed' = (crossed \/ Crosses(t, d))
  /\ Serve(t, thread[t].op, d, d, context)
  /\ UNCHANGED <<begun, overlapped, resumed>>

(* --- Turns, resumptions, rebuilds ----------------------------------------- *)

SyncSession_unsaved(t) ==
  LET session == [thread[t].session EXCEPT !.turn_count = @ + 1] IN
  /\ At(t, "process")
  /\ IF live # NoContainer THEN contexts' = [contexts EXCEPT ![live][active[live]] = session] ELSE UNCHANGED contexts
  /\ answered' = [answered EXCEPT ![thread[t].served] = IF @ = NoContext THEN @ ELSE @ + 1]
  /\ Leave(t)
  /\ UNCHANGED <<live, active, entries, stale, persisted, begun, overlapped, crossed, resumed>>

(* The session of the turn is written to the context that is active by now, *)
(* of the container that is there by now.                                   *)
SyncSession(t) ==
  LET session == [thread[t].session EXCEPT !.turn_count = @ + 1] IN
  /\ At(t, "process")
  /\ IF live # NoContainer
     THEN /\ contexts' = [contexts EXCEPT ![live][active[live]] = session]
          /\ persisted' = contexts'[live]
     ELSE persisted' = Legacy /\ UNCHANGED contexts
  /\ answered' = [answered EXCEPT ![thread[t].served] = IF @ = NoContext THEN @ ELSE @ + 1]
  /\ Leave(t)
  /\ UNCHANGED <<live, active, entries, stale, begun, overlapped, crossed, resumed>>

(* A request that raises, or a turn that a gate answers: nothing is synced. *)
Abandon(t) ==
  /\ ~At(t, "idle")
  /\ Leave(t)
  /\ UNCHANGED <<store, persisted, aux>>

(* The sealed transcript gives the turn count; it is not saved yet.         *)
Hydrate(t, turns) ==
  /\ At(t, "hydrate")
  /\ IF live = NoContainer THEN UNCHANGED <<contexts, answered>>
     ELSE /\ contexts' = [contexts EXCEPT ![live][active[live]].turn_count = turns]
          /\ answered' = [answered EXCEPT ![active[live]] = turns]
  /\ resumed' = TRUE
  /\ Leave(t)
  /\ UNCHANGED <<live, active, entries, stale, persisted, begun, overlapped, crossed>>

rebuild_user_domain_context(t, d) ==
  /\ live # NoContainer /\ d \in Has(live)
  /\ Begin(t)
  /\ Go(t, "rebuild", "rebuild", d, live)
  /\ UNCHANGED <<store, persisted, answered, crossed, resumed>>

Rebuilt(t) ==
  LET d == thread[t].domain  c == thread[t].container IN
  /\ At(t, "rebuild")
  /\ contexts' = [contexts EXCEPT ![c][d] = Fresh(d)]
  /\ persisted' = contexts'[c]
  /\ answered' = [answered EXCEPT ![d] = 0]
  /\ Leave(t)
  /\ UNCHANGED <<live, active, entries, stale, begun, overlapped, crossed, resumed>>

(* Containers that nothing refers to any more.                              *)
Forget(dead) ==
  /\ contexts' = [c \in Container |-> IF c \in dead THEN Nothing ELSE contexts[c]]
  /\ active' = [c \in Container |-> IF c \in dead THEN NoDomain ELSE active[c]]
  /\ entries' = [c \in Container |-> IF c \in dead THEN {} ELSE entries[c]]
  /\ stale' = [c \in Container |-> IF c \in dead THEN {} ELSE stale[c]]

(* --- _close_session -------------------------------------------------------- *)

CloseSession(t) ==
  /\ live # NoContainer
  /\ Begin(t)
  /\ Go(t, "close", "close", NoDomain, live)
  /\ UNCHANGED <<store, persisted, answered, crossed, resumed>>

(* Flushing profiles and appending a record per context has taken its time: *)
(* the container that is there by now is removed; KeyError if there is none.*)
CloseEnd(t) ==
  LET c == thread[t].container IN
  /\ At(t, "close")
  /\ persisted' = contexts[c]
  /\ live' = NoContainer
  /\ Leave(t)
  /\ Forget({k \in {c, live} \ {NoContainer} : \A u \in Others(t) : thread[u].container # k})
  /\ UNCHANGED aux

(* --- Time and crashes ---------------------------------------------------- *)

Expire(d) ==
  /\ live # NoContainer /\ d \in entries[live] \ stale[live]
  /\ stale' = [stale EXCEPT ![live] = @ \cup {d}]
  /\ UNCHANGED <<live, active, contexts, entries, persisted, thread, aux>>

Restart ==
  /\ live' = NoContainer
  /\ Forget(Container)
  /\ thread' = [t \in Workers |-> Idle]
  /\ UNCHANGED <<persisted, aux>>

Step(t) ==
  \/ \E op \in {"turn", "resume"}, d \in Domains : NewSession(t, op, d) \/ EnterSession(t, op, d)
  \/ BuildContext(t) \/ DomainSwitch(t) \/ CreateSession(t)
  \/ SyncSession(t) \/ Abandon(t) \/ Rebuilt(t)
  \/ \E turns \in 0..begun : Hydrate(t, turns)
  \/ CloseSession(t) \/ CloseEnd(t)
  \/ \E d \in Domains : rebuild_user_domain_context(t, d)

Next == (\E t \in Workers : Step(t)) \/ (\E d \in Domains : Expire(d))

Spec == Init /\ [][Next \/ Restart]_vars

(* ---- Properties ---------------------------------------------------------- *)

(* DomainContext: "Isolated per-domain state within a session". A context   *)
(* holds another domain's task only when the active domain was switched     *)
(* during a turn: overlapping turns of one domain keep them apart.          *)
ContextsStayApart ==
  ~crossed => \A c \in Container : \A d \in Has(c) : contexts[c][d].task = d

(* A turn is served by the domain it asked for, under the same condition.   *)
ServedAsRequested ==
  ~crossed => \A t \in Workers : thread[t].served \in {thread[t].domain, NoDomain}

(* The active domain of the conversation has a context, whatever expires,   *)
(* closes or overlaps.                                                      *)
ActiveHasContext == live # NoContainer => active[live] \in Has(live)

(* A conversation keeps within its number of contexts, unless two requests  *)
(* built one at the same time.                                              *)
ContextsAreBounded == ~overlapped => \A c \in Container : Cardinality(Has(c)) <= MaxContexts

(* Served one by one, every answered turn counts, in memory and, once it is *)
(* answered, in the saved state, over closes, idle closes and restarts.     *)
TurnsAreCounted ==
  ~overlapped /\ ~resumed /\ live # NoContainer =>
    \A d \in Has(live) : /\ contexts[live][d].turn_count = answered[d]
                         /\ persisted[d] = contexts[live][d]
=============================================================================
