------------------------------ MODULE EventStream ------------------------------
(***************************************************************************)
(* The live stream of log-bus events to dashboards (Server-Sent Events). A  *)
(* client gets a token, opens a stream with it, once and within five        *)
(* minutes, and its subscription then fills a queue of its own, which the   *)
(* connection empties. What a user may see was decided when the token was   *)
(* issued. Nothing ends the subscription when the client has gone.          *)
(***************************************************************************)
EXTENDS Naturals, FiniteSets, SequencesExt

CONSTANTS
  Watchers,    (* clients                                                  *)
  Kinds,       (* the kinds of events that are emitted                     *)
  QueueSize,   (* maxsize of a client's queue                              *)
  MaxEvents,   (* bound on the events                                      *)
  MaxTokens    (* bound on the tokens of a client                          *)

VARIABLES
  user,        (* Watchers -> the role of the client's user by now         *)
  pass,        (* Watchers -> the token: for whom it was issued            *)
  stream,      (* Watchers -> the connection                               *)
  feeds,       (* the subscriptions at the bus, of clients that are there  *)
               (* or gone: watcher, role and queue                         *)
  sent,        (* events emitted, in order                                 *)
  lagging      (* history: subscriptions whose queue has been full         *)

vars == <<user, pass, stream, feeds, sent, lagging>>

Roles == {"root", "admin", "operator", "teacher", "none"}
Events == [level: {"audit", "warning"}, category: {"escalation", "hash_chain"}, domain: {"mine", "other"}]
NoPass == [at |-> "none", role |-> "none", issued |-> 0]
NoStream == [open |-> FALSE, feed |-> 0, role |-> "none", shown |-> <<>>, seen |-> 0]

TypeOK ==
  /\ user \in [Watchers -> Roles]
  /\ pass \in [Watchers -> [at: {"none", "issued", "used", "expired"}, role: Roles, issued: 0..MaxTokens]]
  /\ stream \in [Watchers -> [open: BOOLEAN, feed: Nat, role: Roles, shown: Seq(1..MaxEvents), seen: Nat]]
  /\ feeds \in Seq([of: Watchers, since: 0..MaxEvents, queue: Seq(1..MaxEvents)])
  /\ \A f \in Range(feeds) : Len(f.queue) <= QueueSize
  /\ sent \in Seq(Events) /\ Len(sent) <= MaxEvents
  /\ lagging \subseteq DOMAIN feeds

Init ==
  /\ user \in [Watchers -> Roles]
  /\ pass = [w \in Watchers |-> NoPass]
  /\ stream = [w \in Watchers |-> NoStream]
  /\ feeds = <<>> /\ sent = <<>> /\ lagging = {}

(* Administrators see what is of their domains or of none that is named,    *)
(* holders of a role in a domain its escalations, operators no audit.       *)
_event_visible_to_user(event, role) ==
  CASE role = "root" -> TRUE
    [] role = "admin" -> event.domain = "mine"
    [] role = "operator" -> event.level = "warning"
    [] role = "teacher" -> event.category = "escalation" /\ event.domain = "mine"
    [] OTHER -> FALSE

(* --- Tokens --------------------------------------------------------------- *)

get_sse_token(w) ==
  /\ user[w] # "none" /\ pass[w].at # "issued" /\ pass[w].issued < MaxTokens
  /\ pass' = [pass EXCEPT ![w] = [at |-> "issued", role |-> user[w], issued |-> @.issued + 1]]
  /\ UNCHANGED <<user, stream, feeds, sent, lagging>>

(* Five minutes pass, and a later call purges it or finds it too old.       *)
_purge_expired_tokens(w) ==
  /\ pass[w].at = "issued"
  /\ pass' = [pass EXCEPT ![w].at = "expired"]
  /\ UNCHANGED <<user, stream, feeds, sent, lagging>>

_validate_sse_token(w) == pass[w].at = "issued"

(* --- The stream ----------------------------------------------------------- *)

event_stream(w) ==
  /\ _validate_sse_token(w) /\ ~stream[w].open
  /\ pass' = [pass EXCEPT ![w].at = "used"]
  /\ feeds' = Append(feeds, [of |-> w, since |-> Len(sent), queue |-> <<>>])
  /\ stream' = [stream EXCEPT ![w] = [open |-> TRUE, feed |-> Len(feeds'), role |-> pass[w].role, shown |-> <<>>, seen |-> Len(sent)]]
  /\ UNCHANGED <<user, sent, lagging>>

(* An event goes to every subscription; a queue that is full does not take  *)
(* the new one.                                                             *)
_on_event(event) ==
  /\ Len(sent) < MaxEvents
  /\ sent' = Append(sent, event)
  /\ feeds' = [f \in DOMAIN feeds |->
       IF Len(feeds[f].queue) < QueueSize THEN [feeds[f] EXCEPT !.queue = Append(@, Len(sent'))] ELSE feeds[f]]
  /\ lagging' = lagging \cup {f \in DOMAIN feeds : Len(feeds[f].queue) >= QueueSize}
  /\ UNCHANGED <<user, pass, stream>>

_generate(w) ==
  LET f == stream[w].feed
      e == Head(feeds[f].queue)
  IN
  /\ stream[w].open /\ feeds[f].queue # <<>>
  /\ feeds' = [feeds EXCEPT ![f].queue = Tail(@)]
  /\ stream' = [stream EXCEPT ![w].seen = e,
       ![w].shown = IF _event_visible_to_user(sent[e], stream[w].role) THEN Append(@, e) ELSE @]
  /\ UNCHANGED <<user, pass, sent, lagging>>

(* is_disconnected: the loop ends, its subscription does not.               *)
Disconnect(w) ==
  /\ stream[w].open
  /\ stream' = [stream EXCEPT ![w].open = FALSE]
  /\ UNCHANGED <<user, pass, feeds, sent, lagging>>

(* --- Accounts and the process --------------------------------------------- *)

ChangeRole(w) ==
  /\ \E role \in {"admin", "none"} \ {user[w]} : user' = [user EXCEPT ![w] = role]
  /\ UNCHANGED <<pass, stream, feeds, sent, lagging>>

Restart ==
  /\ pass' = [w \in Watchers |-> IF pass[w].at = "issued" THEN [pass[w] EXCEPT !.at = "expired"] ELSE pass[w]]
  /\ stream' = [w \in Watchers |-> NoStream]
  /\ feeds' = <<>> /\ sent' = <<>> /\ lagging' = {}
  /\ UNCHANGED user

Next ==
  \/ \E w \in Watchers :
       \/ get_sse_token(w) \/ _purge_expired_tokens(w) \/ event_stream(w)
       \/ _generate(w) \/ Disconnect(w) \/ ChangeRole(w)
  \/ \E event \in Kinds : _on_event(event)

Spec == Init /\ [][Next \/ Restart]_vars

(* ---- Properties ---------------------------------------------------------- *)

Increasing(s) == \A i, j \in DOMAIN s : i < j => s[i] < s[j]

(* A stream shows what its user, as the token knew it, may see of what was  *)
(* emitted since it was opened and was handled so far: in order, once, and  *)
(* all of it unless its own queue was full.                                 *)
StreamsAreFaithful ==
  \A w \in Watchers : stream[w].feed # 0 =>
    LET due == SelectSeq([i \in 1..stream[w].seen |-> i],
                 LAMBDA e : e > feeds[stream[w].feed].since /\ _event_visible_to_user(sent[e], stream[w].role))
    IN IF stream[w].feed \in lagging THEN Range(stream[w].shown) \subseteq Range(due) /\ Increasing(stream[w].shown)
       ELSE stream[w].shown = due

(* A client that does not read holds up no other one: a queue that was      *)
(* never full holds whatever was emitted and its connection has not taken.  *)
QueuesAreIndependent ==
  \A f \in DOMAIN feeds \ lagging :
    LET w == feeds[f].of IN
    stream[w].feed = f => feeds[f].queue = [i \in 1..(Len(sent) - stream[w].seen) |-> stream[w].seen + i]

(* There are no more subscriptions than tokens, and one token opens one.    *)
OneStreamEach == \A w \in Watchers : Cardinality({f \in DOMAIN feeds : feeds[f].of = w}) <= pass[w].issued
=============================================================================
