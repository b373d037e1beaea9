---------------------------- MODULE ApiServerProofs ----------------------------
(***************************************************************************)
(* Theorems about ApiServer, for any sets of users, clients, documents and *)
(* so on. A component's variables are changed by its own steps and by a    *)
(* restart only, so that its invariant is proved from its actions alone.   *)
(***************************************************************************)
EXTENDS ApiServer, Naturals, Sequences, TLAPS

-----------------------------------------------------------------------------
(* Tokens.                                                                 *)

LEMMA TokenSteps == [Next]_vars => Tok!Next \/ Tok!Restart \/ UNCHANGED tokenVars
BY DEF Next, vars, AccountStep, TokenStep, ConfirmationStep, StagingStep, IngestionStep, BusStep, RecordStep,
       DocumentStep, NightStep, PackStep, ManifestStep, ChainStep, FeedStep, GrantStep, PermissionStep,
       GovernanceStep, RetrievalStep, KnowledgeStep, GraphStep, Restart, peopleVars, workVars, storeVars,
       eventVars, groundingVars

(* A token says what the account still says, or is not older than the       *)
(* account's last change, unless it was issued from an outdated account.    *)
TokenInv ==
  /\ Tok!TypeOK
  /\ \A c \in Clients :
       IF Tok!Idle(c) THEN auth[c] = Tok!NoAuth
       ELSE auth[c].user \in Holders /\ (auth[c].op \in {"refresh", "switch"} => auth[c].token \in Tok!TokenIds)
  /\ \A u \in Holders : changed[u] <= clock
  /\ \A t \in Tok!TokenIds :
       /\ tokens[t].iat <= clock
       /\ tokens[t].stale \/ Tok!True(t) \/ tokens[t].iat <= changed[tokens[t].user]

LEMMA TokenInit == Tok!Init => TokenInv
<1> SUFFICES ASSUME Tok!Init PROVE TokenInv
  OBVIOUS
<1>1. tokens = << >> /\ Tok!TokenIds = {}
  BY DEF Tok!Init, Tok!TokenIds
<1>2. Tok!TypeOK
  <2>1. account \in [Holders -> Tok!Account]
    BY DEF Tok!Init, Tok!Account
  <2>2. Tok!NoAuth \in Tok!Auth
    BY DEF Tok!NoAuth, Tok!Auth, Tok!Tracks
  <2>3. tokens \in Seq(Tok!Token)
    BY <1>1
  <2>4. QED
    BY <1>1, <2>1, <2>2, <2>3 DEF Tok!Init, Tok!TypeOK
<1>3. QED
  BY <1>1, <1>2, TokensAssumption DEF Tok!Init, TokenInv, Tok!TokensAssumption, Tok!Idle, Tok!NoAuth

LEMMA TokenTypes ==
  ASSUME TokenInv
  PROVE  /\ account \in [Holders -> Tok!Account] /\ changed \in [Holders -> Nat] /\ edits \in Nat
         /\ clock \in Nat /\ tokens \in Seq(Tok!Token) /\ Len(tokens) \in Nat /\ TTL \in Nat
         /\ \A t \in Tok!TokenIds : tokens[t] \in Tok!Token /\ tokens[t].user \in Holders /\ tokens[t].iat \in Nat
         /\ auth \in [Clients -> Tok!Auth]
<1>1. tokens \in Seq(Tok!Token) /\ Tok!TokenIds = 1..Len(tokens)
  BY DEF TokenInv, Tok!TypeOK, Tok!TokenIds
<1>2. \A t \in Tok!TokenIds : tokens[t] \in Tok!Token
  BY <1>1
<1>3. \A t \in Tok!TokenIds : tokens[t].user \in Holders /\ tokens[t].iat \in Nat
  BY <1>2 DEF Tok!Token
<1>4. QED
  BY <1>1, <1>2, <1>3, TokensAssumption DEF TokenInv, Tok!TypeOK, Tok!TokensAssumption

(* A request is begun: nothing but its own record changes.                  *)
LEMMA TokenBegins ==
  ASSUME TokenInv, NEW c \in Clients, NEW new \in Tok!Auth, new.user \in Holders, new.op # "none",
         new.op \in {"refresh", "switch"} => new.token \in Tok!TokenIds,
         auth' = [auth EXCEPT ![c] = new], UNCHANGED <<account, changed, edits, clock, tokens, revoked>>
  PROVE  TokenInv'
<1>1. Tok!TypeOK'
  BY DEF TokenInv, Tok!TypeOK, Tok!TokenIds
<1>2. \A d \in Clients : 
        IF auth'[d].op = "none" THEN auth'[d] = Tok!NoAuth
        ELSE auth'[d].user \in Holders /\ (auth'[d].op \in {"refresh", "switch"} => auth'[d].token \in Tok!TokenIds)
  BY TokenTypes DEF TokenInv, Tok!Idle
<1>3. QED
  BY <1>1, <1>2 DEF TokenInv, Tok!Idle, Tok!TokenIds, Tok!True

LEMMA TokenRequests ==
  ASSUME TokenInv, NEW c \in Clients,
         \/ \E u \in Holders, track \in Tok!Tracks : Tok!Login(c, u, track)
         \/ \E u \in Holders : Tok!SetupPassword(c, u)
         \/ \E t \in Tok!TokenIds, track \in Tok!Tracks : Tok!Refresh(c, t, track)
         \/ \E t \in Tok!TokenIds, site \in Sites : Tok!switch_operating_context(c, t, site)
         \/ Tok!ReadAccount(c)
  PROVE  TokenInv'
<1> USE TokenTypes
<1>0. Tok!NoAuth = [op |-> "none", track |-> "user", user |-> NoUser, token |-> 0, site |-> NoSite, read |-> {}]
      /\ "user" \in Tok!Tracks /\ \A t \in Tok!TokenIds : t \in Nat
  BY DEF Tok!NoAuth, Tok!Tracks, Tok!TokenIds
<1>1. ASSUME NEW u \in Holders, NEW track \in Tok!Tracks, Tok!Login(c, u, track) PROVE TokenInv'
  <2>1. [Tok!NoAuth EXCEPT !.op = "login", !.track = track, !.user = u] \in Tok!Auth
    BY <1>0 DEF Tok!Auth, Tok!Operations
  <2>2. QED
    BY <1>0, <1>1, <2>1, TokenBegins DEF Tok!Login
<1>2. ASSUME NEW u \in Holders, Tok!SetupPassword(c, u) PROVE TokenInv'
  <2>1. [Tok!NoAuth EXCEPT !.op = "setup_password", !.user = u] \in Tok!Auth
    BY <1>0 DEF Tok!Auth, Tok!Operations
  <2>2. QED
    BY <1>0, <1>2, <2>1, TokenBegins DEF Tok!SetupPassword
<1>3. ASSUME NEW t \in Tok!TokenIds, NEW track \in Tok!Tracks, Tok!Refresh(c, t, track) PROVE TokenInv'
  <2>1. [Tok!NoAuth EXCEPT !.op = "refresh", !.track = track, !.user = tokens[t].user, !.token = t] \in Tok!Auth
    BY <1>0 DEF Tok!Auth, Tok!Operations
  <2>2. QED
    BY <1>0, <1>3, <2>1, TokenBegins DEF Tok!Refresh
<1>4. ASSUME NEW t \in Tok!TokenIds, NEW site \in Sites, Tok!switch_operating_context(c, t, site) PROVE TokenInv'
  <2>1. [Tok!NoAuth EXCEPT !.op = "switch", !.user = tokens[t].user, !.token = t, !.site = site] \in Tok!Auth
    BY <1>0 DEF Tok!Auth, Tok!Operations
  <2>2. QED
    BY <1>0, <1>4, <2>1, TokenBegins DEF Tok!switch_operating_context
<1>5. ASSUME Tok!ReadAccount(c) PROVE TokenInv'
  <2>1. auth[c] \in Tok!Auth /\ auth[c].op # "none" /\ auth[c].user \in Holders
        /\ (auth[c].op \in {"refresh", "switch"} => auth[c].token \in Tok!TokenIds)
    BY <1>5 DEF TokenInv, Tok!ReadAccount, Tok!Idle
  <2>2. [auth[c] EXCEPT !.read = {account[auth[c].user]}] \in Tok!Auth
    <3>1. account[auth[c].user] \in Tok!Account
      BY <2>1
    <3>2. QED
      BY <2>1, <3>1 DEF Tok!Auth
  <2>3. auth' = [auth EXCEPT ![c] = [auth[c] EXCEPT !.read = {account[auth[c].user]}]]
    BY <1>5 DEF Tok!ReadAccount
  <2>4. QED
    BY <1>5, <2>1, <2>2, <2>3, TokenBegins DEF Tok!ReadAccount, Tok!Auth
<1>6. QED
  BY <1>1, <1>2, <1>3, <1>4, <1>5

(* A request ends without a token.                                         *)
LEMMA TokenEnds ==
  ASSUME TokenInv, NEW c \in Clients, auth' = [auth EXCEPT ![c] = Tok!NoAuth],
         UNCHANGED <<account, changed, edits, clock, tokens>>, revoked' \subseteq Tok!TokenIds
  PROVE  TokenInv'
<1>1. Tok!NoAuth \in Tok!Auth /\ Tok!NoAuth.op = "none"
  BY DEF Tok!NoAuth, Tok!Auth, Tok!Tracks
<1>2. Tok!TypeOK'
  BY <1>1 DEF TokenInv, Tok!TypeOK, Tok!TokenIds
<1>3. QED
  BY <1>1, <1>2, TokenTypes DEF TokenInv, Tok!Idle, Tok!TokenIds, Tok!True

(* A token is issued that is marked, or true.                              *)
LEMMA TokenIsIssued ==
  ASSUME TokenInv, NEW c \in Clients, auth' = [auth EXCEPT ![c] = Tok!NoAuth],
         UNCHANGED <<account, changed, edits, clock>>, revoked' \subseteq Tok!TokenIds,
         NEW new \in Tok!Token, tokens' = Append(tokens, new), new.iat = clock,
         \/ new.stale
         \/ LET acc == account[new.user] IN
              acc.active /\ acc.role = new.role /\ (new.site = NoSite \/ new.site \in acc.sites)
  PROVE  TokenInv'
<1>1. Tok!NoAuth \in Tok!Auth /\ Tok!NoAuth.op = "none"
  BY DEF Tok!NoAuth, Tok!Auth, Tok!Tracks
<1>2. /\ tokens \in Seq(Tok!Token) /\ Len(tokens) \in Nat /\ tokens' \in Seq(Tok!Token)
      /\ Tok!TokenIds = 1..Len(tokens) /\ Tok!TokenIds' = 1..(Len(tokens) + 1)
      /\ \A t \in Tok!TokenIds : tokens'[t] = tokens[t]
      /\ tokens'[Len(tokens) + 1] = new
  BY TokenTypes DEF Tok!TokenIds
<1>3. Tok!TokenIds \subseteq Tok!TokenIds' /\ \A t \in Tok!TokenIds' : t \in Tok!TokenIds \/ t = Len(tokens) + 1
  BY <1>2
<1>4. Tok!TypeOK'
  BY <1>1, <1>2, <1>3, TokenTypes DEF TokenInv, Tok!TypeOK
<1>5. \A d \in Clients :
        IF auth'[d].op = "none" THEN auth'[d] = Tok!NoAuth
        ELSE auth'[d].user \in Holders /\ (auth'[d].op \in {"refresh", "switch"} => auth'[d].token \in Tok!TokenIds')
  BY <1>1, <1>3, TokenTypes DEF TokenInv, Tok!Idle
<1>6. \A t \in Tok!TokenIds :
        /\ tokens'[t].iat <= clock
        /\ tokens'[t].stale \/ Tok!True(t)' \/ tokens'[t].iat <= changed[tokens'[t].user]
  BY <1>2 DEF TokenInv, Tok!True
<1>7. ASSUME NEW t, t = Len(tokens) + 1
      PROVE  tokens'[t].iat <= clock /\ (tokens'[t].stale \/ Tok!True(t)')
  BY <1>2, <1>7, TokenTypes DEF Tok!True
<1>8. QED
  BY <1>3, <1>4, <1>5, <1>6, <1>7 DEF TokenInv, Tok!Idle

(* What a request answers: nothing, or a token with the claims of the       *)
(* account it has read; unless marked, they are those of the account now.   *)
LEMMA TokenAnswers ==
  ASSUME TokenInv, NEW c \in Clients, Tok!Answer(c)
  PROVE  TokenInv'
<1> USE TokenTypes
<1>1. PICK acc \in auth[c].read :
        LET sites == Tok!resolve_operating_context(c, acc) IN
        IF ~Tok!Admits(c, acc) \/ sites = {}
        THEN Tok!Finish(c) /\ UNCHANGED <<tokens, revoked>>
        ELSE /\ revoked' = IF auth[c].op = "switch" THEN revoked \cup {auth[c].token} ELSE revoked
             /\ \/ \E site \in sites : Tok!Issue(c, acc, site)
                \/ auth[c].op = "switch" /\ Tok!Finish(c) /\ UNCHANGED tokens
  BY DEF Tok!Answer
<1>2. UNCHANGED <<account, changed, edits, clock>>
  BY DEF Tok!Answer
<1>3. auth[c] \in Tok!Auth /\ acc \in Tok!Account /\ auth[c].op \in Tok!Operations /\ auth[c].user \in Holders
      /\ (auth[c].op = "switch" => auth[c].token \in Tok!TokenIds)
  <2>1. auth[c] \in Tok!Auth
    OBVIOUS
  <2>2. acc \in Tok!Account /\ auth[c].op \in Tok!Operations \cup {"none"}
    BY <2>1 DEF Tok!Auth
  <2>3. auth[c] # Tok!NoAuth
    BY DEF Tok!NoAuth
  <2>4. QED
    BY <2>1, <2>2, <2>3 DEF TokenInv, Tok!Idle
<1>4. revoked' = revoked \/ (auth[c].op = "switch" /\ revoked' = revoked \cup {auth[c].token})
  BY <1>1
<1>5. revoked' \subseteq Tok!TokenIds
  BY <1>3, <1>4 DEF TokenInv, Tok!TypeOK
<1>6. CASE Tok!Finish(c) /\ tokens' = tokens
  BY <1>2, <1>5, <1>6, TokenEnds DEF Tok!Finish
<1>7. ASSUME Tok!Admits(c, acc), NEW site \in Tok!resolve_operating_context(c, acc), Tok!Issue(c, acc, site)
      PROVE  TokenInv'
  <2> DEFINE new == [user |-> auth[c].user, role |-> acc.role, site |-> site, iat |-> clock,
                     stale |-> acc # account[auth[c].user] \/ (~acc.active /\ auth[c].op = "setup_password")]
  <2>1. acc.sites \subseteq Sites /\ acc.role \in Tok!Roles /\ acc.active \in BOOLEAN
    BY <1>3 DEF Tok!Account
  <2>2. site = NoSite \/ site \in acc.sites
    BY <1>3, <1>7 DEF Tok!resolve_operating_context, Tok!default_operating_context, Tok!Operations
  <2>3. new \in Tok!Token
    BY <1>3, <2>1, <2>2 DEF Tok!Token
  <2>4. acc.active \/ auth[c].op = "setup_password"
    BY <1>3, <1>7 DEF Tok!Admits, Tok!Operations
  <2>5. auth' = [auth EXCEPT ![c] = Tok!NoAuth] /\ tokens' = Append(tokens, new)
    BY <1>7 DEF Tok!Issue, Tok!Finish
  <2>6. new.stale \/ LET a == account[new.user] IN
                        a.active /\ a.role = new.role /\ (new.site = NoSite \/ new.site \in a.sites)
    BY <2>1, <2>2, <2>4
  <2> HIDE DEF new
  <2>7. new.iat = clock
    BY DEF new
  <2>8. QED
    BY <1>2, <1>5, <2>3, <2>5, <2>6, <2>7, TokenIsIssued
<1>8. QED
  BY <1>1, <1>6, <1>7

LEMMA AccountChanges ==
  ASSUME TokenInv, NEW u \in Holders, Tok!ChangeAccount(u)
  PROVE  TokenInv'
<1>1. /\ account' \in [Holders -> Tok!Account] /\ \A v \in Holders \ {u} : account'[v] = account[v]
  <2>1. account[u] \in Tok!Account
    BY TokenTypes
  <2>2. \A role \in Tok!Roles : [account[u] EXCEPT !.role = role] \in Tok!Account
    BY <2>1 DEF Tok!Account
  <2>3. \A sites \in SUBSET Sites : [account[u] EXCEPT !.sites = sites] \in Tok!Account
    BY <2>1 DEF Tok!Account
  <2>4. [account[u] EXCEPT !.active = FALSE] \in Tok!Account
    BY <2>1 DEF Tok!Account
  <2>5. \E new \in Tok!Account : account' = [account EXCEPT ![u] = new]
    BY <2>2, <2>3, <2>4 DEF Tok!ChangeAccount
  <2>6. QED
    BY <2>5, TokenTypes
<1>2. /\ changed' = [changed EXCEPT ![u] = clock] /\ edits' = edits + 1
      /\ UNCHANGED <<clock, tokens, revoked, auth>>
  BY DEF Tok!ChangeAccount
<1>3. Tok!TypeOK'
  BY <1>1, <1>2, TokenTypes DEF TokenInv, Tok!TypeOK, Tok!TokenIds
<1>4. \A v \in Holders : changed'[v] <= clock /\ changed[v] <= changed'[v]
  BY <1>2, TokenTypes DEF TokenInv
<1>5. ASSUME NEW t \in Tok!TokenIds
      PROVE  tokens[t].stale \/ Tok!True(t)' \/ tokens[t].iat <= changed'[tokens[t].user]
  <2>1. CASE tokens[t].user = u
    BY <1>2, <2>1, TokenTypes DEF TokenInv
  <2>2. CASE tokens[t].user # u
    BY <1>1, <1>2, <2>2, TokenTypes DEF TokenInv, Tok!True
  <2>3. QED
    BY <2>1, <2>2
<1>6. QED
  BY <1>2, <1>3, <1>4, <1>5 DEF TokenInv, Tok!Idle, Tok!TokenIds

LEMMA TokensStay == TokenInv /\ [Next]_vars => TokenInv'
<1> SUFFICES ASSUME TokenInv, [Next]_vars PROVE TokenInv'
  OBVIOUS
<1>1. CASE UNCHANGED tokenVars
  BY <1>1 DEF tokenVars, TokenInv, Tok!TypeOK, Tok!Idle, Tok!TokenIds, Tok!True
<1>2. CASE Tok!Restart
  <2>1. Tok!NoAuth \in Tok!Auth /\ Tok!NoAuth.op = "none"
    BY DEF Tok!NoAuth, Tok!Auth, Tok!Tracks
  <2>2. QED
    BY <1>2, <2>1 DEF TokenInv, Tok!Restart, Tok!TypeOK, Tok!Idle, Tok!TokenIds, Tok!True
<1>3. ASSUME NEW t \in Tok!TokenIds, Tok!revoke_token(t) PROVE TokenInv'
  BY <1>3 DEF TokenInv, Tok!revoke_token, Tok!TypeOK, Tok!Idle, Tok!TokenIds, Tok!True
<1>4. ASSUME Tok!Tick PROVE TokenInv'
  <2>1. Tok!TypeOK'
    BY <1>4, TokenTypes DEF TokenInv, Tok!Tick, Tok!TypeOK, Tok!TokenIds
  <2>2. QED
    BY <1>4, <2>1, TokenTypes DEF TokenInv, Tok!Tick, Tok!Idle, Tok!TokenIds, Tok!True
<1>5. CASE Tok!Next
  BY <1>3, <1>4, <1>5, TokenRequests, TokenAnswers, AccountChanges DEF Tok!Next
<1>6. QED
  BY <1>1, <1>2, <1>5, TokenSteps

LEMMA TokensInvariant == Spec => []TokenInv
<1>1. Init => TokenInv
  BY TokenInit DEF Init
<1>2. QED
  BY <1>1, TokensStay, PTL DEF Spec

(* A token that the account no longer bears out, and that was not issued    *)
(* from an outdated account, is refused a lifetime after the last change.   *)
THEOREM ClaimsDoExpire == Spec => []ClaimsExpire
<1>1. TokenInv => ClaimsExpire
  <2> SUFFICES ASSUME TokenInv, NEW t \in Tok!TokenIds, Tok!verify_scoped_jwt(t), ~Tok!True(t), ~tokens[t].stale
               PROVE  clock <= changed[tokens[t].user] + TTL
    BY DEF ClaimsExpire, Tok!ClaimsExpire
  <2>1. tokens[t].iat <= changed[tokens[t].user] /\ clock <= tokens[t].iat + TTL
    BY DEF TokenInv, Tok!verify_scoped_jwt
  <2>2. QED
    BY <2>1, TokenTypes
<1>2. QED
  BY <1>1, TokensInvariant, PTL

-----------------------------------------------------------------------------
(* Confirmations.                                                          *)

Preflighting == {"record", "evaluate", "escalate", "wait"}

(* What a request knows of its decision at each place. A decision that is   *)
(* not evaluated yet, or not inserted yet, is in one request only.          *)
ServingInv(r) ==
  LET s == serving[r] IN
  /\ s.pc # "idle" => s.decision \in Decisions
  /\ s.pc \in {"record", "evaluate"} => s.decision \notin evaluated
  /\ s.pc \in {"evaluate", "escalate", "wait"} => s.decision \notin pending \cup Routes
  /\ s.pc = "escalate" => s.decision \in Escalated
  /\ s.pc \in {"escalate", "wait", "confirm", "answer"} => s.decision \in evaluated
  /\ s.pc \in {"confirm", "answer"} => s.thread = NoThread \/ s.thread \in bound
  /\ s.pc = "answer" => <<s.decision, s.thread>> \in confirmed
  /\ s.pc \in Preflighting =>
       \A q \in Confirmers : serving[q].pc # "idle" /\ serving[q].decision = s.decision => q = r

AnswerInv(d) ==
  /\ answers[d] <= 1
  /\ d \in pending => answers[d] = 0 /\ (d \in evaluated \/ d \in Routes)
  /\ answers[d] > 0 =>
       /\ d \in evaluated
       /\ \E t \in Threads \cup {NoThread} : <<d, t>> \in confirmed
       /\ \A r \in Confirmers : serving[r].decision = d => serving[r].pc \notin Preflighting

ConfirmationInv ==
  /\ Conf!TypeOK
  /\ \A r \in Confirmers : ServingInv(r)
  /\ \A d \in Decisions : AnswerInv(d)
  /\ \A d \in Decisions, t \in Threads : <<d, t>> \in confirmed => t \in bound

LEMMA ConfirmationInit == Conf!Init => ConfirmationInv
<1> SUFFICES ASSUME Conf!Init PROVE ConfirmationInv
  OBVIOUS
<1>1. Conf!TypeOK
  BY DEF Conf!Init, Conf!TypeOK, Conf!Idle, Conf!Serving
<1>2. \A r \in Confirmers : ServingInv(r)
  BY DEF Conf!Init, ServingInv, Preflighting, Conf!Idle
<1>3. \A d \in Decisions : AnswerInv(d)
  BY DEF Conf!Init, AnswerInv
<1>4. QED
  BY <1>1, <1>2, <1>3 DEF Conf!Init, ConfirmationInv

LEMMA ConfirmationTypes ==
  ASSUME ConfirmationInv
  PROVE  /\ pending \subseteq Decisions /\ late \subseteq pending /\ answers \in [Decisions -> Nat]
         /\ serving \in [Confirmers -> Conf!Serving] /\ NoThread \notin Threads
         /\ \A r \in Confirmers : /\ serving[r] \in Conf!Serving
                                  /\ serving[r].decision \in Decisions \cup {NoDecision}
                                  /\ serving[r].thread \in Threads \cup {NoThread}
<1>1. \A r \in Confirmers : serving[r] \in Conf!Serving
  BY DEF ConfirmationInv, Conf!TypeOK
<1>2. QED
  BY <1>1, ConfirmationsAssumption DEF ConfirmationInv, Conf!TypeOK, Conf!Serving, Conf!ConfirmationsAssumption

LEMMA PreflightKeeps ==
  ASSUME ConfirmationInv, NEW r \in Confirmers, NEW d \in Decisions,
         Conf!preflight_route(r, d) \/ Conf!preflight_precedent(r, d)
  PROVE  ConfirmationInv'
<1> USE ConfirmationTypes
<1>1. PICK pc \in {"record", "evaluate"} : serving' = [serving EXCEPT ![r] = [pc |-> pc, decision |-> d, thread |-> NoThread]]
  BY DEF Conf!preflight_route, Conf!preflight_precedent, Conf!Enter
<1>2. /\ serving[r].pc = "idle" /\ d \notin evaluated /\ \A q \in Confirmers : serving[q].decision # d
      /\ UNCHANGED <<bound, evaluated, escalations, confirmed, answers>>
  BY DEF Conf!preflight_route, Conf!preflight_precedent, Conf!At, Conf!Fresh
<1>3. \/ pc = "record" /\ d \in Routes /\ pending' = (pending \ (late \cap Routes)) \cup {d}
      \/ pc = "evaluate" /\ d \notin Routes /\ pending' = pending
  BY <1>1 DEF Conf!preflight_route, Conf!preflight_precedent, Conf!Enter
<1>4. Conf!TypeOK'
  <2>1. [pc |-> pc, decision |-> d, thread |-> NoThread] \in Conf!Serving
    BY DEF Conf!Serving
  <2>2. serving' \in [Confirmers -> Conf!Serving]
    BY <1>1, <2>1
  <2>3. /\ pending' \subseteq Decisions /\ consumed' \subseteq Decisions
        /\ late' \subseteq pending' /\ forgotten' \subseteq consumed'
    BY DEF ConfirmationInv, Conf!TypeOK, Conf!preflight_route, Conf!preflight_precedent
  <2>4. QED
    BY <1>2, <2>2, <2>3 DEF ConfirmationInv, Conf!TypeOK
<1>5. ASSUME NEW q \in Confirmers PROVE ServingInv(q)'
  BY <1>1, <1>2, <1>3 DEF ConfirmationInv, ServingInv, AnswerInv, Preflighting
<1>6. ASSUME NEW e \in Decisions PROVE AnswerInv(e)'
  BY <1>1, <1>2, <1>3 DEF ConfirmationInv, AnswerInv, Preflighting
<1>7. QED
  BY <1>2, <1>4, <1>5, <1>6 DEF ConfirmationInv

(* An append, or its failure: the stores in memory stay as they are.        *)
LEMMA AppendsKeep ==
  ASSUME ConfirmationInv, NEW r \in Confirmers,
         \/ Conf!RecordRoute(r) \/ Conf!RecordPrecedent(r) \/ Conf!Escalate(r) \/ Conf!AppendFails(r)
         \/ Conf!AppendConfirmed(r)
  PROVE  ConfirmationInv'
<1> USE ConfirmationTypes
<1> DEFINE d == serving[r].decision
<1>1. /\ Conf!Idle \in Conf!Serving /\ Conf!Idle.pc = "idle"
      /\ serving[r].pc # "idle" /\ d \in Decisions
      /\ UNCHANGED <<pending, consumed, late, forgotten, bound, answers>>
      /\ evaluated \subseteq evaluated' /\ confirmed \subseteq confirmed'
  BY DEF ConfirmationInv, ServingInv, Conf!Idle, Conf!Serving, Conf!RecordRoute, Conf!RecordPrecedent, Conf!Escalate,
         Conf!AppendFails, Conf!AppendConfirmed, Conf!At
<1>2. CASE Conf!RecordRoute(r) \/ Conf!AppendFails(r) \/ Conf!Escalate(r)
  <2>1. /\ serving' = [serving EXCEPT ![r] = Conf!Idle] /\ confirmed' = confirmed
        /\ evaluated' = evaluated \/ (serving[r].pc = "record" /\ evaluated' = evaluated \cup {d})
        /\ escalations' = escalations \/ (serving[r].pc = "escalate" /\ escalations' = escalations \cup {d})
    BY <1>2 DEF Conf!RecordRoute, Conf!AppendFails, Conf!Escalate, Conf!Leave, Conf!At
  <2>2. Conf!TypeOK'
    BY <1>1, <2>1 DEF ConfirmationInv, ServingInv, Conf!TypeOK
  <2>3. ASSUME NEW q \in Confirmers PROVE ServingInv(q)'
    BY <1>1, <2>1 DEF ConfirmationInv, ServingInv, Preflighting
  <2>4. ASSUME NEW e \in Decisions PROVE AnswerInv(e)'
    BY <1>1, <2>1 DEF ConfirmationInv, AnswerInv, Preflighting
  <2>5. QED
    BY <1>1, <2>1, <2>2, <2>3, <2>4 DEF ConfirmationInv
<1>3. CASE Conf!RecordPrecedent(r)
  <2>1. PICK pc \in {"escalate", "wait"} :
          /\ serving' = [serving EXCEPT ![r] = [pc |-> pc, decision |-> d, thread |-> NoThread]]
          /\ pc = "escalate" => d \in Escalated
    BY <1>3 DEF Conf!RecordPrecedent, Conf!Enter
  <2>2. /\ serving[r].pc = "evaluate" /\ evaluated' = evaluated \cup {d}
        /\ UNCHANGED <<escalations, confirmed>>
    BY <1>3 DEF Conf!RecordPrecedent, Conf!At
  <2>3. [pc |-> pc, decision |-> d, thread |-> NoThread] \in Conf!Serving
    BY <1>1 DEF Conf!Serving
  <2>4. Conf!TypeOK'
    BY <1>1, <2>1, <2>2, <2>3 DEF ConfirmationInv, Conf!TypeOK
  <2>5. ASSUME NEW q \in Confirmers PROVE ServingInv(q)'
    BY <1>1, <2>1, <2>2 DEF ConfirmationInv, ServingInv, Preflighting
  <2>6. ASSUME NEW e \in Decisions PROVE AnswerInv(e)'
    BY <1>1, <2>1, <2>2 DEF ConfirmationInv, AnswerInv, Preflighting
  <2>7. QED
    BY <1>1, <2>2, <2>4, <2>5, <2>6 DEF ConfirmationInv
<1>4. CASE Conf!AppendConfirmed(r)
  <2>1. /\ serving[r].pc = "confirm" /\ confirmed' = confirmed \cup {<<d, serving[r].thread>>}
        /\ serving' = [serving EXCEPT ![r] = [pc |-> "answer", decision |-> d, thread |-> serving[r].thread]]
        /\ UNCHANGED <<evaluated, escalations>>
    BY <1>4 DEF Conf!AppendConfirmed, Conf!Enter, Conf!At
  <2>2. [pc |-> "answer", decision |-> d, thread |-> serving[r].thread] \in Conf!Serving
    BY <1>1 DEF Conf!Serving
  <2>3. Conf!TypeOK'
    BY <1>1, <2>1, <2>2 DEF ConfirmationInv, Conf!TypeOK
  <2>4. ASSUME NEW q \in Confirmers PROVE ServingInv(q)'
    BY <1>1, <2>1 DEF ConfirmationInv, ServingInv, Preflighting
  <2>5. ASSUME NEW e \in Decisions PROVE AnswerInv(e)'
    BY <1>1, <2>1 DEF ConfirmationInv, AnswerInv, Preflighting
  <2>6. ASSUME NEW e \in Decisions, NEW t \in Threads, <<e, t>> \in confirmed' PROVE t \in bound'
    BY <1>1, <2>1, <2>6 DEF ConfirmationInv, ServingInv
  <2>7. QED
    BY <2>3, <2>4, <2>5, <2>6 DEF ConfirmationInv
<1>5. QED
  BY <1>2, <1>3, <1>4

LEMMA StoresKeep ==
  ASSUME ConfirmationInv, NEW r \in Confirmers, NEW d \in Decisions, NEW t \in Threads \cup {NoThread},
         Conf!WaitForConfirmation(r) \/ Conf!confirm(r, d, t) \/ Conf!Answer(r)
  PROVE  ConfirmationInv'
<1> USE ConfirmationTypes
<1>1. Conf!Idle \in Conf!Serving /\ Conf!Idle.pc = "idle" /\ UNCHANGED <<evaluated, escalations, confirmed>>
  BY DEF Conf!Idle, Conf!Serving, Conf!WaitForConfirmation, Conf!confirm, Conf!Answer
<1>2. /\ pending' \subseteq Decisions /\ consumed' \subseteq Decisions
      /\ late' \subseteq pending' /\ forgotten' \subseteq consumed'
  <2>1. CASE Conf!WaitForConfirmation(r)
    <3>1. serving[r].decision \in Decisions
      BY <2>1 DEF ConfirmationInv, ServingInv, Conf!WaitForConfirmation, Conf!At
    <3>2. QED
      BY <2>1, <3>1 DEF ConfirmationInv, Conf!TypeOK, Conf!WaitForConfirmation
  <2>2. CASE Conf!confirm(r, d, t)
    BY <2>2 DEF ConfirmationInv, Conf!TypeOK, Conf!confirm, Conf!Prune
  <2>3. CASE Conf!Answer(r)
    <3>1. serving[r].decision \in Decisions
      BY <2>3 DEF ConfirmationInv, ServingInv, Conf!Answer, Conf!At
    <3>2. QED
      BY <2>3, <3>1 DEF ConfirmationInv, Conf!TypeOK, Conf!Answer
  <2>4. QED
    BY <2>1, <2>2, <2>3
<1>3. CASE Conf!WaitForConfirmation(r)
  <2>1. /\ serving[r].pc = "wait" /\ serving' = [serving EXCEPT ![r] = Conf!Idle]
        /\ pending' \subseteq pending \cup {serving[r].decision}
        /\ UNCHANGED <<bound, answers>>
    BY <1>3 DEF Conf!WaitForConfirmation, Conf!Leave, Conf!At
  <2>2. Conf!TypeOK'
    BY <1>1, <1>2, <2>1 DEF ConfirmationInv, Conf!TypeOK
  <2>3. ASSUME NEW q \in Confirmers PROVE ServingInv(q)'
    BY <1>1, <2>1 DEF ConfirmationInv, ServingInv, Preflighting
  <2>4. serving[r].decision \in evaluated
    BY <2>1 DEF ConfirmationInv, ServingInv
  <2>5. ASSUME NEW e \in Decisions PROVE AnswerInv(e)'
    BY <1>1, <2>1, <2>4 DEF ConfirmationInv, AnswerInv, Preflighting
  <2>6. QED
    BY <1>1, <2>1, <2>2, <2>3, <2>5 DEF ConfirmationInv
<1>4. CASE Conf!confirm(r, d, t)
  <2>1. /\ serving[r].pc = "idle" /\ serving' = [serving EXCEPT ![r] = [pc |-> "confirm", decision |-> d, thread |-> t]]
        /\ d \in evaluated /\ d \in pending /\ pending' \subseteq pending /\ answers' = answers
        /\ bound \subseteq bound' /\ (t = NoThread \/ t \in bound') /\ bound' \subseteq bound \cup {t}
        /\ (t # NoThread \/ bound' = bound)
    BY <1>4 DEF Conf!confirm, Conf!Prune, Conf!Enter, Conf!At
  <2>2. [pc |-> "confirm", decision |-> d, thread |-> t] \in Conf!Serving
    BY DEF Conf!Serving
  <2>3. Conf!TypeOK'
    BY <1>1, <1>2, <2>1, <2>2 DEF ConfirmationInv, Conf!TypeOK
  <2>4. ASSUME NEW q \in Confirmers PROVE ServingInv(q)'
    BY <1>1, <2>1 DEF ConfirmationInv, ServingInv, Preflighting
  <2>5. ASSUME NEW e \in Decisions PROVE AnswerInv(e)'
    BY <1>1, <2>1 DEF ConfirmationInv, AnswerInv, Preflighting
  <2>6. QED
    BY <1>1, <2>1, <2>3, <2>4, <2>5 DEF ConfirmationInv
<1>5. CASE Conf!Answer(r)
  <2> DEFINE a == serving[r].decision
  <2>1. /\ serving[r].pc = "answer" /\ serving' = [serving EXCEPT ![r] = Conf!Idle] /\ bound' = bound
        /\ \/ a \in pending /\ pending' = pending \ {a} /\ answers' = [answers EXCEPT ![a] = @ + 1]
           \/ pending' = pending /\ answers' = answers
    BY <1>5 DEF Conf!Answer, Conf!Leave, Conf!At
  <2>2. /\ a \in Decisions /\ a \in evaluated /\ <<a, serving[r].thread>> \in confirmed
        /\ \A q \in Confirmers : serving[q].decision = a => serving[q].pc \notin Preflighting
    BY <2>1 DEF ConfirmationInv, ServingInv, Preflighting
  <2>3. answers' \in [Decisions -> Nat]
    BY <2>1, <2>2
  <2>4. Conf!TypeOK'
    BY <1>1, <1>2, <2>1, <2>3 DEF ConfirmationInv, Conf!TypeOK
  <2>5. ASSUME NEW q \in Confirmers PROVE ServingInv(q)'
    BY <1>1, <2>1 DEF ConfirmationInv, ServingInv, Preflighting
  <2>6. ASSUME NEW e \in Decisions PROVE AnswerInv(e)'
    <3>1. CASE e = a
      BY <1>1, <2>1, <2>2, <3>1 DEF ConfirmationInv, AnswerInv, Preflighting
    <3>2. CASE e # a
      BY <1>1, <2>1, <2>2, <3>2 DEF ConfirmationInv, AnswerInv, Preflighting
    <3>3. QED
      BY <3>1, <3>2
  <2>7. QED
    BY <1>1, <2>1, <2>4, <2>5, <2>6 DEF ConfirmationInv
<1>6. QED
  BY <1>3, <1>4, <1>5

(* What is refused, expires or is lost only leaves the stores.              *)
LEMMA StoresShrink ==
  ASSUME ConfirmationInv,
         Conf!Restart \/ \E d \in Decisions : Conf!Refused(d) \/ Conf!PendingExpires(d) \/ Conf!ConsumedExpires(d)
  PROVE  ConfirmationInv'
<1> USE ConfirmationTypes
<1>1. /\ pending' \subseteq pending /\ consumed' \subseteq consumed /\ late' \subseteq pending' /\ forgotten' \subseteq consumed'
      /\ UNCHANGED <<bound, evaluated, escalations, confirmed, answers>>
      /\ serving' = serving \/ serving' = [r \in Confirmers |-> Conf!Idle]
  BY DEF ConfirmationInv, Conf!TypeOK, Conf!Restart, Conf!Refused, Conf!Prune, Conf!PendingExpires, Conf!ConsumedExpires
<1>2. Conf!Idle \in Conf!Serving /\ Conf!Idle.pc = "idle"
  BY DEF Conf!Idle, Conf!Serving
<1>3. Conf!TypeOK'
  BY <1>1, <1>2 DEF ConfirmationInv, Conf!TypeOK
<1>4. ASSUME NEW r \in Confirmers PROVE ServingInv(r)'
  BY <1>1, <1>2 DEF ConfirmationInv, ServingInv, Preflighting
<1>5. ASSUME NEW d \in Decisions PROVE AnswerInv(d)'
  BY <1>1, <1>2 DEF ConfirmationInv, AnswerInv, Preflighting
<1>6. QED
  BY <1>1, <1>3, <1>4, <1>5 DEF ConfirmationInv

LEMMA ConfirmationsStay ==
  ASSUME ConfirmationInv, Conf!Next \/ Conf!Restart \/ UNCHANGED confirmationVars
  PROVE  ConfirmationInv'
<1>1. CASE UNCHANGED confirmationVars
  BY <1>1 DEF confirmationVars, ConfirmationInv, Conf!TypeOK, ServingInv, AnswerInv
<1>2. ASSUME NEW r \in Confirmers, Conf!Handle(r) PROVE ConfirmationInv'
  <2>1. CASE Conf!Answer(r) \/ Conf!WaitForConfirmation(r)
    <3>1. serving[r].decision \in Decisions
      BY <2>1 DEF ConfirmationInv, ServingInv, Conf!Answer, Conf!WaitForConfirmation, Conf!At
    <3>2. QED
      BY <2>1, <3>1, StoresKeep
  <2>2. QED
    BY <1>2, <2>1, PreflightKeeps, AppendsKeep, StoresKeep DEF Conf!Handle
<1>3. QED
  BY <1>1, <1>2, StoresShrink DEF Conf!Next

LEMMA AnswersAreKept ==
  ASSUME ConfirmationInv, Conf!Next \/ Conf!Restart
  PROVE  Conf!KeepsAnswers
<1> SUFFICES ASSUME NEW d \in Decisions, answers[d] > 0, NEW r \in Confirmers,
                    serving'[r].decision = d, serving'[r].pc \in {"confirm", "answer"}
             PROVE  serving[r].decision = d /\ serving[r].pc \in {"confirm", "answer"}
  BY DEF Conf!KeepsAnswers, Conf!Confirming
<1> USE ConfirmationTypes
<1>1. d \notin pending
  BY DEF ConfirmationInv, AnswerInv
<1>2. CASE Conf!Restart
  BY <1>2 DEF Conf!Restart, Conf!Idle
<1>3. ASSUME NEW q \in Confirmers, Conf!Handle(q)
      PROVE  serving[r].decision = d /\ serving[r].pc \in {"confirm", "answer"}
  <2>1. CASE q # r
    BY <1>3, <2>1 DEF Conf!Handle, Conf!preflight_route, Conf!preflight_precedent, Conf!RecordRoute, Conf!RecordPrecedent,
       Conf!Escalate, Conf!WaitForConfirmation, Conf!AppendFails, Conf!confirm, Conf!AppendConfirmed, Conf!Answer,
       Conf!Enter, Conf!Leave
  <2>2. CASE q = r
    BY <1>1, <1>3, <2>2 DEF Conf!Handle, Conf!preflight_route, Conf!preflight_precedent, Conf!RecordRoute,
       Conf!RecordPrecedent, Conf!Escalate, Conf!WaitForConfirmation, Conf!AppendFails, Conf!confirm, Conf!AppendConfirmed,
       Conf!Answer, Conf!Enter, Conf!Leave, Conf!At, Conf!Idle
  <2>3. QED
    BY <2>1, <2>2
<1>4. QED
  BY <1>2, <1>3 DEF Conf!Next, Conf!Refused, Conf!PendingExpires, Conf!ConsumedExpires

LEMMA ConfirmationsAreSound ==
  ASSUME ConfirmationInv
  PROVE  Conf!AnsweredOnce /\ Conf!AnsweredIsRecorded /\ Conf!ConfirmedIsBound
BY DEF ConfirmationInv, AnswerInv, Conf!AnsweredOnce, Conf!AnsweredIsRecorded, Conf!ConfirmedIsBound

-----------------------------------------------------------------------------
(* Staged files.                                                           *)

(* The envelope of a file agrees with its transaction.                      *)
EnvelopeInv(f) ==
  envelope[f] \notin {NoEnvelope, Cut} =>
    LET e == envelope[f] IN
    \/ e.approval_status = "pending" /\ e.transaction = "VALIDATED"
    \/ e.approval_status = "approved" /\ e.transaction = "FINALIZED" /\ e.final_path \in Targets
         /\ target[e.final_path] # NoFile
    \/ e.approval_status = "rejected" /\ e.transaction = "ROLLED_BACK"

(* What the operation under way will persist, and what is in the envelope   *)
(* until it does.                                                           *)
JobInv ==
  LET f == job.file
      n == job.next
      approves == n.approval_status = "approved" /\ n.final_path \in Targets
  IN
  /\ job.pc = "idle" => f = NoFile
  /\ job.pc # "idle" => f \in Files /\ n \in Stag!Envelope
  /\ job.pc = "validate" => envelope[f] = NoEnvelope /\ n.approval_status = "pending" /\ n.transaction = "PROPOSED"
  /\ job.pc \in {"place", "finalize"} => Stag!Pending(f) /\ approves /\ n.transaction = "COMMITTED"
  /\ job.pc = "finalize" => target[n.final_path] # NoFile
  /\ job.pc \in {"open", "write"} =>
       \/ n.approval_status = "pending" /\ n.transaction = "VALIDATED" /\ envelope[f] \in {NoEnvelope, Cut}
       \/ approves /\ n.transaction = "FINALIZED" /\ target[n.final_path] # NoFile
            /\ (Stag!Pending(f) \/ envelope[f] = Cut)
       \/ n.approval_status = "rejected" /\ n.transaction = "ROLLED_BACK"
            /\ (Stag!Pending(f) \/ envelope[f] = Cut)
  /\ job.pc = "write" => envelope[f] = Cut

StagingInv ==
  /\ Stag!TypeOK
  /\ JobInv
  /\ \A f \in Files : EnvelopeInv(f)
  /\ Stag!InPlaceIsApproved

LEMMA StagingConstants ==
  /\ NoFile \notin Files /\ Cut \notin Stag!Envelope /\ NoEnvelope \notin Stag!Envelope \cup {Cut}
BY StagingAssumption DEF Stag!StagingAssumption

LEMMA StagingInit == Stag!Init => StagingInv
<1> SUFFICES ASSUME Stag!Init PROVE StagingInv
  OBVIOUS
<1> USE StagingConstants
<1>1. Stag!TypeOK
  BY DEF Stag!Init, Stag!TypeOK, Stag!Idle, Stag!Job
<1>2. JobInv
  BY DEF Stag!Init, JobInv, Stag!Idle
<1>3. Stag!InPlaceIsApproved /\ \A f \in Files : EnvelopeInv(f)
  BY DEF Stag!Init, EnvelopeInv, Stag!InPlaceIsApproved
<1>4. QED
  BY <1>1, <1>2, <1>3 DEF StagingInv

LEMMA StagingTypes ==
  ASSUME StagingInv
  PROVE  /\ job \in Stag!Job /\ job.next \in Stag!Envelope \cup {Cut}
         /\ envelope \in [Files -> Stag!Envelope \cup {NoEnvelope, Cut}]
         /\ target \in [Targets -> Files \cup {NoFile}]
         /\ \A f \in Files : envelope[f] \notin {NoEnvelope, Cut} => envelope[f] \in Stag!Envelope
BY DEF StagingInv, Stag!TypeOK, Stag!Job

(* An operation begins.                                                     *)
LEMMA StagingBegins ==
  ASSUME StagingInv, NEW f \in Files,
         Stag!stage_file(f) \/ Stag!reject_staged(f) \/ \E t \in Targets : Stag!approve_staged(f, t)
  PROVE  StagingInv' /\ (UNCHANGED Stag!snapshot \/ Stag!Kernel!Next)
<1> USE StagingConstants, StagingTypes
<1>1. PICK pc \in {"validate", "open", "place"}, next \in Stag!Envelope :
        /\ job.pc = "idle" /\ job' = [pc |-> pc, file |-> f, next |-> next]
        /\ UNCHANGED <<envelope, target, interrupted>>
        /\ \/ /\ pc = "validate" /\ next.approval_status = "pending" /\ next.transaction = "PROPOSED"
              /\ envelope[f] = NoEnvelope
           \/ /\ pc = "open" /\ next.approval_status = "rejected" /\ next.transaction = "ROLLED_BACK"
              /\ Stag!Pending(f)
           \/ /\ pc = "place" /\ next.approval_status = "approved" /\ next.transaction = "COMMITTED"
              /\ next.final_path \in Targets /\ Stag!Pending(f)
  <2>1. CASE Stag!stage_file(f)
    <3>1. [approval_status |-> "pending", final_path |-> NoTarget, transaction |-> "PROPOSED"] \in Stag!Envelope
      BY DEF Stag!Envelope, Stag!Kernel!TransactionState
    <3>2. QED
      BY <2>1, <3>1 DEF Stag!stage_file, Stag!Start, Stag!Does
  <2>2. ASSUME NEW t \in Targets, Stag!approve_staged(f, t)
        PROVE  \E next \in Stag!Envelope :
                 /\ job.pc = "idle" /\ job' = [pc |-> "place", file |-> f, next |-> next]
                 /\ UNCHANGED <<envelope, target, interrupted>> /\ Stag!Pending(f)
                 /\ next.approval_status = "approved" /\ next.transaction = "COMMITTED" /\ next.final_path \in Targets
    <3>1. [approval_status |-> "approved", final_path |-> t, transaction |-> "COMMITTED"] \in Stag!Envelope
      BY DEF Stag!Envelope, Stag!Kernel!TransactionState
    <3>2. QED
      BY <2>2, <3>1 DEF Stag!approve_staged, Stag!Start, Stag!Does
  <2>3. CASE Stag!reject_staged(f)
    <3>1. envelope[f] \in Stag!Envelope
      BY <2>3 DEF Stag!reject_staged, Stag!Pending
    <3>2. [envelope[f] EXCEPT !.approval_status = "rejected", !.transaction = "ROLLED_BACK"] \in Stag!Envelope
      BY <3>1 DEF Stag!Envelope, Stag!Kernel!TransactionState
    <3>3. QED
      BY <2>3, <3>1, <3>2 DEF Stag!reject_staged, Stag!Start, Stag!Does, Stag!Envelope
  <2>4. QED
    BY <2>1, <2>2, <2>3
<1>2. Stag!TypeOK'
  BY <1>1 DEF StagingInv, Stag!TypeOK, Stag!Job
<1>3. JobInv'
  BY <1>1 DEF JobInv, Stag!Pending
<1>4. job.file = NoFile
  BY <1>1 DEF StagingInv, JobInv
<1>5. Stag!InPlaceIsApproved'
  <2> SUFFICES ASSUME NEW p \in Targets, NEW g \in Files, target[p] = g, g \notin interrupted
               PROVE  \/ job'.file = g /\ job'.next.approval_status = "approved"
                      \/ Stag!Resolved(g)' /\ envelope'[g].approval_status = "approved"
    BY <1>1 DEF Stag!InPlaceIsApproved
  <2>1. Stag!Resolved(g) /\ envelope[g].approval_status = "approved"
    BY <1>4 DEF StagingInv, Stag!InPlaceIsApproved
  <2>2. QED
    BY <1>1, <2>1 DEF Stag!Resolved
<1>6. \A g \in Files : EnvelopeInv(g)'
  BY <1>1 DEF StagingInv, EnvelopeInv
<1>7. UNCHANGED Stag!snapshot \/ Stag!Kernel!Next
  <2>1. \A g \in Files : g # f => Stag!snapshot'[g] = Stag!snapshot[g]
    BY <1>1, <1>4 DEF Stag!snapshot
  <2>2. /\ Stag!snapshot'[f] = next.transaction
        /\ Stag!snapshot[f] = IF envelope[f] = NoEnvelope THEN "unborn" ELSE "VALIDATED"
    BY <1>1, <1>4 DEF Stag!snapshot, StagingInv, EnvelopeInv, Stag!Pending
  <2>3. Stag!snapshot' = [Stag!snapshot EXCEPT ![f] = next.transaction]
    BY <2>1, <2>2 DEF Stag!snapshot
  <2>4. QED
    BY <1>1, <2>2, <2>3 DEF Stag!Kernel!Next, Stag!Kernel!Propose, Stag!Kernel!advance, Stag!Kernel!can_advance,
       Stag!Kernel!LEGAL_TRANSITIONS, Stag!Kernel!TransactionState, Stag!Kernel!Unborn, Stag!Pending
<1>8. QED
  BY <1>2, <1>3, <1>5, <1>6, <1>7 DEF StagingInv

(* An operation goes on in memory, or puts the payload in place.            *)
LEMMA StagingContinues ==
  ASSUME StagingInv, Stag!Validate \/ Stag!write_from_template \/ Stag!Finalize
  PROVE  StagingInv' /\ (UNCHANGED Stag!snapshot \/ Stag!Kernel!Next)
<1> USE StagingConstants, StagingTypes
<1> DEFINE f == job.file
           n == job.next
<1>1. /\ f \in Files /\ n \in Stag!Envelope /\ UNCHANGED <<envelope, interrupted>>
      /\ job.pc \in {"validate", "place", "finalize"}
  BY DEF StagingInv, JobInv, Stag!Validate, Stag!write_from_template, Stag!Finalize, Stag!Does
<1>2. \/ /\ job.pc = "validate" /\ job' = [job EXCEPT !.pc = "open", !.next.transaction = "VALIDATED"]
         /\ target' = target
      \/ /\ job.pc = "place" /\ job' = [job EXCEPT !.pc = "finalize"]
         /\ target' = [target EXCEPT ![n.final_path] = f]
      \/ /\ job.pc = "finalize" /\ job' = [job EXCEPT !.pc = "open", !.next.transaction = "FINALIZED"]
         /\ target' = target
  BY DEF Stag!Validate, Stag!write_from_template, Stag!Finalize, Stag!Does, Stag!Continue
<1>3. /\ job'.file = f /\ job'.next \in Stag!Envelope
      /\ job'.next.approval_status = n.approval_status /\ job'.next.final_path = n.final_path
      /\ job'.pc \in {"open", "finalize"}
      /\ \/ job.pc = "validate" /\ job'.pc = "open" /\ job'.next.transaction = "VALIDATED"
         \/ job.pc = "place" /\ job'.pc = "finalize" /\ job'.next.transaction = n.transaction
         \/ job.pc = "finalize" /\ job'.pc = "open" /\ job'.next.transaction = "FINALIZED"
  <2>1. ASSUME NEW state \in Stag!Kernel!TransactionState
        PROVE  LET new == [n EXCEPT !.transaction = state] IN
                 /\ new \in Stag!Envelope /\ new.transaction = state
                 /\ new.approval_status = n.approval_status /\ new.final_path = n.final_path
    BY <1>1 DEF Stag!Envelope
  <2>2. \/ /\ job'.file = f /\ job'.next = n
           /\ job.pc = "place" /\ job'.pc = "finalize"
        \/ /\ job'.file = f /\ job'.next = [n EXCEPT !.transaction = "VALIDATED"]
           /\ job.pc = "validate" /\ job'.pc = "open"
        \/ /\ job'.file = f /\ job'.next = [n EXCEPT !.transaction = "FINALIZED"]
           /\ job.pc = "finalize" /\ job'.pc = "open"
    BY <1>2 DEF Stag!Job
  <2>3. {"VALIDATED", "FINALIZED"} \subseteq Stag!Kernel!TransactionState
    BY DEF Stag!Kernel!TransactionState
  <2>4. ASSUME NEW state \in {"VALIDATED", "FINALIZED"}, job'.next = [n EXCEPT !.transaction = state]
        PROVE  /\ job'.next \in Stag!Envelope /\ job'.next.transaction = state
               /\ job'.next.approval_status = n.approval_status /\ job'.next.final_path = n.final_path
    BY <2>1, <2>3, <2>4
  <2>5. QED
    BY <1>1, <2>2, <2>4
<1>4. Stag!TypeOK'
  <2>1. job' \in Stag!Job
    BY <1>1, <1>2, <1>3 DEF Stag!Job
  <2>2. target' \in [Targets -> Files \cup {NoFile}]
    BY <1>1, <1>2
  <2>3. QED
    BY <1>1, <2>1, <2>2 DEF StagingInv, Stag!TypeOK
<1>5. \A p \in Targets : target'[p] = target[p] \/ (target'[p] = f /\ n.approval_status = "approved")
  BY <1>1, <1>2 DEF StagingInv, JobInv
<1>6. \A p \in Targets : target[p] # NoFile => target'[p] # NoFile
  BY <1>1, <1>5
<1>7. JobInv'
  <2>1. job.pc = "place" => target'[n.final_path] # NoFile
    BY <1>1, <1>2 DEF StagingInv, JobInv
  <2>2. QED
    BY <1>1, <1>3, <1>6, <2>1 DEF StagingInv, JobInv, Stag!Pending
<1>8. Stag!InPlaceIsApproved'
  <2> SUFFICES ASSUME NEW p \in Targets, NEW g \in Files, target'[p] = g, g \notin interrupted
               PROVE  \/ job'.file = g /\ job'.next.approval_status = "approved"
                      \/ Stag!Resolved(g)' /\ envelope'[g].approval_status = "approved"
    BY <1>1 DEF Stag!InPlaceIsApproved
  <2>1. CASE target'[p] = target[p]
    BY <1>1, <1>3, <2>1 DEF StagingInv, Stag!InPlaceIsApproved, Stag!Resolved
  <2>2. QED
    BY <1>3, <1>5, <2>1
<1>9. \A g \in Files : EnvelopeInv(g)'
  BY <1>1, <1>6 DEF StagingInv, EnvelopeInv
<1>10. UNCHANGED Stag!snapshot \/ Stag!Kernel!Next
  <2>1. \A g \in Files : g # f => Stag!snapshot'[g] = Stag!snapshot[g]
    BY <1>1, <1>3 DEF Stag!snapshot
  <2>2. Stag!snapshot'[f] = job'.next.transaction /\ Stag!snapshot[f] = n.transaction
    BY <1>1, <1>3 DEF Stag!snapshot
  <2>3. Stag!snapshot' = [Stag!snapshot EXCEPT ![f] = job'.next.transaction]
    BY <2>1, <2>2 DEF Stag!snapshot
  <2>4. CASE job.pc = "place"
    <3>1. \A g \in Files : Stag!snapshot'[g] = Stag!snapshot[g]
      BY <1>3, <2>1, <2>2, <2>4
    <3>2. UNCHANGED Stag!snapshot
      BY <3>1 DEF Stag!snapshot
    <3>3. QED
      BY <3>2
  <2>5. CASE job.pc = "validate"
    BY <1>1, <1>3, <2>2, <2>3, <2>5 DEF StagingInv, JobInv, Stag!Kernel!Next, Stag!Kernel!advance, Stag!Kernel!can_advance,
       Stag!Kernel!LEGAL_TRANSITIONS, Stag!Kernel!TransactionState
  <2>6. CASE job.pc = "finalize"
    BY <1>1, <1>3, <2>2, <2>3, <2>6 DEF StagingInv, JobInv, Stag!Kernel!Next, Stag!Kernel!advance, Stag!Kernel!can_advance,
       Stag!Kernel!LEGAL_TRANSITIONS, Stag!Kernel!TransactionState
  <2>7. QED
    BY <1>1, <2>4, <2>5, <2>6
<1>11. QED
  BY <1>4, <1>7, <1>8, <1>9, <1>10 DEF StagingInv

(* The envelope is emptied, and then written.                               *)
LEMMA StagingWrites ==
  ASSUME StagingInv, Stag!OpenEnvelope \/ Stag!_persist_envelope
  PROVE  StagingInv' /\ UNCHANGED Stag!snapshot
<1> USE StagingConstants, StagingTypes
<1> DEFINE f == job.file
           n == job.next
<1>1. f \in Files /\ n \in Stag!Envelope /\ UNCHANGED <<target, interrupted>> /\ job.pc \in {"open", "write"}
  BY DEF StagingInv, JobInv, Stag!OpenEnvelope, Stag!_persist_envelope, Stag!Does
<1>2. \/ /\ job.pc = "open" /\ job' = [job EXCEPT !.pc = "write"] /\ envelope' = [envelope EXCEPT ![f] = Cut]
      \/ /\ job.pc = "write" /\ job' = Stag!Idle /\ envelope' = [envelope EXCEPT ![f] = n]
  BY DEF Stag!OpenEnvelope, Stag!_persist_envelope, Stag!Does
<1>3. \/ /\ job.pc = "open" /\ job'.pc = "write" /\ job'.file = f /\ job'.next = n /\ envelope'[f] = Cut
      \/ /\ job.pc = "write" /\ job'.pc = "idle" /\ job'.file = NoFile /\ envelope'[f] = n
  BY <1>1, <1>2 DEF Stag!Job, Stag!Idle
<1>4. \A g \in Files : g # f => envelope'[g] = envelope[g]
  BY <1>1, <1>2
<1>5. Stag!TypeOK'
  <2>1. job' \in Stag!Job
    BY <1>1, <1>2 DEF Stag!Job, Stag!Idle
  <2>2. QED
    BY <1>1, <1>2, <2>1 DEF StagingInv, Stag!TypeOK
<1>6. JobInv'
  BY <1>1, <1>3 DEF StagingInv, JobInv, Stag!Pending
<1>7. ASSUME NEW g \in Files PROVE EnvelopeInv(g)'
  <2>1. CASE g # f
    BY <1>1, <1>4, <2>1 DEF StagingInv, EnvelopeInv
  <2>2. CASE g = f
    BY <1>1, <1>3, <2>2 DEF StagingInv, JobInv, EnvelopeInv
  <2>3. QED
    BY <2>1, <2>2
<1>8. Stag!InPlaceIsApproved'
  <2> SUFFICES ASSUME NEW p \in Targets, NEW g \in Files, target[p] = g, g \notin interrupted
               PROVE  \/ job'.file = g /\ job'.next.approval_status = "approved"
                      \/ Stag!Resolved(g)' /\ envelope'[g].approval_status = "approved"
    BY <1>1 DEF Stag!InPlaceIsApproved
  <2>1. \/ f = g /\ n.approval_status = "approved"
        \/ Stag!Resolved(g) /\ envelope[g].approval_status = "approved"
    BY DEF StagingInv, Stag!InPlaceIsApproved
  <2>2. CASE f # g
    BY <1>1, <1>4, <2>1, <2>2 DEF Stag!Resolved
  <2>3. CASE f = g /\ n.approval_status = "approved"
    BY <1>1, <1>3, <2>3 DEF Stag!Resolved
  <2>4. CASE f = g /\ Stag!Resolved(g)
    BY <1>1, <2>4 DEF StagingInv, JobInv, Stag!Resolved, Stag!Pending
  <2>5. QED
    BY <2>1, <2>2, <2>3, <2>4
<1>9. UNCHANGED Stag!snapshot
  <2>1. \A g \in Files : Stag!snapshot'[g] = Stag!snapshot[g]
    BY <1>1, <1>3, <1>4 DEF Stag!snapshot
  <2>2. QED
    BY <2>1 DEF Stag!snapshot
<1>10. QED
  BY <1>5, <1>6, <1>7, <1>8, <1>9 DEF StagingInv

LEMMA StagingInterrupted ==
  ASSUME StagingInv, Stag!Interrupt
  PROVE  StagingInv'
<1> USE StagingConstants, StagingTypes
<1>1. /\ UNCHANGED <<envelope, target>> /\ job' = Stag!Idle /\ job.file \in Files
      /\ interrupted' = interrupted \cup {job.file}
  BY DEF StagingInv, JobInv, Stag!Interrupt, Stag!Does
<1>2. Stag!TypeOK' /\ JobInv' /\ \A g \in Files : EnvelopeInv(g)'
  BY <1>1 DEF StagingInv, Stag!TypeOK, Stag!Job, Stag!Idle, JobInv, EnvelopeInv
<1>3. Stag!InPlaceIsApproved'
  BY <1>1 DEF StagingInv, Stag!InPlaceIsApproved, Stag!Resolved
<1>4. QED
  BY <1>2, <1>3 DEF StagingInv

LEMMA StagingStays ==
  ASSUME StagingInv, Stag!Next \/ Stag!Restart \/ UNCHANGED stagingVars
  PROVE  StagingInv'
<1>1. CASE UNCHANGED stagingVars
  BY <1>1 DEF stagingVars, StagingInv, Stag!TypeOK, JobInv, EnvelopeInv, Stag!InPlaceIsApproved, Stag!Pending, Stag!Resolved
<1>2. CASE Stag!Restart
  BY <1>1, <1>2, StagingInterrupted DEF Stag!Restart, Stag!vars, stagingVars
<1>3. QED
  BY <1>1, <1>2, StagingBegins, StagingContinues, StagingWrites, StagingInterrupted DEF Stag!Next

(* A resolved envelope stays, and so does one that was cut.                 *)
LEMMA ResolutionsAreKept ==
  ASSUME StagingInv, Stag!Next \/ Stag!Restart
  PROVE  Stag!KeepsResolutions
<1> USE StagingConstants, StagingTypes
<1>1. \/ envelope' = envelope
      \/ job.pc \in {"open", "write"} /\ \E e : envelope' = [envelope EXCEPT ![job.file] = e]
  BY DEF Stag!Next, Stag!Restart, Stag!Interrupt, Stag!stage_file, Stag!reject_staged, Stag!approve_staged, Stag!Validate,
         Stag!write_from_template, Stag!Finalize, Stag!OpenEnvelope, Stag!_persist_envelope, Stag!Does, Stag!vars
<1>2. job.pc \in {"open", "write"} => ~Stag!Resolved(job.file)
  BY DEF StagingInv, JobInv, Stag!Resolved, Stag!Pending
<1>3. QED
  BY <1>1, <1>2 DEF Stag!KeepsResolutions, Stag!Resolved

LEMMA StagingAdvances ==
  ASSUME StagingInv, Stag!Next \/ Stag!Restart
  PROVE  Stag!AdvancesLegally
<1>1. CASE Stag!Restart
  BY <1>1 DEF Stag!Restart, Stag!AdvancesLegally, Stag!snapshot, Stag!vars
<1>2. QED
  BY <1>1, StagingBegins, StagingContinues, StagingWrites DEF Stag!Next, Stag!AdvancesLegally

LEMMA StagingIsSound ==
  ASSUME StagingInv
  PROVE  Stag!InPlaceIsApproved /\ Stag!ApprovedIsInPlace
BY StagingTypes DEF StagingInv, EnvelopeInv, Stag!ApprovedIsInPlace, Stag!Resolved

-----------------------------------------------------------------------------
(* Documents.                                                              *)

(* What a document's record says of its last review.                        *)
ReviewInv(d) ==
  /\ status[d] = "approved" => decision[d] \in {"approve", "edit"}
  /\ decision[d] \in {"approve", "edit"} /\ selected[d] # 0 => <<d, selected[d]>> \in approved

(* No review runs while a commit waits, so that it commits the last one.    *)
CommitInv ==
  commit # Ing!NoCommit =>
    /\ commit.document \in Documents /\ commit.pick \in Ing!Version
    /\ commit.pick = selected[commit.document]
    /\ decision[commit.document] \in {"approve", "edit"}

IngestionInv ==
  /\ Ing!TypeOK
  /\ \A d \in Documents : ReviewInv(d)
  /\ CommitInv
  /\ Ing!CommittedWasReviewed

LEMMA IngestionTypes ==
  ASSUME IngestionInv
  PROVE  /\ status \in [Documents -> {"none", "lost", "pending_extraction", "extracting", "extraction_complete",
                                      "approved", "rejected", "committed"}]
         /\ interps \in [Documents -> SUBSET Ing!Version] /\ selected \in [Documents -> Ing!Version \cup {0}]
         /\ decision \in [Documents -> {"none", "approve", "edit", "reject"}]
         /\ versions \in Nat /\ MaxVersions \in Nat /\ 0 \notin Ing!Version
         /\ (versions < MaxVersions => versions + 1 \in Ing!Version)
         /\ \A v \in 0..versions : v \in Ing!Version \cup {0}
         /\ \A x \in Extractors : extractor[x] \in [document: Documents \cup {NoDocument}, interpreted: BOOLEAN]
         /\ commit \in [document: Documents \cup {NoDocument}, pick: Ing!Version \cup {0}]
BY IngestionAssumption DEF IngestionInv, Ing!TypeOK, Ing!Version, Ing!IngestionAssumption

LEMMA IngestionInit == Ing!Init => IngestionInv
<1> SUFFICES ASSUME Ing!Init PROVE IngestionInv
  OBVIOUS
<1>1. Ing!TypeOK
  BY IngestionAssumption DEF Ing!IngestionAssumption, Ing!Init, Ing!TypeOK, Ing!Free, Ing!NoCommit, Ing!Version
<1>2. QED
  BY <1>1 DEF Ing!Init, IngestionInv, ReviewInv, CommitInv, Ing!CommittedWasReviewed

(* An extraction changes the status and the interpretations only.           *)
LEMMA ExtractionsKeep ==
  ASSUME IngestionInv,
         \/ \E d \in Documents : Ing!accept_document(d)
         \/ \E x \in Extractors : \/ Ing!ExtractInterpretations(x) \/ Ing!ExtractComplete(x) \/ Ing!ExtractFails(x)
                                  \/ \E d \in Documents : Ing!ExtractStart(x, d)
  PROVE  IngestionInv'
<1> USE IngestionTypes
<1>1. UNCHANGED <<selected, decision, commit, ledger, approved>>
  BY DEF Ing!accept_document, Ing!ExtractInterpretations, Ing!ExtractComplete, Ing!ExtractFails, Ing!ExtractStart
<1>2. \/ status' = status
      \/ \E d \in Documents \cup {NoDocument}, new \in {"pending_extraction", "extracting", "extraction_complete"} : status' = [status EXCEPT ![d] = new]
  BY DEF Ing!accept_document, Ing!ExtractInterpretations, Ing!ExtractComplete, Ing!ExtractFails, Ing!ExtractStart, Ing!Status
<1>3. /\ interps' \in [Documents -> SUBSET Ing!Version] /\ versions' \in 0..MaxVersions
      /\ extractor' \in [Extractors -> [document: Documents \cup {NoDocument}, interpreted: BOOLEAN]]
  <2>1. /\ interps \in [Documents -> SUBSET Ing!Version] /\ versions \in 0..MaxVersions
        /\ extractor \in [Extractors -> [document: Documents \cup {NoDocument}, interpreted: BOOLEAN]]
    BY DEF IngestionInv, Ing!TypeOK
  <2>2. ASSUME NEW x \in Extractors, Ing!ExtractInterpretations(x)
        PROVE  /\ interps' \in [Documents -> SUBSET Ing!Version] /\ versions' \in 0..MaxVersions
               /\ extractor' \in [Extractors -> [document: Documents \cup {NoDocument}, interpreted: BOOLEAN]]
    <3>1. /\ versions' = versions + 1 /\ versions < MaxVersions
          /\ interps' = [interps EXCEPT ![extractor[x].document] = {versions + 1}]
          /\ extractor' = [extractor EXCEPT ![x].interpreted = TRUE]
      BY <2>2 DEF Ing!ExtractInterpretations
    <3>2. {versions + 1} \in SUBSET Ing!Version /\ versions' \in 0..MaxVersions
      BY <2>1, <3>1
    <3>3. QED
      BY <2>1, <3>1, <3>2
  <2>3. ASSUME NEW x \in Extractors, Ing!ExtractComplete(x) \/ Ing!ExtractFails(x)
        PROVE  extractor' \in [Extractors -> [document: Documents \cup {NoDocument}, interpreted: BOOLEAN]]
    <3>1. Ing!Free \in [document: Documents \cup {NoDocument}, interpreted: BOOLEAN]
      BY DEF Ing!Free
    <3>2. extractor' = [extractor EXCEPT ![x] = Ing!Free]
      BY <2>3 DEF Ing!ExtractComplete, Ing!ExtractFails
    <3>3. QED
      BY <2>1, <3>1, <3>2
  <2>4. ASSUME NEW x \in Extractors, NEW d \in Documents, Ing!ExtractStart(x, d)
        PROVE  extractor' \in [Extractors -> [document: Documents \cup {NoDocument}, interpreted: BOOLEAN]]
    BY <2>1, <2>4 DEF Ing!ExtractStart
  <2>5. QED
    BY <2>1, <2>2, <2>3, <2>4 DEF Ing!accept_document, Ing!ExtractComplete, Ing!ExtractFails, Ing!ExtractStart
<1>4. Ing!TypeOK'
  BY <1>1, <1>2, <1>3 DEF IngestionInv, Ing!TypeOK
<1>5. \A d \in Documents : ReviewInv(d)'
  BY <1>1, <1>2 DEF IngestionInv, ReviewInv
<1>6. QED
  BY <1>1, <1>4, <1>5 DEF IngestionInv, CommitInv, Ing!CommittedWasReviewed

LEMMA ReviewsKeep ==
  ASSUME IngestionInv, NEW d \in Documents,
         Ing!Edit(d) \/ Ing!Reject(d) \/ \E v \in Ing!Version : Ing!Approve(d, v)
  PROVE  IngestionInv'
<1> USE IngestionTypes
<1>1. PICK what \in {"approve", "edit", "reject"}, selection \in Ing!Version \cup {0} : Ing!Decide(d, what, selection)
  BY DEF Ing!Edit, Ing!Reject, Ing!Approve
<1>2. /\ commit = Ing!NoCommit /\ UNCHANGED <<extractor, commit, ledger>>
      /\ decision' = [decision EXCEPT ![d] = what] /\ selected' = [selected EXCEPT ![d] = selection]
      /\ status' = [status EXCEPT ![d] = IF what = "reject" THEN "rejected" ELSE "approved"]
      /\ approved' = IF what = "reject" \/ selection = 0 THEN approved ELSE approved \cup {<<d, selection>>}
  BY <1>1 DEF Ing!Decide, Ing!LoopIsFree, Ing!Status, Ing!Edit, Ing!Reject, Ing!Approve
<1>3. versions' \in 0..MaxVersions /\ interps' \in [Documents -> SUBSET Ing!Version]
  BY DEF IngestionInv, Ing!TypeOK, Ing!Edit, Ing!Reject, Ing!Approve
<1>4. Ing!TypeOK'
  <2>1. approved' \subseteq Documents \X Ing!Version
    BY <1>2 DEF IngestionInv, Ing!TypeOK
  <2>2. /\ status' \in [Documents -> {"none", "lost", "pending_extraction", "extracting", "extraction_complete",
                                     "approved", "rejected", "committed"}]
        /\ selected' \in [Documents -> Ing!Version \cup {0}]
        /\ decision' \in [Documents -> {"none", "approve", "edit", "reject"}]
    BY <1>2
  <2>3. QED
    BY <1>2, <1>3, <2>1, <2>2 DEF IngestionInv, Ing!TypeOK
<1>5. \A e \in Documents : ReviewInv(e)'
  BY <1>2 DEF IngestionInv, ReviewInv
<1>6. QED
  BY <1>2, <1>4, <1>5 DEF IngestionInv, CommitInv, Ing!CommittedWasReviewed

LEMMA CommitsKeep ==
  ASSUME IngestionInv, Ing!CommitEnd \/ \E d \in Documents : Ing!CommitStart(d)
  PROVE  IngestionInv'
<1> USE IngestionTypes
<1>1. UNCHANGED <<interps, selected, decision, extractor, versions, approved>>
  BY DEF Ing!CommitStart, Ing!CommitEnd
<1>2. ASSUME NEW d \in Documents, Ing!CommitStart(d) PROVE IngestionInv'
  <2>1. /\ commit' = [document |-> d, pick |-> selected[d]] /\ UNCHANGED <<status, ledger>>
        /\ status[d] = "approved" /\ selected[d] \in Ing!Version
    BY <1>2 DEF Ing!CommitStart
  <2>2. Ing!TypeOK' /\ CommitInv'
    BY <1>1, <2>1 DEF IngestionInv, Ing!TypeOK, CommitInv, ReviewInv
  <2>3. QED
    BY <1>1, <2>1, <2>2 DEF IngestionInv, ReviewInv, Ing!CommittedWasReviewed
<1>3. CASE Ing!CommitEnd
  <2>1. /\ commit # Ing!NoCommit /\ commit' = Ing!NoCommit /\ status' = [status EXCEPT ![commit.document] = "committed"]
        /\ ledger' \in {ledger, ledger \cup {<<commit.document, commit.pick>>}}
    BY <1>3 DEF Ing!CommitEnd, Ing!LoopIsFree, Ing!Status
  <2>2. <<commit.document, commit.pick>> \in approved /\ commit.document \in Documents /\ commit.pick \in Ing!Version
    BY <2>1 DEF IngestionInv, CommitInv, ReviewInv
  <2>3. Ing!TypeOK' /\ CommitInv' /\ Ing!CommittedWasReviewed'
    BY <1>1, <2>1, <2>2 DEF IngestionInv, Ing!TypeOK, CommitInv, Ing!CommittedWasReviewed, Ing!NoCommit
  <2>4. \A d \in Documents : ReviewInv(d)'
    BY <1>1, <2>1 DEF IngestionInv, ReviewInv
  <2>5. QED
    BY <2>3, <2>4 DEF IngestionInv
<1>4. QED
  BY <1>2, <1>3

LEMMA IngestionStays ==
  ASSUME IngestionInv, Ing!Next \/ Ing!Restart \/ UNCHANGED ingestionVars
  PROVE  IngestionInv'
<1>1. CASE UNCHANGED ingestionVars
  BY <1>1 DEF ingestionVars, IngestionInv, Ing!TypeOK, ReviewInv, CommitInv, Ing!CommittedWasReviewed
<1>2. CASE Ing!Restart
  <2>1. Ing!TypeOK'
    BY <1>2, IngestionTypes DEF IngestionInv, Ing!Restart, Ing!TypeOK, Ing!Exists, Ing!Free, Ing!NoCommit
  <2>2. \A d \in Documents : ReviewInv(d)'
    BY <1>2, IngestionTypes DEF Ing!Restart, ReviewInv, Ing!Exists
  <2>3. QED
    BY <1>2, <2>1, <2>2 DEF IngestionInv, Ing!Restart, CommitInv, Ing!CommittedWasReviewed
<1>3. QED
  BY <1>1, <1>2, ExtractionsKeep, ReviewsKeep, CommitsKeep DEF Ing!Next

(* A record is appended at the end of a commit only.                        *)
LEMMA CommitsRecordReviews ==
  ASSUME IngestionInv, Ing!Next \/ Ing!Restart
  PROVE  Ing!RecordsLastReview
<1>1. CASE Ing!CommitEnd
  BY <1>1, IngestionTypes DEF IngestionInv, CommitInv, Ing!CommitEnd, Ing!LoopIsFree, Ing!RecordsLastReview
<1>2. CASE ~Ing!CommitEnd
  <2>1. ledger' = ledger
    BY <1>2 DEF Ing!Next, Ing!Restart, Ing!accept_document, Ing!Edit, Ing!Reject, Ing!Approve, Ing!CommitStart,
       Ing!ExtractInterpretations, Ing!ExtractComplete, Ing!ExtractFails, Ing!ExtractStart
  <2>2. QED
    BY <2>1 DEF Ing!RecordsLastReview
<1>3. QED
  BY <1>1, <1>2

-----------------------------------------------------------------------------
(* What a person may do.                                                   *)

(* While requests have not overlapped one at most is under way, and what it *)
(* has read is the row. A verdict is what the permissions say.              *)
BusyInv(e) ==
  /\ e.by = "pack" => Perm!_is_in_scope(e.key) /\ e.kind \in {"assign", "add", "remove"}
  /\ e.stage # "idle" => e.seen \in Perm!Rows
  /\ e.stage = "save" => e.copy \in Perm!Rows
  /\ e.kind = "revoke" => e.role = Perm!NoRole

ErrandInv(w) ==
  LET e == errand[w] IN
  /\ BusyInv(e)
  /\ ~overlapped /\ e.stage # "idle" =>
       /\ \A v \in Requests : errand[v].stage # "idle" => v = w
       /\ e.stage \in {"load", "save"} => e.seen = rights
       /\ e.stage = "save" => e.copy = rights
       /\ e.stage \in {"load", "save"} /\ e.kind = "revoke" => rights.roles[e.key] \notin {Perm!NoRole, Absent}

AccessInv ==
  /\ Perm!TypeOK
  /\ \A w \in Requests : ErrandInv(w)
  /\ verdict = Perm!NoVerdict \/ verdict.granted = Perm!check_permission(verdict.role, verdict.domain_role, verdict.operation)
  /\ loadable \/ spoiled
  /\ Perm!UnknownOnlyIfSpoiled

LEMMA AccessTypes ==
  ASSUME AccessInv
  PROVE  /\ rights \in Perm!Rows /\ rights.roles \in [Perm!Keys -> Perm!RoleValues] /\ rights.governed \in SUBSET Perm!Keys
         /\ errand \in [Requests -> Perm!Errand] /\ \A w \in Requests : errand[w] \in Perm!Errand
         /\ overlapped \in BOOLEAN /\ loadable \in BOOLEAN /\ spoiled \in BOOLEAN /\ grants \in 0..MaxGrants
         /\ Perm!NoRole \notin DomainRoles /\ Absent \notin DomainRoles /\ Absent # Perm!NoRole /\ MaxGrants \in Nat
         /\ Perm!NoErrand \in Perm!Errand /\ Perm!NoErrand.stage = "idle" /\ Perm!NoErrand.by = "api" /\ Perm!NoErrand.kind = "none"
         /\ Perm!NoVerdict \in Perm!Verdict
BY AccessAssumption DEF AccessInv, Perm!TypeOK, Perm!Rows, Perm!AccessAssumption, Perm!NoErrand, Perm!Errand, Perm!Keys,
   Perm!NoVerdict, Perm!Verdict

LEMMA AccessInit == Perm!Init => AccessInv
<1> SUFFICES ASSUME Perm!Init PROVE AccessInv
  OBVIOUS
<1>1. Perm!NoErrand \in Perm!Errand /\ Perm!NoErrand.stage = "idle" /\ Perm!NoErrand.by = "api" /\ Perm!NoErrand.kind = "none"
  BY DEF Perm!NoErrand, Perm!Errand, Perm!Keys
<1>2. Perm!TypeOK
  <2>1. rights \in Perm!Rows /\ recorded \in [Perm!Keys -> Perm!RoleValues]
    BY DEF Perm!Init, Perm!Rows, Perm!RoleValues
  <2>2. errand \in [Requests -> Perm!Errand] /\ verdict \in Perm!Verdict
    BY <1>1 DEF Perm!Init, Perm!NoVerdict, Perm!Verdict
  <2>3. grants \in 0..MaxGrants
    BY AccessAssumption DEF Perm!Init, Perm!AccessAssumption
  <2>4. QED
    BY <2>1, <2>2, <2>3 DEF Perm!Init, Perm!TypeOK
<1>3. \A w \in Requests : ErrandInv(w)
  BY <1>1 DEF Perm!Init, ErrandInv, BusyInv
<1>4. QED
  BY <1>2, <1>3, AccessAssumption DEF Perm!Init, AccessInv, Perm!UnknownOnlyIfSpoiled, Perm!AccessAssumption

(* A request begins.                                                        *)
LEMMA ErrandBegins ==
  ASSUME AccessInv, NEW w \in Requests,
         \/ Perm!assign_domain_role(w) \/ Perm!revoke_domain_role(w) \/ Perm!update_user(w)
         \/ Perm!assign_student(w) \/ Perm!assign_module(w) \/ Perm!remove_module(w)
  PROVE  /\ errand' \in [Requests -> Perm!Errand] /\ grants' \in 0..MaxGrants /\ overlapped' \in BOOLEAN
         /\ \A v \in Requests : ErrandInv(v)'
         /\ UNCHANGED <<rights, recorded, unrecorded, misnamed>>
<1> USE AccessTypes
<1>1. PICK kind \in {"assign", "revoke", "add", "remove", "edit"}, key \in Perm!Keys, role \in DomainRoles \cup {Perm!NoRole},
           by \in {"api", "pack"} :
        /\ Perm!Begin(w, kind, key, role, by)
        /\ by = "pack" => Perm!_is_in_scope(key) /\ kind \in {"assign", "add", "remove"}
        /\ kind = "revoke" => role = Perm!NoRole /\ rights.roles[key] \notin {Perm!NoRole, Absent}
  BY DEF Perm!assign_domain_role, Perm!revoke_domain_role, Perm!update_user, Perm!assign_student, Perm!assign_module,
         Perm!remove_module, Perm!Keys
<1> DEFINE new == [kind |-> kind, key |-> key, role |-> role, by |-> by, stage |-> "load", seen |-> rights, copy |-> Absent]
<1>2. /\ errand[w].stage = "idle" /\ errand' = [errand EXCEPT ![w] = new] /\ grants < MaxGrants /\ grants' = grants + 1
      /\ overlapped' = (overlapped \/ \E v \in Requests : errand[v].stage # "idle")
      /\ UNCHANGED <<rights, recorded, unrecorded, misnamed>>
  BY <1>1 DEF Perm!Begin
<1>3. new \in Perm!Errand
  BY DEF Perm!Errand
<1>4. /\ new.key = key /\ new.by = by /\ new.role = role /\ new.kind = kind /\ new.stage = "load" /\ new.seen = rights
  OBVIOUS
<1> HIDE DEF new
<1>5. overlapped' \in BOOLEAN /\ (~overlapped' => ~overlapped /\ \A v \in Requests : errand[v].stage = "idle")
  BY <1>2
<1>6. ASSUME NEW v \in Requests PROVE ErrandInv(v)'
  BY <1>1, <1>2, <1>4, <1>5 DEF AccessInv, ErrandInv, BusyInv
<1>7. grants' \in 0..MaxGrants
  BY <1>2
<1>8. QED
  BY <1>2, <1>3, <1>5, <1>6, <1>7

(* A request goes on. What it saves is a row.                               *)
LEMMA RowsAreSaved ==
  ASSUME NEW row \in Perm!Rows, NEW e \in Perm!Errand, e.seen \in Perm!Rows
  PROVE  Perm!Updated(row, e) \in Perm!Rows
<1>1. row.roles \in [Perm!Keys -> Perm!RoleValues] /\ row.governed \subseteq Perm!Keys /\ e.key \in Perm!Keys
      /\ e.role \in Perm!RoleValues /\ e.seen.governed \subseteq Perm!Keys
  BY DEF Perm!Rows, Perm!Errand, Perm!RoleValues
<1>2. Perm!update_user_domain_roles(row, e.key, e.role) \in Perm!Rows
  BY <1>1 DEF Perm!update_user_domain_roles, Perm!Rows
<1>3. \A add, remove \in SUBSET Perm!Keys : Perm!update_user_governed_modules(row, add, remove) \in Perm!Rows
  BY <1>1 DEF Perm!update_user_governed_modules, Perm!Rows
<1>4. [row EXCEPT !.governed = e.seen.governed] \in Perm!Rows
  BY <1>1 DEF Perm!Rows
<1>5. QED
  BY <1>1, <1>2, <1>3, <1>4 DEF Perm!Updated

(* A request loads the row, saves what it changes, and records it.          *)
LEMMA ErrandContinues ==
  ASSUME AccessInv, NEW w \in Requests,
         Perm!_load_users(w) \/ Perm!_save_users(w) \/ Perm!append_log_record(w)
  PROVE  /\ errand' \in [Requests -> Perm!Errand] /\ rights' \in Perm!Rows
         /\ recorded' \in [Perm!Keys -> Perm!RoleValues] /\ unrecorded' \in BOOLEAN /\ misnamed' \in BOOLEAN
         /\ \A v \in Requests : ErrandInv(v)'
         /\ UNCHANGED <<grants, overlapped>>
<1> USE AccessTypes
<1> DEFINE e == errand[w]
<1>0. /\ e \in Perm!Errand /\ recorded \in [Perm!Keys -> Perm!RoleValues] /\ unrecorded \in BOOLEAN /\ misnamed \in BOOLEAN
      /\ e.role \in Perm!RoleValues
  BY DEF AccessInv, Perm!TypeOK, Perm!Errand, Perm!RoleValues
<1>1. CASE Perm!_load_users(w)
  <2> DEFINE new == [e EXCEPT !.stage = "save", !.copy = rights]
  <2>1. /\ e.stage = "load" /\ UNCHANGED <<rights, recorded, grants, overlapped, unrecorded, misnamed>>
        /\ errand' = [errand EXCEPT ![w] = new]
    BY <1>1 DEF Perm!_load_users
  <2>2. /\ new \in Perm!Errand /\ new.stage = "save" /\ new.copy = rights /\ new.seen = e.seen
        /\ new.by = e.by /\ new.key = e.key /\ new.kind = e.kind /\ new.role = e.role
    BY <1>0 DEF Perm!Errand
  <2> HIDE DEF new
  <2>3. ASSUME NEW v \in Requests PROVE ErrandInv(v)'
    BY <2>1, <2>2 DEF AccessInv, ErrandInv, BusyInv
  <2>4. QED
    BY <1>0, <2>1, <2>2, <2>3
<1>2. CASE Perm!_save_users(w)
  <2> DEFINE new == [e EXCEPT !.stage = "record"]
             row == IF backend = "sqlite" THEN rights ELSE e.copy
  <2>1. /\ e.stage = "save" /\ UNCHANGED <<recorded, grants, overlapped, unrecorded>>
        /\ errand' = [errand EXCEPT ![w] = new] /\ rights' = Perm!Updated(row, e)
        /\ misnamed' = (misnamed \/ (e.kind = "revoke" /\ e.seen.roles[e.key] # rights.roles[e.key]))
    BY <1>2 DEF Perm!_save_users
  <2>2. /\ new \in Perm!Errand /\ new.stage = "record" /\ new.seen = e.seen
        /\ new.by = e.by /\ new.key = e.key /\ new.kind = e.kind /\ new.role = e.role
    BY <1>0 DEF Perm!Errand
  <2>3. rights' \in Perm!Rows
    <3>1. row \in Perm!Rows /\ e.seen \in Perm!Rows
      BY <2>1 DEF AccessInv, ErrandInv, BusyInv
    <3>2. QED
      BY <1>0, <2>1, <3>1, RowsAreSaved
  <2> HIDE DEF new
  <2>4. ASSUME NEW v \in Requests PROVE ErrandInv(v)'
    BY <2>1, <2>2 DEF AccessInv, ErrandInv, BusyInv
  <2>5. misnamed' \in BOOLEAN
    BY <2>1
  <2>6. QED
    BY <1>0, <2>1, <2>2, <2>3, <2>4, <2>5
<1>3. CASE Perm!append_log_record(w)
  <2>1. /\ errand' = [errand EXCEPT ![w] = Perm!NoErrand] /\ UNCHANGED <<rights, grants, overlapped, misnamed>>
        /\ recorded' = recorded \/ recorded' = [recorded EXCEPT ![e.key] = e.role]
        /\ unrecorded' = unrecorded \/ unrecorded' = TRUE
    BY <1>3 DEF Perm!append_log_record
  <2>2. ASSUME NEW v \in Requests PROVE ErrandInv(v)'
    BY <2>1 DEF AccessInv, ErrandInv, BusyInv
  <2>3. QED
    BY <1>0, <2>1, <2>2
<1>4. QED
  BY <1>1, <1>2, <1>3

LEMMA AccessStays ==
  ASSUME AccessInv, Perm!Next \/ Perm!Restart \/ UNCHANGED <<backend, accessVars>>
  PROVE  AccessInv'
<1> USE AccessTypes
<1>1. CASE UNCHANGED <<backend, accessVars>>
  BY <1>1 DEF accessVars, grantVars, ruleVars, governanceVars, AccessInv, Perm!TypeOK, ErrandInv, BusyInv, Perm!check_permission,
     Perm!Category, Perm!_is_group_member, Perm!_check_domain_role, Perm!UnknownOnlyIfSpoiled
<1>2. CASE Perm!Manage
  <2>1. UNCHANGED <<backend, permissions, verdict, known, loadable, spoiled>>
    BY <1>2 DEF Perm!Manage, Perm!ruleVars, Perm!policyVars
  <2>2. /\ errand' \in [Requests -> Perm!Errand] /\ rights' \in Perm!Rows
        /\ recorded' \in [Perm!Keys -> Perm!RoleValues] /\ unrecorded' \in BOOLEAN /\ misnamed' \in BOOLEAN
        /\ overlapped' \in BOOLEAN /\ grants' \in 0..MaxGrants
        /\ \A v \in Requests : ErrandInv(v)'
    <3>1. recorded \in [Perm!Keys -> Perm!RoleValues] /\ unrecorded \in BOOLEAN /\ misnamed \in BOOLEAN
      BY DEF AccessInv, Perm!TypeOK
    <3>2. QED
      BY <1>2, <3>1, ErrandBegins, ErrandContinues DEF Perm!Manage
  <2>3. QED
    BY <2>1, <2>2 DEF AccessInv, Perm!TypeOK, Perm!check_permission, Perm!Category, Perm!_is_group_member,
       Perm!_check_domain_role, Perm!UnknownOnlyIfSpoiled
<1>3. CASE Perm!Ask
  <2>1. /\ UNCHANGED <<backend, rights, errand, recorded, grants, overlapped, unrecorded, misnamed, permissions, known,
                       loadable, spoiled>>
        /\ \E role \in {"root", "admin", "user", "guest"}, operation \in {"x", "i"} :
             verdict' = [role |-> role, domain_role |-> Perm!user_dr, operation |-> operation,
                         granted |-> Perm!check_permission(role, Perm!user_dr, operation)]
    BY <1>3 DEF Perm!Ask, Perm!rowVars, Perm!policyVars
  <2>2. Perm!user_dr \in DomainRoles \cup {Perm!NoRole}
    BY DEF Perm!user_dr, Perm!RoleValues, Perm!Keys
  <2>3. \A role, dr, operation : Perm!check_permission(role, dr, operation)' = Perm!check_permission(role, dr, operation)
    BY <2>1 DEF Perm!check_permission, Perm!Category, Perm!_is_group_member, Perm!_check_domain_role
  <2>4. \A role \in {"root", "admin", "user", "guest"}, operation \in {"x", "i"} :
          Perm!check_permission(role, Perm!user_dr, operation) \in BOOLEAN
    BY DEF Perm!check_permission
  <2>5. verdict' \in Perm!Verdict /\ verdict'.granted = Perm!check_permission(verdict'.role, verdict'.domain_role, verdict'.operation)
    BY <2>1, <2>2, <2>4 DEF Perm!Verdict
  <2>6. QED
    BY <2>1, <2>3, <2>5 DEF AccessInv, Perm!TypeOK, ErrandInv, BusyInv, Perm!UnknownOnlyIfSpoiled
<1>4. CASE Perm!_load_governance_config \/ Perm!EditSystemPhysics
  <2>1. UNCHANGED <<backend, rights, errand, recorded, grants, overlapped, unrecorded, misnamed, permissions, verdict>>
    BY <1>4 DEF Perm!_load_governance_config, Perm!EditSystemPhysics, Perm!rowVars, Perm!ruleVars
  <2>2. /\ known' \in {Unloaded, "of_file", "none"} /\ loadable' \in BOOLEAN /\ spoiled' \in BOOLEAN
        /\ (loadable' \/ spoiled') /\ (known' = "none" => spoiled')
    BY <1>4 DEF AccessInv, Perm!TypeOK, Perm!UnknownOnlyIfSpoiled, Perm!_load_governance_config, Perm!EditSystemPhysics
  <2>3. QED
    BY <2>1, <2>2 DEF AccessInv, Perm!TypeOK, ErrandInv, BusyInv, Perm!check_permission, Perm!Category, Perm!_is_group_member,
       Perm!_check_domain_role, Perm!UnknownOnlyIfSpoiled
<1>5. CASE Perm!Restart
  <2>1. /\ errand' = [w \in Requests |-> Perm!NoErrand] /\ verdict' = Perm!NoVerdict /\ known' = Unloaded
        /\ UNCHANGED <<backend, rights, recorded, grants, overlapped, misnamed, permissions, loadable>>
    BY <1>5 DEF Perm!Restart
  <2>2. unrecorded' \in BOOLEAN /\ spoiled' \in BOOLEAN /\ (loadable' \/ spoiled')
    BY <1>5 DEF Perm!Restart
  <2>3. \A w \in Requests : ErrandInv(w)'
    BY <2>1 DEF ErrandInv, BusyInv
  <2>4. Unloaded # "none"
    BY AccessAssumption DEF Perm!AccessAssumption
  <2>5. QED
    BY <2>1, <2>2, <2>3, <2>4 DEF AccessInv, Perm!TypeOK, Perm!UnknownOnlyIfSpoiled
<1>6. QED
  BY <1>1, <1>2, <1>3, <1>4, <1>5 DEF Perm!Next

(* What a request saves differs from the row in what the request is about.  *)
LEMMA ScopesAreKept ==
  ASSUME AccessInv, Perm!Next \/ Perm!Restart
  PROVE  Perm!ScopesStand
<1> SUFFICES ASSUME NEW w \in Requests, Perm!Saves(w), ~overlapped
             PROVE  /\ errand[w].by = "pack" =>
                         \A k \in Perm!Keys : ~Perm!_is_in_scope(k) =>
                           rights'.roles[k] = rights.roles[k] /\ (k \in rights'.governed <=> k \in rights.governed)
                    /\ errand[w].kind = "revoke" => Perm!Governs(rights)' = Perm!Governs(rights)
                    /\ errand[w].kind = "remove" =>
                         \/ Perm!Governs(rights)' \subseteq Perm!Governs(rights)
                         \/ rights'.governed = {} /\ \A k \in Perm!Keys : rights'.roles[k] = Absent
  BY DEF Perm!ScopesStand, Perm!Governs, Perm!can_govern_domain
<1> USE AccessTypes
<1> DEFINE e == errand[w]
<1>1. e.stage = "save" /\ Perm!_save_users(w)
  <2>1. e.stage = "save" /\ errand'[w].stage = "record"
    BY DEF Perm!Saves
  <2>2. ~(Perm!Restart \/ Perm!Ask \/ Perm!_load_governance_config \/ Perm!EditSystemPhysics)
    BY <2>1 DEF Perm!Restart, Perm!Ask, Perm!_load_governance_config, Perm!EditSystemPhysics, Perm!rowVars
  <2>3. PICK v \in Requests :
          \/ Perm!assign_domain_role(v) \/ Perm!revoke_domain_role(v) \/ Perm!update_user(v)
          \/ Perm!assign_student(v) \/ Perm!assign_module(v) \/ Perm!remove_module(v)
          \/ Perm!_load_users(v) \/ Perm!_save_users(v) \/ Perm!append_log_record(v)
    BY <2>2 DEF Perm!Next, Perm!Manage
  <2>4. CASE v # w
    BY <2>1, <2>3, <2>4 DEF Perm!assign_domain_role, Perm!revoke_domain_role, Perm!update_user, Perm!assign_student,
       Perm!assign_module, Perm!remove_module, Perm!Begin, Perm!_load_users, Perm!_save_users, Perm!append_log_record
  <2>5. CASE v = w
    BY <2>1, <2>3, <2>5 DEF Perm!assign_domain_role, Perm!revoke_domain_role, Perm!update_user, Perm!assign_student,
       Perm!assign_module, Perm!remove_module, Perm!Begin, Perm!_load_users, Perm!append_log_record
  <2>6. QED
    BY <2>1, <2>4, <2>5
<1>2. /\ e \in Perm!Errand /\ e.key \in Perm!Keys /\ rights' = Perm!Updated(rights, e)
      /\ (e.by = "pack" => Perm!_is_in_scope(e.key))
      /\ (e.kind = "revoke" => rights.roles[e.key] \notin {Perm!NoRole, Absent} /\ e.role = Perm!NoRole)
      /\ (e.by = "pack" => e.kind \in {"assign", "add", "remove"})
  BY <1>1 DEF AccessInv, ErrandInv, BusyInv, Perm!_save_users, Perm!Errand
<1>3. CASE e.kind \in {"assign", "revoke"}
  <2>1. rights' = [rights EXCEPT !.roles[e.key] = e.role]
    BY <1>2, <1>3 DEF Perm!Updated, Perm!update_user_domain_roles
  <2>2. rights'.governed = rights.governed /\ rights'.roles = [rights.roles EXCEPT ![e.key] = e.role]
    BY <2>1 DEF Perm!Rows
  <2>3. QED
    BY <1>2, <1>3, <2>2 DEF Perm!Governs, Perm!can_govern_domain
<1>4. CASE e.kind \in {"add", "remove"}
  <2>1. rights' = [rights EXCEPT !.governed = IF e.kind = "add" THEN (@ \cup {e.key}) \ {} ELSE (@ \cup {}) \ {e.key}]
    BY <1>2, <1>4 DEF Perm!Updated, Perm!update_user_governed_modules
  <2>2. /\ rights'.roles = rights.roles
        /\ rights'.governed = IF e.kind = "add" THEN rights.governed \cup {e.key} ELSE rights.governed \ {e.key}
    BY <2>1 DEF Perm!Rows
  <2>3. QED
    BY <1>2, <1>4, <2>2 DEF Perm!Governs, Perm!can_govern_domain
<1>5. QED
  BY <1>2, <1>3, <1>4 DEF Perm!Errand

LEMMA VerdictsAreSound ==
  ASSUME AccessInv
  PROVE  Perm!RolesOnlyAdd /\ Perm!UnknownOnlyIfSpoiled
<1> USE AccessTypes
<1> SUFFICES ASSUME ~verdict.granted, verdict.role # "none", Perm!check_permission(verdict.role, Perm!NoRole, verdict.operation)
             PROVE  "group" \notin permissions.bits /\ "others" \in permissions.bits /\ permissions.group = "members"
  BY DEF AccessInv, Perm!RolesOnlyAdd
<1>1. verdict # Perm!NoVerdict
  BY DEF Perm!NoVerdict
<1>2. ~Perm!check_permission(verdict.role, verdict.domain_role, verdict.operation)
  BY <1>1 DEF AccessInv
<1>3. permissions.roles \subseteq DomainRoles /\ permissions.members \subseteq DomainRoles
  BY DEF AccessInv, Perm!TypeOK, Perm!Permissions
<1>4. verdict.role \notin {"root", "guest"} /\ verdict.operation # "i"
  BY <1>2 DEF Perm!check_permission
<1>5. /\ Perm!Category(verdict.role, verdict.domain_role) \notin permissions.bits
      /\ Perm!Category(verdict.role, Perm!NoRole) \in permissions.bits
  BY <1>2, <1>3, <1>4 DEF Perm!check_permission, Perm!_check_domain_role
<1>6. QED
  BY <1>3, <1>5 DEF Perm!Category, Perm!_is_group_member

-----------------------------------------------------------------------------
(* Retrieval.                                                              *)

(* A file of a store is garbled only while the store is saved or after a    *)
(* save that was cut; and who builds or loads for the server has a registry.*)
RetrievalInv ==
  /\ Retr!TypeOK
  /\ rebuild.step = "next" => rebuild.store = NoStore
  /\ rebuild.step # "next" => rebuild.store \in Stores
  /\ rebuild.by = "server" => registry # NoRegistry
  /\ \A c \in Clients : loading[c] # NoStore => registry # NoRegistry /\ chunks[loading[c]] # Missing
  /\ rebuild.step \in {"between", "chunks"} => vectors[rebuild.store] = rebuild.texts
  /\ \A s \in Stores : Garbled \in {vectors[s], chunks[s]} => s \in cut \/ Retr!InSave(s)

LEMMA RetrievalConstants ==
  /\ << >> \in Editions /\ Missing \notin Editions /\ Garbled \notin Editions /\ Missing # Garbled
  /\ NoStore \notin Stores /\ NoRegistry \notin Retr!Registry /\ MaxChanges \in Nat
  /\ Retr!Empty \in [vectors: Editions, chunks: Editions] /\ Retr!NoRebuild \in Retr!Rebuild
  /\ Retr!NoRebuild.step = "next" /\ Retr!NoRebuild.store = NoStore /\ Retr!NoRebuild.by = "nobody"
BY RetrievalAssumption DEF Retr!RetrievalAssumption, Retr!Empty, Retr!NoRebuild, Retr!Rebuild

LEMMA RetrievalTypes ==
  ASSUME RetrievalInv
  PROVE  /\ documents \in [Stores -> Editions] /\ changes \in 0..MaxChanges
         /\ vectors \in [Stores -> Retr!StoreFiles] /\ chunks \in [Stores -> Retr!StoreFiles]
         /\ registry = NoRegistry \/ registry \in Retr!Registry
         /\ loading \in [Clients -> Stores \cup {NoStore}]
         /\ rebuild \in Retr!Rebuild /\ rebuild.store \in Stores \cup {NoStore} /\ rebuild.texts \in Editions
         /\ cut \subseteq Stores /\ astray \subseteq Stores
BY DEF RetrievalInv, Retr!TypeOK, Retr!Rebuild

LEMMA RetrievalInit == Retr!Init => RetrievalInv
<1> SUFFICES ASSUME Retr!Init PROVE RetrievalInv
  OBVIOUS
<1> USE RetrievalConstants
<1> DEFINE new == [Retr!NoRebuild EXCEPT !.by = "server", !.left = Stores]
<1>1. /\ new \in Retr!Rebuild /\ new.step = "next" /\ new.store = NoStore
      /\ rebuild = new
  BY DEF Retr!Init, Retr!Rebuild
<1> HIDE DEF new
<1>2. registry \in Retr!Registry /\ registry # NoRegistry
  BY DEF Retr!Init, Retr!Registry
<1>3. Retr!TypeOK
  BY <1>1, <1>2 DEF Retr!Init, Retr!TypeOK, Retr!StoreFiles
<1>4. QED
  BY <1>1, <1>2, <1>3 DEF Retr!Init, RetrievalInv

(* A start of the server: what it could load, or nothing.                   *)
LEMMA ServerStarts ==
  ASSUME RetrievalInv, Retr!Restart
  PROVE  RetrievalInv' /\ (registry' = NoRegistry => cut' # {})
<1> USE RetrievalConstants, RetrievalTypes
<1>1. /\ UNCHANGED <<documents, changes, vectors, chunks, built>> /\ loading' = [c \in Clients |-> NoStore]
      /\ cut' = IF \E s \in Stores : Retr!InSave(s) THEN cut \cup {rebuild.store} ELSE cut
  BY DEF Retr!Restart
<1>2. cut' \subseteq Stores /\ \A s \in Stores : Garbled \in {vectors[s], chunks[s]} => s \in cut'
  BY <1>1 DEF RetrievalInv, Retr!InSave
<1> DEFINE new == [Retr!NoRebuild EXCEPT !.by = "server", !.left = Stores]
<1>3. new \in Retr!Rebuild /\ new.step = "next" /\ new.store = NoStore
  BY DEF Retr!Rebuild
<1>4. CASE \E s \in Stores : Retr!Exists(s) /\ Retr!Unreadable(s)
  <2>1. registry' = NoRegistry /\ rebuild' = Retr!NoRebuild /\ astray' = {}
    BY <1>4 DEF Retr!Restart, Retr!StartServer
  <2>2. cut' # {}
    BY <1>2, <1>4 DEF Retr!Unreadable
  <2>3. Retr!TypeOK'
    BY <1>1, <1>2, <2>1 DEF RetrievalInv, Retr!TypeOK
  <2>4. QED
    BY <1>1, <1>2, <2>1, <2>2, <2>3 DEF RetrievalInv
<1>5. CASE ~\E s \in Stores : Retr!Exists(s) /\ Retr!Unreadable(s)
  <2>1. /\ registry' = [s \in Stores |-> Retr!Loaded(s)] /\ rebuild' \in {new, Retr!NoRebuild} /\ astray' \subseteq Stores
    BY <1>5 DEF Retr!Restart, Retr!StartServer
  <2>2. ASSUME NEW s \in Stores PROVE Retr!Loaded(s) \in [vectors: Editions, chunks: Editions]
    <3>1. CASE Missing \in {vectors[s], chunks[s]}
      BY <3>1 DEF Retr!Loaded
    <3>2. CASE Missing \notin {vectors[s], chunks[s]}
      <4>1. vectors[s] \in Editions /\ chunks[s] \in Editions
        BY <1>5, <3>2 DEF Retr!Exists, Retr!Unreadable, Retr!StoreFiles
      <4>2. QED
        BY <3>2, <4>1 DEF Retr!Loaded
    <3>3. QED
      BY <3>1, <3>2
  <2>3. registry' \in Retr!Registry /\ registry' # NoRegistry
    BY <2>1, <2>2 DEF Retr!Registry
  <2> HIDE DEF new
  <2>4. Retr!TypeOK'
    BY <1>1, <1>2, <1>3, <2>1, <2>3 DEF RetrievalInv, Retr!TypeOK
  <2>5. QED
    BY <1>1, <1>2, <1>3, <2>1, <2>3, <2>4 DEF RetrievalInv
<1>6. QED
  BY <1>4, <1>5

(* A build begins, or ends, or fills a store of the server.                 *)
LEMMA BuildsKeep ==
  ASSUME RetrievalInv,
         Retr!StartNight \/ Retr!EndRun \/ Retr!SaveFails \/ \E s \in Stores : Retr!Read(s) \/ Retr!EmbedFails(s)
  PROVE  RetrievalInv' /\ (registry # NoRegistry => registry' # NoRegistry)
<1> USE RetrievalConstants, RetrievalTypes
<1>1. UNCHANGED <<documents, changes, vectors, chunks, loading, built, astray>>
  BY DEF Retr!StartNight, Retr!EndRun, Retr!SaveFails, Retr!Read, Retr!EmbedFails
<1>2. /\ registry' = NoRegistry \/ registry' \in Retr!Registry
      /\ registry # NoRegistry => registry' # NoRegistry
  <2>1. ASSUME NEW s \in Stores, NEW content \in [vectors: Editions, chunks: Editions], Retr!Fill(s, content)
        PROVE  /\ registry' = NoRegistry \/ registry' \in Retr!Registry
               /\ registry # NoRegistry => registry' # NoRegistry
    BY <2>1 DEF RetrievalInv, Retr!Fill, Retr!Registry
  <2>2. ASSUME NEW s \in Stores, Retr!Read(s)
        PROVE  /\ registry' = NoRegistry \/ registry' \in Retr!Registry
               /\ registry # NoRegistry => registry' # NoRegistry
    <3>1. Retr!Fill(s, [vectors |-> documents[s], chunks |-> documents[s]])
      BY <2>2 DEF Retr!Read
    <3>2. QED
      BY <2>1, <3>1
  <2>3. ASSUME NEW s \in Stores, Retr!EmbedFails(s)
        PROVE  /\ registry' = NoRegistry \/ registry' \in Retr!Registry
               /\ registry # NoRegistry => registry' # NoRegistry
    BY <2>1, <2>3 DEF Retr!EmbedFails
  <2>4. QED
    BY <2>2, <2>3 DEF Retr!StartNight, Retr!EndRun, Retr!SaveFails
<1>3. /\ rebuild' \in Retr!Rebuild
      /\ \/ rebuild'.step = "next" /\ rebuild'.store = NoStore
         \/ rebuild'.step = "vectors" /\ rebuild'.store \in Stores
      /\ rebuild'.by \in {rebuild.by, "nobody", "night"}
  <2>1. CASE Retr!EndRun \/ Retr!SaveFails \/ \E s \in Stores : Retr!EmbedFails(s)
    BY <2>1 DEF Retr!EndRun, Retr!SaveFails, Retr!EmbedFails
  <2>2. CASE Retr!StartNight
    BY <2>2 DEF Retr!StartNight, Retr!Rebuild
  <2>3. ASSUME NEW s \in Stores, Retr!Read(s)
        PROVE  /\ rebuild' \in Retr!Rebuild
               /\ \/ rebuild'.step = "next" /\ rebuild'.store = NoStore
                  \/ rebuild'.step = "vectors" /\ rebuild'.store \in Stores
               /\ rebuild'.by \in {rebuild.by, "nobody", "night"}
    <3>1. rebuild.step = "next" /\ rebuild.store = NoStore /\ documents[s] \in Editions
      BY <2>3 DEF RetrievalInv, Retr!Read
    <3>2. \/ rebuild' = [rebuild EXCEPT !.left = @ \ {s}]
          \/ rebuild' = [rebuild EXCEPT !.step = "vectors", !.store = s, !.texts = documents[s]]
      BY <2>3 DEF Retr!Read
    <3>3. CASE rebuild' = [rebuild EXCEPT !.left = @ \ {s}]
      <4>1. rebuild.left \ {s} \in SUBSET Stores
        BY DEF Retr!Rebuild
      <4>2. rebuild' \in Retr!Rebuild /\ rebuild'.step = rebuild.step /\ rebuild'.store = rebuild.store
            /\ rebuild'.by = rebuild.by
        BY <3>3, <4>1 DEF Retr!Rebuild
      <4>3. QED
        BY <3>1, <4>2
    <3>4. CASE rebuild' = [rebuild EXCEPT !.step = "vectors", !.store = s, !.texts = documents[s]]
      <4>1. rebuild' \in Retr!Rebuild /\ rebuild'.step = "vectors" /\ rebuild'.store = s
            /\ rebuild'.by = rebuild.by
        BY <3>1, <3>4 DEF Retr!Rebuild
      <4>2. QED
        BY <4>1
    <3>5. QED
      BY <3>2, <3>3, <3>4
  <2>4. QED
    BY <2>1, <2>2, <2>3
<1>4. /\ cut \subseteq cut' /\ cut' \subseteq Stores
      /\ \A s \in Stores : Retr!InSave(s) => s \in cut'
  BY DEF RetrievalInv, Retr!InSave, Retr!StartNight, Retr!EndRun, Retr!SaveFails, Retr!Read, Retr!EmbedFails, Retr!Rebuild
<1>5. Retr!TypeOK'
  BY <1>1, <1>2, <1>3, <1>4 DEF RetrievalInv, Retr!TypeOK
<1>6. QED
  BY <1>1, <1>2, <1>3, <1>4, <1>5 DEF RetrievalInv
(* A save opens, writes and closes the two files.                           *)
LEMMA SavesKeep ==
  ASSUME RetrievalInv,
         Retr!OpenVectors \/ Retr!CloseVectors \/ Retr!OpenChunks \/ Retr!CloseChunks
  PROVE  RetrievalInv' /\ UNCHANGED registry
<1> USE RetrievalConstants, RetrievalTypes
<1>1. UNCHANGED <<documents, changes, registry, loading, astray>>
  BY DEF Retr!OpenVectors, Retr!CloseVectors, Retr!OpenChunks, Retr!CloseChunks
<1>2. rebuild.store \in Stores
  BY DEF RetrievalInv, Retr!At, Retr!OpenVectors, Retr!CloseVectors, Retr!OpenChunks, Retr!CloseChunks
<1>3. CASE Retr!OpenVectors \/ Retr!CloseVectors \/ Retr!OpenChunks
  <2>1. PICK step \in {"open", "between", "chunks"} : rebuild' = [rebuild EXCEPT !.step = step]
    BY <1>3 DEF Retr!OpenVectors, Retr!CloseVectors, Retr!OpenChunks
  <2>2. /\ rebuild' \in Retr!Rebuild /\ rebuild'.step = step /\ rebuild'.store = rebuild.store
        /\ rebuild'.by = rebuild.by /\ rebuild'.texts = rebuild.texts
    BY <2>1 DEF Retr!Rebuild
  <2>3. /\ cut' = cut
        /\ \/ /\ vectors' = [vectors EXCEPT ![rebuild.store] = Garbled] /\ chunks' = chunks /\ step = "open"
           \/ /\ vectors' = [vectors EXCEPT ![rebuild.store] = rebuild.texts] /\ chunks' = chunks
              /\ step = "between"
           \/ /\ chunks' = [chunks EXCEPT ![rebuild.store] = Garbled] /\ vectors' = vectors
              /\ step = "chunks" /\ rebuild.step = "between"
    <3>1. CASE Retr!OpenVectors
      <4>1. rebuild' = [rebuild EXCEPT !.step = "open"] /\ rebuild'.step = "open"
        BY <3>1 DEF Retr!OpenVectors, Retr!Rebuild
      <4>2. QED
        BY <2>2, <3>1, <4>1 DEF Retr!OpenVectors
    <3>2. CASE Retr!CloseVectors
      <4>1. rebuild' = [rebuild EXCEPT !.step = "between"] /\ rebuild'.step = "between"
        BY <3>2 DEF Retr!CloseVectors, Retr!Rebuild
      <4>2. QED
        BY <2>2, <3>2, <4>1 DEF Retr!CloseVectors
    <3>3. CASE Retr!OpenChunks
      <4>1. rebuild' = [rebuild EXCEPT !.step = "chunks"] /\ rebuild'.step = "chunks"
        BY <3>3 DEF Retr!OpenChunks, Retr!Rebuild
      <4>2. QED
        BY <2>2, <3>3, <4>1 DEF Retr!OpenChunks, Retr!At
    <3>4. QED
      BY <1>3, <3>1, <3>2, <3>3
  <2>4. /\ vectors' \in [Stores -> Retr!StoreFiles] /\ chunks' \in [Stores -> Retr!StoreFiles]
        /\ \A s \in Stores : s # rebuild.store => vectors'[s] = vectors[s] /\ chunks'[s] = chunks[s]
        /\ \A s \in Stores : chunks[s] # Missing => chunks'[s] # Missing
        /\ step \in {"between", "chunks"} => vectors'[rebuild.store] = rebuild.texts
    BY <1>2, <2>3 DEF Retr!StoreFiles, RetrievalInv
  <2>5. Retr!TypeOK'
    BY <1>1, <2>2, <2>3, <2>4 DEF RetrievalInv, Retr!TypeOK
  <2>6. \A s \in Stores : (Garbled \in {vectors[s], chunks[s]})' => s \in cut' \/ Retr!InSave(s)'
    BY <1>2, <2>2, <2>3, <2>4 DEF RetrievalInv, Retr!InSave
  <2>7. QED
    BY <1>1, <1>2, <2>2, <2>4, <2>5, <2>6 DEF RetrievalInv
<1>4. CASE Retr!CloseChunks
  <2>1. /\ rebuild.step = "chunks" /\ vectors' = vectors /\ cut' = cut \ {rebuild.store}
        /\ chunks' = [chunks EXCEPT ![rebuild.store] = rebuild.texts]
    BY <1>4 DEF Retr!CloseChunks, Retr!At
  <2>2. /\ rebuild' = [rebuild EXCEPT !.step = "next", !.left = rebuild.left \ {rebuild.store},
                                      !.store = NoStore, !.texts = << >>]
        /\ rebuild.left \ {rebuild.store} \in SUBSET Stores
    BY <1>4 DEF Retr!CloseChunks, Retr!Rebuild
  <2>3. rebuild' \in Retr!Rebuild /\ rebuild'.step = "next" /\ rebuild'.store = NoStore /\ rebuild'.by = rebuild.by
    BY <2>2 DEF Retr!Rebuild
  <2>4. /\ chunks' \in [Stores -> Retr!StoreFiles]
        /\ \A s \in Stores : s # rebuild.store => chunks'[s] = chunks[s]
        /\ \A s \in Stores : chunks[s] # Missing => chunks'[s] # Missing
        /\ vectors[rebuild.store] # Garbled /\ chunks'[rebuild.store] # Garbled
    BY <1>2, <2>1 DEF Retr!StoreFiles, RetrievalInv
  <2>5. Retr!TypeOK'
    BY <1>1, <2>1, <2>3, <2>4 DEF RetrievalInv, Retr!TypeOK
  <2>6. \A s \in Stores : (Garbled \in {vectors[s], chunks[s]})' => s \in cut' \/ Retr!InSave(s)'
    BY <1>2, <2>1, <2>3, <2>4 DEF RetrievalInv, Retr!InSave
  <2>7. QED
    BY <1>1, <2>1, <2>3, <2>4, <2>5, <2>6 DEF RetrievalInv
<1>5. QED
  BY <1>1, <1>3, <1>4

(* A turn loads a store in two reads, or the documents change.              *)
LEMMA LoadsKeep ==
  ASSUME RetrievalInv,
         \/ \E s \in Stores, c \in Clients : Retr!LoadVectors(c, s)
         \/ \E c \in Clients : Retr!LoadChunks(c)
         \/ \E s \in Stores, texts \in Editions : Retr!Change(s, texts)
  PROVE  RetrievalInv' /\ (registry # NoRegistry => registry' # NoRegistry)
<1> USE RetrievalConstants, RetrievalTypes
<1>1. UNCHANGED <<vectors, chunks, rebuild, cut>>
  BY DEF Retr!LoadVectors, Retr!LoadChunks, Retr!Change
<1>2. CASE \E s \in Stores, texts \in Editions : Retr!Change(s, texts)
  <2>1. /\ documents' \in [Stores -> Editions] /\ changes' \in 0..MaxChanges
        /\ UNCHANGED <<registry, loading, astray>>
    BY <1>2 DEF Retr!Change
  <2>2. Retr!TypeOK'
    BY <1>1, <2>1 DEF RetrievalInv, Retr!TypeOK
  <2>3. QED
    BY <1>1, <2>1, <2>2 DEF RetrievalInv, Retr!InSave
<1>3. CASE \E s \in Stores, c \in Clients : Retr!LoadVectors(c, s)
  <2>1. PICK s \in Stores, c \in Clients : Retr!LoadVectors(c, s)
    BY <1>3
  <2>2. /\ registry \in Retr!Registry /\ vectors[s] \in Editions /\ chunks[s] # Missing
        /\ registry' = [registry EXCEPT ![s].vectors = vectors[s]]
        /\ loading' = [loading EXCEPT ![c] = s] /\ UNCHANGED <<documents, changes>> /\ astray' \subseteq Stores
    BY <2>1 DEF Retr!LoadVectors, Retr!StoreFiles
  <2>3. registry' \in Retr!Registry
    BY <2>2 DEF Retr!Registry
  <2>4. Retr!TypeOK'
    BY <1>1, <2>2, <2>3 DEF RetrievalInv, Retr!TypeOK
  <2>5. QED
    BY <1>1, <2>2, <2>3, <2>4 DEF RetrievalInv, Retr!InSave
<1>4. CASE \E c \in Clients : Retr!LoadChunks(c)
  <2>1. PICK c \in Clients : Retr!LoadChunks(c)
    BY <1>4
  <2>2. /\ loading[c] \in Stores /\ registry \in Retr!Registry /\ chunks[loading[c]] # Missing
    BY <2>1 DEF Retr!LoadChunks, RetrievalInv
  <2>3. /\ \/ registry' = registry
           \/ /\ chunks[loading[c]] \in Editions
              /\ registry' = [registry EXCEPT ![loading[c]].chunks = chunks[loading[c]]]
        /\ loading' = [loading EXCEPT ![c] = NoStore] /\ UNCHANGED <<documents, changes>> /\ astray' \subseteq Stores
    BY <2>1, <2>2 DEF Retr!LoadChunks, Retr!StoreFiles
  <2>4. registry' \in Retr!Registry
    BY <2>2, <2>3 DEF Retr!Registry
  <2>5. Retr!TypeOK'
    BY <1>1, <2>3, <2>4 DEF RetrievalInv, Retr!TypeOK
  <2>6. QED
    BY <1>1, <2>3, <2>4, <2>5 DEF RetrievalInv, Retr!InSave
<1>5. QED
  BY <1>2, <1>3, <1>4

LEMMA RetrievalStays ==
  ASSUME RetrievalInv, Retr!Next \/ Retr!Restart \/ UNCHANGED Retr!vars
  PROVE  RetrievalInv' /\ Retr!OnlyCutDisables
<1>1. CASE Retr!Next
  <2>1. \/ Retr!StartNight \/ Retr!EndRun \/ Retr!SaveFails \/ \E s \in Stores : Retr!Read(s) \/ Retr!EmbedFails(s)
        \/ Retr!OpenVectors \/ Retr!CloseVectors \/ Retr!OpenChunks \/ Retr!CloseChunks
        \/ \E s \in Stores, c \in Clients : Retr!LoadVectors(c, s)
        \/ \E c \in Clients : Retr!LoadChunks(c)
        \/ \E s \in Stores, texts \in Editions : Retr!Change(s, texts)
    BY <1>1 DEF Retr!Next
  <2>2. QED
    BY <2>1, BuildsKeep, SavesKeep, LoadsKeep DEF Retr!OnlyCutDisables
<1>2. CASE Retr!Restart
  BY <1>2, ServerStarts DEF Retr!OnlyCutDisables
<1>3. CASE UNCHANGED Retr!vars
  BY <1>3 DEF Retr!vars, RetrievalInv, Retr!TypeOK, Retr!InSave, Retr!OnlyCutDisables
<1>4. QED
  BY <1>1, <1>2, <1>3

-----------------------------------------------------------------------------
(* The physics of a pack.                                                  *)

Midway(e) == edit[e].op = "update" /\ edit[e].at \in {"loaded", "opened", "written"}
Unrecorded(e) == edit[e].op = "update" /\ edit[e].at = "hashed"

(* While updates have not overlapped there is one at a time between its     *)
(* reading and its writing of the file, and what it is about to write is    *)
(* the file with its own change. While none was cut off before its record,  *)
(* what is in the file is committed, or about to be, or as delivered.       *)
PackApart ==
  /\ physics # Torn
  /\ \A d, e \in Requests : Midway(d) /\ Midway(e) => d = e
  /\ \A e \in Requests : Midway(e) =>
       /\ edit[e].holds = physics \cup {e}
       /\ edit[e].at = "opened" => edit[e].fd = "tmp"
       /\ edit[e].at = "written" => aside = edit[e].holds
  /\ \A e \in Requests : edit[e].op = "update" /\ edit[e].at \in {"hashed", "done"} => e \in physics
  /\ ~severed =>
       /\ cached \in committed \cup {{}}
       /\ \/ physics = {} /\ cached = {}
          \/ physics \in committed
          \/ \E e \in Requests : Unrecorded(e) /\ edit[e].holds = physics
       /\ readable => \A o \in Clients : session[o].at = "refused" => session[o].claims = {}

PackInv ==
  /\ Pack!TypeOK
  /\ \A e \in Requests : edit[e].at \in {"loaded", "opened", "written"} => edit[e].op = "update"
  /\ moved \/ physics = cached \/ (physics = Torn /\ cached = NoPhysics)
  /\ \A o \in Clients : session[o].at # "idle" =>
       /\ session[o].claims = cached
       /\ session[o].at = "open" /\ ~moved => session[o].runs = cached
       /\ session[o].at = "asserted" /\ enforcing => cached \in committed
       /\ session[o].at = "open" /\ enforcing /\ ~session[o].early => session[o].runs \in committed
  /\ ~collided => PackApart

LEMMA PackTypes ==
  ASSUME PackInv
  PROVE  /\ physics \in Pack!Versions \cup {Torn} /\ aside \in Pack!Versions \cup {Torn, Absent}
         /\ edit \in [Requests -> Pack!Edit] /\ session \in [Clients -> Pack!Session]
         /\ committed \subseteq Pack!Versions /\ cached \in Pack!Versions \cup {NoPhysics}
         /\ readable \in BOOLEAN /\ enforcing \in BOOLEAN
         /\ moved \in BOOLEAN /\ collided \in BOOLEAN /\ severed \in BOOLEAN
BY DEF PackInv, Pack!TypeOK

LEMMA PackConstants ==
  /\ Torn \notin Pack!Versions /\ Absent \notin Pack!Versions /\ Absent # Torn /\ NoPhysics \notin Pack!Versions
  /\ {} \in Pack!Versions /\ \A v \in Pack!Versions, e \in Requests : v \cup {e} \in Pack!Versions
  /\ Pack!NoEdit \in Pack!Edit /\ Pack!NoEdit.at = "idle" /\ Pack!NoEdit.op = "none"
  /\ Pack!NoSession \in Pack!Session /\ Pack!NoSession.at = "idle"
<1>1. /\ {} \in Pack!Versions /\ \A v \in Pack!Versions, e \in Requests : v \cup {e} \in Pack!Versions
  BY DEF Pack!Versions
<1>2. QED
  BY <1>1, PackAssumption DEF Pack!PackAssumption, Pack!NoEdit, Pack!Edit, Pack!NoSession, Pack!Session, Pack!Tools

LEMMA PackInit == Pack!Init => PackInv
<1> SUFFICES ASSUME Pack!Init PROVE PackInv
  OBVIOUS
<1> USE PackConstants
<1>1. Pack!TypeOK
  BY DEF Pack!Init, Pack!TypeOK
<1>2. PackApart
  BY DEF Pack!Init, PackApart, Midway, Unrecorded
<1>3. QED
  BY <1>1, <1>2 DEF Pack!Init, PackInv

(* A request goes on, or ends, without a change of the file.                *)
LEMMA EditGoesOn ==
  ASSUME PackInv, NEW e \in Requests, NEW new \in Pack!Edit, edit' = [edit EXCEPT ![e] = new],
         new.at \in {"loaded", "opened", "written"} => new.op = "update",
         UNCHANGED <<physics, session, readable, cached, enforcing, severed, moved>>,
         aside' \in Pack!Versions \cup {Torn, Absent}, collided' \in BOOLEAN,
         committed \subseteq committed', committed' \subseteq Pack!Versions,
         ~collided' =>
           /\ ~collided
           /\ Midway(e)' => /\ new.holds = physics \cup {e}
                            /\ \A d \in Requests \ {e} : ~Midway(d)
                            /\ new.at = "opened" => new.fd = "tmp"
                            /\ new.at = "written" => aside' = new.holds
           /\ aside' = aside \/ Midway(e)
           /\ new.op = "update" /\ new.at \in {"hashed", "done"} => e \in physics
           /\ Unrecorded(e) => edit[e].holds \in committed'
  PROVE  PackInv'
<1> USE PackTypes
<1>1. edit'[e] = new /\ \A d \in Requests \ {e} : edit'[d] = edit[d]
  OBVIOUS
<1>2. Pack!TypeOK'
  BY DEF PackInv, Pack!TypeOK, Pack!Versions, Pack!Edit, Pack!Session, Pack!Tools
<1>3. ASSUME ~collided' PROVE PackApart'
  <2>1. PackApart /\ physics' = physics /\ aside \in Pack!Versions \cup {Torn, Absent}
    BY <1>3 DEF PackInv
  <2>2. \A d \in Requests \ {e} : (Midway(d)' <=> Midway(d)) /\ (Unrecorded(d)' <=> Unrecorded(d))
    BY <1>1 DEF Midway, Unrecorded
  <2>3. \A c, d \in Requests : Midway(c)' /\ Midway(d)' => c = d
    BY <1>3, <2>1, <2>2 DEF PackApart
  <2>4. \A d \in Requests : Midway(d)' =>
          /\ edit'[d].holds = physics' \cup {d}
          /\ edit'[d].at = "opened" => edit'[d].fd = "tmp"
          /\ edit'[d].at = "written" => aside' = edit'[d].holds
    <3>1. CASE Midway(e)'
      BY <1>1, <1>3, <2>1, <2>3, <3>1
    <3>2. CASE ~Midway(e)'
      <4> SUFFICES ASSUME NEW d \in Requests \ {e}, Midway(d)
                   PROVE  /\ edit'[d].holds = physics' \cup {d}
                          /\ edit'[d].at = "opened" => edit'[d].fd = "tmp"
                          /\ edit'[d].at = "written" => aside' = edit'[d].holds
        BY <2>2, <3>2
      <4>1. ~Midway(e)
        BY <2>1 DEF PackApart
      <4>2. aside' = aside
        BY <1>3, <4>1
      <4>3. QED
        BY <1>1, <2>1, <4>2 DEF PackApart
    <3>3. QED
      BY <3>1, <3>2
  <2>5. \A d \in Requests : edit'[d].op = "update" /\ edit'[d].at \in {"hashed", "done"} => d \in physics'
    BY <1>1, <1>3, <2>1 DEF PackApart
  <2>6. ~severed /\ (\E d \in Requests : Unrecorded(d) /\ edit[d].holds = physics) =>
           physics' \in committed' \/ (\E d \in Requests : Unrecorded(d)' /\ edit'[d].holds = physics')
    BY <1>1, <1>3, <2>1, <2>2
  <2>7. QED
    BY <2>1, <2>3, <2>4, <2>5, <2>6 DEF PackApart
<1>4. QED
  BY <1>1, <1>2, <1>3 DEF PackInv

(* A request begins: an update, or a commit, by the server or beside it.    *)
LEMMA EditBegins ==
  ASSUME PackInv, NEW e \in Requests, NEW op \in {"update", "commit", "cmd_commit", "cmd_rollback"},
         Pack!Load(e, op), op = "update" => collided' = (collided \/ (physics # Torn /\ Pack!Overlaps(e))),
         op # "update" => UNCHANGED collided
  PROVE  PackInv'
<1> USE PackTypes, PackConstants
<1>1. UNCHANGED <<physics, aside, session, committed, readable, cached, enforcing, severed, moved>> /\ collided' \in BOOLEAN
  BY DEF Pack!Load, Pack!files, Pack!ledger, Pack!process
<1>2. \A d \in Requests \ {e} : ~Pack!Overlaps(e) => ~Midway(d)
  BY DEF Pack!Overlaps, Midway
<1>3. ~Midway(e) /\ ~Unrecorded(e)
  BY DEF Pack!Load, Pack!At, Midway, Unrecorded
<1>4. PICK new \in Pack!Edit :
        /\ edit' = [edit EXCEPT ![e] = new] /\ new.op = op
        /\ \/ physics = Torn /\ new.at = "failed"
           \/ physics # Torn /\ op = "update" /\ new.at = "loaded" /\ new.holds = physics \cup {e}
           \/ physics # Torn /\ op # "update" /\ new.at = "hashed"
  <2>1. CASE physics = Torn
    <3>1. [Pack!NoEdit EXCEPT !.op = op, !.at = "failed"] \in Pack!Edit
      BY DEF Pack!Edit, Pack!Tools
    <3>2. edit' = [edit EXCEPT ![e] = [Pack!NoEdit EXCEPT !.op = op, !.at = "failed"]]
      BY <2>1 DEF Pack!Load
    <3>3. QED
      BY <2>1, <3>1, <3>2 DEF Pack!Edit
  <2>2. CASE physics # Torn /\ op = "update"
    <3>1. [Pack!NoEdit EXCEPT !.op = op, !.at = "loaded", !.holds = physics \cup {e}] \in Pack!Edit
      BY <2>2 DEF Pack!Edit, Pack!Tools
    <3>2. edit' = [edit EXCEPT ![e] = [Pack!NoEdit EXCEPT !.op = op, !.at = "loaded", !.holds = physics \cup {e}]]
      BY <2>2 DEF Pack!Load
    <3>3. QED
      BY <2>2, <3>1, <3>2 DEF Pack!Edit
  <2>3. CASE physics # Torn /\ op # "update"
    <3>1. [Pack!NoEdit EXCEPT !.op = op, !.at = "hashed", !.holds = physics] \in Pack!Edit
      BY <2>3 DEF Pack!Edit, Pack!Tools
    <3>2. edit' = [edit EXCEPT ![e] = [Pack!NoEdit EXCEPT !.op = op, !.at = "hashed", !.holds = physics]]
      BY <2>3 DEF Pack!Load
    <3>3. QED
      BY <2>3, <3>1, <3>2 DEF Pack!Edit
  <2>4. QED
    BY <2>1, <2>2, <2>3
<1>5. Midway(e)' <=> op = "update" /\ new.at = "loaded"
  BY <1>4 DEF Midway
<1>6. ~collided' =>
        /\ ~collided
        /\ Midway(e)' => new.holds = physics \cup {e} /\ \A d \in Requests \ {e} : ~Midway(d)
  <2>1. CASE physics # Torn /\ op = "update"
    BY <1>2, <1>4, <2>1
  <2>2. CASE physics = Torn \/ op # "update"
    BY <1>4, <1>5, <2>2
  <2>3. QED
    BY <2>1, <2>2
<1>7. new.at \in {"loaded", "failed", "hashed"} /\ (new.at \in {"loaded", "hashed"} => (new.at = "loaded" <=> op = "update"))
  BY <1>4
<1>8. QED
  BY <1>1, <1>3, <1>4, <1>6, <1>7, EditGoesOn

LEMMA EditOpens ==
  ASSUME PackInv, NEW e \in Requests, Pack!OpenTmp(e)
  PROVE  PackInv'
<1> USE PackTypes, PackConstants
<1>1. edit[e].at = "loaded" /\ edit[e].op = "update" /\ edit[e] \in Pack!Edit
  BY DEF Pack!OpenTmp, Pack!At, PackInv
<1> DEFINE new == [edit[e] EXCEPT !.at = "opened", !.fd = "tmp"]
<1>2. /\ new \in Pack!Edit /\ new.op = "update" /\ new.at = "opened" /\ new.fd = "tmp" /\ new.holds = edit[e].holds
      /\ edit' = [edit EXCEPT ![e] = new]
  BY <1>1 DEF Pack!OpenTmp, Pack!Edit
<1> HIDE DEF new
<1>3. Midway(e) /\ ~Unrecorded(e)
  BY <1>1 DEF Midway, Unrecorded
<1>4. ~collided => edit[e].holds = physics \cup {e} /\ \A d \in Requests \ {e} : ~Midway(d)
  BY <1>3 DEF PackInv, PackApart
<1>5. /\ UNCHANGED <<physics, session, committed, readable, cached, enforcing, severed, moved, collided>>
      /\ aside' = Torn
  BY DEF Pack!OpenTmp, Pack!ledger, Pack!process, Pack!history
<1>6. QED
  BY <1>2, <1>3, <1>4, <1>5, EditGoesOn

LEMMA EditRecords ==
  ASSUME PackInv, NEW e \in Requests, Pack!AppendCommitment(e)
  PROVE  PackInv'
<1> USE PackTypes, PackConstants
<1>1. edit[e].at = "hashed" /\ edit[e] \in Pack!Edit
  BY DEF Pack!AppendCommitment, Pack!At
<1> DEFINE new == [edit[e] EXCEPT !.at = "done"]
<1>2. /\ new \in Pack!Edit /\ new.op = edit[e].op /\ new.at = "done" /\ edit[e].holds \in Pack!Versions
      /\ edit' = [edit EXCEPT ![e] = new]
  BY <1>1 DEF Pack!AppendCommitment, Pack!Edit
<1> HIDE DEF new
<1>3. ~Midway(e) /\ ~Midway(e)'
  BY <1>1, <1>2 DEF Midway
<1>4. ~collided => (edit[e].op = "update" => e \in physics)
  BY <1>1 DEF PackInv, PackApart
<1>5. /\ UNCHANGED <<physics, aside, session, readable, cached, enforcing, severed, moved, collided>>
      /\ committed' = committed \cup {edit[e].holds}
  BY DEF Pack!AppendCommitment, Pack!files, Pack!process, Pack!history
<1>6. QED
  BY <1>2, <1>3, <1>4, <1>5, EditGoesOn

(* Text is written, to the temporary file unless that was moved meanwhile.  *)
LEMMA EditWrites ==
  ASSUME PackInv, NEW e \in Requests, Pack!WriteTmp(e)
  PROVE  PackInv'
<1> USE PackTypes, PackConstants
<1>1. edit[e].at = "opened" /\ edit[e].op = "update" /\ edit[e] \in Pack!Edit
  BY DEF Pack!WriteTmp, Pack!At, PackInv
<1> DEFINE new == [edit[e] EXCEPT !.at = "written", !.fd = "none"]
<1>2. /\ new \in Pack!Edit /\ new.op = "update" /\ new.at = "written" /\ new.holds = edit[e].holds
      /\ edit' = [edit EXCEPT ![e] = new] /\ edit[e].holds \in Pack!Versions
  BY <1>1 DEF Pack!WriteTmp, Pack!Edit
<1> HIDE DEF new
<1>3. Midway(e) /\ ~Unrecorded(e)
  BY <1>1 DEF Midway, Unrecorded
<1>4. PICK text \in {edit[e].holds} \cup (IF collided THEN {Torn} ELSE {}) :
        /\ physics' = IF edit[e].fd = "file" THEN text ELSE physics
        /\ aside' = IF edit[e].fd = "tmp" THEN text ELSE aside
  BY DEF Pack!WriteTmp
<1>5. /\ UNCHANGED <<session, committed, readable, cached, enforcing, severed, collided>>
      /\ moved' = (moved \/ edit[e].fd = "file")
  BY DEF Pack!WriteTmp, Pack!ledger, Pack!process
<1>6. CASE ~collided
  <2>1. edit[e].fd = "tmp" /\ edit[e].holds = physics \cup {e} /\ \A d \in Requests \ {e} : ~Midway(d)
    BY <1>1, <1>3, <1>6 DEF PackInv, PackApart
  <2>2. /\ UNCHANGED <<physics, moved>> /\ aside' = edit[e].holds
    BY <1>4, <1>5, <1>6, <2>1
  <2>3. QED
    BY <1>2, <1>3, <1>5, <2>1, <2>2, EditGoesOn
<1>7. CASE collided
  <2>1. physics' \in Pack!Versions \cup {Torn} /\ aside' \in Pack!Versions \cup {Torn, Absent}
    BY <1>2, <1>4
  <2>2. edit'[e] = new /\ \A d \in Requests \ {e} : edit'[d] = edit[d]
    BY <1>2
  <2>3. Pack!TypeOK'
    BY <1>2, <1>5, <2>1 DEF PackInv, Pack!TypeOK, Pack!Versions, Pack!Edit, Pack!Session, Pack!Tools
  <2>4. moved' \/ physics' = physics
    BY <1>4, <1>5
  <2>5. moved => moved'
    BY <1>5
  <2>6. QED
    BY <1>2, <1>5, <1>7, <2>2, <2>3, <2>4, <2>5 DEF PackInv
<1>8. QED
  BY <1>6, <1>7

(* The temporary file becomes the file; what is open in it moves along.     *)
LEMMA EditReplaces ==
  ASSUME PackInv, NEW e \in Requests, Pack!ReplaceFile(e)
  PROVE  PackInv'
<1> USE PackTypes, PackConstants
<1>1. edit[e].at = "written" /\ edit[e].op = "update" /\ edit[e] \in Pack!Edit
  BY DEF Pack!ReplaceFile, Pack!At, PackInv
<1>2. Midway(e) /\ ~Unrecorded(e)
  BY <1>1 DEF Midway, Unrecorded
<1>3. UNCHANGED <<session, committed, readable, cached, enforcing, severed, collided>>
  BY DEF Pack!ReplaceFile, Pack!ledger, Pack!process
<1>4. CASE aside = Absent
  <2> DEFINE new == [edit[e] EXCEPT !.at = "failed"]
  <2>1. /\ new \in Pack!Edit /\ new.at = "failed" /\ edit' = [edit EXCEPT ![e] = new]
    BY <1>1, <1>4 DEF Pack!ReplaceFile, Pack!Edit
  <2> HIDE DEF new
  <2>2. UNCHANGED <<physics, aside, moved>> /\ ~Midway(e)'
    BY <1>4, <2>1 DEF Pack!ReplaceFile, Pack!files, Midway
  <2>3. QED
    BY <1>2, <1>3, <2>1, <2>2, EditGoesOn
<1>5. CASE aside # Absent
  <2>1. /\ physics' = aside /\ aside' = Absent /\ moved'
        /\ edit' = [d \in Requests |->
             IF d = e THEN [edit[d] EXCEPT !.at = "hashed"]
             ELSE [edit[d] EXCEPT !.fd = CASE @ = "tmp" -> "file" [] @ = "file" -> "gone" [] OTHER -> @]]
    BY <1>5 DEF Pack!ReplaceFile
  <2>2. ASSUME NEW d \in Requests
        PROVE  /\ edit'[d] \in Pack!Edit /\ edit'[d].op = edit[d].op /\ edit'[d].holds = edit[d].holds
               /\ IF d = e THEN edit'[d].at = "hashed" ELSE edit'[d].at = edit[d].at
    <3>1. edit[d] \in Pack!Edit
      OBVIOUS
    <3>2. CASE d = e
      BY <2>1, <3>1, <3>2 DEF Pack!Edit
    <3>3. CASE d # e
      <4>1. (CASE edit[d].fd = "tmp" -> "file" [] edit[d].fd = "file" -> "gone" [] OTHER -> edit[d].fd)
              \in {"none", "tmp", "file", "gone"}
        BY <3>1 DEF Pack!Edit
      <4>2. edit'[d] = [edit[d] EXCEPT !.fd =
                          CASE edit[d].fd = "tmp" -> "file" [] edit[d].fd = "file" -> "gone" [] OTHER -> edit[d].fd]
        BY <2>1, <3>3
      <4> DEFINE fd == CASE edit[d].fd = "tmp" -> "file" [] edit[d].fd = "file" -> "gone" [] OTHER -> edit[d].fd
      <4>3. fd \in {"none", "tmp", "file", "gone"} /\ edit'[d] = [edit[d] EXCEPT !.fd = fd]
        BY <4>1, <4>2
      <4> HIDE DEF fd
      <4>4. QED
        BY <3>1, <3>3, <4>3 DEF Pack!Edit
    <3>4. QED
      BY <3>2, <3>3
  <2>3. edit' \in [Requests -> Pack!Edit]
    BY <2>1, <2>2
  <2>4. Pack!TypeOK'
    BY <1>3, <1>5, <2>1, <2>3 DEF PackInv, Pack!TypeOK, Pack!Versions, Pack!Edit, Pack!Session, Pack!Tools
  <2>5. ASSUME ~collided PROVE PackApart'
    <3>1. /\ PackApart /\ aside = edit[e].holds /\ edit[e].holds = physics \cup {e} /\ physics \in Pack!Versions
          /\ \A d \in Requests \ {e} : ~Midway(d)
      BY <1>1, <1>2, <2>5 DEF PackInv, PackApart
    <3>2. physics' = physics \cup {e} /\ physics' # Torn
      BY <2>1, <3>1
    <3>3. \A d \in Requests : ~Midway(d)'
      BY <2>2, <3>1 DEF Midway
    <3>4. \A d \in Requests : edit'[d].op = "update" /\ edit'[d].at \in {"hashed", "done"} => d \in physics'
      BY <2>2, <3>1, <3>2 DEF PackApart
    <3>5. Unrecorded(e)' /\ edit'[e].holds = physics'
      BY <1>1, <2>1, <2>2, <3>1 DEF Unrecorded
    <3>6. QED
      BY <1>3, <3>1, <3>2, <3>3, <3>4, <3>5 DEF PackApart
  <2>6. \A d \in Requests : edit'[d].at \in {"loaded", "opened", "written"} => edit'[d].op = "update"
    BY <2>2 DEF PackInv
  <2>7. QED
    BY <1>3, <2>1, <2>4, <2>5, <2>6 DEF PackInv
<1>6. QED
  BY <1>4, <1>5

(* A session is asserted, opened or refused.                                *)
LEMMA SessionsGoOn ==
  ASSUME PackInv, NEW o \in Clients, Pack!assert_policy_commitment(o) \/ Pack!build_domain_context(o)
  PROVE  PackInv'
<1> USE PackTypes, PackConstants
<1>1. /\ UNCHANGED <<physics, aside, edit, readable, cached, enforcing, moved, collided, severed>>
      /\ committed \subseteq committed' /\ committed' \subseteq committed \cup {session[o].claims}
  BY DEF Pack!assert_policy_commitment, Pack!build_domain_context, Pack!files, Pack!process, Pack!history, Pack!ledger
<1>2. session[o] \in Pack!Session /\ session[o].claims \in Pack!Versions
  BY DEF Pack!Session
<1>3. PICK new \in Pack!Session :
        /\ session' = [session EXCEPT ![o] = new] /\ new.claims = cached
        /\ \/ new.at = "asserted" /\ (enforcing => cached \in committed)
           \/ new.at = "refused" /\ (physics = Torn \/ ~readable \/ cached \notin committed)
           \/ /\ new.at = "open" /\ new.runs = physics /\ physics # Torn /\ cached # NoPhysics
              /\ enforcing => cached \in committed
              /\ ~new.early => ~collided /\ ~severed /\ \A e \in Requests : ~Unrecorded(e)
  <2>1. CASE Pack!assert_policy_commitment(o)
    <3> DEFINE at == IF enforcing => Pack!has_policy_commitment THEN "asserted" ELSE "refused"
               new == [Pack!NoSession EXCEPT !.at = at, !.claims = cached]
    <3>1. new \in Pack!Session /\ new.at = at /\ new.claims = cached /\ session' = [session EXCEPT ![o] = new]
      BY <2>1 DEF Pack!assert_policy_commitment, Pack!Session, Pack!NoSession
    <3>2. \/ at = "asserted" /\ (enforcing => cached \in committed)
          \/ at = "refused" /\ (~readable \/ cached \notin committed)
      BY DEF Pack!has_policy_commitment
    <3> HIDE DEF at, new
    <3>3. QED
      BY <3>1, <3>2
  <2>2. CASE Pack!build_domain_context(o) /\ physics = Torn
    <3> DEFINE new == [session[o] EXCEPT !.at = "refused"]
    <3>1. new \in Pack!Session /\ new.at = "refused" /\ new.claims = session[o].claims /\ session' = [session EXCEPT ![o] = new]
      BY <1>2, <2>2 DEF Pack!build_domain_context, Pack!Session
    <3>2. session[o].claims = cached
      BY <2>2 DEF Pack!build_domain_context, PackInv
    <3> HIDE DEF new
    <3>3. QED
      BY <2>2, <3>1, <3>2
  <2>3. CASE Pack!build_domain_context(o) /\ physics # Torn
    <3> DEFINE early == collided \/ severed \/ \E e \in Requests : edit[e].op = "update" /\ Pack!At(e, "hashed")
               new == [session[o] EXCEPT !.at = "open", !.runs = physics, !.early = early]
    <3>1. early \in BOOLEAN /\ physics \in Pack!Versions
      BY <2>3
    <3>2. session' = [session EXCEPT ![o] = new]
      BY <2>3 DEF Pack!build_domain_context
    <3>3. ~early => ~collided /\ ~severed /\ \A e \in Requests : ~Unrecorded(e)
      BY DEF Unrecorded, Pack!At
    <3> HIDE DEF early
    <3>4. new \in Pack!Session /\ new.at = "open" /\ new.claims = session[o].claims /\ new.runs = physics /\ new.early = early
      BY <1>2, <3>1 DEF Pack!Session
    <3> HIDE DEF new
    <3>5. session[o].claims = cached /\ (enforcing => cached \in committed)
      BY <2>3 DEF Pack!build_domain_context, PackInv
    <3>6. cached # NoPhysics
      BY <1>2, <3>5
    <3>7. QED
      BY <2>3, <3>2, <3>3, <3>4, <3>5, <3>6
  <2>4. QED
    BY <2>1, <2>2, <2>3
<1>4. session'[o] = new /\ \A q \in Clients \ {o} : session'[q] = session[q]
  BY <1>3
<1>5. Pack!TypeOK'
  BY <1>1, <1>2, <1>3 DEF PackInv, Pack!TypeOK, Pack!Versions, Pack!Edit, Pack!Session, Pack!Tools
<1>6. new.at = "open" /\ ~moved => physics = cached
  BY <1>3 DEF PackInv
<1>7. new.at = "open" /\ enforcing /\ ~new.early => physics \in committed
  <2> SUFFICES ASSUME new.at = "open", enforcing, ~new.early PROVE physics \in committed
    OBVIOUS
  <2>1. PackApart /\ ~severed /\ cached \in committed /\ \A e \in Requests : ~Unrecorded(e)
    BY <1>3 DEF PackInv
  <2>2. QED
    BY <2>1 DEF PackApart
<1>8. ASSUME ~collided PROVE PackApart'
  <2>1. PackApart
    BY <1>8 DEF PackInv
  <2>2. \A e \in Requests : (Midway(e)' <=> Midway(e)) /\ (Unrecorded(e)' <=> Unrecorded(e))
    BY <1>1 DEF Midway, Unrecorded
  <2>3. ~severed /\ readable /\ new.at = "refused" => new.claims = {}
    BY <1>3, <2>1 DEF PackApart
  <2>4. QED
    BY <1>1, <1>3, <1>4, <2>1, <2>2, <2>3 DEF PackApart
<1>9. \A q \in Clients : session'[q].at # "idle" =>
        /\ session'[q].claims = cached
        /\ session'[q].at = "open" /\ ~moved => session'[q].runs = cached
        /\ session'[q].at = "asserted" /\ enforcing => cached \in committed
        /\ session'[q].at = "open" /\ enforcing /\ ~session'[q].early => session'[q].runs \in committed
  BY <1>3, <1>4, <1>6, <1>7 DEF PackInv
<1>10. QED
  BY <1>1, <1>5, <1>8, <1>9 DEF PackInv

(* The process reads what is in the file by then.                          *)
LEMMA PackRestarts ==
  ASSUME PackInv, Pack!Restart
  PROVE  PackInv'
<1> USE PackTypes, PackConstants
<1>1. /\ UNCHANGED <<physics, aside, committed, collided>> /\ moved' = FALSE /\ enforcing' \in BOOLEAN
      /\ cached' = IF physics = Torn THEN NoPhysics ELSE physics
      /\ readable' \in BOOLEAN /\ (readable' => readable)
      /\ severed' = (severed \/ \E e \in Requests : Unrecorded(e))
      /\ session' = [o \in Clients |-> Pack!NoSession]
  BY DEF Pack!Restart, Pack!files, Unrecorded, Pack!At
<1>2. ASSUME NEW e \in Requests
      PROVE  /\ edit'[e] \in Pack!Edit
             /\ edit'[e].at \notin {"loaded", "opened", "written"}
             /\ edit'[e].op = "update" => edit'[e].at # "hashed" /\ (edit'[e].at = "done" => edit'[e] = edit[e])
  <2>1. edit[e] \in Pack!Edit /\ "update" \notin Pack!Tools
    BY DEF Pack!Tools
  <2>2. CASE edit[e].op \in Pack!Tools \/ edit[e].at \in {"idle", "done"}
    <3>1. edit'[e] = edit[e]
      BY <2>2 DEF Pack!Restart
    <3>2. QED
      BY <2>1, <2>2, <3>1 DEF PackInv, Pack!Tools
  <2>3. CASE ~(edit[e].op \in Pack!Tools \/ edit[e].at \in {"idle", "done"})
    <3>1. edit'[e] = [Pack!NoEdit EXCEPT !.op = edit[e].op, !.at = "failed"]
      BY <2>3 DEF Pack!Restart
    <3>2. QED
      BY <2>1, <3>1 DEF Pack!Edit
  <2>4. QED
    BY <2>2, <2>3
<1>3. edit' \in [Requests -> Pack!Edit]
  BY <1>2 DEF Pack!Restart
<1>4. severed' \in BOOLEAN /\ cached' \in Pack!Versions \cup {NoPhysics} /\ session' \in [Clients -> Pack!Session]
  BY <1>1
<1>5. Pack!TypeOK'
  BY <1>1, <1>3, <1>4 DEF PackInv, Pack!TypeOK, Pack!Versions, Pack!Edit, Pack!Session, Pack!Tools
<1>6. ASSUME ~collided PROVE PackApart'
  <2>1. PackApart
    BY <1>6 DEF PackInv
  <2>2. \A e \in Requests : ~Midway(e)' /\ ~Unrecorded(e)'
    BY <1>2 DEF Midway, Unrecorded
  <2>3. \A e \in Requests : edit'[e].op = "update" /\ edit'[e].at \in {"hashed", "done"} => e \in physics'
    BY <1>1, <1>2, <2>1 DEF PackApart
  <2>4. ~severed' => physics \in committed \cup {{}}
    BY <1>1, <2>1 DEF PackApart
  <2>5. physics' # Torn /\ cached' = physics /\ physics' = physics /\ committed' = committed
    BY <1>1, <2>1 DEF PackApart
  <2>6. \A o \in Clients : session'[o].at = "idle"
    BY <1>1
  <2>7. ~severed' => /\ cached' \in committed' \cup {{}}
                     /\ (physics' = {} /\ cached' = {}) \/ physics' \in committed'
    BY <2>4, <2>5
  <2>8. QED
    BY <2>2, <2>3, <2>5, <2>6, <2>7 DEF PackApart
<1>7. QED
  BY <1>1, <1>2, <1>5, <1>6 DEF PackInv

LEMMA PackStays ==
  ASSUME PackInv, Pack!Next \/ Pack!Restart \/ UNCHANGED packVars
  PROVE  PackInv'
<1>1. CASE UNCHANGED packVars
  BY <1>1 DEF packVars, PackInv, Pack!TypeOK, PackApart, Midway, Unrecorded
<1>2. ASSUME NEW e \in Requests,
             Pack!update_domain_physics(e) \/ Pack!model_pack_commit(e) \/ Pack!cmd_commit(e) \/ Pack!cmd_rollback(e)
      PROVE  PackInv'
  BY <1>2, EditBegins DEF Pack!update_domain_physics, Pack!model_pack_commit, Pack!cmd_commit, Pack!cmd_rollback
<1>3. CASE Pack!Next
  BY <1>2, <1>3, EditOpens, EditWrites, EditReplaces, EditRecords, SessionsGoOn DEF Pack!Next
<1>4. QED
  BY <1>1, <1>3, PackRestarts

LEMMA PackIsSound ==
  ASSUME PackInv
  PROVE  /\ Pack!RunsCommitted /\ Pack!ClaimsWhatItRuns
         /\ Pack!UpdatesAreKept /\ Pack!UpdatedPackOpens
<1>1. Pack!RunsCommitted /\ Pack!ClaimsWhatItRuns
  BY DEF PackInv, Pack!RunsCommitted, Pack!ClaimsWhatItRuns
<1>2. Pack!UpdatesAreKept /\ Pack!UpdatedPackOpens
  BY DEF PackInv, PackApart, Pack!UpdatesAreKept, Pack!UpdatedPackOpens, Pack!At
<1>3. QED
  BY <1>1, <1>2

-----------------------------------------------------------------------------
(* Accounts.                                                               *)

AccP == INSTANCE AccountsProofs

LEMMA AccountSteps == [Next]_vars => Acc!Next \/ Acc!Restart \/ UNCHANGED accountVars
BY DEF Next, vars, AccountStep, TokenStep, ConfirmationStep, StagingStep, IngestionStep, BusStep, RecordStep,
       DocumentStep, NightStep, PackStep, ManifestStep, ChainStep, FeedStep, GrantStep, PermissionStep,
       GovernanceStep, RetrievalStep, KnowledgeStep, GraphStep, Restart, peopleVars, workVars, storeVars,
       eventVars, groundingVars

(* Both instances of Accounts, Acc and the one the lemmas are about, are of *)
(* the same variables.                                                     *)
LEMMA SameSteps == Acc!Next \/ Acc!Restart \/ UNCHANGED accountVars => AccP!Next \/ AccP!Restart \/ UNCHANGED AccP!vars
<1>1. Acc!Next => AccP!Next
  BY DEF Acc!User, AccP!User, Acc!Store, AccP!Store, Acc!register, AccP!register, Acc!invite_user,
       AccP!invite_user, Acc!setup_password, AccP!setup_password, Acc!password_reset, AccP!password_reset,
       Acc!delete_user, AccP!delete_user, Acc!update_user, AccP!update_user, Acc!Calls, AccP!Calls,
       Acc!Operation, AccP!Operation, Acc!Call, AccP!Call, Acc!Creates, AccP!Creates, Acc!Idle, AccP!Idle,
       Acc!Request, AccP!Request, Acc!Registered, AccP!Registered, Acc!Taken, AccP!Taken, Acc!call,
       AccP!call, Acc!At, AccP!At, Acc!InSave, AccP!InSave, Acc!OnEventLoop, AccP!OnEventLoop,
       Acc!LoopIsFree, AccP!LoopIsFree, Acc!Finish, AccP!Finish, Acc!Return, AccP!Return, Acc!Arrive,
       AccP!Arrive, Acc!Resume, AccP!Resume, Acc!Creating, AccP!Creating, Acc!get_user_by_username,
       AccP!get_user_by_username, Acc!list_users, AccP!list_users, Acc!get_user, AccP!get_user,
       Acc!validate_invite_token, AccP!validate_invite_token, Acc!create_user, AccP!create_user,
       Acc!set_user_invite_token, AccP!set_user_invite_token, Acc!clear_user_invite_token,
       AccP!clear_user_invite_token, Acc!update_user_password, AccP!update_user_password, Acc!activate_user,
       AccP!activate_user, Acc!deactivate_user, AccP!deactivate_user, Acc!Changed, AccP!Changed, Acc!Reads,
       AccP!Reads, Acc!Count, AccP!Count, Acc!_load_users, AccP!_load_users, Acc!OpenTmp, AccP!OpenTmp,
       Acc!Dump, AccP!Dump, Acc!DumpFails, AccP!DumpFails, Acc!Moved, AccP!Moved, Acc!Replace, AccP!Replace,
       Acc!InsertRow, AccP!InsertRow, Acc!UpdateRow, AccP!UpdateRow, Acc!Expire, AccP!Expire, Acc!Step,
       AccP!Step, Acc!Next, AccP!Next
<1>2. Acc!Restart => AccP!Restart
  BY DEF Acc!Restart, AccP!Restart, Acc!Idle, AccP!Idle
<1>3. UNCHANGED accountVars => UNCHANGED AccP!vars
  BY DEF accountVars, AccP!vars
<1>4. QED
  BY <1>1, <1>2, <1>3

LEMMA SameAssumption == Acc!AccountsAssumption => AccP!AccountsAssumption
BY DEF Acc!AccountsAssumption, AccP!AccountsAssumption, Acc!User, AccP!User, Acc!Store, AccP!Store

LEMMA AccountsInvariant == Spec => []AccP!AccountInv
<1>0. AccP!AccountsAssumption
  BY AccountsAssumption, SameAssumption
<1>1. Init => AccP!AccountInv
  <2>1. Acc!Init => AccP!Init
    BY DEF Acc!Init, AccP!Init, Acc!Idle, AccP!Idle
  <2>2. QED
    BY <1>0, <2>1, AccP!AccountInit DEF Init
<1>2. AccP!AccountInv /\ [Next]_vars => AccP!AccountInv'
  BY <1>0, AccountSteps, SameSteps, AccP!AccountsStay
<1>3. QED
  BY <1>1, <1>2, PTL DEF Spec

(* However requests and their saves interleave, are lost or cut short, an   *)
(* invited user is active only after redeeming an invitation and choosing a *)
(* password, an invitation is redeemed once, and names and the first root   *)
(* are unique, unless saves or checks have overlapped; only then can the    *)
(* file be torn.                                                            *)
THEOREM AccountsStaySound == Spec => []AccountsAreSound
<1>1. AccP!AccountInv => AccountsAreSound
  <2> SUFFICES ASSUME AccP!AccountInv PROVE AccountsAreSound
    OBVIOUS
  <2>1. /\ AccP!ActiveWasRedeemed /\ AccP!ActiveHasPassword /\ AccP!RedeemedOnce
        /\ AccP!UsernamesAreUnique /\ AccP!OneIsPromoted /\ AccP!StoreIsReadable
    BY AccP!AccountsSound
  <2>2. \A S : AccP!Cardinality(S) = Acc!Cardinality(S)
    BY DEF AccP!Cardinality, Acc!Cardinality, AccP!IsFiniteSet, Acc!IsFiniteSet
  <2>3. Acc!ActiveWasRedeemed /\ Acc!ActiveHasPassword /\ Acc!RedeemedOnce
    BY <2>1 DEF Acc!ActiveWasRedeemed, AccP!ActiveWasRedeemed, Acc!ActiveHasPassword, AccP!ActiveHasPassword,
                Acc!RedeemedOnce, AccP!RedeemedOnce, Acc!Registered, AccP!Registered
  <2>4. Acc!UsernamesAreUnique /\ Acc!OneIsPromoted /\ Acc!StoreIsReadable
    BY <2>1, <2>2 DEF Acc!UsernamesAreUnique, AccP!UsernamesAreUnique, Acc!OneIsPromoted, AccP!OneIsPromoted,
                      Acc!StoreIsReadable, AccP!StoreIsReadable, Acc!Registered, AccP!Registered
  <2>5. QED
    BY <2>3, <2>4 DEF AccountsAreSound
<1>2. QED
  BY <1>1, AccountsInvariant, PTL

-----------------------------------------------------------------------------
(* What has been decided stands.                                           *)

(* The other components too are changed by their own steps and restarts.   *)
LEMMA ComponentSteps ==
  ASSUME [Next]_vars
  PROVE  /\ Conf!Next \/ Conf!Restart \/ UNCHANGED confirmationVars
         /\ Stag!Next \/ Stag!Restart \/ UNCHANGED stagingVars
         /\ Ing!Next \/ Ing!Restart \/ UNCHANGED ingestionVars
         /\ Retr!Next \/ Retr!Restart \/ UNCHANGED retrievalVars
         /\ Pack!Next \/ Pack!Restart \/ UNCHANGED packVars
         /\ Perm!Next \/ Perm!Restart \/ UNCHANGED accessVars
<1>1. CASE Next
  BY <1>1 DEF Next, AccountStep, TokenStep, ConfirmationStep, StagingStep, IngestionStep, BusStep, RecordStep,
       DocumentStep, NightStep, PackStep, ManifestStep, ChainStep, FeedStep, GrantStep, PermissionStep,
       GovernanceStep, RetrievalStep, KnowledgeStep, GraphStep, Restart, peopleVars, workVars, storeVars,
       eventVars, groundingVars, Perm!Next
<1>2. CASE UNCHANGED vars
  BY <1>2 DEF vars, peopleVars, workVars, storeVars, groundingVars
<1>3. QED
  BY <1>1, <1>2

(* The backend is chosen at the start, and accounts are its only clients    *)
(* that could change it.                                                   *)
LEMMA BackendStays == [Next]_vars => UNCHANGED backend
<1>1. Acc!Next \/ Acc!Restart \/ UNCHANGED accountVars => UNCHANGED backend
  BY ZenonT(30) DEF accountVars, Acc!Restart, Acc!Next, Acc!Step, Acc!Expire, Acc!Arrive, Acc!Resume,
     Acc!get_user_by_username, Acc!get_user, Acc!validate_invite_token, Acc!_load_users, Acc!OpenTmp,
     Acc!Dump, Acc!DumpFails, Acc!Replace, Acc!list_users, Acc!InsertRow, Acc!UpdateRow
<1>2. QED
  BY <1>1, AccountSteps

DecisionInv ==
  /\ TokenInv /\ AccP!AccountInv /\ ConfirmationInv /\ StagingInv /\ IngestionInv /\ AccessInv /\ RetrievalInv
  /\ PackInv

LEMMA DecisionsInvariant == Spec => []DecisionInv
<1>1. Init => ConfirmationInv /\ StagingInv /\ IngestionInv /\ AccessInv /\ RetrievalInv /\ PackInv
  BY ConfirmationInit, StagingInit, IngestionInit, AccessInit, RetrievalInit, PackInit DEF Init
<1>2. ConfirmationInv /\ [Next]_vars => ConfirmationInv'
  BY ComponentSteps, ConfirmationsStay
<1>3. StagingInv /\ [Next]_vars => StagingInv'
  BY ComponentSteps, StagingStays
<1>4. IngestionInv /\ [Next]_vars => IngestionInv'
  BY ComponentSteps, IngestionStays
<1>5. AccessInv /\ [Next]_vars => AccessInv'
  BY ComponentSteps, BackendStays, AccessStays
<1>6. RetrievalInv /\ [Next]_vars => RetrievalInv'
  <2> SUFFICES ASSUME RetrievalInv, [Next]_vars PROVE RetrievalInv'
    OBVIOUS
  <2>1. UNCHANGED retrievalVars => UNCHANGED Retr!vars
    BY DEF retrievalVars, Retr!vars
  <2>2. QED
    BY <2>1, ComponentSteps, RetrievalStays
<1>7. PackInv /\ [Next]_vars => PackInv'
  BY ComponentSteps, PackStays
<1>8. QED
  BY <1>1, <1>2, <1>3, <1>4, <1>5, <1>6, <1>7, TokensInvariant, AccountsInvariant, PTL DEF Spec, DecisionInv

(* What takes effect was decided by a person, however requests interleave   *)
(* and whatever a restart cuts short.                                       *)
THEOREM PeopleDoDecide == Spec => []PeopleDecide
<1>1. DecisionInv => PeopleDecide
  BY ConfirmationsAreSound, StagingIsSound, PackIsSound, VerdictsAreSound DEF DecisionInv, IngestionInv, PeopleDecide
<1>2. QED
  BY <1>1, DecisionsInvariant, PTL

(* A token that was refused stays so: tokens are only added, time and the   *)
(* set of revoked ones only grow, until a restart.                         *)
LEMMA RefusalsAreKept ==
  ASSUME TokenInv, Tok!Next \/ Tok!Restart
  PROVE  Tok!KeepsRefusals
<1> SUFFICES ASSUME Tok!Next, NEW t \in Tok!TokenIds, ~Tok!verify_scoped_jwt(t) PROVE ~Tok!verify_scoped_jwt(t)'
  BY DEF Tok!KeepsRefusals
<1> USE TokenTypes
<1>1. /\ clock' = clock \/ clock' = clock + 1
      /\ revoked \subseteq revoked'
      /\ tokens' = tokens \/ \E new : tokens' = Append(tokens, new)
  <2>1. CASE \E c \in Clients : Tok!Answer(c)
    BY <2>1 DEF Tok!Answer, Tok!Issue
  <2>2. CASE Tok!Tick \/ \E u \in Holders : Tok!ChangeAccount(u)
    BY <2>2 DEF Tok!Tick, Tok!ChangeAccount
  <2>3. CASE \E i \in Tok!TokenIds : Tok!revoke_token(i)
    BY <2>3 DEF Tok!revoke_token
  <2>4. CASE \E c \in Clients : Tok!ReadAccount(c)
    BY <2>4 DEF Tok!ReadAccount
  <2>5. CASE \E c \in Clients : \/ \E u \in Holders, track \in Tok!Tracks : Tok!Login(c, u, track)
                                \/ \E u \in Holders : Tok!SetupPassword(c, u)
    BY <2>5 DEF Tok!Login, Tok!SetupPassword
  <2>6. CASE \E c \in Clients : \/ \E i \in Tok!TokenIds, track \in Tok!Tracks : Tok!Refresh(c, i, track)
                                \/ \E i \in Tok!TokenIds, site \in Sites : Tok!switch_operating_context(c, i, site)
    BY <2>6 DEF Tok!Refresh, Tok!switch_operating_context
  <2>7. QED
    BY <2>1, <2>2, <2>3, <2>4, <2>5, <2>6 DEF Tok!Next
<1>2. tokens'[t] = tokens[t]
  BY <1>1 DEF Tok!TokenIds
<1>3. tokens[t].iat \in Nat
  OBVIOUS
<1>4. QED
  BY <1>1, <1>2, <1>3 DEF Tok!verify_scoped_jwt, Tok!is_token_revoked

(* No request and no crash takes a decision back: users are kept unless two *)
(* saves overlapped, refused tokens and answered confirmations stay so, a   *)
(* staged file keeps its resolution and follows the kernel, a commit        *)
(* records the last review, rights change within their scope, and retrieval *)
(* is only lost after a save that was cut short.                            *)
THEOREM DecisionsDoStand == Spec => DecisionsStand
<1>1. ASSUME DecisionInv, [Next]_vars
      PROVE  /\ UNCHANGED accountVars \/ Acc!KeepsUsers
             /\ UNCHANGED tokenVars \/ Tok!KeepsRefusals
             /\ UNCHANGED confirmationVars \/ Conf!KeepsAnswers
             /\ UNCHANGED stagingVars \/ (Stag!KeepsResolutions /\ Stag!AdvancesLegally)
             /\ UNCHANGED ingestionVars \/ Ing!RecordsLastReview
             /\ UNCHANGED accessVars \/ Perm!ScopesStand
             /\ UNCHANGED retrievalVars \/ Retr!OnlyCutDisables
  <2>1. Acc!KeepsUsers
    <3>1. AccP!AccountsAssumption /\ AccP!AccountInv
      BY <1>1, AccountsAssumption, SameAssumption DEF DecisionInv
    <3>2. AccP!Next \/ AccP!Restart \/ UNCHANGED AccP!vars
      BY <1>1, AccountSteps, SameSteps
    <3>3. AccP!KeepsUsers
      BY <3>1, <3>2, AccP!UsersAreKept
    <3>4. QED
      BY <3>3 DEF AccP!KeepsUsers, Acc!KeepsUsers, AccP!Registered, Acc!Registered
  <2>2. UNCHANGED tokenVars \/ Tok!KeepsRefusals
    BY <1>1, TokenSteps, RefusalsAreKept DEF DecisionInv
  <2>3. UNCHANGED confirmationVars \/ Conf!KeepsAnswers
    BY <1>1, ComponentSteps, AnswersAreKept DEF DecisionInv
  <2>4. UNCHANGED stagingVars \/ (Stag!KeepsResolutions /\ Stag!AdvancesLegally)
    BY <1>1, ComponentSteps, ResolutionsAreKept, StagingAdvances DEF DecisionInv
  <2>5. UNCHANGED ingestionVars \/ Ing!RecordsLastReview
    BY <1>1, ComponentSteps, CommitsRecordReviews DEF DecisionInv
  <2>6. UNCHANGED accessVars \/ Perm!ScopesStand
    BY <1>1, ComponentSteps, ScopesAreKept DEF DecisionInv
  <2>7. UNCHANGED retrievalVars \/ Retr!OnlyCutDisables
    <3>1. UNCHANGED retrievalVars => UNCHANGED Retr!vars
      BY DEF retrievalVars, Retr!vars
    <3>2. QED
      BY <1>1, <3>1, ComponentSteps, RetrievalStays DEF DecisionInv
  <2>8. QED
    BY <2>1, <2>2, <2>3, <2>4, <2>5, <2>6, <2>7
<1>2. QED
  BY <1>1, DecisionsInvariant, PTL DEF Spec, DecisionsStand
=============================================================================
