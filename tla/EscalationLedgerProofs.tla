------------------------ MODULE EscalationLedgerProofs ------------------------
(***************************************************************************)
(* Proofs about EscalationLedger, for any escalations, ledgers and         *)
(* requests.  An id is open or pending in its first version only, and no   *)
(* later version sorts before that one unless its ledger does: every append*)
(* has this form (Fits), and one lemma shows that such an append preserves *)
(* what the queue is rebuilt from.                                         *)
(***************************************************************************)
EXTENDS EscalationLedger, TLAPS

(* A later version w of the escalation that v first recorded.              *)
Follows(w, v) ==
  /\ v.ts <= w.ts
  /\ v.ts = w.ts => /\ w.session = session_ledger[v.id]
                    /\ w.ledger \in {session_ledger[v.id], home[v.id]}

(* What an unclosed version looks like.                                    *)
Original(v) ==
  /\ v.status = initial(v.id)
  /\ v.ledger = home[v.id] /\ v.session = session_ledger[v.id]

TimesInv == \A i \in DOMAIN written : written[i].ts <= i
OriginalInv ==
  \A i \in DOMAIN written : written[i].status \notin Closed => Original(written[i])
ClosedInv ==
  \A i, j \in DOMAIN written :
    i < j /\ written[i].id = written[j].id => written[j].status \in Closed
FollowsInv ==
  \A i, j \in DOMAIN written :
    i < j /\ written[i].id = written[j].id /\ written[i].status \notin Closed
      => Follows(written[j], written[i])
LastInv == \A e \in Recorded : \E i \in Versions(e) : IsLast(i, e)
CommittedInv ==
  \A i \in DOMAIN written : written[i].status = "resolved" => written[i].id \in committed
ExpiredInv ==
  \A i \in DOMAIN written : written[i].status = "expired" => initial(written[i].id) = "open"

LedgerInv ==
  /\ TimesInv /\ OriginalInv /\ ClosedInv /\ FollowsInv /\ LastInv
  /\ CommittedInv /\ ExpiredInv

(* What a suspended request still knows to be true of its copy.            *)
RequestOK(r) ==
  /\ req[r].pc \in {"found", "marking"} =>
       \E i \in DOMAIN written : written[i] = req[r].target
  /\ req[r].pc = "marking" => req[r].target.id \in committed
  /\ req[r].pc \in {"read", "clearing"} =>
       \A e \in req[r].stale : e \in Recorded /\ initial(e) = "open"
RequestInv == \A r \in Requests : RequestOK(r)

SettledInv ==
  \A e \in settled : \E j \in Versions(e) : written[j].status \in Closed

IInv == TypeOK /\ LedgerInv /\ RequestInv /\ SettledInv

-----------------------------------------------------------------------------
(* Before is a strict total order, so the last version is unique.          *)

LEMMA DomainNat ==
  ASSUME TypeOK
  PROVE  /\ Len(written) \in Nat /\ DOMAIN written = 1 .. Len(written)
         /\ \A i \in DOMAIN written :
              /\ i \in Nat /\ written[i] \in Version
              /\ written[i].ts \in Nat /\ written[i].ledger \in Nat
              /\ written[i].session \in Nat /\ written[i].id \in Escalations
              /\ written[i].status \in Status
<1>1. written \in Seq(Version)
  BY DEF TypeOK
<1>2. Len(written) \in Nat /\ DOMAIN written = 1 .. Len(written)
  BY <1>1
<1>3. \A i \in DOMAIN written : i \in Nat /\ written[i] \in Version
  BY <1>1
<1>4. \A v \in Version :
        /\ v.ts \in Nat /\ v.ledger \in Nat /\ v.session \in Nat
        /\ v.id \in Escalations /\ v.status \in Status
  BY DEF Version
<1>5. QED
  BY <1>2, <1>3, <1>4

LEMMA BeforeAsymmetric ==
  ASSUME TypeOK, NEW i \in DOMAIN written, NEW j \in DOMAIN written,
         Before(i, j), Before(j, i)
  PROVE  FALSE
  BY DomainNat DEF Before

LEMMA BeforeTotal ==
  ASSUME TypeOK, NEW i \in DOMAIN written, NEW j \in DOMAIN written, i # j
  PROVE  Before(i, j) \/ Before(j, i)
  BY DomainNat DEF Before

LEMMA BeforeTransitive ==
  ASSUME TypeOK, NEW i \in DOMAIN written, NEW j \in DOMAIN written,
         NEW k \in DOMAIN written, Before(i, j), Before(j, k)
  PROVE  Before(i, k)
  BY DomainNat DEF Before

(* The status of an escalation is that of any version that is its last.    *)
LEMMA CurrentIsLast ==
  ASSUME TypeOK, NEW e, NEW i \in Versions(e), IsLast(i, e)
  PROVE  current(e) = written[i]
<1> DEFINE k == CHOOSE n \in Versions(e) : IsLast(n, e)
<1>1. k \in Versions(e) /\ IsLast(k, e)
  OBVIOUS
<1>2. k = i
  <2> SUFFICES ASSUME k # i PROVE FALSE
    OBVIOUS
  <2>1. Before(k, i) /\ Before(i, k)
    BY <1>1 DEF IsLast
  <2> HIDE DEF k
  <2> QED BY <1>1, <2>1, BeforeAsymmetric DEF Versions
<1> QED BY <1>2 DEF current

(* The same as a fact about a state, to be used of the next one.           *)
CurrentInv == \A e \in Recorded : \A i \in Versions(e) : IsLast(i, e) => status(e) = written[i].status

LEMMA CurrentAlways == TypeOK => CurrentInv
BY CurrentIsLast DEF CurrentInv, status

-----------------------------------------------------------------------------
(* What an append does to the ledgers.                                     *)

(* A new version v fits the ledgers: it is the first of its escalation, or *)
(* a closed one that follows the one that is not.                          *)
Fits(v) ==
  /\ v \in Version /\ v.ts <= Len(written) + 1
  /\ v.id \notin Recorded => v.status \notin Closed /\ Original(v)
  /\ v.id \in Recorded =>
       /\ v.status \in Closed
       /\ \A i \in Versions(v.id) : written[i].status \notin Closed => Follows(v, written[i])

Appends(v) == written' = Append(written, v)

LEMMA Appended ==
  ASSUME TypeOK, NEW v \in Version, Appends(v)
  PROVE  /\ written' \in Seq(Version)
         /\ Len(written)' = Len(written) + 1
         /\ DOMAIN written' = DOMAIN written \cup {Len(written) + 1}
         /\ Len(written) + 1 \notin DOMAIN written
         /\ \A i \in DOMAIN written : written'[i] = written[i] /\ i < Len(written) + 1
         /\ written'[Len(written) + 1] = v
<1>1. written \in Seq(Version)
  BY DEF TypeOK
<1>2. written' \in Seq(Version) /\ Len(written') = Len(written) + 1
  BY <1>1 DEF Appends
<1>3. /\ DOMAIN written = 1 .. Len(written)
      /\ DOMAIN written' = 1 .. Len(written) + 1
      /\ Len(written) \in Nat
  BY <1>1, <1>2
<1>4. DOMAIN written' = DOMAIN written \cup {Len(written) + 1}
  BY <1>3
<1>5. \A i \in DOMAIN written : written'[i] = written[i]
  BY <1>1, <1>3 DEF Appends
<1>6. written'[Len(written) + 1] = v
  BY <1>1 DEF Appends
<1>7. QED
  BY <1>2, <1>3, <1>4, <1>5, <1>6

LEMMA VersionsAppended ==
  ASSUME TypeOK, NEW v \in Version, Appends(v), NEW e
  PROVE  /\ Versions(e)' = IF e = v.id THEN Versions(e) \cup {Len(written) + 1} ELSE Versions(e)
         /\ Recorded' = Recorded \cup {v.id}
<1>1. \A f : Versions(f)' = IF f = v.id THEN Versions(f) \cup {Len(written) + 1} ELSE Versions(f)
  BY Appended DEF Versions
<1>2. v.id \in Escalations
  BY DEF Version
<1>3. \A f : Versions(f)' # {} <=> Versions(f) # {} \/ f = v.id
  BY <1>1
<1>4. Recorded' = Recorded \cup {v.id}
  BY <1>2, <1>3 DEF Recorded
<1>5. QED
  BY <1>1, <1>4

LEMMA BeforeAppended ==
  ASSUME TypeOK, NEW v \in Version, Appends(v),
         NEW i \in DOMAIN written, NEW j \in DOMAIN written
  PROVE  Before(i, j)' <=> Before(i, j)
  BY Appended DEF Before

(* The last version of an escalation stays it or gives way to the new one. *)
LEMMA LastAppended ==
  ASSUME TypeOK, NEW v \in Version, Appends(v), NEW e, NEW i \in Versions(e), IsLast(i, e),
         NEW n, n = Len(written) + 1
  PROVE  \/ IsLast(i, e)'
         \/ e = v.id /\ IsLast(n, e)'
<1>1. i \in DOMAIN written /\ Versions(e) \subseteq DOMAIN written
  BY DEF Versions
<1>2. \A j \in Versions(e) \ {i} : Before(j, i)'
  BY <1>1, BeforeAppended DEF IsLast
<1>3. CASE e # v.id
  <2>1. Versions(e)' = Versions(e)
    BY <1>3, VersionsAppended
  <2>2. QED
    BY <1>2, <2>1 DEF IsLast
<1>4. CASE e = v.id
  <2>1. Versions(e)' = Versions(e) \cup {n}
    BY <1>4, VersionsAppended
  <2>2. Before(n, i)' \/ Before(i, n)'
    <3>1. n \in DOMAIN written' /\ i \in DOMAIN written' /\ i # n
      BY <1>1, Appended
    <3>2. /\ written'[i].ts \in Nat /\ written'[i].ledger \in Nat
          /\ written'[n].ts \in Nat /\ written'[n].ledger \in Nat
          /\ i \in Nat /\ n \in Nat
      BY <1>1, Appended, DomainNat DEF Version
    <3>3. QED
      BY <3>1, <3>2 DEF Before
  <2>3. CASE Before(n, i)'
    BY <1>2, <2>1, <2>3 DEF IsLast
  <2>4. CASE Before(i, n)'
    <3>1. \A j \in Versions(e) : Before(j, n)'
      <4> SUFFICES ASSUME NEW j \in Versions(e), j # i PROVE Before(j, n)'
        BY <2>4
      <4>1. Before(j, i)'
        BY <1>2
      <4>2. /\ written'[i].ts \in Nat /\ written'[i].ledger \in Nat /\ i \in Nat
            /\ written'[j].ts \in Nat /\ written'[j].ledger \in Nat /\ j \in Nat
            /\ written'[n].ts \in Nat /\ written'[n].ledger \in Nat /\ n \in Nat
        BY <1>1, Appended, DomainNat DEF Version
      <4>3. QED
        BY <2>4, <4>1, <4>2 DEF Before
    <3>2. QED
      BY <1>4, <2>1, <3>1 DEF IsLast
  <2>5. QED
    BY <2>2, <2>3, <2>4
<1>5. QED
  BY <1>3, <1>4

-----------------------------------------------------------------------------
(* A fitting append preserves what is known of the ledgers.                *)

LEMMA FittingAppend ==
  ASSUME TypeOK, LedgerInv, NEW v, Fits(v), Appends(v)
  PROVE  TimesInv' /\ OriginalInv' /\ ClosedInv' /\ FollowsInv' /\ LastInv'
<1> PICK n : n = Len(written) + 1
  OBVIOUS
<1> USE DEF LedgerInv
<1>1. /\ v \in Version /\ v.ts <= n
      /\ DOMAIN written' = DOMAIN written \cup {n} /\ n \notin DOMAIN written
      /\ \A i \in DOMAIN written : written'[i] = written[i] /\ i < n
      /\ written'[n] = v
      /\ n \in Nat
  <2>1. v \in Version /\ v.ts <= n
    BY DEF Fits
  <2>2. n \in Nat
    BY DomainNat
  <2>3. QED
    BY <2>1, <2>2, Appended
<1>2. \A i \in DOMAIN written : i \in Nat /\ written[i].id \in Escalations
  BY DomainNat
<1>3. \A i \in DOMAIN written : ~(n < i)
  BY <1>1, <1>2
<1>4. \A i \in DOMAIN written :
        written[i].id = v.id => v.id \in Recorded /\ i \in Versions(v.id)
  BY <1>2 DEF Recorded, Versions
<1>5. TimesInv'
  BY <1>1 DEF TimesInv
<1>6. v.status \notin Closed => Original(v)
  BY DEF Fits
<1>7. OriginalInv'
  <2> SUFFICES ASSUME NEW i \in DOMAIN written', written'[i].status \notin Closed
               PROVE  Original(written'[i])
    BY DEF OriginalInv, Original, initial, home
  <2>1. CASE i = n
    BY <1>1, <1>6, <2>1
  <2>2. CASE i \in DOMAIN written
    BY <1>1, <2>2 DEF OriginalInv
  <2>3. QED
    BY <1>1, <2>1, <2>2
<1>8. ClosedInv'
  <2> SUFFICES ASSUME NEW i \in DOMAIN written', NEW j \in DOMAIN written',
                      i < j, written'[i].id = written'[j].id
               PROVE  written'[j].status \in Closed
    BY DEF ClosedInv
  <2>1. i \in DOMAIN written
    BY <1>1, <1>3
  <2>2. CASE j = n
    BY <1>1, <1>4, <2>1, <2>2 DEF Fits
  <2>3. CASE j \in DOMAIN written
    BY <1>1, <2>1, <2>3 DEF ClosedInv
  <2>4. QED
    BY <1>1, <2>2, <2>3
<1>9. FollowsInv'
  <2> SUFFICES ASSUME NEW i \in DOMAIN written', NEW j \in DOMAIN written',
                      i < j, written'[i].id = written'[j].id, written'[i].status \notin Closed
               PROVE  Follows(written'[j], written'[i])
    BY DEF FollowsInv, Follows, home
  <2>1. i \in DOMAIN written
    BY <1>1, <1>3
  <2>2. CASE j = n
    BY <1>1, <1>4, <2>1, <2>2 DEF Fits
  <2>3. CASE j \in DOMAIN written
    BY <1>1, <2>1, <2>3 DEF FollowsInv
  <2>4. QED
    BY <1>1, <2>2, <2>3
<1>10. LastInv'
  <2> SUFFICES ASSUME NEW e \in Recorded' PROVE \E i \in Versions(e)' : IsLast(i, e)'
    BY DEF LastInv
  <2>1. CASE e \in Recorded
    <3>1. PICK i \in Versions(e) : IsLast(i, e)
      BY <2>1 DEF LastInv
    <3>2. IsLast(i, e)' \/ IsLast(n, e)'
      BY <1>1, <3>1, LastAppended
    <3>3. QED
      BY <3>2 DEF IsLast
  <2>2. CASE e \notin Recorded
    <3>1. e = v.id /\ e \in Escalations /\ Versions(e) = {}
      BY <1>1, <2>2, VersionsAppended DEF Recorded, Version
    <3>2. Versions(e)' = {n}
      BY <1>1, <3>1, VersionsAppended
    <3>3. QED
      BY <3>2 DEF IsLast
  <2>3. QED
    BY <2>1, <2>2
<1>11. QED
  BY <1>5, <1>7, <1>8, <1>9, <1>10

(* A resolved copy of any version fits, if it goes where its session's     *)
(* records go or where the first version is.                               *)
LEMMA ResolvedFits ==
  ASSUME LedgerAssumption, TypeOK, LedgerInv, NEW k \in DOMAIN written, NEW ledger \in Nat,
         ledger \in {written[k].session, home[written[k].id]}
  PROVE  /\ Fits(Resolved(written[k], ledger))
         /\ Resolved(written[k], ledger).id = written[k].id
         /\ Resolved(written[k], ledger).status = "resolved"
<1> DEFINE t == written[k]
           v == Resolved(t, ledger)
<1>1. t \in Version /\ k \in Nat /\ k <= Len(written) /\ t.ts <= k /\ t.ts \in Nat
  BY DomainNat DEF LedgerInv, TimesInv
<1>2. /\ v.id = t.id /\ v.status = "resolved" /\ v.ts = t.ts
      /\ v.session = t.session /\ v.ledger = ledger
  BY <1>1 DEF Resolved, Version
<1>3. v \in Version
  BY <1>1 DEF Resolved, Version, Status
<1>4. t.id \in Recorded /\ k \in Versions(t.id)
  BY DomainNat DEF Recorded, Versions
<1> HIDE DEF v
<1>5. ASSUME NEW i \in Versions(t.id), written[i].status \notin Closed
      PROVE  Follows(v, written[i])
  <2>1. i \in DOMAIN written /\ written[i].id = t.id
    BY DEF Versions
  <2>2. CASE i = k
    <3>1. t.session = session_ledger[t.id]
      BY <1>5, <2>1, <2>2 DEF LedgerInv, OriginalInv, Original
    <3>2. QED
      BY <1>1, <1>2, <2>2, <3>1 DEF Follows
  <2>3. CASE i < k
    <3>1. Follows(t, written[i])
      BY <1>5, <2>1, <2>3 DEF LedgerInv, FollowsInv
    <3>2. QED
      BY <1>2, <2>1, <3>1 DEF Follows
  <2>4. CASE k < i
    BY <1>5, <2>1, <2>4 DEF LedgerInv, ClosedInv
  <2>5. QED
    BY <1>1, <2>1, <2>2, <2>3, <2>4, DomainNat
<1>6. v.ts <= Len(written) + 1
  BY <1>1, <1>2, DomainNat
<1>7. v.status \in Closed
  BY <1>2 DEF Closed
<1>8. Fits(v)
  BY <1>2, <1>3, <1>4, <1>5, <1>6, <1>7 DEF Fits
<1>9. QED
  BY <1>2, <1>8 DEF v

(* The status shown for an escalation is that of one of its versions.      *)
LEMMA CurrentOf ==
  ASSUME TypeOK, LedgerInv, NEW e \in Recorded
  PROVE  \E i \in Versions(e) : IsLast(i, e) /\ current(e) = written[i] /\ written[i].id = e
<1>1. PICK i \in Versions(e) : IsLast(i, e)
  BY DEF LedgerInv, LastInv
<1>2. current(e) = written[i] /\ written[i].id = e
  BY <1>1, CurrentIsLast DEF Versions
<1>3. QED
  BY <1>1, <1>2

LEMMA CurrentInLedger ==
  ASSUME TypeOK, LedgerInv, NEW e \in Recorded
  PROVE  \E i \in DOMAIN written : current(e) = written[i] /\ written[i].id = e
<1>1. Versions(e) \subseteq DOMAIN written
  BY DEF Versions
<1>2. QED
  BY <1>1, CurrentOf

-----------------------------------------------------------------------------
(* Every step leaves the ledgers alone or appends one version that fits.   *)

Writes ==
  \/ UNCHANGED written
  \/ \E v : /\ Fits(v) /\ Appends(v)
            /\ v.status = "resolved" => v.id \in committed'
            /\ v.status = "expired" => initial(v.id) = "open"

LEMMA EscalateWrites ==
  ASSUME LedgerAssumption, IInv, NEW e \in Escalations, Escalate(e)
  PROVE  Writes
<1> DEFINE v == [id |-> e, status |-> initial(e), ts |-> Len(written) + 1,
                 ledger |-> home[e], session |-> session_ledger[e]]
<1>1. initial(e) \in {"open", "pending"}
  BY DEF initial
<1>2. home[e] \in Nat /\ session_ledger[e] \in Nat
  BY DEF LedgerAssumption, home
<1>3. Len(written) + 1 \in Nat
  BY DomainNat DEF IInv
<1>4. v \in Version
  BY <1>1, <1>2, <1>3 DEF Version, Status
<1>5. v.id = e /\ v.status \notin Closed /\ Original(v) /\ v.ts <= Len(written) + 1
  BY <1>1, <1>3 DEF Original, Closed
<1>6. v.id \notin Recorded /\ Appends(v)
  BY DEF Escalate, append_log_record, Appends
<1>7. v.status # "resolved" /\ v.status # "expired"
  BY <1>5 DEF Closed
<1> HIDE DEF v
<1>8. Fits(v)
  BY <1>4, <1>5, <1>6 DEF Fits
<1>9. QED
  BY <1>6, <1>7, <1>8 DEF Writes

LEMMA MarkWrites ==
  ASSUME LedgerAssumption, IInv, NEW r \in Requests, Mark(r)
  PROVE  Writes
<1>1. RequestOK(r) /\ req[r].pc = "marking"
  BY DEF IInv, RequestInv, Mark
<1>2. PICK k \in DOMAIN written : written[k] = req[r].target
  BY <1>1 DEF RequestOK
<1>3. written[k].id \in committed
  BY <1>1, <1>2 DEF RequestOK
<1>4. TypeOK /\ LedgerInv
  BY DEF IInv
<1>5. written[k].session \in Nat
  BY <1>4, DomainNat
<1> DEFINE v == Resolved(written[k], written[k].session)
<1>6. Fits(v) /\ v.id = written[k].id /\ v.status = "resolved"
  BY <1>4, <1>5, ResolvedFits
<1>7. Appends(v) /\ committed' = committed
  BY <1>2 DEF Mark, append_log_record, Appends
<1> HIDE DEF v
<1>8. QED
  BY <1>3, <1>6, <1>7 DEF Writes

LEMMA ExpireWrites ==
  ASSUME LedgerAssumption, IInv, NEW r \in Requests, Expire(r)
  PROVE  Writes
<1>1. PICK e \in req[r].stale :
        append_log_record([id |-> e, status |-> "expired", ts |-> Len(written) + 1,
                           ledger |-> admin_ledger, session |-> admin_ledger])
  BY DEF Expire
<1>2. e \in Recorded /\ initial(e) = "open"
  BY DEF IInv, RequestInv, RequestOK, Expire
<1> DEFINE v == [id |-> e, status |-> "expired", ts |-> Len(written) + 1,
                 ledger |-> admin_ledger, session |-> admin_ledger]
<1>3. Len(written) + 1 \in Nat /\ admin_ledger \in Nat /\ e \in Escalations
  BY <1>2, DomainNat DEF IInv, LedgerAssumption, Recorded
<1>4. v \in Version
  BY <1>3 DEF Version, Status
<1>5. Appends(v)
  BY <1>1 DEF append_log_record, Appends
<1>6. v.id = e /\ v.ts = Len(written) + 1 /\ v.status = "expired" /\ v.status \in Closed
  BY DEF Closed
<1> HIDE DEF v
<1>7. \A i \in Versions(e) : Follows(v, written[i])
  <2> SUFFICES ASSUME NEW i \in Versions(e) PROVE Follows(v, written[i])
    OBVIOUS
  <2>1. i \in DOMAIN written
    BY DEF Versions
  <2>2. written[i].ts <= i /\ written[i].ts \in Nat /\ i \in 1 .. Len(written)
    BY <2>1, DomainNat DEF IInv, LedgerInv, TimesInv
  <2>3. written[i].ts < v.ts
    BY <1>3, <1>6, <2>2
  <2>4. QED
    BY <1>3, <1>6, <2>2, <2>3 DEF Follows
<1>8. Fits(v)
  BY <1>2, <1>3, <1>4, <1>6, <1>7 DEF Fits
<1>9. QED
  BY <1>2, <1>5, <1>6, <1>8 DEF Writes

LEMMA GateWrites ==
  ASSUME LedgerAssumption, IInv, NEW e \in Escalations, GateDecides(e)
  PROVE  Writes
<1>1. CASE UNCHANGED written
  BY <1>1 DEF Writes
<1>2. CASE /\ committed' = committed \cup {e}
           /\ append_log_record(Resolved(current(e), admin_ledger))
  <2>1. e \in Recorded /\ TypeOK /\ LedgerInv
    BY DEF GateDecides, IInv
  <2>2. PICK k \in DOMAIN written : current(e) = written[k] /\ written[k].id = e
    BY <2>1, CurrentInLedger
  <2>3. admin_ledger = home[e] /\ admin_ledger \in Nat
    BY DEF GateDecides, home, LedgerAssumption
  <2> DEFINE v == Resolved(written[k], admin_ledger)
  <2>4. Fits(v) /\ v.id = e /\ v.status = "resolved"
    BY <2>1, <2>2, <2>3, ResolvedFits
  <2>5. Appends(v)
    BY <1>2, <2>2 DEF append_log_record, Appends
  <2> HIDE DEF v
  <2>6. QED
    BY <1>2, <2>4, <2>5 DEF Writes
<1>3. QED
  BY <1>1, <1>2 DEF GateDecides

LEMMA StepWrites ==
  ASSUME LedgerAssumption, IInv, [Next]_vars
  PROVE  Writes /\ committed \subseteq committed'
<1>1. ASSUME NEW e \in Escalations, Escalate(e) PROVE Writes /\ committed \subseteq committed'
  BY <1>1, EscalateWrites DEF Escalate
<1>2. ASSUME NEW e \in Escalations, GateDecides(e) PROVE Writes /\ committed \subseteq committed'
  BY <1>2, GateWrites DEF GateDecides
<1>3. ASSUME NEW r \in Requests, Handler(r) PROVE Writes /\ committed \subseteq committed'
  <2>1. CASE Mark(r)
    BY <2>1, MarkWrites DEF Mark
  <2>2. CASE Expire(r)
    BY <2>2, ExpireWrites DEF Expire
  <2>3. CASE \E e \in Escalations : Lookup(r, e)
    BY <2>3 DEF Lookup, Writes
  <2>4. CASE Commit(r)
    BY <2>4 DEF Commit, Writes
  <2>5. CASE ReadStale(r) \/ Cleared(r) \/ AppendRaises(r)
    BY <2>5 DEF ReadStale, Cleared, AppendRaises, Writes
  <2>6. QED
    BY <1>3, <2>1, <2>2, <2>3, <2>4, <2>5 DEF Handler
<1>4. CASE Restart \/ UNCHANGED vars
  BY <1>4 DEF Restart, vars, Writes
<1>5. QED
  BY <1>1, <1>2, <1>3, <1>4 DEF Next

(* Nothing recorded is lost or altered.                                    *)
Grows ==
  /\ committed \subseteq committed'
  /\ \A i \in DOMAIN written : i \in DOMAIN written' /\ written'[i] = written[i]
  /\ Recorded \subseteq Recorded'

LEMMA LedgerStep ==
  ASSUME TypeOK, LedgerInv, Writes, committed \subseteq committed'
  PROVE  LedgerInv' /\ Grows
<1>1. CASE UNCHANGED written
  <2>1. \A e : Versions(e)' = Versions(e)
    BY <1>1 DEF Versions
  <2>2. Recorded' = Recorded
    BY <2>1 DEF Recorded
  <2>3. \A i, j : Before(i, j)' <=> Before(i, j)
    BY <1>1 DEF Before
  <2>4. LastInv'
    BY <2>1, <2>2, <2>3 DEF LedgerInv, LastInv, IsLast
  <2>5. TimesInv' /\ ClosedInv'
    BY <1>1 DEF LedgerInv, TimesInv, ClosedInv
  <2>6. OriginalInv'
    BY <1>1 DEF LedgerInv, OriginalInv, Original, home, initial
  <2>7. FollowsInv'
    BY <1>1 DEF LedgerInv, FollowsInv, Follows, home
  <2>8. CommittedInv' /\ ExpiredInv'
    BY <1>1 DEF LedgerInv, CommittedInv, ExpiredInv, initial
  <2>9. QED
    BY <1>1, <2>2, <2>4, <2>5, <2>6, <2>7, <2>8 DEF LedgerInv, Grows
<1>2. CASE \E v : /\ Fits(v) /\ Appends(v)
                  /\ v.status = "resolved" => v.id \in committed'
                  /\ v.status = "expired" => initial(v.id) = "open"
  <2>1. PICK v : /\ Fits(v) /\ Appends(v)
                 /\ v.status = "resolved" => v.id \in committed'
                 /\ v.status = "expired" => initial(v.id) = "open"
    BY <1>2
  <2>2. TimesInv' /\ OriginalInv' /\ ClosedInv' /\ FollowsInv' /\ LastInv'
    BY <2>1, FittingAppend
  <2>3. v \in Version
    BY <2>1 DEF Fits
  <2>4. PICK n : n = Len(written) + 1
    OBVIOUS
  <2>5. /\ DOMAIN written' = DOMAIN written \cup {n}
        /\ \A i \in DOMAIN written : written'[i] = written[i]
        /\ written'[n] = v
    BY <2>1, <2>3, <2>4, Appended
  <2>6. CommittedInv'
    BY <2>1, <2>5 DEF LedgerInv, CommittedInv
  <2>7. ExpiredInv'
    BY <2>1, <2>5 DEF LedgerInv, ExpiredInv, initial
  <2>8. Recorded \subseteq Recorded'
    BY <2>1, <2>3, VersionsAppended
  <2>9. Grows
    BY <2>5, <2>8 DEF Grows
  <2>10. QED
    BY <2>2, <2>6, <2>7, <2>9 DEF LedgerInv
<1>3. QED
  BY <1>1, <1>2 DEF Writes

-----------------------------------------------------------------------------
(* Types.                                                                  *)

LEMMA RequestValues ==
  /\ Idle \notin Holding /\ Idle \notin Clearing
  /\ \A x \in {Idle} \cup Holding \cup Clearing :
       /\ x.pc = "idle" => x = Idle
       /\ x.pc \in {"found", "marking"} => x \in Holding
       /\ x.pc \in {"read", "clearing"} => x \in Clearing
BY DEF Idle, Holding, Clearing

LEMMA WrittenTyped ==
  ASSUME TypeOK, Writes
  PROVE  written' \in Seq(Version)
<1>1. CASE UNCHANGED written
  BY <1>1 DEF TypeOK
<1>2. ASSUME NEW v, Fits(v), Appends(v) PROVE written' \in Seq(Version)
  BY <1>2, Appended DEF Fits
<1>3. QED
  BY <1>1, <1>2 DEF Writes

LEMMA RequestTyped ==
  ASSUME TypeOK, LedgerInv, NEW r \in Requests, Handler(r)
  PROVE  req' \in [Requests -> {Idle} \cup Holding \cup Clearing]
<1>1. req \in [Requests -> {Idle} \cup Holding \cup Clearing]
  BY DEF TypeOK
<1>2. ASSUME NEW e \in Escalations, Lookup(r, e)
      PROVE  req' \in [Requests -> {Idle} \cup Holding \cup Clearing]
  <2>1. e \in Recorded
    BY <1>2 DEF Lookup, query_escalations
  <2>2. current(e) \in Version
    BY <2>1, CurrentInLedger, DomainNat
  <2>3. [pc |-> "found", target |-> current(e)] \in Holding
    BY <2>2 DEF Holding
  <2>4. QED
    BY <1>1, <1>2, <2>3 DEF Lookup
<1>3. CASE Commit(r)
  <2>1. [req[r] EXCEPT !.pc = "marking"] \in Holding
    BY <1>1, <1>3, RequestValues DEF Commit, Holding
  <2>2. req' = [req EXCEPT ![r] = [req[r] EXCEPT !.pc = "marking"]]
    BY <1>1, <1>3 DEF Commit
  <2>3. QED
    BY <1>1, <2>1, <2>2
<1>4. CASE Mark(r) \/ Cleared(r) \/ AppendRaises(r)
  BY <1>1, <1>4 DEF Mark, Cleared, AppendRaises
<1>5. CASE ReadStale(r)
  <2>1. PICK S \in SUBSET Escalations : req' = [req EXCEPT ![r] = [pc |-> "read", stale |-> S]]
    BY <1>5 DEF ReadStale, Recorded
  <2>2. [pc |-> "read", stale |-> S] \in Clearing
    BY DEF Clearing
  <2>3. QED
    BY <1>1, <2>1, <2>2
<1>6. CASE Expire(r)
  <2>1. req[r] \in Clearing
    BY <1>1, <1>6, RequestValues DEF Expire
  <2>2. req[r].stale \in SUBSET Escalations
    BY <2>1 DEF Clearing
  <2>3. PICK S \in SUBSET Escalations : req' = [req EXCEPT ![r] = [pc |-> "clearing", stale |-> S]]
    BY <1>6, <2>2 DEF Expire
  <2>4. [pc |-> "clearing", stale |-> S] \in Clearing
    BY DEF Clearing
  <2>5. QED
    BY <1>1, <2>3, <2>4
<1>7. QED
  BY <1>2, <1>3, <1>4, <1>5, <1>6 DEF Handler

LEMMA CommittedTyped ==
  ASSUME TypeOK, LedgerInv, RequestInv, NEW r \in Requests, Handler(r)
  PROVE  /\ committed' \subseteq Escalations /\ settled' \subseteq Escalations
         /\ decided' \subseteq Escalations
<1>1. CASE Commit(r) \/ Mark(r)
  <2>1. req[r].pc \in {"found", "marking"} /\ RequestOK(r)
    BY <1>1 DEF Commit, Mark, RequestInv
  <2>2. req[r].target.id \in Escalations
    BY <2>1, DomainNat DEF RequestOK
  <2>3. QED
    BY <1>1, <2>2 DEF Commit, Mark, TypeOK
<1>2. CASE ~(Commit(r) \/ Mark(r))
  BY <1>2 DEF Handler, Lookup, ReadStale, Expire, Cleared, AppendRaises, TypeOK
<1>3. QED
  BY <1>1, <1>2

LEMMA TypeStep ==
  ASSUME LedgerAssumption, IInv, [Next]_vars
  PROVE  TypeOK'
<1> USE DEF IInv
<1>1. written' \in Seq(Version)
  BY StepWrites, WrittenTyped
<1>2. ASSUME NEW r \in Requests, Handler(r) PROVE TypeOK'
  BY <1>1, <1>2, RequestTyped, CommittedTyped DEF TypeOK
<1>3. ASSUME NEW e \in Escalations, Escalate(e) PROVE TypeOK'
  BY <1>1, <1>3 DEF TypeOK, Escalate
<1>4. ASSUME NEW e \in Escalations, GateDecides(e) PROVE TypeOK'
  BY <1>1, <1>4 DEF TypeOK, GateDecides
<1>5. CASE Restart
  BY <1>1, <1>5 DEF TypeOK, Restart, Recorded
<1>6. CASE UNCHANGED vars
  BY <1>1, <1>6 DEF TypeOK, vars
<1>7. QED
  BY <1>2, <1>3, <1>4, <1>5, <1>6 DEF Next

-----------------------------------------------------------------------------
(* Requests and answers.                                                   *)

LEMMA RequestKept ==
  ASSUME Grows, NEW r \in Requests, RequestOK(r), req'[r] \in {req[r], Idle}
  PROVE  RequestOK(r)'
<1>1. CASE req'[r] = Idle
  BY <1>1 DEF RequestOK, Idle
<1>2. CASE req'[r] = req[r]
  BY <1>2 DEF RequestOK, Grows, initial
<1>3. QED
  BY <1>1, <1>2

(* The request that takes a step.                                          *)
LEMMA RequestServed ==
  ASSUME TypeOK, LedgerInv, RequestInv, Grows, NEW r \in Requests, Handler(r)
  PROVE  RequestOK(r)'
<1>1. req \in [Requests -> {Idle} \cup Holding \cup Clearing] /\ RequestOK(r)
  BY DEF TypeOK, RequestInv
<1>2. ASSUME NEW e \in Escalations, Lookup(r, e) PROVE RequestOK(r)'
  <2>1. e \in Recorded /\ req'[r] = [pc |-> "found", target |-> current(e)]
    BY <1>1, <1>2 DEF Lookup, query_escalations
  <2>2. PICK i \in DOMAIN written : current(e) = written[i]
    BY <2>1, CurrentInLedger
  <2>3. i \in DOMAIN written' /\ written'[i] = current(e)
    BY <2>2 DEF Grows
  <2>4. req'[r].pc = "found" /\ req'[r].target = current(e)
    BY <2>1
  <2>5. QED
    BY <2>3, <2>4 DEF RequestOK
<1>3. CASE Commit(r)
  <2>1. req[r] \in Holding
    BY <1>1, <1>3, RequestValues DEF Commit
  <2>2. req'[r].pc = "marking" /\ req'[r].target = req[r].target
    BY <1>1, <1>3, <2>1 DEF Commit, Holding
  <2>3. req[r].target.id \in committed' /\ written' = written
    BY <1>3 DEF Commit
  <2>4. \E i \in DOMAIN written : written[i] = req[r].target
    BY <1>1, <1>3 DEF RequestOK, Commit
  <2>5. QED
    BY <2>2, <2>3, <2>4 DEF RequestOK
<1>4. CASE Mark(r) \/ Cleared(r) \/ AppendRaises(r)
  BY <1>1, <1>4, RequestKept DEF Mark, Cleared, AppendRaises
<1>5. CASE ReadStale(r)
  <2>1. PICK S : /\ S \subseteq {e \in Recorded : status(e) = "open"}
                 /\ req'[r] = [pc |-> "read", stale |-> S]
    BY <1>1, <1>5 DEF ReadStale
  <2>2. \A e \in S : e \in Recorded' /\ initial(e) = "open"
    <3> SUFFICES ASSUME NEW e \in S PROVE e \in Recorded' /\ initial(e) = "open"
      OBVIOUS
    <3>1. e \in Recorded /\ status(e) = "open"
      BY <2>1
    <3>2. PICK i \in DOMAIN written : current(e) = written[i] /\ written[i].id = e
      BY <3>1, CurrentInLedger
    <3>3. written[i].status \notin Closed /\ written[i].status = "open"
      BY <3>1, <3>2 DEF status, Closed
    <3>4. QED
      BY <3>1, <3>2, <3>3 DEF LedgerInv, OriginalInv, Original, Grows
  <2>3. req'[r].pc = "read" /\ req'[r].stale = S
    BY <2>1
  <2>4. QED
    BY <2>2, <2>3 DEF RequestOK, initial
<1>6. CASE Expire(r)
  <2>1. PICK S \in SUBSET req[r].stale : req'[r] = [pc |-> "clearing", stale |-> S]
    BY <1>1, <1>6 DEF Expire
  <2>2. req'[r].pc = "clearing" /\ req'[r].stale = S
    BY <2>1
  <2>3. \A e \in S : e \in Recorded' /\ initial(e) = "open"
    BY <1>1, <1>6, <2>1 DEF RequestOK, Expire, Grows
  <2>4. QED
    BY <2>2, <2>3 DEF RequestOK, initial
<1>7. QED
  BY <1>2, <1>3, <1>4, <1>5, <1>6 DEF Handler

LEMMA RequestStep ==
  ASSUME LedgerAssumption, IInv, [Next]_vars
  PROVE  RequestInv'
<1>1. Grows /\ TypeOK /\ LedgerInv /\ RequestInv
  BY StepWrites, LedgerStep DEF IInv
<1>2. SUFFICES ASSUME NEW q \in Requests PROVE RequestOK(q)'
  BY DEF RequestInv
<1>3. ASSUME NEW r \in Requests, Handler(r) PROVE RequestOK(q)'
  <2>1. CASE q = r
    BY <1>1, <1>3, <2>1, RequestServed
  <2>2. CASE q # r
    <3>1. req'[q] = req[q]
      BY <1>1, <1>3, <2>2 DEF TypeOK, Handler, Lookup, Commit, Mark, ReadStale, Expire,
                            Cleared, AppendRaises
    <3>2. QED
      BY <1>1, <3>1, RequestKept DEF RequestInv
  <2>3. QED
    BY <2>1, <2>2
<1>4. ASSUME NEW e \in Escalations, Escalate(e) \/ GateDecides(e) PROVE RequestOK(q)'
  BY <1>1, <1>4, RequestKept DEF RequestInv, Escalate, GateDecides
<1>5. CASE Restart \/ UNCHANGED vars
  BY <1>1, <1>5, RequestKept DEF RequestInv, Restart, vars
<1>6. QED
  BY <1>3, <1>4, <1>5 DEF Next

(* An answer is backed by a closed version.                                *)
LEMMA SettledKept ==
  ASSUME Grows, SettledInv, NEW e \in settled
  PROVE  \E j \in Versions(e)' : written'[j].status \in Closed
BY DEF SettledInv, Grows, Versions

LEMMA SettledAppended ==
  ASSUME TypeOK, NEW v \in Version, Appends(v), v.status \in Closed
  PROVE  \E j \in Versions(v.id)' : written'[j].status \in Closed
<1>1. PICK n : n = Len(written) + 1
  OBVIOUS
<1>2. n \in DOMAIN written' /\ written'[n] = v
  BY <1>1, Appended
<1>3. QED
  BY <1>2 DEF Versions

LEMMA ResolvedSettles ==
  ASSUME TypeOK, LedgerInv, NEW k \in DOMAIN written, NEW ledger \in Nat,
         append_log_record(Resolved(written[k], ledger))
  PROVE  \E j \in Versions(written[k].id)' : written'[j].status \in Closed
<1> DEFINE v == Resolved(written[k], ledger)
<1>1. written[k] \in Version
  BY DomainNat
<1>2. v \in Version /\ v.id = written[k].id /\ v.status = "resolved"
  BY <1>1 DEF Resolved, Version, Status
<1>3. Appends(v)
  BY DEF append_log_record, Appends
<1> HIDE DEF v
<1>4. PICK n : n = Len(written) + 1
  OBVIOUS
<1>5. n \in DOMAIN written' /\ written'[n] = v
  BY <1>2, <1>3, <1>4, Appended
<1>6. QED
  <2>1. k \in DOMAIN written' /\ written'[k] = written[k]
    BY <1>2, <1>3, Appended
  <2>2. written'[n].id = written'[k].id /\ written'[n].status \in Closed
    BY <1>2, <1>5, <2>1 DEF Closed
  <2>3. n \in Versions(written[k].id)'
    BY <1>5, <2>1, <2>2 DEF Versions
  <2>4. QED
    BY <2>2, <2>3

LEMMA SettledStep ==
  ASSUME LedgerAssumption, IInv, [Next]_vars
  PROVE  SettledInv'
<1>1. Grows /\ TypeOK /\ LedgerInv /\ SettledInv
  BY StepWrites, LedgerStep DEF IInv
<1>2. SUFFICES ASSUME NEW e \in settled', e \notin settled
               PROVE  \E j \in Versions(e)' : written'[j].status \in Closed
  BY <1>1, SettledKept DEF SettledInv
<1>3. ASSUME NEW r \in Requests, Handler(r)
      PROVE  \E j \in Versions(e)' : written'[j].status \in Closed
  <2>1. Mark(r)
    BY <1>2, <1>3 DEF Handler, Lookup, Commit, ReadStale, Expire, Cleared, AppendRaises
  <2>2. PICK k \in DOMAIN written : written[k] = req[r].target
    BY <2>1 DEF IInv, RequestInv, RequestOK, Mark
  <2>3. e = written[k].id /\ written[k].session \in Nat
    BY <1>1, <1>2, <2>1, <2>2, DomainNat DEF Mark
  <2>4. append_log_record(Resolved(written[k], written[k].session))
    BY <2>1, <2>2 DEF Mark
  <2>5. \A f : f = written[k].id => Versions(f)' = {i \in DOMAIN written' : written'[i].id = f}
    BY DEF Versions
  <2>6. PICK j \in Versions(written[k].id)' : written'[j].status \in Closed
    BY <1>1, <2>3, <2>4, ResolvedSettles
  <2>7. k \in DOMAIN written' /\ written'[k] = written[k]
    BY <1>1 DEF Grows
  <2>8. j \in Versions(e)'
    BY <2>3, <2>6, <2>7 DEF Versions
  <2>9. QED
    BY <2>6, <2>8
<1>4. ASSUME NEW f \in Escalations, Escalate(f) \/ GateDecides(f)
      PROVE  \E j \in Versions(e)' : written'[j].status \in Closed
  <2>1. /\ e = f /\ f \in Recorded
        /\ append_log_record(Resolved(current(f), admin_ledger))
    BY <1>2, <1>4 DEF Escalate, GateDecides
  <2>2. PICK k \in DOMAIN written : current(f) = written[k] /\ written[k].id = f
    BY <1>1, <2>1, CurrentInLedger
  <2>3. admin_ledger \in Nat
    BY DEF LedgerAssumption
  <2>4. PICK j \in Versions(written[k].id)' : written'[j].status \in Closed
    BY <1>1, <2>1, <2>2, <2>3, ResolvedSettles
  <2>5. k \in DOMAIN written' /\ written'[k] = written[k]
    BY <1>1 DEF Grows
  <2>6. j \in Versions(e)'
    BY <2>1, <2>2, <2>4, <2>5 DEF Versions
  <2>7. QED
    BY <2>4, <2>6
<1>5. CASE Restart \/ UNCHANGED vars
  BY <1>2, <1>5 DEF Restart, vars
<1>6. QED
  BY <1>3, <1>4, <1>5 DEF Next

-----------------------------------------------------------------------------
(* The invariant, and what follows from it.                                *)

LEMMA InvInit == LedgerAssumption /\ Init => IInv
<1> SUFFICES ASSUME Init PROVE IInv
  OBVIOUS
<1>1. written = <<>> /\ DOMAIN written = {} /\ settled = {}
  BY DEF Init
<1>2. TypeOK
  BY DEF Init, TypeOK
<1>3. Recorded = {}
  BY <1>1 DEF Recorded, Versions
<1>4. LedgerInv
  BY <1>1, <1>3 DEF LedgerInv, TimesInv, OriginalInv, ClosedInv, FollowsInv, LastInv,
                    CommittedInv, ExpiredInv
<1>5. RequestInv /\ SettledInv
  BY <1>1 DEF Init, RequestInv, RequestOK, SettledInv, Idle
<1>6. QED
  BY <1>2, <1>4, <1>5 DEF IInv

LEMMA InvStep == LedgerAssumption /\ IInv /\ [Next]_vars => IInv'
<1> SUFFICES ASSUME LedgerAssumption, IInv, [Next]_vars PROVE IInv'
  OBVIOUS
<1>1. LedgerInv'
  BY StepWrites, LedgerStep DEF IInv
<1>2. QED
  BY <1>1, TypeStep, RequestStep, SettledStep DEF IInv

(* The invariant holds in every state the handlers and turns can reach.    *)
THEOREM InvAlways == Spec => []IInv
<1>1. Init => IInv
  BY InvInit, LedgerAssumption
<1>2. IInv /\ [Next]_vars => IInv'
  BY InvStep, LedgerAssumption
<1>3. QED
  BY <1>1, <1>2, PTL DEF Spec

(* The ledgers and the requests have the types of the code's records.      *)
THEOREM TypeCorrect == Spec => []TypeOK
<1>1. IInv => TypeOK
  BY DEF IInv
<1>2. QED
  BY <1>1, InvAlways, PTL

(* A resolved escalation has a CommitmentRecord: resolve_escalation and the*)
(* gate append it before the copy.                                         *)
THEOREM ResolvedHasCommitment == Spec => []ResolutionIsCommitted
<1>1. IInv => ResolutionIsCommitted
  <2> SUFFICES ASSUME IInv, NEW e \in Recorded, status(e) = "resolved" PROVE e \in committed
    BY DEF ResolutionIsCommitted
  <2>1. PICK i \in DOMAIN written : current(e) = written[i] /\ written[i].id = e
    BY CurrentInLedger DEF IInv
  <2>2. QED
    BY <2>1 DEF IInv, LedgerInv, CommittedInv, status
<1>2. QED
  BY <1>1, InvAlways, PTL

(* clear_stale_escalations expires nothing that waits for a decision, even *)
(* when what it read is out of date.                                       *)
THEOREM OnlyOpenExpire == Spec => []PendingNeverExpires
<1>1. IInv => PendingNeverExpires
  <2> SUFFICES ASSUME IInv, NEW e \in Recorded, status(e) = "expired" PROVE initial(e) = "open"
    BY DEF PendingNeverExpires
  <2>1. PICK i \in DOMAIN written : current(e) = written[i] /\ written[i].id = e
    BY CurrentInLedger DEF IInv
  <2>2. QED
    BY <2>1 DEF IInv, LedgerInv, ExpiredInv, status
<1>2. QED
  BY <1>1, InvAlways, PTL

(* The scan shows a resolution wherever its ledger does not come before the*)
(* one the escalation was first written to.                                *)
THEOREM SettledShowsInOrder == Spec => []SettledInOrder
<1>1. IInv => SettledInOrder
  <2> SUFFICES ASSUME IInv, NEW e \in settled, home[e] <= session_ledger[e],
                      status(e) \notin Closed
               PROVE  FALSE
    BY DEF SettledInOrder
  <2>1. TypeOK /\ LedgerInv /\ e \in Escalations
    BY DEF IInv, TypeOK
  <2>2. PICK j \in Versions(e) : written[j].status \in Closed
    BY DEF IInv, SettledInv
  <2>3. e \in Recorded
    BY <2>1, <2>2 DEF Recorded
  <2>4. PICK i \in Versions(e) : IsLast(i, e) /\ current(e) = written[i]
    BY <2>1, <2>3, CurrentOf
  <2>5. written[i].status \notin Closed /\ i # j
    BY <2>2, <2>4 DEF status
  <2>6. i \in DOMAIN written /\ j \in DOMAIN written /\ written[i].id = e /\ written[j].id = e
    BY DEF Versions
  <2>7. i < j
    BY <2>1, <2>5, <2>6, DomainNat DEF LedgerInv, ClosedInv
  <2>8. Follows(written[j], written[i]) /\ Original(written[i])
    BY <2>1, <2>5, <2>6, <2>7 DEF LedgerInv, FollowsInv, OriginalInv
  <2>9. home[e] \in Nat /\ session_ledger[e] \in Nat
    BY <2>1, LedgerAssumption DEF LedgerAssumption, home
  <2>10. /\ written[i].ts \in Nat /\ written[j].ts \in Nat
         /\ written[i].ledger = home[e]
         /\ written[i].ts = written[j].ts => written[j].ledger \in {session_ledger[e], home[e]}
    BY <2>1, <2>6, <2>8, DomainNat DEF Follows, Original
  <2>11. Before(i, j)
    <3>1. CASE written[i].ts < written[j].ts
      BY <3>1 DEF Before
    <3>2. CASE written[i].ts = written[j].ts
      BY <2>7, <2>9, <2>10, <3>2 DEF Before
    <3>3. QED
      BY <2>8, <2>10, <3>1, <3>2 DEF Follows
  <2>12. Before(j, i)
    BY <2>4, <2>5 DEF IsLast
  <2>13. QED
    BY <2>1, <2>6, <2>11, <2>12, BeforeAsymmetric
<1>2. QED
  BY <1>1, InvAlways, PTL

(* A step never brings a resolved or expired escalation back.              *)
LEMMA ClosedStays ==
  ASSUME LedgerAssumption, IInv, CurrentInv', [Next]_vars, NEW e \in Recorded, status(e) \in Closed
  PROVE  status(e)' \in Closed
<1>1. TypeOK /\ LedgerInv /\ Writes /\ Grows
  BY StepWrites, LedgerStep DEF IInv
<1>2. PICK i \in Versions(e) : IsLast(i, e) /\ current(e) = written[i]
  BY <1>1, CurrentOf
<1>3. written[i].status \in Closed
  BY <1>2 DEF status
<1>4. CASE UNCHANGED written
  BY <1>4 DEF status, current, IsLast, Versions, Before
<1>5. ASSUME NEW v, Fits(v), Appends(v) PROVE status(e)' \in Closed
  <2>1. v \in Version
    BY <1>5 DEF Fits
  <2>2. PICK n : n = Len(written) + 1
    OBVIOUS
  <2>3. written'[n] = v /\ \A j \in DOMAIN written : written'[j] = written[j]
    BY <1>1, <1>5, <2>1, <2>2, Appended
  <2>4. i \in DOMAIN written
    BY DEF Versions
  <2>5. CASE IsLast(i, e)'
    BY <1>1, <1>3, <2>3, <2>4, <2>5 DEF CurrentInv, Grows, IsLast
  <2>6. CASE e = v.id /\ IsLast(n, e)'
    <3>1. v.status \in Closed
      BY <1>5, <2>6 DEF Fits
    <3>2. QED
      BY <1>1, <2>3, <2>6, <3>1 DEF CurrentInv, Grows, IsLast
  <2>7. QED
    BY <1>1, <1>2, <1>5, <2>1, <2>2, <2>5, <2>6, LastAppended
<1>6. QED
  BY <1>1, <1>4, <1>5 DEF Writes

(* However late a handler appends its copy, nobody sees the escalation     *)
(* waiting again.                                                          *)
THEOREM ClosedForGood == Spec => NeverReopened
<1>1. IInv /\ CurrentInv' /\ [Next]_vars =>
        [\A e \in Recorded : status(e) \in Closed => status(e)' \in Closed]_vars
  BY ClosedStays, LedgerAssumption
<1>2. IInv => CurrentInv
  BY CurrentAlways DEF IInv
<1>3. QED
  BY <1>1, <1>2, InvAlways, PTL DEF Spec, NeverReopened
=============================================================================
