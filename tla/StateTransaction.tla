--------------------------- MODULE StateTransaction ---------------------------
(***************************************************************************)
(* The transition kernel: what advance() lets StateTransactions do, seen   *)
(* through the latest snapshot of each.  The HITL gate and file staging    *)
(* drive transactions; their modules are shown to implement this one, that *)
(* is, no advance() they make raises IllegalTransitionError.               *)
(***************************************************************************)
CONSTANT Transactions   (* transaction ids                                 *)

(* The states of a StateTransaction and its transition table.              *)
TransactionState == {"PROPOSED", "VALIDATED", "COMMITTED", "FINALIZED", "ROLLED_BACK"}
Unborn == "unborn"   (* the object does not exist yet              *)

LEGAL_TRANSITIONS ==
  {<<"PROPOSED", "VALIDATED">>, <<"PROPOSED", "ROLLED_BACK">>,
   <<"VALIDATED", "COMMITTED">>, <<"VALIDATED", "ROLLED_BACK">>,
   <<"COMMITTED", "FINALIZED">>}

can_advance(from, target) == <<from, target>> \in LEGAL_TRANSITIONS

VARIABLE snapshot       (* snapshot[t]: the state of t, or Unborn          *)

Init == snapshot = [t \in Transactions |-> Unborn]

Propose(t) ==
  /\ snapshot[t] = Unborn
  /\ snapshot' = [snapshot EXCEPT ![t] = "PROPOSED"]

advance(t, target) ==
  /\ snapshot[t] \in TransactionState
  /\ can_advance(snapshot[t], target)
  /\ snapshot' = [snapshot EXCEPT ![t] = target]

Next ==
  \E t \in Transactions :
    Propose(t) \/ \E target \in TransactionState : advance(t, target)

Spec == Init /\ [][Next]_snapshot

TypeOK == snapshot \in [Transactions -> TransactionState \cup {Unborn}]

(* "Once COMMITTED, a transaction cannot be rolled back -- only forward to *)
(* FINALIZED", and FINALIZED and ROLLED_BACK are terminal.                 *)
CommittedGoesForward ==
  [][\A t \in Transactions :
       /\ snapshot[t] = "COMMITTED" => snapshot'[t] \in {"COMMITTED", "FINALIZED"}
       /\ snapshot[t] \in {"FINALIZED", "ROLLED_BACK"} => snapshot'[t] = snapshot[t]]_snapshot
=============================================================================
