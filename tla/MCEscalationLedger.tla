--------------------------- MODULE MCEscalationLedger ---------------------------
(* An instance of EscalationLedger with one escalation of each sort: of a     *)
(* chat turn, of a staged command and of a journal entry. The ledgers are     *)
(* numbered in the order of the scan; the session_id of the staged command's  *)
(* record names a ledger that is read before session-admin.jsonl.             *)
EXTENDS EscalationLedger, TLC

Origin == [chat |-> "chat", staged |-> "staged", journal |-> "journal"]
SessionLedger == [chat |-> 2, staged |-> 1, journal |-> 4]

Symmetry == Permutations(Requests)
=============================================================================
