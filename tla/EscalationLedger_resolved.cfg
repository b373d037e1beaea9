SPECIFICATION Spec
CONSTANTS
  Escalations = {"chat", "staged", "journal"}
  origin <- Origin
  session_ledger <- SessionLedger
  turn_ledger <- SessionLedger
  admin_ledger = 3
  domain_ledger = 5
  page = 2
  Requests = {r1, r2}
  MaxRecords = 6
INVARIANT SettledIsClosed
