SPECIFICATION MonitorSpec
CONSTANTS
  Dispatches = {d1, d2}
  None = None
  task_count = 2
  domain_count = 2
CHECK_DEADLOCK FALSE
INVARIANTS
  MonitorTypeOK
  StateIsDispatch
PROPERTIES
  YieldsAtCheckpoint
  SustainedIdleFirst
  RequestsAreServed
  EveryTaskGetsATurn
