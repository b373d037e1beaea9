SPECIFICATION Spec
CONSTANTS
  Runs = {r1, r2}
  NoRun = NoRun
  max_history = 1
  Proposals <- SomeProposals
  Domains = {"education", "agriculture"}
  NoDomain = NoDomain
  required_approvers <- Required
CHECK_DEADLOCK FALSE
INVARIANTS
  TypeOK
  OneRunWorks
  
  DecisionsAreSound
PROPERTY SlotIsFreed
