SPECIFICATION Spec
CONSTANTS
  NoCommand = NoCommand
  Commands = {c1}
  Requests = {r1}
INVARIANT
  PendingAwaitsResolution
