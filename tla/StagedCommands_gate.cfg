SPECIFICATION Spec
CONSTANTS
  NoCommand = NoCommand
  Commands = {c1, c2}
  Requests = {r1, r2}
INVARIANTS
  TypeOK
  AppliedOnce
  AppliedIsCommitted
  TrailIsTrue
PROPERTIES
  LateIsNever
  ImplementsKernel
