SPECIFICATION MCSpec
CONSTANTS
  s1 = s1
  s2 = s2
  s3 = s3
  u1 = u1
  Sessions = {s1, s2, s3}
  Users = {u1}
  NoUser = NoUser
  NoSession = NoSession
  Owner <- MixedOwners
  Loop = Loop
  Threads = {t1, t2}
  MaxPins = 2
  Expiry = TRUE
SYMMETRY ThreadSymmetry
INVARIANTS
  TypeOK
  FrozenUserIsBlocked
  UnlocksConsumePins
  LocksHaveEscalations

  
