SPECIFICATION MCSpec
CONSTANTS
  t1 = t1
  t2 = t2
  NoUser = NoUser
  NoDecision = NoDecision
  NoThread = NoThread
  NoDocument = NoDocument
  NoFile = NoFile
  Users = {x1, x2}
  Names = {n1}
  Requests = {w1, w2}
  MaxServed = 3
  Torn = Torn
  Absent = Absent
  Holders = {h1}
  Sites = {k1}
  NoSite = NoSite
  Clients = {c1}
  TTL = 1
  MaxTime = 2
  MaxIssued = 2
  MaxEdits = 1
  Decisions = {d1, d2, d3}
  Routes = {d1}
  Escalated = {d3}
  Threads = {th1, th2}
  Confirmers = {w1, w2}
  Files = {x1, x2, x3}
  Targets = {w1, w2}
  NoTarget = NoTarget
  NoEnvelope = NoEnvelope
  Cut = Cut
  Documents = {k1}
  Extractors = {w1, w2}
  MaxVersions = 3
  OnLoop = {l1, l2}
  InThreads = {l3}
  Alerts = {l1, l3}
  Sentinel = Sentinel
  MaxKept = 1
  MaxStarts = 2
  Ids = {k1}
  Endpoints = {w1, w2}
  Savers = {w1, w2}
  Mixed = Mixed
  MaxSaves = 3
  Terms = {x1, x2}
  Short = Short
  NoTerm = NoTerm
  Modules = {w1, w2}
  Rules = {w1, w2}
  Shapes = {h1, h2}
  MinOverlap = 60
  MaxEntries = 3
  NoPhysics = NoPhysics
  MaxRecords = 3
  Kinds <- SomeKinds
  QueueSize = 1
  MaxEvents = 2
  MaxTokens = 1
  DomainRoles = {r1, r2}
  Unloaded = Unloaded
  MaxGrants = 2
  Stores = {x1, x2}
  Packs = {x1, x2}
  Editions <- SomeEditions
  Missing = Missing
  Garbled = Garbled
  NoRegistry = NoRegistry
  NoStore = NoStore
  MaxChanges = 1
  NDomains = 2
  Concepts = {k1, k2, k3}
  MaxDepth = 3
SYMMETRY Symmetry
INVARIANTS
  TypeOK
  AccountsAreSound
  ClaimsExpire
  PeopleDecide
  

  
CHECK_DEADLOCK FALSE
