SPECIFICATION MCSpec
CONSTANTS
  o1 = o1
  o2 = o2
  Movers = {"orders", "plans", "profiles", "learning", "journal", "advisories"}
  Domains = {x1, x2, x3}
  NoDomain = NoDomain
  NoContext = NoContext
  NoState = NoState
  Legacy = Legacy
  Workers = {w1, w2}
  MaxRequests = 3
  MaxOverlapping = 3
  MaxContexts = 2
  Container = {c1, c2}
  NoContainer = NoContainer
  Sessions = {s1}
  NoSession = NoSession
  Threads = {w1, w2}
  MaxTurns = 2
  MaxRecords = 5
  MaxSecondary = 1
  NInvariants = 2
  Orders = {o1, o2}
  NoOrder = NoOrder
  Physics <- SomePhysics
  Nodes = {1, 2, 3}
  MaxSlices = 2
  MaxRetries = 1
  MaxCuts = 1
  MaxPlanTurns = 2
  Students = {p1}
  Teachers = {x1, x2}
  Assistants = {a1}
  Guardians = {g1}
  NoOne = NoOne
  Operations = {w1, w2}
  MaxServed = 3
  Learners = {w1, w2}
  Tiers <- SomeTiers
  DefaultDifficulty = 15
  Target = 2
  WindowTurns = 2
  DriftWindow = 2
  Persistence = 2
  MinTurns = 1
  Minor = 30
  Major = 60
  Readings <- SomeReadings
  MaxLessons = 2
  Entities = {e1}
  SafePeople = {x1, x2}
  Nobody = Nobody
  NoJournal = NoJournal
  LockSessions = 1
  MinTurnsIn = 1
  Sustained = 2
  Relational = 1
  CrossSessions = 1
  MaxEntries = 2
  MaxHandled = 2
  Actors = {s1}
  Bands <- SomeBands
  MinSamples = 1
  MinDays = 2
  WindowDays = 3
  MaxGap = 1
  Ttl = 1
  NoProfile = NoProfile
  MaxDays = 3
  MaxScans = 3
  MaxSaves = 1
  Searchers = {c1}
  Missing = Missing
  Garbled = Garbled
  RecapInterval = 2
  NoThread = NoThread
  Defaults <- SomeDefaults
  Overrides <- SomeOverrides
  NRecaps = 3
  MaxScore = 3
  MaxThreadTurns = 3
  MaxRecaps = 2
  Chats = {x1, x2}
  Captures = {1, 2, 3, 4}
  BufferSize = 2
  MaxFiles = 3
SYMMETRY Symmetry
INVARIANTS
  TypeOK
  
  StudentsAreKept

  
CHECK_DEADLOCK FALSE
