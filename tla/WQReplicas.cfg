SPECIFICATION Spec
CONSTANTS
  pA = pA
  w1 = w1
  w2 = w2
  c1 = c1
  c2 = c2
  frwiki = frwiki
  Page = {pA}
  Wiki = {frwiki}
  WikiOf <- OneWiki
  MaxRevision = 2
  Kind <- Articles
  Worker = {w1, w2}
  Client = {c1}
  Callers = {"v1", "cleanup"}
  PinnedWikis = {}
  RowIds = {1, 2}
  BornCap = 0
  MaxCrashes = 1
  LaggedReads = FALSE
  TimelyWorkers = TRUE
  Lease = 1
  MaxAttempts = 1
  BackoffCap = 1
  DeadRetry = 0
  Freshness = 1
  QueueDays = 0
  ResultDays = 1
  CleanupLimit = 1
SYMMETRY Symmetry
INVARIANT LeaseHonoured
INVARIANT ActiveWikisHaveResults
PROPERTY PermanentStaysDead
PROPERTY ResultsNeverVanish
PROPERTY ImplementsCache
