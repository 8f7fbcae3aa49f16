SPECIFICATION FairSpec
CONSTANTS
  pA = pA
  w1 = w1
  w2 = w2
  c1 = c1
  c2 = c2
  frwiki = frwiki
  Page = {pA}
  Wiki = {frwiki}
  WikiOf <- OneWiki
  MaxRevision = 1
  Kind <- Articles
  Worker = {w1}
  Client = {c1}
  Callers = {"v1", "v2", "prewarm", "backfill"}
  PinnedWikis = {frwiki}
  RowIds = {1, 2, 3}
  BornCap = 0
  MaxCrashes = 2
  LaggedReads = FALSE
  TimelyWorkers = FALSE
  Lease = 0
  MaxAttempts = 4
  BackoffCap = 2
  DeadRetry = 0
  Freshness = 0
  QueueDays = 0
  ResultDays = 0
  CleanupLimit = 1
INVARIANT TypeOK
PROPERTY JobsSettle
PROPERTY LeasesEnd
