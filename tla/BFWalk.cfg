SPECIFICATION FairSpec
CONSTANTS
  LastWiki = 2
  Page = {1, 2, 3}
  MaxLength = 1
  FirstLengths <- TwoWikis
  BatchSize = 2
  Batches = 2
  Job = {"hourly"}
  Unreachable = {2}
  OverlappingRestart = FALSE
  MaxEdits = 2
  MaxRestarts = 1
  MaxFailures = 1
INVARIANT TypeOK
INVARIANT NoneSkipped
INVARIANT HeaviestFirst
INVARIANT RepeatsOnlyAfterFailure
PROPERTY WalksEnd
