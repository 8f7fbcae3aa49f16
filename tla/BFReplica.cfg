SPECIFICATION FairSpec
CONSTANTS
  LastWiki = 2
  Page = {1, 2, 3}
  MaxLength = 1
  FirstLengths <- TwoWikis
  BatchSize = 2
  Batches = 2
  Job = {"hourly"}
  Unreachable = {1}
  OverlappingRestart = FALSE
  MaxEdits = 0
  MaxRestarts = 0
  MaxFailures = 0
PROPERTY UnreachableFallsBack
