SPECIFICATION FairSpec
CONSTANTS
  Account = {1, 2}
  Blocks <- TwoBlocks
  Longest = 2
  Threshold = 1
  ChecksPerRun = 1
  Recheck = 1
  Mortal = {1, 2}
  Flagged = {2}
  MaxChanges = 2
INVARIANT TypeOK
PROPERTY SanctionsSurvive
PROPERTY StandingsSettle
