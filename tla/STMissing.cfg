SPECIFICATION Spec
CONSTANTS
  Account = {1, 2}
  Blocks <- OneBlock
  Longest = 2
  Threshold = 1
  ChecksPerRun = 1
  Recheck = 1
  Mortal = {2}
  Flagged = {2}
  MaxChanges = 2
PROPERTY MissingKept
