SPECIFICATION Spec
CONSTANTS
  Editor = {1, 2, 3, 4, 5, 6}
  Pages <- SomePages
  Answered = {1, 2, 3, 4, 5}
  Barred = {5}
  PoolSize = 5
  MinTokens = 20
  MinPercent = 10
  MaxRevisions = 7
  CacheSize = 2
  Flaggable = {1, 2, 3}
  MaxCount = 4
  MaxFlags = 1
INVARIANT TypeOK
INVARIANT OnlyNameableNamed
INVARIANT NobodyOvertaken
INVARIANT LadderDescends
INVARIANT WholeHistoryRanked
