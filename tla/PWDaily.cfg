SPECIFICATION FairSpec
CONSTANTS
  LastWiki = 2
  Capable = {1, 2}
  Pinned = {2}
  Title = {1, 2, 3, 4, 5, 6}
  Page = {1, 4, 5, 6}
  PageOf <- Leads
  Article = {1, 5, 6}
  Top <- Lists
  TargetDays = 2
  LookbackDays = 3
  ResolveBatch = 2
  MaxDay = 4
  MaxFailures = 1
INVARIANT TypeOK
INVARIANT EachWikiOnItsOwn
PROPERTY Discovered
