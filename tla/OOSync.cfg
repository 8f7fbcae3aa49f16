SPECIFICATION FairSpec
CONSTANTS
  p1 = p1
  p2 = p2
  t1 = t1
  c1 = c1
  Page = {p1, p2}
  Title = {t1}
  Category = {c1}
  Limit = 1
  Viewed = p1
  MaxAge = 2
  Revalidate = 2
  Nothing = Nothing
  MaxChanges = 2
INVARIANTS TypeOK ReachesReader
PROPERTIES OptOutsSurvive ListSettles
