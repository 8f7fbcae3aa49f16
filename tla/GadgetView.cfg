SPECIFICATION Spec
CONSTANTS
  Settle = 5
  Timeout = 16
  Delays <- OwnDelays
  MaxAge = 2
INVARIANTS TypeOK BoxTellsOutcome LabelGivesUp ViewsEnd
