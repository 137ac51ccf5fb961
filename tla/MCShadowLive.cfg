\* News are bounded in number: after the last one the system may come to rest.
CHECK_DEADLOCK FALSE
SPECIFICATION MCLiveSpec
CONSTANTS
  k1 = k1
  NoKey = NoKey
  Keys <- MCKeys
  RetryMax = 1
  FlightMax = 2
  SemKeepsPost = TRUE
  NewsMax = 3
INVARIANTS
  ShadowTypeOK
  ReportedOrDue
  AsleepOnlyWhenDone
PROPERTIES
  ChangesGetThrough
  SyncEnds
