SPECIFICATION ShSpec
CONSTANTS
  k1 = k1
  NoKey = NoKey
  Keys <- MCKeys
  RetryMax = 1
  FlightMax = 2
  SemKeepsPost = FALSE
INVARIANT
  ReportTriggered
