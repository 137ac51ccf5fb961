\* The application may stop calling: a last state is no deadlock.
CHECK_DEADLOCK FALSE
SPECIFICATION OtaLiveSpec
CONSTANTS
  a = a
  b = b
  bad = bad
  NoJob = NoJob
  Jobs <- MCJobs
  Good <- MCGood
  RetryMax <- MCRetryMax
  Blocks = 2
  InitMax = 2
PROPERTY
  AcceptedIsTold
