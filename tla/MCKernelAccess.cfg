\* A banned kernel refuses every call (ezdev_sdk_kernel_stop included): it stops.
CHECK_DEADLOCK FALSE
SPECIFICATION LiveSpec
CONSTANTS
  s1 = s1
  s2 = s2
  NoServer = NoServer
  Servers <- MCServers
  RegRetryMax = 2
  BreakRetryMax = 1
INVARIANTS
  TypeOK
  RegedMeansLoggedIn
  RegistersWithFreshSession
  CredentialsMatch
  UserWasTold
PROPERTIES
  BannedNeverLogsIn
  BreakResolved
  Recovers
  Implements
