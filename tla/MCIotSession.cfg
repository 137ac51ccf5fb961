\* A banned session that is uninitialised can never be initialised again.
CHECK_DEADLOCK FALSE
SPECIFICATION SLiveSpec
CONSTANTS
  s1 = s1
  s2 = s2
  NoServer = NoServer
  Servers <- MCServers
  RegRetryMax = 1
  BreakRetryMax = 1
  EvMax = 8
  StartMax = 2
  CrashMax = 1
INVARIANTS
  SessionTypeOK
  SingleDriver
  BacklogBounded
  KeyPersisted
  NameWillBeSaved
PROPERTIES
  StopReturns
  OnlineHeard
