SPECIFICATION HubLiveSpec
CONSTANTS
  d1 = d1
  d2 = d2
  v1 = v1
  v2 = v2
  NoDev = NoDev
  NoVer = NoVer
  Devs <- MCDevs
  Vers <- MCVers
  ListMax = 2
  AddMax = 2
  UpdMax = 1
  AskMax = 1
INVARIANTS
  HubTypeOK
  ReportCurrent
  AuthedRegistered
  CountCovers
PROPERTY
  WalksEnd
