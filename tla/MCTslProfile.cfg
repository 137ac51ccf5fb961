SPECIFICATION TslLiveSpec
CONSTANTS
  d1 = d1
  d2 = d2
  v1 = v1
  v2 = v2
  NoDev = NoDev
  NoVer = NoVer
  Devs = {d1, d2}
  Vers = {v1, v2}
  Ver0 <- MCVer0
  Loaded <- MCLoaded
  OpMax = 2
  EarlyMax = 1
\* The hub may stop calling: a last state is no deadlock.
CHECK_DEADLOCK FALSE
INVARIANTS
  TslTypeOK
  OwnProfile
PROPERTY
  Served
