SPECIFICATION FairSpec
CONSTANTS
  d1 = d1 d2 = d2 d3 = d3
  p1 = p1 p2 = p2
  a1 = a1 a2 = a2 a3 = a3
  Devs = {d1, d2}
  Ports = {p1, p2}
  Addresses = {a1, a2, a3}
  Port <- MCPort
  Address <- FreshAddress
  HasHotplug = TRUE
  AddMayFail = TRUE
  SaveEvents = TRUE
  Reentrant = TRUE
  MainCtxDefault = TRUE
  Intervals = {1000}
  DefaultInterval = 1000
  MaxWaits = 2
  MaxSources = 1
CHECK_DEADLOCK FALSE
INVARIANT TypeOK
INVARIANT UniqueAddress
INVARIANT SignalsMatchList
INVARIANT ReplugHelperLive
PROPERTY ListConverges
PROPERTY TracksBus
PROPERTY ReplugIsSilent
PROPERTY WaitReturns
