SPECIFICATION FairSpec
CONSTANTS
  d1 = d1 d2 = d2 d3 = d3
  p1 = p1 p2 = p2
  a1 = a1 a2 = a2 a3 = a3
  Devs = {d1, d2, d3}
  Ports = {p1, p2}
  Addresses = {a1, a2, a3}
  Port <- MCPort
  Address <- ReusedAddress
  HasHotplug = FALSE
  AddMayFail = FALSE
  SaveEvents = TRUE
  Reentrant = TRUE
  MainCtxDefault = TRUE
  Intervals = {0, 500}
  DefaultInterval = 1000
  MaxWaits = 0
  MaxSources = 2
CHECK_DEADLOCK FALSE
INVARIANT UniqueAddress
INVARIANT SignalsMatchList
INVARIANT RescanPointersLive
PROPERTY ListConverges
PROPERTY TracksBus
