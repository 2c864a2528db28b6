SPECIFICATION Spec
CONSTANTS
  Null = Null
  d1 = d1 d2 = d2 port = port other = other tag = tag key = key then = then
  Devices = {d1, d2}
  Port <- PortOf
  Tags = {tag}
  Keys = {key}
  Foreign <- ForeignFiles
  SaveEvents = TRUE
  SaveRemoved = TRUE
  MaxObjects = 3
  MaxEvents = 1
CHECK_DEADLOCK FALSE
INVARIANT TypeOK
INVARIANT SignalsBalance
INVARIANT LoadReplaces
INVARIANT ReloadIsQuiet
INVARIANT UntaggedStay
INVARIANT BadFileRefused
