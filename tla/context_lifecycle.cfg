SPECIFICATION Spec
CONSTANTS
  Main = Main
  Events = Events
  None = None
  MaxQueue = 3
  MaxTransfers = 3
CHECK_DEADLOCK FALSE
INVARIANT TypeOK
INVARIANT ThreadHasLibusb
INVARIANT NothingDispatched
PROPERTY SelfJoinIsLate
PROPERTY DisposeEnds
