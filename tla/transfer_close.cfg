SPECIFICATION Spec
CONSTANTS
  s1 = s1 s2 = s2 a1 = a1 r1 = r1
  Transfers <- NestedTransfers
  Control <- NestedTransfers
  Synchronous <- NestedTransfers
  Remote <- Nobody
  Cancellable <- Nobody
  SaveEvents = FALSE
  AutoOpen = FALSE
CHECK_DEADLOCK FALSE
PROPERTY SyncGivesUp
