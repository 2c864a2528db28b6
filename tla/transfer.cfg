SPECIFICATION Spec
CONSTANTS
  s1 = s1 s2 = s2 a1 = a1 r1 = r1
  Transfers <- MixedTransfers
  Control <- MixedSync
  Synchronous <- MixedSync
  Remote <- Far
  Cancellable <- MixedTransfers
  SaveEvents = TRUE
  AutoOpen = FALSE
CHECK_DEADLOCK FALSE
INVARIANT TypeOK
INVARIANT RequestLive
INVARIANT AnswerIsComplete
INVARIANT CancelReaches
