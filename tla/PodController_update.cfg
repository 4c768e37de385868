\* One pod in two versions whose status changes twice, an eviction, and calls
\* of the callback that time out.
SPECIFICATION Spec
CONSTANTS
  Nil = Nil
  MaxUid = 1
  MaxSpec = 2
  MaxSent = 2
  MaxFaults = 0
  MaxCrashes = 0
  MaxLag = 1
  ErrorPhase = "Pending"
  ProviderDeletes = TRUE
  Updates = TRUE
  Relists = FALSE
  Resyncs = FALSE
  MayGiveUp = FALSE
  NotifyTimeouts = TRUE
INVARIANTS SkippedSyncIsSound
PROPERTIES FailedIsFinal
\* Users owe the controller nothing: it may stop when all is in order.
CHECK_DEADLOCK FALSE
