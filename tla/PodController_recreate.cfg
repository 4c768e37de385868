\* Two pods of one name, one after the other, with the same fields or others, and
\* a watch that may break.
SPECIFICATION FairSpec
CONSTANTS
  Nil = Nil
  MaxUid = 2
  MaxSpec = 2
  MaxSent = 0
  MaxFaults = 0
  MaxCrashes = 0
  MaxLag = 2
  ErrorPhase = "Pending"
  ProviderDeletes = FALSE
  Updates = FALSE
  Relists = TRUE
  Resyncs = FALSE
  MayGiveUp = TRUE
  NotifyTimeouts = FALSE
INVARIANTS UpdateFuncNeverPanics
PROPERTIES OnlyUnwantedPodsStopped OnlyMarkedPodsRemoved OrphansStopped PodsStarted
\* Users owe the controller nothing: it may stop when all is in order.
CHECK_DEADLOCK FALSE
