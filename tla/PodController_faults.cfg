\* One pod whose status changes once, a call that fails, a crash at any step,
\* and a resync period.
SPECIFICATION FairSpec
CONSTANTS
  Nil = Nil
  MaxUid = 1
  MaxSpec = 1
  MaxSent = 1
  MaxFaults = 1
  MaxCrashes = 1
  MaxLag = 1
  ErrorPhase = "Pending"
  ProviderDeletes = FALSE
  Updates = FALSE
  Relists = FALSE
  Resyncs = TRUE
  MayGiveUp = FALSE
  NotifyTimeouts = FALSE
PROPERTIES DeletionCompletes OrphansStopped StatusArrives
\* Users owe the controller nothing: it may stop when all is in order.
CHECK_DEADLOCK FALSE
