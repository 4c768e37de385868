\* A container that exits and a step that fails, no crash.
SPECIFICATION FairSpec
CONSTANTS
  Nil = Nil
  Inits = 0
  Conts = 1
  Policies = {"Always"}
  Grace = 0
  PullAlways = TRUE
  RacyAppend = FALSE
  LateSubscribers = FALSE
  InOrder = TRUE
  MaxPods = 1
  MaxVersions = 1
  MaxPids = 2
  MaxFaults = 1
  MaxStarts = 1
PROPERTIES KeepsRunning DeletionSucceeds RecordCatchesUp
\* The kubelet may be down for good and the users may be done.
CHECK_DEADLOCK FALSE
