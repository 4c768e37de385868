\* A container that may fail, be restarted and be deleted, a failing step, and
\* a crash or panic of the kubelet.
SPECIFICATION Spec
CONSTANTS
  Nil = Nil
  Inits = 0
  Conts = 1
  Policies = {"OnFailure"}
  Grace = 0
  PullAlways = FALSE
  RacyAppend = FALSE
  LateSubscribers = FALSE
  InOrder = TRUE
  MaxPods = 1
  MaxVersions = 1
  MaxPids = 2
  MaxFaults = 1
  MaxStarts = 2
INVARIANTS TypeOK Supervised PolicyRespected
PROPERTIES RecordedNotDuplicated DeleteKillsRecorded
\* The kubelet may be down for good and the users may be done.
CHECK_DEADLOCK FALSE
