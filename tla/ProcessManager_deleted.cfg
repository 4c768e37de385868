\* The daemon and a pod that is to be deleted.
SPECIFICATION Spec
CONSTANTS
  Nil = Nil
  Inits = 0
  Conts = 1
  Policies = {"Always"}
  Grace = 0
  PullAlways = FALSE
  RacyAppend = FALSE
  LateSubscribers = FALSE
  InOrder = FALSE
  MaxPods = 1
  MaxVersions = 1
  MaxPids = 2
  MaxFaults = 0
  MaxStarts = 1
PROPERTIES NoRestartOfDeleted
\* The kubelet may be down for good and the users may be done.
CHECK_DEADLOCK FALSE
