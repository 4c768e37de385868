\* An init container and a container, an update, a grace period, and
\* subscribers that are late or lost.
SPECIFICATION Spec
CONSTANTS
  Nil = Nil
  Inits = 1
  Conts = 1
  Policies = {"Never"}
  Grace = 1
  PullAlways = FALSE
  RacyAppend = TRUE
  LateSubscribers = TRUE
  InOrder = TRUE
  MaxPods = 1
  MaxVersions = 2
  MaxPids = 2
  MaxFaults = 0
  MaxStarts = 1
INVARIANTS Supervised InitFirst
\* The kubelet may be down for good and the users may be done.
CHECK_DEADLOCK FALSE
