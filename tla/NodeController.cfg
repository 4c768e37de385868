CONSTANTS
    p1 = p1
    p2 = p2
    A = A
    C = C
    None = None
    Pings = {p1, p2}
    PingTimeout = TRUE
    MaxDisruptions = 2
    Conditions = {A, C}
    Ours = {A}
    Initial = {A}
    MaxUpdateRetries = 2
SPECIFICATION FairSpec
CHECK_DEADLOCK FALSE
INVARIANTS OnePingInFlight NothingLeftBehind
PROPERTIES PanicsOnlyAtShutdown OthersSurvive LeaseKept LeaseFollowsNode StuckLosesLease StatusArrivesAtServer ShutdownCompletes
