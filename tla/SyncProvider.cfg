CONSTANTS
    Uids = {1, 2}
    None = None
    MaxMarks = 1
    MaxFaults = 1
SPECIFICATION FairSpec
CHECK_DEADLOCK FALSE
PROPERTIES DeletedNotReportedLost CacheIsCleaned LostIsReported
