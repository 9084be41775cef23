\* A proxy with a health check of two failures.
SPECIFICATION FairSpec
CONSTANTS
    MaxFailed = 2
    HasMonitor = TRUE
    Delays = {FALSE}
    Refusals = {FALSE}
    MaxInFlight = 3
    MaxReloads = 1
PROPERTY FailureIsContinuous
CHECK_DEADLOCK FALSE
