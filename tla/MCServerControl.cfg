\* One client that logs in three times, pings or falls silent, and registers a name.
\* A behaviour is over when the logins are used up and every control is gone, so
\* deadlock is not an error.
SPECIFICATION FairSpec
CONSTANTS
    RunID = {r1}
    Name = {n1}
    Kinds = {"tcp", "stcp"}
    MaxLogins = 3
    MaxPortsPerClient = 1
    HeartbeatTimeout = 1
    CanShutDown = FALSE
INVARIANTS OneControlPerClient NoSelfConflict
PROPERTIES LoginStarts ClosedControlLeaves SilentClientEvicted
CHECK_DEADLOCK FALSE
