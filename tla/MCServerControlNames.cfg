\* Two controls register and close two names of every kind against each other, with
\* or without Service.Close.  A behaviour is over when both controls are gone, so
\* deadlock is not an error.
SPECIFICATION Spec
CONSTANTS
    RunID = {r1, r2}
    Name = {n1, n2}
    Kinds = {"tcp", "stcp", "xtcp"}
    MaxLogins = 2
    MaxPortsPerClient = 2
    HeartbeatTimeout = 0
    CanShutDown = TRUE
SYMMETRY NameSymmetry
INVARIANTS TypeOK NamesAgree NoStrandedProxy SecretTablesExact QuotaExact
PROPERTIES NameHandover ImplementsRegistry
CHECK_DEADLOCK FALSE
