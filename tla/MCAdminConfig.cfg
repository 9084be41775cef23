\* A behaviour is over when the requests are used up, so deadlock is not an
\* error.
SPECIFICATION Spec
CONSTANTS
    Tab = {t1}
    Valid = {"v1", "v2"}
    Broken = {}
    ErrorText = "error"
    Empty = ""
    First = "v1"
    ProxiesOf <- ProxiesOfText
    VisitorsOf <- VisitorsOfText
    MaxOps = 3
    MaxInFlight = 2
    MaxLosses = 1
INVARIANTS ConfigSound ControlRunsConfig ReplacedStops
PROPERTY UploadTakesEffect
CHECK_DEADLOCK FALSE
