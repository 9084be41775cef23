\* The claim of the upload box, refuted by an upload of a text that does not load.
SPECIFICATION Spec
CONSTANTS
    Tab = {t1}
    Valid = {"v1", "v2"}
    Broken = {"b1"}
    ErrorText = "error"
    Empty = ""
    First = "v1"
    ProxiesOf <- ProxiesOfText
    VisitorsOf <- VisitorsOfText
    MaxOps = 3
    MaxInFlight = 2
    MaxLosses = 1
INVARIANT SuccessIsTrue
CHECK_DEADLOCK FALSE
