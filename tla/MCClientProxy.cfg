\* Messages that are prompt, or that take longer than the retry timeouts of the wrapper,
\* with and without refusals.  A behaviour is over when the proxy is stopped and
\* nothing is under way.
SPECIFICATION FairSpec
CONSTANTS
    MaxFailed = 2
    HasMonitor = TRUE
    Delays = {TRUE, FALSE}
    Refusals = {TRUE, FALSE}
    MaxInFlight = 4
    MaxReloads = 1
INVARIANTS ProxySound PromptAgreement
PROPERTY HealthIsFollowed
CHECK_DEADLOCK FALSE
