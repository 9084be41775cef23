\* All proxies are of one control, whose handlers run one at a time, or the proxies
\* are spread over several controls, whose handlers interleave.  The
\* bound on group objects may end a behaviour.
SPECIFICATION Spec
CONSTANTS
    Pxy <- MCPxy
    Route <- MCRoute
    GroupName = {"web"}
    Control = {"ctl", "a", "b", "c", "d"}
    MaxGroups = 3
    RoutesOf <- MCRoutesOf
    GroupOf <- MCGroupOf
    KeyOf <- MCKeyOf
    Owners <- MCOwners
    NoGroup = "none"
INVARIANTS RoutesExact RoutesKept
CHECK_DEADLOCK FALSE
