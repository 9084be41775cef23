\* Two tcp groups that want one port, with or without other programs that take it, or
\* a tcpmux group and an https group; the proxies of one control or of several.  The
\* bounds on groups and connections may end a behaviour.
SPECIFICATION FairSpec
CONSTANTS
    Pxy <- MCPxy
    GroupName = {"web", "api"}
    Route = {"x", "y"}
    User = {"u"}
    Control = {"ctl", "a", "b", "c", "d"}
    MaxGroups = 3
    GroupOf <- MCGroupOf
    CredOf <- MCKeyOf
    KeyOf <- MCKeyOf
    Setups <- MCSetups
INVARIANTS ListenersExact GroupsOfOne
PROPERTIES ImplementsBalancer OfferedIsServed
CHECK_DEADLOCK FALSE
