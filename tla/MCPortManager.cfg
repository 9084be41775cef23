\* tcp or udp proxies that ask for any port or for port 1; Acquire tries one port only,
\* so that it may give up while another port is free.  A behaviour is over when all
\* proxies are gone and no other program acts, so deadlock is not an error.
SPECIFICATION Spec
CONSTANTS
    Port = {1, 2}
    Name = {n1, n2}
    Requests = {0, 1}
    MaxProxies = 3
    Contested = {1}
    MaxTryTimes = 1
    Protos = {"tcp", "udp"}
SYMMETRY NameSymmetry
INVARIANT PortsSound
PROPERTIES GivenReservationKept ImplementsLease
CHECK_DEADLOCK FALSE
