\* Two users, a pool of one, and a client that may stall, fail to dial and lose
\* connections.  When the control is closed a behaviour is over.
SPECIFICATION FairSpec
CONSTANTS
    User = {u1, u2}
    PoolCount = 1
    Spare = 0
    SendCap = 1
    MaxConns = 2
    ClientFails = TRUE
INVARIANTS PoolSound PoolNeverStarves
PROPERTIES ImplementsHandout UserIsAnswered PoolIsEmptied
CHECK_DEADLOCK FALSE
