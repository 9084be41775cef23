\* A behaviour is over when the requests are used up, so deadlock is not an error.
SPECIFICATION Spec
CONSTANTS
    Name = {n1, n2}
    Type = {"tcp", "http"}
    Client = {c1}
    Owner <- Owners
    NoPxy = NoPxy
    NoStats = NoStats
    NoCall = NoCall
    Undefined = Undefined
    MaxRegs = 2
    Config = {"default", "custom"}
    FirstConfig = "custom"
    InfoOf <- Infos
    ConfOf <- ConfOfType
    MaxReqs = 3
    MaxRestarts = 1
SYMMETRY NameSymmetry
INVARIANTS PageSound RowsFaithful OverviewFaithful
CHECK_DEADLOCK FALSE
