\* Two clients compete for n2, and n1 is the first client's.  Three days are kept and
\* drawn.  The bounds on registrations and days end a behaviour, so deadlock is not an
\* error.
SPECIFICATION Spec
CONSTANTS
    Name = {"n1", "n2"}
    Type = {"tcp", "http"}
    Client = {"c1", "c2"}
    Owner <- Owners
    NoPxy = NoPxy
    NoStats = NoStats
    NoCall = NoCall
    MaxRegs = 5
    ReserveDays = 3
    ChartDays = 3
    MaxDay = 3
    MaxBytes = 1
    Changes <- AllChanges
    Skews <- TwoSkews
INVARIANTS CountsAgree StatsAgree CountersSound BarsAreDated
CHECK_DEADLOCK FALSE
