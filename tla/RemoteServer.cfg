\* Three connections of one client, of which two are allowed, one rotation or
\* revocation, one target allowed of two.
CONSTANTS
    Owners = {o1}
    Conns = {c1, c2, c3}
    Managers = {m1}
    Targets = {t1, t2}
    MaxGeneration = 2
    MaxConnections = 2
    MaxConnectionsPerClient = 2
    MaxTargetsPerClient = 1
    None = None
SPECIFICATION FairSpec
\* A server that has shut down stops.
CHECK_DEADLOCK FALSE
INVARIANTS
    ConnectionsWithinLimits
    TargetsWithinLimit
    OldCredentialsAreCutOff
    ShutdownLeavesNothing
PROPERTY ShutdownReturns
