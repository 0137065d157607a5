\* Two clients stop the daemon, which may also stop because it is idle or
\* because Accept fails; a third sends a request.
CONSTANTS
    Conns = {s1, s2, h1}
    StopConns = {s1, s2}
    MaxConnections = 2
    IdleStop = TRUE
    AcceptErrors = TRUE
SPECIFICATION FairSpec
\* A daemon that has stopped stops.
CHECK_DEADLOCK FALSE
INVARIANTS
    CapacityIsExact
    OperatingSurvivesDraining
    ServeLeavesNothing
    StopIsAnswered
PROPERTY StopCompletes
