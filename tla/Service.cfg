\* The service as the daemon runs it: with the sweep.
CONSTANTS
    Targets = {t1}
    Callers = {h1, h2, sweeper, server}
    Attempts = {a1, a2}
    None = None
    TypedNil = FALSE
    Server = server
    Sweeper = sweeper
SPECIFICATION ServiceSpec
\* A service that has shut down stops.
CHECK_DEADLOCK FALSE
INVARIANTS
    StoppedStartsNothing
    NothingLeftRunning
PROPERTY ShutdownCompletes
