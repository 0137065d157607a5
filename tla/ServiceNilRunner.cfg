\* The service as the remote server embeds it: no sweep.
CONSTANTS
    Targets = {t1}
    Callers = {h1, h2, server}
    Attempts = {a1, a2}
    None = None
    TypedNil = TRUE
    Server = server
    Sweeper = None
SPECIFICATION ServiceSafety
SYMMETRY Symmetry
\* A service that has shut down stops.
CHECK_DEADLOCK FALSE
INVARIANT NoNilClose
