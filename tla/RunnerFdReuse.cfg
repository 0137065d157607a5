\* Another target is opened while this one closes.
CONSTANTS
    Waiters = {}
    Senders = {}
    Followers = {f1}
    Capacity = 2
    MaxChunks = 2
    None = None
SPECIFICATION Spec
\* A runner that is closed stops.
CHECK_DEADLOCK FALSE
INVARIANT ReadsOwnPTY
