\* A waiter and a follower that writes first, channels of one chunk.
CONSTANTS
    Waiters = {w1}
    Senders = {s1}
    Followers = {}
    Capacity = 1
    MaxChunks = 2
    None = None
SPECIFICATION FairSpec
\* A runner that is closed stops.
CHECK_DEADLOCK FALSE
INVARIANTS
    SubscribedMissNothing
    WaitersNeverDropped
PROPERTIES
    CloseCompletes
    CloseFreesWaiters
    ObserversNeverStall
