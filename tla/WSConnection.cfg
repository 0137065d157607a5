\* Two requests, a queue that holds two short messages, follows of two chunks and
\* responses that fit or are longer than the whole queue.
CONSTANTS
    MaxRequests = 2
    MaxChunks = 2
    MaxBytes = 2
    ResponseSizes = {1, 3}
    WireCap = 1
    None = None
SPECIFICATION FairSpec
\* A connection that has ended stops.
CHECK_DEADLOCK FALSE
INVARIANTS
    FollowsHaveNoGaps
    ClientNeverConfused
    CloseIsSaid
PROPERTIES
    RequestsAreAnswered
    ToldToCloseGoes
