\* Two servers on one registry, two clients, two mutations at a time.
CONSTANTS
    Names = {n1, n2}
    Processes = {P1, P2}
    Requests = {r1, r2}
    MaxNow = 4
    None = None
SPECIFICATION Spec
SYMMETRY Symmetry
INVARIANTS
    MemoryIsDisk
    AckedSurvives
    RetiredNeverAccepted
    RevokedOwnerStaysGone
PROPERTY
    ImplementsClientMap
