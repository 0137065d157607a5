\* Two targets, three goroutines, two starts.
CONSTANTS
    Targets = {t1, t2}
    Callers = {c1, c2, c3}
    Attempts = {a1, a2}
    None = None
    TypedNil = FALSE
SPECIFICATION FairSpec
INVARIANTS
    OneOwner
    CanceledNeverServes
    CloseIsComplete
PROPERTIES
    SweepSparesUsers
    WaitsEnd
    ImplementsLifecycle
