CONSTANTS
    Senders = {s1, s2}
    Operations = {o1}
    MaxAttempts = 8
    MaxDeaths = 1
    WebLocks = FALSE
    None = None
SPECIFICATION Spec
CHECK_DEADLOCK FALSE
INVARIANTS
    TypeOK
    QueuedWorkIsKept
PROPERTY
    QueueSettles
