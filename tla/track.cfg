SPECIFICATION Spec
CONSTANTS
    None = None
    Accounts = {x, y}
    QueueIds = {q, r}
    QueueTTL = 1
    SenderTTL = 2
    PruneEvery = 2
    MaxTime = 3
    MaxMessages = 3
    MaxLost = 1
SYMMETRY Alike
INVARIANTS
    BlameIsDeserved
    SendersAreKnown
    CountedOnce
CHECK_DEADLOCK FALSE
