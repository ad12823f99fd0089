SPECIFICATION FairSpec
CONSTANTS
    ann = ann
    bob = bob
    b1 = b1
    b2 = b2
    NULL = NULL
    Users = {ann, bob}
    Broadcasts = {b1, b2}
    MaxRetries = 2
INVARIANTS
    TypeOK
    TotalsCountRows
    NothingPending
    CopiesBounded
PROPERTIES
    OnlySubscribersReceive
    KeepsPromise
    BroadcastsEnd
