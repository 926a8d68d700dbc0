SPECIFICATION Spec

CONSTANTS
    a = a
    b = b
    Gone = Gone
    Value = {a, b}
    Batches <- OneOrTwo
    PartTarget = 2
    MaxEnd = 5
    MaxOps = 3
    Boot <- EmptyOrTwoParts
    MaxFails = 2
    Faults = {"io", "nomem"}

INVARIANTS
    LedgerTypeOK
    AlwaysRecovers
    ReadsAreExact
    WritesAtEnd
    VerifyFindsNothing
PROPERTIES
    ImplementsDurableLog
    PublishedImmutable
CHECK_DEADLOCK FALSE
