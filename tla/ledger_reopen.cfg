SPECIFICATION Spec

CONSTANTS
    a = a
    b = b
    Gone = Gone
    Value = {a, b}
    Batches <- OneOrTwo
    PartTarget = 2
    MaxEnd = 5
    MaxOps = 4
    Boot <- EmptyOrTwoParts
    MaxFails = 2
    Faults = {"io","reopen"}

PROPERTIES
    StableSurvives
CHECK_DEADLOCK FALSE
