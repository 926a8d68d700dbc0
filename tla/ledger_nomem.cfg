SPECIFICATION Spec

CONSTANTS
    a = a
    b = b
    Gone = Gone
    Value = {a, b}
    Batches <- OneOrTwo
    PartTarget = 2
    MaxEnd = 5
    MaxOps = 4
    Boot <- EmptyOrTwoParts
    MaxFails = 2
    Faults = {"publish"}

PROPERTIES
    ImplementsDurableLog
CHECK_DEADLOCK FALSE
