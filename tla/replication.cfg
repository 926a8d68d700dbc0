SPECIFICATION Spec

CONSTANTS
    n1 = n1
    n2 = n2
    n3 = n3
    n4 = n4
    x = x
    y = y
    NoId = NoId
    Server = {n1, n2, n3}
    Peers <- PeersInOrder
    Command = {x}
    CmdSize <- OneByte
    TermMax = 2
    IndexMax = 3
    MaxAppendEntries = 2
    MaxAppendBytes = 2
    Faults = {}
    Boot <- FirstBoot
    Batches <- SingleCommands
    Electors = {n1, n2}
    Beaters = {n1, n2}
    Restarters = {n3}
    Links <- Star
    MaxLog = 1
    MaxBusy = 1

INVARIANTS
    TypeOK
    ElectionSafety
    AppliedDurable
PROPERTIES
    VoteStable
    ProgressMonotone
    ImplementsBroadcast
