SPECIFICATION FairSpec

CONSTANTS
    n1 = n1
    n2 = n2
    n3 = n3
    n4 = n4
    x = x
    y = y
    NoId = NoId
    Server = {n1, n2, n3}
    Peers <- PeersInOrder
    Command = {x, y}
    CmdSize <- OneByte
    TermMax = 4
    IndexMax = 5
    MaxAppendEntries = 2
    MaxAppendBytes = 2
    Faults = {}
    Boot <- RepairBoot
    Batches <- OnlyX
    Electors = {n1}
    Beaters = {}
    Restarters = {}
    Links <- Mesh
    MaxLog = 4
    MaxBusy = 1

INVARIANTS
    LogMatching
    StoreContract
    IndexOrder
    AckBarrier
PROPERTIES
    LeaderAppendOnly
    ChainTerminates
    CommittedIsApplied
