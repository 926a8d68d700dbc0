SPECIFICATION HistorySpec

CONSTANTS
    n1 = n1
    n2 = n2
    n3 = n3
    n4 = n4
    x = x
    y = y
    NoId = NoId
    Server = {n1, n2, n3}
    Peers <- PeersInOrder
    Command = {x, y}
    CmdSize <- OneByte
    TermMax = 4
    IndexMax = 3
    MaxAppendEntries = 2
    MaxAppendBytes = 2
    Faults = {}
    Boot <- Figure8Boot
    Batches <- OnlyX
    Electors = {n1, n2}
    Beaters = {}
    Restarters = {}
    Links <- Star
    MaxLog = 2
    MaxBusy = 1

INVARIANTS
    ElectableComplete
    CacheCoherent
    HistorySound
