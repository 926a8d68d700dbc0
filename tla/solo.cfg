SPECIFICATION Spec

CONSTANTS
    n1 = n1
    n2 = n2
    n3 = n3
    n4 = n4
    x = x
    y = y
    NoId = NoId
    Server = {n1}
    Peers <- PeersInOrder
    Command = {x, y}
    CmdSize <- EmptyX
    TermMax = 2
    IndexMax = 3
    MaxAppendEntries = 2
    MaxAppendBytes = 2
    Faults = {"nomem", "store", "fatal"}
    Boot <- FirstBoot
    Batches <- Pairs
    Electors = {n1}
    Beaters = {n1}
    Restarters = {n1}
    Links <- Mesh
    MaxLog = 5
    MaxBusy = 1

INVARIANTS
    StoreContract
