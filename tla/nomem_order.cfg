SPECIFICATION Spec

CONSTANTS
    n1 = n1
    n2 = n2
    n3 = n3
    n4 = n4
    x = x
    y = y
    NoId = NoId
    Server = {n1, n2, n3}
    Peers <- PeersInOrder
    Command = {x}
    CmdSize <- OneByte
    TermMax = 1
    IndexMax = 3
    MaxAppendEntries = 2
    MaxAppendBytes = 2
    Faults = {"nomem"}
    Boot <- FirstBoot
    Batches <- SingleCommands
    Electors = {n1}
    Beaters = {n1}
    Restarters = {}
    Links <- Hub
    MaxLog = 1
    MaxBusy = 1

INVARIANTS
    IndexOrder
