SPECIFICATION FairSpec
CONSTANTS
    w1 = w1
    w2 = w2
    k1 = k1
    k2 = k2
    v1 = v1
    Nil = Nil
    Keep = Keep
    Writers <- OneWriter
    Keys <- MCKeys
    Values <- MCValues
    Batches <- MCBatches
    Snapshots <- MCSnapshots
    StoreName = "file"
    MaxTries = 2
    SyncLog = 2
    Ops = {}
    Faulty = {"commit", "commitID", "repl"}
    MaxLog = 2
    MaxFaults = 3
    MaxCrashes = 1
PROPERTY OpenReturns
