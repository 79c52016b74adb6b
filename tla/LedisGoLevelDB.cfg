SPECIFICATION Spec
CONSTANTS
    w1 = w1
    w2 = w2
    k1 = k1
    k2 = k2
    v1 = v1
    Nil = Nil
    Keep = Keep
    Writers <- OneWriter
    Keys <- MCKeys
    Values <- MCValues
    Batches <- MCBatches
    Snapshots <- MCSnapshots
    StoreName = "goleveldb"
    MaxTries = 2
    SyncLog = 0
    Ops = {"purge"}
    Faulty = {}
    MaxLog = 2
    MaxFaults = 0
    MaxCrashes = 0
INVARIANT NextLogAccepted
