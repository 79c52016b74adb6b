SPECIFICATION Spec
CONSTANTS
    w1 = w1
    w2 = w2
    k1 = k1
    k2 = k2
    v1 = v1
    Nil = Nil
    Keep = Keep
    Writers <- OneWriter
    Keys <- MCKeys
    Values <- MCValues
    Batches <- MCBatches
    Snapshots <- MCSnapshots
    StoreName = "file"
    MaxTries = 2
    SyncLog = 2
    Ops = {"slaveof", "load", "flushall", "dump"}
    Faulty = {"commitID", "feed", "flush", "load"}
    MaxLog = 2
    MaxFaults = 1
    MaxCrashes = 1
INVARIANT IndInv
PROPERTY LogWrittenOnce
PROPERTY KeepsPromise
