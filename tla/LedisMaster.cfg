SPECIFICATION Spec
CONSTANTS
    w1 = w1
    w2 = w2
    k1 = k1
    k2 = k2
    v1 = v1
    Nil = Nil
    Keep = Keep
    Writers <- MCWriters
    Keys <- MCKeys
    Values <- MCValues
    Batches <- TwoBatches
    Snapshots <- MCSnapshots
    StoreName = "file"
    MaxTries = 2
    SyncLog = 0
    Ops = {"dump", "purge", "close"}
    Faulty = {"log", "commit", "repl"}
    MaxLog = 3
    MaxFaults = 1
    MaxCrashes = 1
SYMMETRY Symmetry
INVARIANT TypeOK
INVARIANT CommittedState
INVARIANT Recoverable
 
INVARIANT DumpSound
