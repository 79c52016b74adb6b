\* Times to live of two keys, an hour of two seconds; the other bounds are in the
\* module.  The clock is bounded, so that it stops.
SPECIFICATION MCSpec
SYMMETRY Symmetry
CONSTANTS
    ann = ann
    bob = bob
    nobody = nobody
    text = text
    nil = nil
    err = err
    Keys = {k1, k2}
    Hour = 2
    Prompt = TRUE
    MaxWhen = 3
    MaxTime = 6
    MaxSwitches = 1
    Parts = {"ttl", "list", "deque", "hash", "set", "zset", "zrank", "zlex", "bits", "bitop", "counter", "mget"}
INVARIANT GoneWithinTheHour
INVARIANT ListRecords
INVARIANT HashRecords
INVARIANT SetRecords
INVARIANT ZSetRecords
INVARIANT BitsExact
PROPERTY NotBeforeItsTime
PROPERTY ListIsDeque
PROPERTY StringsAtomic
CHECK_DEADLOCK FALSE
