\* The bounds are in the module.  Clock, commands and failures are bounded, so
\* that every part may stop.
SPECIFICATION MCSpec
CONSTANTS
    e1 = e1
    c1 = c1
    c2 = c2
    Parts = {"ttl", "zset", "block", "link", "scan", "migrate"}
PROPERTY TtlEnds
PROPERTY FlushEnds
PROPERTY PushesWake
PROPERTY CatchesUp
PROPERTY ScanEnds
 
CHECK_DEADLOCK FALSE
