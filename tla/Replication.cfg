\* A master with two slaves that come and go; the other bounds are in the module.
\* Logs, ids, failures and commands are bounded, so that every part stops.
SPECIFICATION MCSpec
SYMMETRY Symmetry
CONSTRAINT FewUnsynced
CONSTRAINT TwoConnections
CONSTANTS
    Slaves = {s1, s2}
    None = None
    WaitMaxSlaveAcks = 2
    MaxLog = 2
    Closing = TRUE
    Reconnecting = TRUE
    Parts = {"publish", "link", "tables", "iofail", "commit", "second"}
INVARIANT AckedStored
INVARIANT LastLogTruthful
INVARIANT SameAsMaster
INVARIANT IdsContiguous
INVARIANT AckedKept
INVARIANT LookupsTrue
CHECK_DEADLOCK FALSE
