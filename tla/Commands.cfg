\* Two connections with every kind of command and a password; the other bounds
\* are in the module.  A server that is closed stops, and commands are bounded.
SPECIFICATION MCSpec
CONSTANTS
    c1 = c1
    c2 = c2
    e1 = e1
    e2 = e2
    nil = nil
    Clients = {c1, c2}
    Web = {}
    Commands = {"plain", "block", "eval", "nested", "auth", "badauth", "select", "xselect", "quit"}
    Dbs = {0, 1}
    Password = TRUE
    Nobody = Nobody
    NoDb = NoDb
    Parts = {"server", "block", "role", "scan", "sort", "store", "migrate", "snapshot"}
INVARIANT StoreUnused
 
 
INVARIANT Conserved
INVARIANT ScanExact
 
INVARIANT NeverLost
 
CHECK_DEADLOCK FALSE
