----------------------------- MODULE MCCommands -----------------------------
(***************************************************************************)
(* The server and the commands that take several steps, for TLC: blocking  *)
(* pops and moves, scans, SORT, migrations and snapshots.  The first state *)
(* chooses the part whose steps follow; the parts share no variable, since *)
(* each describes the interleavings of one family of commands on its own   *)
(* data.                                                                   *)
(***************************************************************************)
EXTENDS Server, Sequences, TLC

CONSTANTS
    Parts,         \* the parts that the first state may choose
    c1, c2,        \* two connections
    e1, e2,        \* elements of lists
    nil            \* no value

VARIABLES
    part,
    list, ttl, readonly, switches, bpool, waiting, bpc, idx, ctx, held, keep, \* BlockingPop
    data, scl, seen, stay, ever,                                   \* Scan
    osrc, oweight, odst, ocl, owrites,                             \* Sort
    msrc, mdst, locks, mcl, jobs, pool, mwrites, commands,         \* Migrate
    now, files, names, cr, sent, refused, up                       \* SnapshotStore

blockVars == <<list, ttl, readonly, switches, bpool, waiting, bpc, idx, ctx, held, keep>>
scanVars == <<data, scl, seen, stay, ever>>
sortVars == <<osrc, oweight, odst, ocl, owrites>>
migrateVars == <<msrc, mdst, locks, mcl, jobs, pool, mwrites, commands>>
snapshotVars == <<now, files, names, cr, sent, refused, up>>
allVars == <<part, vars, blockVars, scanVars, sortVars, migrateVars, snapshotVars>>
-----------------------------------------------------------------------------
(* The instances.                                                           *)

BPop(ks, side) ==
    [op |-> "bpop", keys |-> ks, side |-> side, dest |-> "none", timed |-> TRUE]

Move(op, from, to) ==
    [op |-> op, keys |-> <<from>>, side |-> "tail", dest |-> to, timed |-> FALSE]

\* A BLPOP on two keys with a timeout, a move, a rotation, and a move to a key
\* that is too long.
Moves ==
    ("b" :> BPop(<<"k", "l">>, "head")) @@ ("m" :> Move("rpoplpush", "k", "l"))
    @@ ("r" :> Move("rpoplpush", "k", "k")) @@ ("x" :> Move("rpoplpush", "k", "long"))

B == INSTANCE BlockingPop WITH
    Keys <- {"k", "l", "long"}, Elems <- {e1, e2}, Clients <- DOMAIN Moves, Cmd <- Moves,
    LongKeys <- {"long"}, MaxSwitches <- 0, pool <- bpool, pc <- bpc

\* A blocking pop, a blocking move and a rotation on a node that changes its role.
Roles ==
    ("b" :> BPop(<<"k", "l">>, "head")) @@ ("m" :> Move("brpoplpush", "k", "l"))
    @@ ("r" :> Move("rpoplpush", "k", "k"))

F == INSTANCE BlockingPop WITH
    Keys <- {"k", "l", "long"}, Elems <- {e1, e2}, Clients <- DOMAIN Roles, Cmd <- Roles,
    LongKeys <- {"long"}, MaxSwitches <- 2, pool <- bpool, pc <- bpc

\* XSCAN of a group of three keys between the last of one and the first of another.
C == INSTANCE Scan WITH
    K <- 3, Slots <- {<<1, 3>>, <<2, 1>>, <<2, 2>>, <<2, 3>>, <<3, 1>>}, Groups <- {2},
    Counts <- {0, 1, 2}, DefaultCount <- 2, Matches <- {{1, 2, 3}, {1, 3}}, Redis <- FALSE,
    ZeroName <- 4, cl <- scl

\* SORT of up to three elements, two of them different, by keys that change.
O == INSTANCE Sort WITH
    Clients <- {c1}, Elements <- {1, 2}, MaxLen <- 3, Weights <- {nil, 1}, Nil <- nil,
    Text <- 9, Offsets <- {0, 1}, Sizes <- {0, 1}, Stores <- {FALSE}, MaxWrites <- 1,
    src <- osrc, weight <- oweight, dst <- odst, cl <- ocl, writes <- owrites

\* SORT with STORE, by keys that are no numbers.
A == INSTANCE Sort WITH
    Clients <- {c1}, Elements <- {1, 2}, MaxLen <- 2, Weights <- {nil, 9}, Nil <- nil,
    Text <- 9, Offsets <- {0}, Sizes <- {0, 1}, Stores <- {TRUE}, MaxWrites <- 1,
    src <- osrc, weight <- oweight, dst <- odst, cl <- ocl, writes <- owrites

\* Two connections migrate two keys, with timeouts and one local write.
M == INSTANCE Migrate WITH
    Clients <- {c1, c2}, Keys <- {1, 2}, AllTypes <- <<1, 2>>, Count <- 2,
    Modes <- {"one", "db", "all"}, Retries <- 2, Volatile <- FALSE, MaxWrites <- 1,
    MaxCommands <- 2, Late <- FALSE,
    src <- msrc, dst <- mdst, cl <- mcl, writes <- mwrites

\* Two snapshots are kept of those of three seconds.
N == INSTANCE SnapshotStore WITH
    Seconds <- 3, Fractions <- {0, 1, 2}, MaxNum <- 2, MaxAge <- 1
-----------------------------------------------------------------------------
MCInit ==
    /\ part \in Parts
    /\ Init
    /\ IF part = "role" THEN F!Init ELSE B!Init
    /\ C!Init /\ (part # "scan" => data = {})
    /\ IF part = "store" THEN A!Init ELSE O!Init
    /\ (part \notin {"sort", "store"} => osrc = <<>> /\ oweight = [i \in {1, 2} |-> nil])
    /\ M!Init
    /\ N!Init

ServerStep ==
    /\ part = "server" /\ Next
    /\ UNCHANGED <<part, blockVars, scanVars, sortVars, migrateVars, snapshotVars>>

BlockStep ==
    /\ (part = "block" /\ B!Next) \/ (part = "role" /\ F!Next)
    /\ UNCHANGED <<part, vars, scanVars, sortVars, migrateVars, snapshotVars>>

ScanStep ==
    /\ part = "scan" /\ C!Next
    /\ UNCHANGED <<part, vars, blockVars, sortVars, migrateVars, snapshotVars>>

SortStep ==
    /\ (part = "sort" /\ O!Next) \/ (part = "store" /\ A!Next)
    /\ UNCHANGED <<part, vars, blockVars, scanVars, migrateVars, snapshotVars>>

MigrateStep ==
    /\ part = "migrate" /\ M!Next
    /\ UNCHANGED <<part, vars, blockVars, scanVars, sortVars, snapshotVars>>

SnapshotStep ==
    /\ part = "snapshot" /\ N!Next
    /\ UNCHANGED <<part, vars, blockVars, scanVars, sortVars, migrateVars>>

MCNext ==
    \/ ServerStep \/ BlockStep \/ ScanStep \/ SortStep \/ MigrateStep \/ SnapshotStep

MCSpec == MCInit /\ [][MCNext]_allVars
-----------------------------------------------------------------------------
(* What is checked of the part that moves, besides the properties of        *)
(* Server.                                                                  *)

\* However blocking pops, rotations and moves interleave, an element is popped by
\* one command only, and a move neither loses nor doubles it (lpop, RPopLPush);
\* with BRPOPLPUSH and changes of the role it may get lost, but is never in two
\* places.  A rotation puts the time to live back only on a list that exists
\* (rpoplpushCommand, LExpire), and a client that sleeps is among those that the
\* signal of each of its keys cancels (lblockPop, popOrWait, signal).
Conserved ==
    /\ part = "block" => B!TypeOK /\ B!Conserved /\ B!TtlOnLists
    /\ part = "role" => F!TypeOK /\ F!NotDoubled /\ F!TtlOnLists /\ F!SleepersRegistered

\* A scan that has ended gave every matching name that was there from its first
\* page to its last, once and in order, and no name that never was, in whatever
\* way the keys changed between the pages; one page from any cursor, forward or
\* reverse, has the first matching names on its side and none of another type
\* (scanGeneric, buildScanKeyRange).
ScanExact == part = "scan" => C!TypeOK /\ C!ScanExact /\ C!PageExact

\* SORT answers with the elements at the places LIMIT names in the order of the
\* keys as they were looked up, though keys and elements have changed since; the
\* list of a STORE that has just replied is what the sort has found.
SortExact == (part = "sort" => O!OrderExact) /\ (part = "store" => A!StoredExact)

\* A key that is migrated is at the source or at the destination, through
\* timeouts, retries and two migrations of the same key, of which one at a time
\* holds the lock of the key (migrateKey, migrateKeyLock).
NeverLost == part = "migrate" => M!TypeOK /\ M!NeverLost /\ M!OneMigration

\* A file with the name of a snapshot is a complete dump, wherever a dump has
\* failed or the process has died; no more than max_num snapshots stay, and the
\* newest are the ones that stay (Create, purge).
NewestKept == part = "snapshot" => N!TypeOK /\ N!SnapshotsWhole /\ N!NewestKept
=============================================================================
