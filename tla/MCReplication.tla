--------------------------- MODULE MCReplication ----------------------------
(***************************************************************************)
(* Replication, for TLC: the master's publication of logs to its slaves,   *)
(* the slave's link to its master, and the two stores of the log.  The     *)
(* first state chooses the part whose steps follow; the parts share no     *)
(* variable, and meet where one names what another promises: Publish and   *)
(* SlaveLink go by log ids without gaps, which the stores keep.            *)
(***************************************************************************)
EXTENDS Publish, Sequences, TLC

CONSTANT Parts  \* the parts that the first state may choose

VARIABLES
    part,
    mfirst, mlast, mdump, pc, mconn, quit, restart, then, file,
    lastID, commit, data, slaveof, cmd, fails, cmds,               \* SlaveLink
    disk, w, rs, step, moved, purges, rd, st, acked, synced, faults, clears,  \* FileLog
    gdb, gunsynced, gfirst, glast, gcommit, gnow, gacked, gfaults  \* GoLevelDBLog

linkVars == <<mfirst, mlast, mdump, pc, mconn, quit, restart, then, file,
              lastID, commit, data, slaveof, cmd, fails, cmds>>
fileVars == <<disk, w, rs, step, moved, purges, rd, st, acked, synced, faults, clears>>
goVars == <<gdb, gunsynced, gfirst, glast, gcommit, gnow, gacked, gfaults>>
allVars == <<part, vars, linkVars, fileVars, goVars>>

Symmetry == Permutations(Slaves)
-----------------------------------------------------------------------------
(* The instances.                                                           *)

\* Two failures of the connection, three SLAVEOF commands.
L == INSTANCE SlaveLink WITH
    Log <- <<<<"put", 1>>, <<"put", 2>>, <<"del", 2>>>>, MaxFail <- 2, MaxCmd <- 3,
    Crashes <- FALSE, conn <- mconn

CrashPoints == {"idle", "flushed", "again", "head", "data", "meta", "cleared"}

\* Four logs, at most two in a table; two crashes or closes anywhere, one Clear.
F == INSTANCE FileLog WITH
    MaxId <- 4, PerFile <- 2, MaxFiles <- 1, CrashAt <- CrashPoints, MaxFaults <- 2,
    MaxClear <- 1, IOErrors <- FALSE, LatePurge <- FALSE

\* One crash or one failed write.
E == INSTANCE FileLog WITH
    MaxId <- 4, PerFile <- 2, MaxFiles <- 1, CrashAt <- CrashPoints, MaxFaults <- 1,
    MaxClear <- 1, IOErrors <- TRUE, LatePurge <- FALSE

\* sync_log = 2, two failing writes or power failures.
G == INSTANCE GoLevelDBLog WITH
    MaxId <- 3, MaxTime <- 2, SyncLog <- 2, MaxFaults <- 2,
    db <- gdb, unsynced <- gunsynced, first <- gfirst, last <- glast,
    lastCommit <- gcommit, now <- gnow, acked <- gacked, faults <- gfaults

\* sync_log = 1, one of them.
S == INSTANCE GoLevelDBLog WITH
    MaxId <- 3, MaxTime <- 2, SyncLog <- 1, MaxFaults <- 1,
    db <- gdb, unsynced <- gunsynced, first <- gfirst, last <- glast,
    lastCommit <- gcommit, now <- gnow, acked <- gacked, faults <- gfaults

\* Bounds: two connections with slaves, of two slaves or an old and a new one of
\* one slave; the writes that a power failure may undo.
TwoConnections == Cardinality({c \in Conns : conn[c] # Closed}) <= 2
FewUnsynced == part = "second" => Len(gunsynced) <= 3
-----------------------------------------------------------------------------
MCInit ==
    /\ part \in Parts
    /\ Init
    /\ L!Init
    /\ IF part = "iofail" THEN E!Init ELSE F!Init
    /\ IF part = "second" THEN S!Init ELSE G!Init

PublishStep == part = "publish" /\ Next /\ UNCHANGED <<part, linkVars, fileVars, goVars>>

LinkStep == part = "link" /\ L!Next /\ UNCHANGED <<part, vars, fileVars, goVars>>

FileStep ==
    /\ (part = "tables" /\ F!Next) \/ (part = "iofail" /\ E!Next)
    /\ UNCHANGED <<part, vars, linkVars, goVars>>

GoLevelStep ==
    /\ (part = "commit" /\ G!Next) \/ (part = "second" /\ S!Next)
    /\ UNCHANGED <<part, vars, linkVars, fileVars>>

MCNext == PublishStep \/ LinkStep \/ FileStep \/ GoLevelStep

MCSpec == MCInit /\ [][MCNext]_allVars
-----------------------------------------------------------------------------
(* What is checked of the part that moves, besides the properties of        *)
(* Publish.                                                                 *)

\* The slave's data are the master's after the log before the one the slave asks
\* for next, through reconnections, full syncs, purges at the master and SLAVEOF
\* commands (runReplication, sync, fullSync); and when SLAVEOF NO ONE has
\* answered the replication thread is gone, so that nothing of the old master is
\* stored after it (stopReplication).
SameAsMaster == part = "link" => L!TypeOK /\ L!SameAsMaster /\ L!StopStops

\* "if log1's id is 1, log2 must be 2": the tables of the file store follow each
\* other without a gap and their files have their logs, through rotations,
\* purges, crashes, failed writes and repairs; the log in goleveldb has no gap
\* either, after power failures that undo the latest writes too.
IdsContiguous ==
    /\ part = "tables" => F!TypeOK /\ F!IdsContiguous
    /\ part = "iofail" => E!IdsContiguous
    /\ part = "commit" => G!IdsContiguous
    /\ part = "second" => S!IdsContiguous

\* A log that a store has acknowledged is there, whole, until it is purged or
\* cleared: crashes, failed writes and repairs of the file store lose none, and
\* with sync_log = 2 no power failure takes one from goleveldb (StoreLog).
AckedKept ==
    /\ part = "tables" => F!AckedKept
    /\ part = "iofail" => E!AckedKept
    /\ part = "commit" => G!AckedDurable

\* What a reader of the log goes by is true.  The binary search over the tables
\* finds the one of every id that has one and nothing for the others
\* (tableReaders.Search); the table that a GetLog has found stays, with its files,
\* until it has read: purges, the closing of idle tables and Clear wait for rm.
\* The cached first and last ids of the goleveldb store are those of its log,
\* whichever write or purge failed in between (FirstID, LastID).
LookupsTrue ==
    /\ part = "tables" => F!SearchFinds /\ F!ReadUndisturbed
    /\ part = "commit" => G!CachesTrue
    /\ part = "second" => S!CachesTrue
=============================================================================
