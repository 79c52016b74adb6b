----------------------------- MODULE MCProgress -----------------------------
(***************************************************************************)
(* What must eventually happen, for TLC: times to live end, FLUSHDB ends,  *)
(* pushes wake sleepers, a slave catches up, scans end, migrations reply.  *)
(* The first state chooses the part whose steps follow; its goroutines are *)
(* treated fairly.  The parts share no variable.                           *)
(***************************************************************************)
EXTENDS Integers, Sequences, TLC

CONSTANTS
    Parts,   \* the parts that the first state may choose
    e1,      \* an element of a list
    c1, c2   \* two connections

VARIABLES
    part,
    now, data, exp, nc, readonly, switches, rwSince, cpc, cnow, cnc, snap,  \* Ttl
    zscore, zindex, zsize, zexp, zflushing, zpend,                        \* ZSet
    list, ttl, breadonly, bswitches, bpool, waiting, bpc, idx, ctx, held, keep, \* BlockingPop
    mfirst, mlast, mdump, pc, mconn, quit, restart, then, file,
    lastID, commit, ldata, slaveof, cmd, fails, cmds,                     \* SlaveLink
    sdata, scl, seen, stay, ever,                                         \* Scan
    msrc, mdst, locks, mcl, jobs, pool, mwrites, commands                 \* Migrate

ttlVars == <<now, data, exp, nc, readonly, switches, rwSince, cpc, cnow, cnc, snap>>
zsetVars == <<zscore, zindex, zsize, zexp, zflushing, zpend>>
blockVars == <<list, ttl, breadonly, bswitches, bpool, waiting, bpc, idx, ctx, held, keep>>
linkVars == <<mfirst, mlast, mdump, pc, mconn, quit, restart, then, file,
              lastID, commit, ldata, slaveof, cmd, fails, cmds>>
scanVars == <<sdata, scl, seen, stay, ever>>
migrateVars == <<msrc, mdst, locks, mcl, jobs, pool, mwrites, commands>>
allVars == <<part, ttlVars, zsetVars, blockVars, linkVars, scanVars, migrateVars>>
-----------------------------------------------------------------------------
(* The instances.                                                           *)

\* One key; an hour is two seconds, and a check may take as long as it likes.
T == INSTANCE Ttl WITH
    Keys <- {"k"}, Hour <- 2, Prompt <- FALSE, MaxWhen <- 2, MaxTime <- 6, MaxSwitches <- 1

\* One sorted set of two members, scores -1 to 1, and its store into itself.
Z == INSTANCE ZSet WITH
    Keys <- {"k"}, Members <- {1, 2}, MaxScore <- 2, Whens <- {1},
    Stores <- {[dest |-> "k", inter |-> FALSE, keys |-> <<"k">>, weights |-> <<-1>>,
                aggregate |-> "sum"]},
    Ranks <- {-1, 0}, ZeroDelta <- FALSE, LexRemovals <- FALSE,
    score <- zscore, index <- zindex, size <- zsize, exp <- zexp,
    flushing <- zflushing, pend <- zpend

\* Two blocking pops without timeout, one of them on two keys.
Sleepers ==
    [c \in {"b", "c"} |->
        [op |-> "bpop", keys |-> IF c = "b" THEN <<"k", "l">> ELSE <<"k">>,
         side |-> IF c = "b" THEN "head" ELSE "tail", dest |-> "none", timed |-> FALSE]]

B == INSTANCE BlockingPop WITH
    Keys <- {"k", "l"}, Elems <- {e1}, Clients <- DOMAIN Sleepers, Cmd <- Sleepers,
    LongKeys <- {}, MaxSwitches <- 0,
    readonly <- breadonly, switches <- bswitches, pool <- bpool, pc <- bpc

\* One failure of the connection, two SLAVEOF commands.
L == INSTANCE SlaveLink WITH
    Log <- <<<<"put", 1>>, <<"del", 1>>>>, MaxFail <- 1, MaxCmd <- 2,
    Crashes <- FALSE, conn <- mconn, data <- ldata

\* SSCAN of two elements, with writers that never rest.
C == INSTANCE Scan WITH
    K <- 2, Slots <- {<<1, 1>>, <<1, 2>>}, Groups <- {1},
    Counts <- {1, 2}, DefaultCount <- 2, Matches <- {{1, 2}, {2}}, Redis <- TRUE,
    ZeroName <- 3, data <- sdata, cl <- scl

\* Two connections migrate one key with a ttl; the destination may never reply.
M == INSTANCE Migrate WITH
    Clients <- {c1, c2}, Keys <- {1}, AllTypes <- <<1>>, Count <- 2, Modes <- {"one", "db"},
    Retries <- 2, Volatile <- TRUE, MaxWrites <- 0, MaxCommands <- 2, Late <- TRUE,
    src <- msrc, dst <- mdst, cl <- mcl, writes <- mwrites
-----------------------------------------------------------------------------
MCInit ==
    /\ part \in Parts
    /\ T!Init /\ (part # "ttl" => ~readonly)
    /\ Z!Init
    /\ B!Init
    /\ L!Init
    /\ C!Init /\ (part # "scan" => sdata = {})
    /\ M!Init

\* Only the part moves.
Ttl == part = "ttl" /\ UNCHANGED <<part, zsetVars, blockVars, linkVars, scanVars, migrateVars>>
ZSet == part = "zset" /\ UNCHANGED <<part, ttlVars, blockVars, linkVars, scanVars, migrateVars>>
Block == part = "block" /\ UNCHANGED <<part, ttlVars, zsetVars, linkVars, scanVars, migrateVars>>
Link == part = "link" /\ UNCHANGED <<part, ttlVars, zsetVars, blockVars, scanVars, migrateVars>>
Scan == part = "scan" /\ UNCHANGED <<part, ttlVars, zsetVars, blockVars, linkVars, migrateVars>>
Migrate == part = "migrate" /\ UNCHANGED <<part, ttlVars, zsetVars, blockVars, linkVars, scanVars>>

MCNext ==
    \/ Ttl /\ T!Next
    \/ ZSet /\ Z!Next
    \/ Block /\ B!Next
    \/ Link /\ L!Next
    \/ Scan /\ C!Next
    \/ Migrate /\ M!Next

\* The fairness of each part, as in its FairSpec: the clock and the checker; the
\* goroutine that holds the lock of the type; the goroutines and timers of the
\* blocking commands; the replication thread, the two steps of SLAVEOF and the
\* restart of a process that died; a client that scans; the goroutines and
\* deadlines of the migrations.
MCFairness ==
    /\ WF_allVars(Ttl /\ T!Tick) /\ WF_allVars(Ttl /\ T!Check)
    /\ WF_allVars(ZSet /\ (Z!zFlushEnd \/ Z!zFlushKey("k")))
    /\ \A c \in {"b", "c"} : WF_allVars(Block /\ B!Step(c)) /\ WF_allVars(Block /\ B!Deadline(c))
    /\ WF_allVars(Link /\ L!runReplication)
    /\ WF_allVars(Link /\ L!closeConn) /\ WF_allVars(Link /\ L!SlaveofDone)
    /\ WF_allVars(Link /\ pc = "panic" /\ L!Crash)
    /\ WF_allVars(Scan /\ C!dataScanCommand)
    /\ \A c \in {c1, c2} : WF_allVars(Migrate /\ M!Step(c)) /\ WF_allVars(Migrate /\ M!Timeout(c))

MCSpec == MCInit /\ [][MCNext]_allVars /\ MCFairness
-----------------------------------------------------------------------------
(* What is checked of the part that moves.                                  *)

\* No key keeps a time to live for ever on a writable node, whatever records
\* earlier times have left (ttlChecker.check).
TtlEnds == part = "ttl" => T!TtlEnds

\* FLUSHDB, which goes on as long as it finds a size record and keeps the lock
\* of the type meanwhile, ends (flushType, zFlush).
FlushEnds == part = "zset" => Z!FlushEnds

\* A client does not sleep through pushes: as long as one of its keys is pushed
\* again and again, it wakes again and again (signal, popOrWait).
PushesWake == part = "block" => B!PushesWake

\* A slave that stays a slave, whose connection fails finitely often, has all the
\* master's logs in the end (runReplication).
CatchesUp == part = "link" => L!CatchesUp

\* A scan comes to its end however busy the writers are: every page moves the
\* cursor on.  SSCAN, HSCAN and ZSCAN give every matching name that was there all
\* the time, once and in order, and no name that never was.
ScanEnds == part = "scan" => C!ScanEnds /\ []C!ScanExact

\* Every XMIGRATE and XMIGRATEDB has its reply, and the lock of the key is given
\* back, whatever the destination does.
Replies == part = "migrate" => M!Replies /\ M!LockReleased
=============================================================================
