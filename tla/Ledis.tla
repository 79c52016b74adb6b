------------------------------- MODULE Ledis -------------------------------
(***************************************************************************)
(* One ledisdb node (ledis/ledis.go, batch.go, replication.go, dump.go and *)
(* rpl/rpl.go): the write-ahead log, the commit id and the data store, as  *)
(* they are used by concurrent writers, the replication thread, the        *)
(* goroutine that stores a master's logs, FLUSHALL, dumps and full syncs,  *)
(* with I/O errors and process crashes.                                    *)
(*                                                                         *)
(* A write batch is a physical one: for every raw key of the store it      *)
(* gives a new value, Nil (deleted) or Keep (not mentioned).               *)
(***************************************************************************)
EXTENDS Integers, FiniteSets

CONSTANTS
    Writers,      \* goroutines that run write commands, each on its own batch
    Keys,         \* raw keys of the store
    Values,       \* values of the raw keys, besides Nil
    Nil, Keep,    \* "no such key" and "the batch does not mention the key"
    Batches,      \* the write batches the commands commit
    Snapshots,    \* data sets a master's dump may hold
    SyncLog,      \* cfg.Replication.SyncLog
    StoreName,    \* cfg.Replication.StoreName
    Ops,          \* what operators and timers may ask for, besides writes
    Faulty,       \* the places where I/O may fail
    MaxLog,       \* bound: the largest log id
    MaxFaults,    \* bound: the number of I/O errors
    MaxCrashes,   \* bound: the number of crashes
    MaxTries      \* the 100 rounds of WaitReplication

DBs == [Keys -> Values \cup {Nil}]

ASSUME BatchesAssumption == Batches \subseteq [Keys -> Values \cup {Nil, Keep}]
ASSUME SnapshotsAssumption == Snapshots \subseteq DBs
ASSUME KeepAssumption == Keep \notin Values \cup {Nil}
ASSUME SyncLogAssumption == SyncLog \in 0..2
ASSUME StoreNameAssumption == StoreName \in {"file", "goleveldb"}
ASSUME OpsAssumption == Ops \subseteq {"slaveof", "load", "flushall", "dump", "purge", "close"}
ASSUME FaultyAssumption == Faulty \subseteq
                              {"log", "commit", "commitID", "repl", "feed", "flush", "load"}
ASSUME BoundsAssumption == /\ MaxLog \in Nat
                           /\ MaxFaults \in Nat
                           /\ MaxCrashes \in Nat
                           /\ MaxTries \in Nat

ASSUME WritersAssumption == {"none", "repl"} \cap Writers = {}

VARIABLES
    log,         \* the log store r.s: log id -> batch
    lastID,      \* what r.s.LastID() returns: 0 for an empty store
    wlast,       \* the last log id in the file store's current table, or 0
    commitID,    \* r.commitID
    commitLog,   \* the commit id in the file commit.log
    db,          \* l.ldb
    mode,        \* WaitReplication: "notice", "wait", "check"; then "up"
    tries,       \* the loop counter of WaitReplication
    role,        \* "slave": cfg.SlaveOf is set; cfg.Readonly unless "master"
    rc, rDoneCh, \* the number of tokens in the channels l.rc and l.rDoneCh
    wLock,       \* who holds l.wLock exclusively: "none", "repl" or "excl"
    commitLock,  \* who holds l.commitLock
    wpc, wbatch, wid,    \* a writer: where it is, its batch and its log id
    rpc, rbatch, rid,    \* the replication thread, the log it replays
    fpc, fnext,          \* the slave goroutine in StoreLogsFromReader
    xpc, xop, xid, xdb,  \* FlushAll, LoadDump or Dump, and the dump at hand
    faults, crashes

\* Auxiliary variables: the code has no counterpart, no guard reads them.
VARIABLES
    want,        \* want[i]: the data after the batches of the logs up to i
    base,        \* the commit id of the last flush or load
    history,     \* "torn": the data and the logs are of different histories
    acked,       \* ids of the logs whose write command returned no error
    dstate, did, ddb     \* the last dump: "none" or "taken", its head, its data

rplVars == <<log, lastID, wlast, commitID, commitLog>>
chanVars == <<rc, rDoneCh>>
lockVars == <<wLock, commitLock>>
writerVars == <<wpc, wbatch, wid>>
replVars == <<rpc, rbatch, rid>>
feedVars == <<fpc, fnext>>
exclVars == <<xpc, xop, xid, xdb>>
dumpVars == <<dstate, did, ddb>>
auxVars == <<want, base, history, acked, dumpVars>>
vars == <<rplVars, db, mode, tries, role, chanVars, lockVars, writerVars, replVars,
          feedVars, exclVars, faults, crashes, auxVars>>
-----------------------------------------------------------------------------
NoBatch == [k \in Keys |-> Keep]
Empty == [k \in Keys |-> Nil]
Replay(d, b) == [k \in Keys |-> IF b[k] = Keep THEN d[k] ELSE b[k]]

Init ==
    /\ log = [i \in {} |-> NoBatch] /\ lastID = 0 /\ wlast = 0
    /\ commitID = 0 /\ commitLog = 0 /\ db = Empty
    /\ mode = "notice" /\ tries = 0
    /\ role \in {"master", "readonly"}
    /\ rc = 1 /\ rDoneCh = 0
    /\ wLock = "none" /\ commitLock = "none"
    /\ wpc = [w \in Writers |-> "idle"]
    /\ wbatch = [w \in Writers |-> NoBatch] /\ wid = [w \in Writers |-> 0]
    /\ rpc = "idle" /\ rbatch = NoBatch /\ rid = 0
    /\ fpc = "idle" /\ fnext = 0
    /\ xpc = "idle" /\ xop = "none" /\ xid = 0 /\ xdb = Empty
    /\ faults = 0 /\ crashes = 0
    /\ want = [i \in 0..MaxLog |-> Empty] /\ base = 0
    /\ history = "whole" /\ acked = {}
    /\ dstate = "none" /\ did = 0 /\ ddb = Empty

MaxID(a, b) == IF a < b THEN b ELSE a
NextID == MaxID(lastID, commitID) + 1
Behind == lastID > commitID

\* An I/O error at the given place.
Fault(place) == /\ place \in Faulty
                /\ faults < MaxFaults
                /\ faults' = faults + 1
NoFault == UNCHANGED faults
-----------------------------------------------------------------------------
(* Opening: WaitReplication, whose result Open ignores.                     *)

\* Mutant: the channel l.rc queues every notice.
WaitNoticeQueued ==
    /\ mode = "notice"
    /\ rc' = rc + 1 /\ mode' = "wait"
    /\ UNCHANGED <<rplVars, db, tries, role, rDoneCh, lockVars, writerVars, replVars,
                   feedVars, exclVars, faults, crashes, auxVars>>

WaitNotice ==
    /\ mode = "notice"
    /\ rc' = 1 /\ mode' = "wait"
    /\ UNCHANGED <<rplVars, db, tries, role, rDoneCh, lockVars, writerVars, replVars,
                   feedVars, exclVars, faults, crashes, auxVars>>

WaitDone ==
    /\ mode = "wait" /\ rDoneCh = 1
    /\ rDoneCh' = 0 /\ mode' = "check"
    /\ UNCHANGED <<rplVars, db, tries, role, rc, lockVars, writerVars, replVars,
                   feedVars, exclVars, faults, crashes, auxVars>>

WaitCheck ==
    /\ mode = "check"
    /\ IF Behind /\ tries + 1 < MaxTries
       THEN mode' = "notice" /\ tries' = tries + 1
       ELSE mode' = "up" /\ tries' = 0
    /\ UNCHANGED <<rplVars, db, role, chanVars, lockVars, writerVars, replVars,
                   feedVars, exclVars, faults, crashes, auxVars>>
-----------------------------------------------------------------------------
(* The log store, as rpl.go uses it under r.m.                              *)

\* Mutant: the file store takes a log whatever its id is.
AcceptsAny(id) == StoreName = "file" \/ id = lastID + 1

\* tableWriter.storeLog checks the id only against the logs of its own table.
Accepts(id) ==
    IF StoreName = "goleveldb" THEN id = lastID + 1
                               ELSE wlast = 0 \/ id = wlast + 1

StoreLog(id, b) ==
    /\ log' = [i \in DOMAIN log \cup {id} |-> IF i = id THEN b ELSE log[i]]
    /\ lastID' = id
    /\ wlast' = id
    /\ want' = [want EXCEPT ![id] = Replay(want[id - 1], b)]

\* updateCommitID: the file is written first, and only when forced.
UpdateCommitID(id) ==
    /\ commitID' = id
    /\ commitLog' = IF SyncLog = 2 THEN id ELSE commitLog

UpdateCommitIDFails == SyncLog = 2 /\ Fault("commitID")
-----------------------------------------------------------------------------
(* A write command: batch.Lock, batch.Commit, handleCommit, batch.Unlock.    *)

Active(w) == wpc[w] # "idle"

\* The command returns: batch.Unlock rolls the batch back.
Return(w) ==
    /\ wpc' = [wpc EXCEPT ![w] = "idle"]
    /\ wbatch' = [wbatch EXCEPT ![w] = NoBatch]
    /\ wid' = [wid EXCEPT ![w] = 0]

\* batch.Lock: RLock waits for a holder of wLock and for one that waits for it.
Lock(w) ==
    /\ mode = "up" /\ ~Active(w)
    /\ wLock = "none" /\ rpc # "lock"
    /\ wpc' = [wpc EXCEPT ![w] = "locked"]
    /\ UNCHANGED <<wbatch, wid, rplVars, db, mode, tries, role, chanVars, lockVars,
                   replVars, feedVars, exclVars, faults, crashes, auxVars>>

\* The command returns without a commit: an error, or nothing to write.
Unlock(w) ==
    /\ wpc[w] = "locked"
    /\ Return(w)
    /\ UNCHANGED <<rplVars, db, mode, tries, role, chanVars, lockVars, replVars,
                   feedVars, exclVars, faults, crashes, auxVars>>

\* batch.Commit: in read-only mode it returns ErrWriteInROnly.
Commit(w) ==
    /\ wpc[w] = "locked"
    /\ IF role # "master"
       THEN Return(w)
       ELSE /\ \E b \in Batches : wbatch' = [wbatch EXCEPT ![w] = b]
            /\ wpc' = [wpc EXCEPT ![w] = "commit"]
            /\ UNCHANGED wid
    /\ UNCHANGED <<rplVars, db, mode, tries, role, chanVars, lockVars, replVars,
                   feedVars, exclVars, faults, crashes, auxVars>>

\* Mutant: r.Log does not refuse a log while others wait to be committed.
LogBehind(w) ==
    /\ wpc[w] = "commit" /\ commitLock = "none"
    /\ Accepts(NextID) /\ NextID <= MaxLog
    /\ StoreLog(NextID, wbatch[w])
    /\ commitLock' = w
    /\ wpc' = [wpc EXCEPT ![w] = "logged"]
    /\ wid' = [wid EXCEPT ![w] = NextID]
    /\ UNCHANGED <<wbatch, commitID, commitLog, db, mode, tries, role, chanVars,
                   wLock, replVars, feedVars, exclVars, faults, crashes, base,
                   history, acked, dumpVars>>

\* handleCommit, commitLock.Lock and r.Log: the log gets the next id.
Log(w) ==
    /\ wpc[w] = "commit" /\ commitLock = "none"
    /\ ~Behind /\ Accepts(NextID) /\ NextID <= MaxLog
    /\ StoreLog(NextID, wbatch[w])
    /\ commitLock' = w
    /\ wpc' = [wpc EXCEPT ![w] = "logged"]
    /\ wid' = [wid EXCEPT ![w] = NextID]
    /\ UNCHANGED <<wbatch, commitID, commitLog, db, mode, tries, role, chanVars,
                   wLock, replVars, feedVars, exclVars, faults, crashes, base,
                   history, acked, dumpVars>>

\* r.Log fails (ErrCommitIDBehind, ErrStoreLogID or an I/O error): no notice.
\* Past the bound MaxLog the model takes the store to be full.
LogFails(w) ==
    /\ wpc[w] = "commit" /\ commitLock = "none"
    /\ \/ (Behind \/ ~Accepts(NextID) \/ NextID > MaxLog) /\ NoFault
       \/ Fault("log")
    /\ Return(w)
    /\ UNCHANGED <<rplVars, db, mode, tries, role, chanVars, lockVars, replVars,
                   feedVars, exclVars, crashes, auxVars>>

\* Mutant: the error of c.Commit is lost.
StoreCommitUnchecked(w) ==
    /\ wpc[w] = "logged"
    /\ \/ NoFault /\ db' = Replay(db, wbatch[w])
       \/ Fault("commit") /\ UNCHANGED db
    /\ wpc' = [wpc EXCEPT ![w] = "committed"]
    /\ UNCHANGED <<wbatch, wid, rplVars, mode, tries, role, chanVars, lockVars,
                   replVars, feedVars, exclVars, crashes, auxVars>>

\* c.Commit
StoreCommit(w) ==
    /\ wpc[w] = "logged"
    /\ \/ /\ NoFault
          /\ db' = Replay(db, wbatch[w])
          /\ wpc' = [wpc EXCEPT ![w] = "committed"]
          /\ UNCHANGED commitLock
       \/ /\ Fault("commit")
          /\ wpc' = [wpc EXCEPT ![w] = "notice"]
          /\ commitLock' = "none"
          /\ UNCHANGED db
    /\ UNCHANGED <<wbatch, wid, rplVars, mode, tries, role, chanVars, wLock,
                   replVars, feedVars, exclVars, crashes, auxVars>>

\* r.UpdateCommitID(rl.ID), then both locks are released.
CommitDone(w) ==
    /\ wpc[w] = "committed"
    /\ commitLock' = "none"
    /\ \/ /\ NoFault
          /\ UpdateCommitID(wid[w])
          /\ acked' = acked \cup {wid[w]}
          /\ Return(w)
       \/ /\ UpdateCommitIDFails
          /\ wpc' = [wpc EXCEPT ![w] = "notice"]
          /\ UNCHANGED <<commitID, commitLog, acked, wbatch, wid>>
    /\ UNCHANGED <<log, lastID, wlast, db, mode, tries, role, chanVars, wLock,
                   replVars, feedVars, exclVars, crashes, want, base, history,
                   dumpVars>>

\* Mutant: a failed commit does not wake the replication thread.
NoticeForgotten(w) ==
    /\ wpc[w] = "notice"
    /\ Return(w)
    /\ UNCHANGED <<rplVars, db, mode, tries, role, chanVars, lockVars, replVars,
                   feedVars, exclVars, faults, crashes, auxVars>>

\* noticeReplication after a failed commit; the command returns the error.
Notice(w) ==
    /\ wpc[w] = "notice"
    /\ rc' = 1
    /\ Return(w)
    /\ UNCHANGED <<rplVars, db, mode, tries, role, rDoneCh, lockVars, replVars,
                   feedVars, exclVars, faults, crashes, auxVars>>
-----------------------------------------------------------------------------
(* The replication thread: onReplication and handleReplication.              *)

ReplWake ==
    /\ rpc = "idle" /\ rc = 1
    /\ rc' = 0
    /\ rpc' = "lock"
    /\ UNCHANGED <<rbatch, rid, rplVars, db, mode, tries, role, rDoneCh, lockVars,
                   writerVars, feedVars, exclVars, faults, crashes, auxVars>>

\* Mutant: the replication thread does not wait for the writers.
ReplLockShared ==
    /\ rpc = "lock"
    /\ wLock = "none"
    /\ wLock' = "repl"
    /\ rpc' = "next"
    /\ UNCHANGED <<rbatch, rid, rplVars, db, mode, tries, role, chanVars,
                   commitLock, writerVars, feedVars, exclVars, faults, crashes,
                   auxVars>>

ReplLock ==
    /\ rpc = "lock"
    /\ wLock = "none" /\ \A w \in Writers : ~Active(w)
    /\ wLock' = "repl"
    /\ rpc' = "next"
    /\ UNCHANGED <<rbatch, rid, rplVars, db, mode, tries, role, chanVars,
                   commitLock, writerVars, feedVars, exclVars, faults, crashes,
                   auxVars>>

\* The deferred AsyncNotify(l.rDoneCh) and wLock.Unlock.
ReplReturn ==
    /\ rDoneCh' = 1
    /\ wLock' = "none"
    /\ rpc' = "idle" /\ rbatch' = NoBatch /\ rid' = 0

ReplNext ==
    /\ rpc = "next"
    /\ Behind /\ commitID + 1 \in DOMAIN log
    /\ rpc' = "apply" /\ rid' = commitID + 1 /\ rbatch' = log[commitID + 1]
    /\ UNCHANGED <<rplVars, db, mode, tries, role, chanVars, lockVars, writerVars,
                   feedVars, exclVars, faults, crashes, auxVars>>

\* Mutant: ErrNoBehindLog is an error to try again after.
ReplStopRetries ==
    /\ rpc = "next"
    /\ \/ /\ ~Behind \/ commitID + 1 \notin DOMAIN log
          /\ NoFault /\ UNCHANGED <<rDoneCh, wLock, replVars>>
       \/ Fault("repl") /\ ReplReturn
    /\ UNCHANGED <<rplVars, db, mode, tries, role, rc, commitLock, writerVars,
                   feedVars, exclVars, crashes, auxVars>>

\* ErrNoBehindLog, ErrLogNotFound, or the log cannot be read or decoded.
ReplStop ==
    /\ rpc = "next"
    /\ \/ (~Behind \/ commitID + 1 \notin DOMAIN log) /\ NoFault
       \/ Fault("repl")
    /\ ReplReturn
    /\ UNCHANGED <<rplVars, db, mode, tries, role, rc, commitLock, writerVars,
                   feedVars, exclVars, crashes, auxVars>>

\* commitLock.Lock and rbatch.Commit
ReplCommit ==
    /\ rpc = "apply" /\ commitLock = "none"
    /\ \/ /\ NoFault
          /\ db' = Replay(db, rbatch)
          /\ commitLock' = "repl"
          /\ rpc' = "update"
          /\ UNCHANGED <<rDoneCh, wLock, rbatch, rid>>
       \/ /\ Fault("repl")
          /\ ReplReturn
          /\ UNCHANGED <<db, commitLock>>
    /\ UNCHANGED <<rplVars, mode, tries, role, rc, writerVars, feedVars, exclVars,
                   crashes, auxVars>>

ReplUpdate ==
    /\ rpc = "update"
    /\ commitLock' = "none"
    /\ \/ /\ NoFault
          /\ UpdateCommitID(rid)
          /\ rpc' = "next" /\ rbatch' = NoBatch /\ rid' = 0
          /\ UNCHANGED <<rDoneCh, wLock>>
       \/ /\ UpdateCommitIDFails
          /\ ReplReturn
          /\ UNCHANGED <<commitID, commitLog>>
    /\ UNCHANGED <<log, lastID, wlast, db, mode, tries, role, rc, writerVars,
                   feedVars, exclVars, crashes, auxVars>>
-----------------------------------------------------------------------------
(* The slave: SLAVEOF, and StoreLogsFromReader for the logs of the master.   *)

\* m.Close waits for the goroutine that stores logs or loads a dump.
FeederStopped == fpc = "idle" /\ xop # "load"

SlaveOf ==
    /\ "slaveof" \in Ops
    /\ mode = "up" /\ FeederStopped
    /\ role' = "slave"
    /\ UNCHANGED <<rplVars, db, mode, tries, chanVars, lockVars, writerVars,
                   replVars, feedVars, exclVars, faults, crashes, auxVars>>

SlaveOfNoOne ==
    /\ "slaveof" \in Ops
    /\ mode = "up" /\ FeederStopped
    /\ role' \in {"master", "readonly"}
    /\ UNCHANGED <<rplVars, db, mode, tries, chanVars, lockVars, writerVars,
                   replVars, feedVars, exclVars, faults, crashes, auxVars>>

\* sync: the master is asked for the logs from nextSyncLogID and sends some.
FeedSync ==
    /\ mode = "up" /\ role = "slave" /\ FeederStopped /\ NextID <= MaxLog
    /\ fpc' = "recv" /\ fnext' = NextID
    /\ UNCHANGED <<rplVars, db, mode, tries, role, chanVars, lockVars, writerVars,
                   replVars, exclVars, faults, crashes, auxVars>>

FeedStore ==
    /\ fpc \in {"recv", "stored"}
    /\ Accepts(fnext) /\ fnext <= MaxLog
    /\ \E b \in Batches : StoreLog(fnext, b)
    /\ fpc' = "stored" /\ fnext' = fnext + 1
    /\ history' = IF fnext = NextID THEN history ELSE "torn"
    /\ UNCHANGED <<commitID, commitLog, db, mode, tries, role, chanVars, lockVars,
                   writerVars, replVars, exclVars, faults, crashes, base, acked,
                   dumpVars>>

\* A log that cannot be decoded or stored: no notice.
FeedFails ==
    /\ fpc \in {"recv", "stored"}
    /\ \/ ~Accepts(fnext) /\ NoFault
       \/ Fault("feed")
    /\ fpc' = "idle" /\ fnext' = 0
    /\ UNCHANGED <<rplVars, db, mode, tries, role, chanVars, lockVars, writerVars,
                   replVars, exclVars, crashes, auxVars>>

FeedDone ==
    /\ fpc = "stored"
    /\ rc' = 1
    /\ fpc' = "idle" /\ fnext' = 0
    /\ UNCHANGED <<rplVars, db, mode, tries, role, rDoneCh, lockVars, writerVars,
                   replVars, exclVars, faults, crashes, auxVars>>
-----------------------------------------------------------------------------
(* FlushAll, LoadDump and Dump, under wLock.                                 *)

ExclStart(op) ==
    /\ op \in Ops
    /\ mode = "up" /\ xpc = "idle"
    /\ wLock = "none" /\ \A w \in Writers : ~Active(w)
    /\ wLock' = "excl"

ExclReturn ==
    /\ wLock' = "none"
    /\ xpc' = "idle" /\ xop' = "none" /\ xid' = 0 /\ xdb' = Empty

FlushAll ==
    /\ ExclStart("flushall")
    /\ xpc' = "delete" /\ xop' = "flush" /\ xid' = 0 /\ xdb' = Empty
    /\ UNCHANGED <<rplVars, db, mode, tries, role, chanVars, commitLock, writerVars,
                   replVars, feedVars, faults, crashes, auxVars>>

\* fullSync: the dump of the master is received, then loaded.
LoadDump ==
    /\ ExclStart("load")
    /\ role = "slave" /\ FeederStopped
    /\ \E c \in 0..MaxLog, d \in Snapshots :
          xpc' = "delete" /\ xop' = "load" /\ xid' = c /\ xdb' = d
    /\ UNCHANGED <<rplVars, db, mode, tries, role, chanVars, commitLock, writerVars,
                   replVars, feedVars, faults, crashes, auxVars>>

\* flushAll deletes the keys in batches of 10000.
FlushDelete ==
    /\ xpc = "delete"
    /\ \E S \in SUBSET {k \in Keys : db[k] # Nil} :
          /\ db = Empty \/ S # {}
          /\ db' = [k \in Keys |-> IF k \in S THEN Nil ELSE db[k]]
    /\ xpc' = IF db' = Empty THEN "clear" ELSE "delete"
    /\ history' = IF db' = db THEN history ELSE "torn"
    /\ UNCHANGED <<xop, xid, xdb, rplVars, mode, tries, role, chanVars, lockVars,
                   writerVars, replVars, feedVars, faults, crashes, want, base,
                   acked, dumpVars>>

\* r.s.Clear; with the logs goes the history they recorded.
ClearLog == /\ log' = [i \in {} |-> NoBatch] /\ lastID' = 0 /\ wlast' = 0
            /\ want' = [i \in 0..MaxLog |-> Empty] /\ base' = 0
            /\ acked' = {} /\ dstate' = "none" /\ did' = 0 /\ ddb' = Empty

\* r.Clear, under r.m
FlushClear ==
    /\ xpc = "clear"
    /\ ClearLog
    /\ commitID' = 0 /\ commitLog' = 0 /\ history' = "whole"
    /\ IF xop = "load" THEN xpc' = "load" /\ UNCHANGED <<wLock, xop, xid, xdb>>
                       ELSE ExclReturn
    /\ UNCHANGED <<db, mode, tries, role, chanVars, commitLock, writerVars,
                   replVars, feedVars, faults, crashes>>

\* A batch of deletes fails, or the logs are cleared and commit.log is not.
FlushFails ==
    /\ Fault("flush")
    /\ \/ xpc = "delete" /\ UNCHANGED <<log, lastID, wlast, auxVars>>
       \/ xpc = "clear" /\ ClearLog /\ history' = "torn"
    /\ ExclReturn
    /\ UNCHANGED <<commitID, commitLog, db, mode, tries, role, chanVars, commitLock,
                   writerVars, replVars, feedVars, crashes>>

\* Mutant: the last batch of a dump is not committed.
LoadKeysShort ==
    /\ xpc = "load"
    /\ \E S \in SUBSET {k \in Keys : db[k] # xdb[k]} :
          db' = [k \in Keys |-> IF k \in S THEN xdb[k] ELSE db[k]]
    /\ xpc' = "update"
    /\ history' = "torn"
    /\ UNCHANGED <<xop, xid, xdb, rplVars, mode, tries, role, chanVars, lockVars,
                   writerVars, replVars, feedVars, faults, crashes, want, base,
                   acked, dumpVars>>

\* LoadDump writes the keys of the dump in batches of 1024.
LoadKeys ==
    /\ xpc = "load"
    /\ \E S \in SUBSET {k \in Keys : db[k] # xdb[k]} :
          /\ db = xdb \/ S # {}
          /\ db' = [k \in Keys |-> IF k \in S THEN xdb[k] ELSE db[k]]
    /\ xpc' = IF db' = xdb THEN "update" ELSE "load"
    /\ history' = "torn"
    /\ UNCHANGED <<xop, xid, xdb, rplVars, mode, tries, role, chanVars, lockVars,
                   writerVars, replVars, feedVars, faults, crashes, want, base,
                   acked, dumpVars>>

LoadUpdate ==
    /\ xpc = "update"
    /\ UpdateCommitID(xid)
    /\ base' = xid /\ want' = [want EXCEPT ![xid] = xdb] /\ history' = "whole"
    /\ ExclReturn
    /\ UNCHANGED <<log, lastID, wlast, db, mode, tries, role, chanVars, commitLock,
                   writerVars, replVars, feedVars, faults, crashes, acked,
                   dumpVars>>

\* The dump cannot be read, a batch fails, or the commit id cannot be written.
LoadFails ==
    /\ \/ xpc = "load" /\ Fault("load")
       \/ xpc = "update" /\ UpdateCommitIDFails
    /\ ExclReturn
    /\ UNCHANGED <<rplVars, db, mode, tries, role, chanVars, commitLock, writerVars,
                   replVars, feedVars, crashes, auxVars>>

\* Mutant: the head of a dump has the last log id.
DumpHeadLast ==
    /\ ExclStart("dump")
    /\ xpc' = "snap" /\ xop' = "dump" /\ xid' = lastID /\ xdb' = Empty
    /\ UNCHANGED <<rplVars, db, mode, tries, role, chanVars, commitLock, writerVars,
                   replVars, feedVars, faults, crashes, auxVars>>

\* Dump reads the commit id, then takes the snapshot of the store.
DumpHead ==
    /\ ExclStart("dump")
    /\ xpc' = "snap" /\ xop' = "dump" /\ xid' = commitID /\ xdb' = Empty
    /\ UNCHANGED <<rplVars, db, mode, tries, role, chanVars, commitLock, writerVars,
                   replVars, feedVars, faults, crashes, auxVars>>

DumpSnapshot ==
    /\ xpc = "snap"
    /\ dstate' = "taken" /\ did' = xid /\ ddb' = db
    /\ ExclReturn
    /\ UNCHANGED <<rplVars, db, mode, tries, role, chanVars, commitLock, writerVars,
                   replVars, feedVars, faults, crashes, want, base, history, acked>>
-----------------------------------------------------------------------------
(* The ticks of r.run, Close, and crashes of the process.                    *)

SyncCommitID ==
    /\ SyncLog # 2 /\ commitLog # commitID
    /\ commitLog' = commitID
    /\ UNCHANGED <<log, lastID, wlast, commitID, db, mode, tries, role, chanVars,
                   lockVars, writerVars, replVars, feedVars, exclVars, faults,
                   crashes, auxVars>>

\* Mutant: logs are purged whether or not the commit id on disk covers them.
PurgeExpiredAny ==
    /\ "purge" \in Ops
    /\ \E p \in 1..lastID + 1 :
          /\ \E i \in DOMAIN log : i < p
          /\ StoreName = "file" => p <= lastID
          /\ log' = [i \in {j \in DOMAIN log : j >= p} |-> log[i]]
          /\ lastID' = IF p > lastID THEN 0 ELSE lastID
    /\ UNCHANGED <<wlast, commitID, commitLog, db, mode, tries, role, chanVars,
                   lockVars, writerVars, replVars, feedVars, exclVars, faults,
                   crashes, auxVars>>

\* Logs expire after days, the commit id is on disk after a second: a log that
\* expires is taken to be one whose commit id is on disk.  The file store keeps
\* at least its newest table, the goleveldb store may drop every log.
PurgeExpired ==
    /\ "purge" \in Ops
    /\ \E p \in 1..lastID + 1 :
          /\ \E i \in DOMAIN log : i < p
          /\ p <= commitLog + 1
          /\ StoreName = "file" => p <= lastID
          /\ log' = [i \in {j \in DOMAIN log : j >= p} |-> log[i]]
          /\ lastID' = IF p > lastID THEN 0 ELSE lastID
    /\ UNCHANGED <<wlast, commitID, commitLog, db, mode, tries, role, chanVars,
                   lockVars, writerVars, replVars, feedVars, exclVars, faults,
                   crashes, auxVars>>

\* A new process: rpl.NewReplication reads commit.log, Open starts the threads.
Reopen ==
    /\ wlast' = 0
    /\ mode' = "notice" /\ tries' = 0
    /\ role' \in {"master", "readonly"}
    /\ rc' = 1 /\ rDoneCh' = 0
    /\ wLock' = "none" /\ commitLock' = "none"
    /\ wpc' = [w \in Writers |-> "idle"]
    /\ wbatch' = [w \in Writers |-> NoBatch] /\ wid' = [w \in Writers |-> 0]
    /\ rpc' = "idle" /\ rbatch' = NoBatch /\ rid' = 0
    /\ fpc' = "idle" /\ fnext' = 0
    /\ xpc' = "idle" /\ xop' = "none" /\ xid' = 0 /\ xdb' = Empty
    /\ UNCHANGED <<db, faults>>

\* l.Close and r.Close, then Open
Close ==
    /\ "close" \in Ops
    /\ mode = "up" /\ rpc = "idle" /\ fpc = "idle" /\ xpc = "idle"
    /\ \A w \in Writers : ~Active(w)
    /\ commitLog' = commitID
    /\ Reopen
    /\ UNCHANGED <<log, lastID, commitID, crashes, auxVars>>

\* Clear removes the logs before it resets commit.log: a crash may fall between.
Crash ==
    /\ crashes < MaxCrashes /\ crashes' = crashes + 1
    /\ commitID' = commitLog
    /\ Reopen
    /\ \/ /\ history' = IF commitLog < base THEN "torn" ELSE history
          /\ UNCHANGED <<log, lastID, want, base, acked, dumpVars>>
       \/ xpc = "clear" /\ ClearLog /\ history' = "torn"
    /\ UNCHANGED commitLog
-----------------------------------------------------------------------------
Write(w) == \/ Unlock(w) \/ Commit(w) \/ Log(w) \/ LogFails(w)
            \/ StoreCommit(w) \/ CommitDone(w) \/ Notice(w)
Replication == ReplWake \/ ReplLock \/ ReplNext \/ ReplStop \/ ReplCommit \/ ReplUpdate
Opening == WaitNotice \/ WaitDone \/ WaitCheck
Feeder == FeedStore \/ FeedFails \/ FeedDone
Exclusive == \/ FlushDelete \/ FlushClear \/ FlushFails
             \/ LoadKeys \/ LoadUpdate \/ LoadFails \/ DumpSnapshot

Next ==
    \/ \E w \in Writers : Lock(w) \/ Write(w)
    \/ Replication \/ Opening \/ Feeder \/ Exclusive
    \/ SlaveOf \/ SlaveOfNoOne \/ FeedSync
    \/ FlushAll \/ LoadDump \/ DumpHead
    \/ SyncCommitID \/ PurgeExpired \/ Close \/ Crash

Spec == Init /\ [][Next]_vars

\* Scheduling: goroutines that can run are run, I/O returns; nothing obliges a
\* client, a master or an operator to act.
Fairness == /\ \A w \in Writers : WF_vars(Write(w))
            /\ WF_vars(Replication) /\ WF_vars(Opening)
            /\ WF_vars(Feeder) /\ WF_vars(Exclusive)

FairSpec == Spec /\ Fairness
-----------------------------------------------------------------------------
BatchType == [Keys -> Values \cup {Nil, Keep}]

\* Types of the variables; the ids are log ids or 0.
RplType ==
    /\ DOMAIN log \subseteq 1..MaxLog /\ \A i \in DOMAIN log : log[i] \in BatchType
    /\ lastID \in 0..MaxLog /\ wlast \in 0..MaxLog
    /\ commitID \in 0..MaxLog /\ commitLog \in 0..MaxLog
NodeType ==
    /\ db \in DBs
    /\ mode \in {"notice", "wait", "check", "up"} /\ tries \in 0..MaxTries
    /\ role \in {"master", "readonly", "slave"} /\ rc \in 0..1 /\ rDoneCh \in 0..1
    /\ wLock \in {"none", "repl", "excl"}
    /\ commitLock \in Writers \cup {"none", "repl"}
    /\ faults \in 0..MaxFaults /\ crashes \in 0..MaxCrashes
WriterType ==
    /\ wpc \in [Writers -> {"idle", "locked", "commit", "logged", "committed", "notice"}]
    /\ wbatch \in [Writers -> BatchType] /\ wid \in [Writers -> 0..MaxLog]
    /\ \A w \in Writers : wpc[w] \in {"logged", "committed"} => wid[w] >= 1
ThreadType ==
    /\ rpc \in {"idle", "lock", "next", "apply", "update"}
    /\ rbatch \in BatchType /\ rid \in 0..MaxLog
    /\ fpc \in {"idle", "recv", "stored"} /\ fnext \in 0..MaxLog + 1
    /\ fpc # "idle" => fnext >= 1
    /\ xpc \in {"idle", "delete", "clear", "load", "update", "snap"}
    /\ xop \in {"none", "flush", "load", "dump"} /\ xid \in 0..MaxLog /\ xdb \in DBs
AuxType ==
    /\ want \in [0..MaxLog -> DBs] /\ base \in 0..MaxLog
    /\ history \in {"whole", "torn"} /\ acked \subseteq 1..MaxLog
    /\ dstate \in {"none", "taken"} /\ did \in 0..MaxLog /\ ddb \in DBs

\* Every variable has its type.
TypeOK == RplType /\ NodeType /\ WriterType /\ ThreadType /\ AuxType

\* No flush, load or sync has been cut in two since the last complete one.
Whole == history = "whole"

\* Where the data d differs from s, a log after c writes the key: replaying the
\* logs c + 1..last on d gives what replaying them on s gives.
Repairs(d, s, lg, c, last) ==
    \A k \in Keys : \/ d[k] = s[k]
                    \/ \E j \in c + 1..last : j \in DOMAIN lg /\ lg[j][k] # Keep

\* The data d, tagged with the commit id c, is repaired by the logs after c.
Recovers(d, c) == Repairs(d, want[c], log, c, lastID)

\* Whenever no log waits to be committed, the store holds exactly the data that
\* the batches of the logs give, applied in the order of their ids: concurrent
\* writers, replays and restarts lose, repeat or reorder nothing.
CommittedState == Whole /\ ~Behind => db = want[commitID]

\* A crash at any moment is repaired by the replay that Open starts: every log
\* after the commit id in commit.log is still in the log store, and those logs
\* write every key at which the store is not as that commit id says.
Recoverable ==
    Whole /\ base <= commitLog =>
        /\ commitLog + 1..lastID \subseteq DOMAIN log
        /\ Recovers(db, commitLog)

\* A write that handleCommit acknowledged survives a crash: its log is in the
\* store, or the commit id on disk covers it.
AckedLogged == \A i \in acked : i <= commitLog \/ i \in DOMAIN log

\* A dump is what a slave needs: its data, followed by the logs after the commit
\* id in its head, gives the data of this node, whatever was being committed or
\* had failed when Dump ran.
DumpSound ==
    Whole /\ dstate = "taken" /\ did + 1..NextID - 1 \subseteq DOMAIN log
        => Recovers(ddb, did)

\* When logs wait to be committed, the one handleReplication asks for is there.
ReplayPossible == Whole /\ Behind => commitID + 1 \in DOMAIN log

\* After a full sync (base > 0) the replay can always go on from the commit id.
LoadedReplayPossible == base > 0 /\ Behind => commitID + 1 \in DOMAIN log

\* The log store takes the log that comes next, from a writer or from a master.
NextLogAccepted == Whole => Accepts(NextID)

\* The ids in the log store have no gap.
LogContiguous == Whole => \A i \in DOMAIN log : i..lastID \subseteq DOMAIN log

\* A stored log never changes: a slave's goroutine and a writer that passed the
\* read-only check before SLAVEOF never store two logs under one id.
LogWrittenOnce == [][\A i \in DOMAIN log \cap DOMAIN log' : log'[i] = log[i]]_vars

\* Read-only mode ends: a log that waits to be committed is committed at last
\* (or the process crashed, or the node was flushed).
BehindEnds == Behind ~> ~Behind

\* Open returns: WaitReplication always gets its token.
OpenReturns == (mode # "up") ~> (mode = "up")
-----------------------------------------------------------------------------
(* The inductive invariant of the node.                                      *)

\* Who holds the locks: wLock excludes the writers, commitLock is held by the
\* one writer between r.Log and UpdateCommitID.
LockInv ==
    /\ wLock = "repl" <=> rpc \in {"next", "apply", "update"}
    /\ wLock = "excl" <=> xpc # "idle"
    /\ wLock # "none" => \A w \in Writers : wpc[w] = "idle"
    /\ \A w \in Writers : wpc[w] \in {"logged", "committed"} <=> commitLock = w
    /\ commitLock = "repl" <=> rpc = "update"
    /\ xop = "load" => fpc = "idle"
    /\ xpc \in {"load", "update"} => xop = "load"

\* The log ids and the commit ids.
IdInv ==
    /\ \A i \in DOMAIN log : i <= lastID
    /\ lastID = 0 \/ lastID \in DOMAIN log
    /\ Whole => lastID = 0 \/ commitID <= lastID
    /\ commitLog <= commitID
    /\ StoreName = "file" => wlast \in {0, lastID}
    /\ fpc # "idle" /\ wlast = 0 => fnext > lastID
    /\ xpc \in {"load", "update"} => lastID = 0 /\ commitID = 0

\* What is committed or loaded is what a command or a dump gave.
InputInv ==
    /\ \A w \in Writers : wpc[w] = "commit" => wbatch[w] \in Batches
    /\ xop = "load" => xdb \in Snapshots

\* The log that a writer or the replication thread is committing is the next one.
CommitInv ==
    /\ \A w \in Writers : wpc[w] \in {"logged", "committed"} =>
          /\ wid[w] = commitID + 1 /\ wid[w] \in DOMAIN log
          /\ log[wid[w]] = wbatch[w]
    /\ rpc \in {"apply", "update"} =>
          /\ rid = commitID + 1 /\ rid \in DOMAIN log
          /\ log[rid] = rbatch
    /\ xpc = "snap" => xid = commitID
    /\ xpc = "clear" => db = Empty
    /\ xpc = "update" => db = xdb

\* The commit ids from which a replay of the logs in the store can start.
Oldest == MaxID(commitLog, base)

\* The logs from Oldest on record the history of the data, and replaying them
\* from any commit id up to the current one repairs the store.
HistoryInv ==
    Whole =>
        /\ base <= commitID
        /\ lastID = 0 => commitID = Oldest
        /\ \A j \in Oldest + 1..lastID :
              j \in DOMAIN log /\ want[j] = Replay(want[j - 1], log[j])
        /\ \A c \in Oldest..commitID : Recovers(db, c)
        /\ \A w \in Writers : wpc[w] = "committed" => Recovers(db, commitID + 1)
        /\ rpc = "update" => Recovers(db, commitID + 1)

\* The last dump is of this history and not ahead of it.
DumpInv ==
    /\ Whole /\ dstate = "taken" => did <= NextID - 1
    /\ xpc \in {"load", "update"} => dstate = "none"
    /\ DumpSound

\* Together they are preserved by every step of the node.
IndInv == /\ TypeOK /\ LockInv /\ InputInv /\ IdInv /\ CommitInv /\ HistoryInv
          /\ DumpInv /\ AckedLogged /\ LogContiguous
-----------------------------------------------------------------------------
Promise == INSTANCE DurableStore WITH
    state <- IF Whole THEN {want[NextID - 1]} ELSE {},
    view <- IF Whole /\ ~Behind THEN {db} ELSE {}

\* The node implements DurableStore: concurrent writers, the replication thread,
\* a slave's goroutine, errors and crashes together look like one data set that
\* changes by whole batches.
KeepsPromise == Promise!Spec
=============================================================================
