---------------------------- MODULE LedisIds -------------------------------
(***************************************************************************)
(* The locks of a node, its log ids and its commit ids: LockInv, IdInv and *)
(* CommitInv are kept by every step.  The ids are proved for the file      *)
(* store, the default; MCLedis shows that the goleveldb store differs.     *)
(***************************************************************************)
EXTENDS LedisTypes

USE DEF chanVars, lockVars, rplVars, writerVars, replVars, feedVars, exclVars,
        dumpVars, auxVars
-----------------------------------------------------------------------------
(* The locks.                                                               *)

\* The steps of a write command keep the locks.
LEMMA WriteLocks ==
    ASSUME TypeOK, LockInv, NEW w \in Writers, Lock(w) \/ Write(w)
    PROVE  LockInv'
<1>0. wpc \in [Writers -> {"idle", "locked", "commit", "logged", "committed", "notice"}]
  BY DEF TypeOK, WriterType
<1>1. CASE Lock(w)
  BY <1>0, <1>1 DEF LockInv, Lock, Active
<1>2. CASE Unlock(w)
  BY <1>0, <1>2 DEF LockInv, Unlock, Return
<1>3. CASE Commit(w)
  BY <1>0, <1>3 DEF LockInv, Commit, Return
<1>4. CASE Log(w)
  BY <1>0, <1>4, WritersAssumption DEF LockInv, Log
<1>5. CASE LogFails(w)
  BY <1>0, <1>5 DEF LockInv, LogFails, Return
<1>6. CASE StoreCommit(w)
  BY <1>0, <1>6, WritersAssumption DEF LockInv, StoreCommit
<1>7. CASE CommitDone(w)
  BY <1>0, <1>7, WritersAssumption DEF LockInv, CommitDone, Return
<1>8. CASE Notice(w)
  BY <1>0, <1>8 DEF LockInv, Notice, Return
<1> QED
  BY <1>1, <1>2, <1>3, <1>4, <1>5, <1>6, <1>7, <1>8 DEF Write

\* The steps of the replication thread keep the locks.
LEMMA ReplicationLocks == TypeOK /\ LockInv /\ Replication => LockInv'
<1> SUFFICES ASSUME TypeOK, LockInv, Replication PROVE LockInv'
  OBVIOUS
<1>1. CASE ReplWake
  BY <1>1 DEF LockInv, ReplWake
<1>2. CASE ReplLock
  BY <1>2 DEF LockInv, ReplLock, Active
<1>3. CASE ReplNext
  BY <1>3 DEF LockInv, ReplNext
<1>4. CASE ReplStop
  BY <1>4 DEF LockInv, ReplStop, ReplReturn
<1>5. CASE ReplCommit
  BY <1>5, WritersAssumption DEF LockInv, ReplCommit, ReplReturn
<1>6. CASE ReplUpdate
  BY <1>6, WritersAssumption DEF LockInv, ReplUpdate, ReplReturn
<1> QED
  BY <1>1, <1>2, <1>3, <1>4, <1>5, <1>6 DEF Replication

\* Opening, and the steps of the slave's goroutine, keep the locks.
LEMMA SlaveLocks ==
    LockInv /\ (Opening \/ SlaveOf \/ SlaveOfNoOne \/ FeedSync \/ Feeder) => LockInv'
BY DEF LockInv, Opening, WaitNotice, WaitDone, WaitCheck, SlaveOf, SlaveOfNoOne, FeedSync,
       FeederStopped, Feeder, FeedStore, FeedFails, FeedDone

\* FlushAll, LoadDump and Dump keep the locks.
LEMMA ExclusiveLocks ==
    TypeOK /\ LockInv /\ (FlushAll \/ LoadDump \/ DumpHead \/ Exclusive) => LockInv'
<1> SUFFICES ASSUME TypeOK, LockInv, FlushAll \/ LoadDump \/ DumpHead \/ Exclusive
             PROVE  LockInv'
  OBVIOUS
<1>1. CASE FlushAll
  BY <1>1 DEF LockInv, FlushAll, ExclStart, Active
<1>2. CASE LoadDump
  BY <1>2 DEF LockInv, LoadDump, ExclStart, Active, FeederStopped
<1>3. CASE DumpHead
  BY <1>3 DEF LockInv, DumpHead, ExclStart, Active
<1>4. CASE FlushDelete
  BY <1>4 DEF LockInv, FlushDelete
<1>5. CASE FlushClear
  BY <1>5 DEF LockInv, FlushClear, ExclReturn
<1>6. CASE FlushFails
  BY <1>6 DEF LockInv, FlushFails, ExclReturn
<1>7. CASE LoadKeys
  BY <1>7 DEF LockInv, LoadKeys
<1>8. CASE LoadUpdate
  BY <1>8 DEF LockInv, LoadUpdate, ExclReturn
<1>9. CASE LoadFails
  BY <1>9 DEF LockInv, LoadFails, ExclReturn
<1>10. CASE DumpSnapshot
  BY <1>10 DEF LockInv, DumpSnapshot, ExclReturn
<1> QED
  BY <1>1, <1>2, <1>3, <1>4, <1>5, <1>6, <1>7, <1>8, <1>9, <1>10 DEF Exclusive

\* Restarts keep the locks.
LEMMA RestartLocks == LockInv /\ (SyncCommitID \/ PurgeExpired \/ Close \/ Crash) => LockInv'
<1> SUFFICES ASSUME LockInv, SyncCommitID \/ PurgeExpired \/ Close \/ Crash PROVE LockInv'
  OBVIOUS
<1>1. CASE SyncCommitID \/ PurgeExpired
  BY <1>1 DEF LockInv, SyncCommitID, PurgeExpired
<1>2. CASE Close \/ Crash
  <2>1. Reopen
    BY <1>2 DEF Close, Crash
  <2> QED
    BY <2>1, WritersAssumption DEF LockInv, Reopen
<1> QED
  BY <1>1, <1>2
-----------------------------------------------------------------------------
(* The inputs.                                                              *)

\* A batch stays what the command gave, a dump what the master sent.
LEMMA NextInput == TypeOK /\ InputInv /\ [Next]_vars => InputInv'
<1> SUFFICES ASSUME TypeOK, InputInv, [Next]_vars PROVE InputInv'
  OBVIOUS
<1>0. /\ wpc \in [Writers -> {"idle", "locked", "commit", "logged", "committed", "notice"}]
      /\ wbatch \in [Writers -> BatchType]
  BY DEF TypeOK, WriterType
<1>1. ASSUME NEW w \in Writers, Lock(w) \/ Write(w) PROVE InputInv'
  <2>1. UNCHANGED <<xop, xdb>>
    BY <1>1 DEF Lock, Write, Unlock, Commit, Log, LogFails, StoreCommit, CommitDone, Notice
  <2>2. CASE Commit(w)
    BY <1>0, <2>1, <2>2 DEF InputInv, Commit, Return
  <2>3. CASE ~Commit(w)
    <3>1. \A v \in Writers : wpc'[v] = "commit" => wpc[v] = "commit" /\ wbatch'[v] = wbatch[v]
      BY <1>0, <1>1, <2>3 DEF Lock, Write, Unlock, Log, LogFails, StoreCommit, CommitDone,
                              Notice, Return
    <3> QED
      BY <2>1, <3>1 DEF InputInv
  <2> QED
    BY <2>2, <2>3
<1>2. CASE UNCHANGED vars
  BY <1>2 DEF InputInv, vars
<1>3. CASE \/ Replication \/ Opening \/ Feeder \/ SlaveOf \/ SlaveOfNoOne \/ FeedSync
           \/ SyncCommitID \/ PurgeExpired
  <2>1. UNCHANGED <<wpc, wbatch, xop, xdb>>
    BY <1>3 DEF Replication, ReplWake, ReplLock, ReplNext, ReplStop, ReplCommit, ReplUpdate,
                Opening, WaitNotice, WaitDone, WaitCheck, Feeder, FeedStore, FeedFails, FeedDone,
                SlaveOf, SlaveOfNoOne, FeedSync, SyncCommitID, PurgeExpired
  <2> QED
    BY <2>1 DEF InputInv
<1>4. CASE FlushAll \/ LoadDump \/ DumpHead \/ Exclusive
  <2>1. UNCHANGED <<wpc, wbatch>>
    BY <1>4 DEF FlushAll, LoadDump, DumpHead, Exclusive, FlushDelete, FlushClear, FlushFails,
                LoadKeys, LoadUpdate, LoadFails, DumpSnapshot
  <2>2. \/ UNCHANGED <<xop, xdb>> \/ xop' # "load" \/ xdb' \in Snapshots
    BY <1>4 DEF FlushAll, LoadDump, DumpHead, Exclusive, FlushDelete, FlushClear, FlushFails,
                LoadKeys, LoadUpdate, LoadFails, DumpSnapshot, ExclReturn
  <2> QED
    BY <2>1, <2>2 DEF InputInv
<1>5. CASE Close \/ Crash
  BY <1>5 DEF InputInv, Close, Crash, Reopen
<1> QED
  BY <1>1, <1>2, <1>3, <1>4, <1>5 DEF Next
-----------------------------------------------------------------------------
(* The ids.                                                                 *)

\* A step that changes neither the ids nor what is being committed keeps them.
LEMMA SameIds ==
    IdInv /\ UNCHANGED <<rplVars, feedVars, xpc, history>> => IdInv'
BY DEF IdInv, Whole
\* Steps that touch neither logs, commit id, data nor the threads keep CommitInv.
LEMMA SameCommit ==
    CommitInv /\ UNCHANGED <<log, commitID, db, writerVars, replVars, exclVars>> => CommitInv'
BY DEF CommitInv

\* What storing a log under a new id changes, and what it leaves alone.
LEMMA StoreLogEffect ==
    ASSUME TypeOK, IdInv, NEW id \in 1..MaxLog, NEW b, StoreLog(id, b), id > lastID
    PROVE  /\ DOMAIN log' = DOMAIN log \cup {id} /\ id \notin DOMAIN log
           /\ \A i \in DOMAIN log : log'[i] = log[i]
           /\ log'[id] = b
           /\ lastID' = id /\ wlast' = id
           /\ \A i \in 0..MaxLog : i # id => want'[i] = want[i]
           /\ want'[id] = Replay(want[id - 1], b)
<1>1. /\ log' = [i \in DOMAIN log \cup {id} |-> IF i = id THEN b ELSE log[i]]
      /\ want' = [want EXCEPT ![id] = Replay(want[id - 1], b)]
      /\ lastID' = id /\ wlast' = id
  BY DEF StoreLog
<1>2. want \in [0..MaxLog -> DBs] /\ DOMAIN log \subseteq 1..MaxLog /\ lastID \in Int
      /\ MaxLog \in Nat
  BY BoundsAssumption DEF TypeOK, RplType, AuxType
<1>3. id \notin DOMAIN log
  BY <1>2 DEF IdInv
<1>4. \A i \in 0..MaxLog : i # id => want'[i] = want[i]
  BY <1>1, <1>2
<1>5. want'[id] = Replay(want[id - 1], b)
  BY <1>1, <1>2
<1>6. DOMAIN log' = DOMAIN log \cup {id} /\ log'[id] = b /\ \A i \in DOMAIN log : log'[i] = log[i]
  BY <1>1, <1>3
<1> QED
  BY <1>1, <1>3, <1>4, <1>5, <1>6

\* A writer's log gets the id after the commit id, which is a new one.
LEMMA LogEffect ==
    ASSUME TypeOK, IdInv, NEW w \in Writers, Log(w)
    PROVE  /\ NextID = commitID + 1 /\ NextID \in 1..MaxLog /\ NextID > lastID
           /\ DOMAIN log' = DOMAIN log \cup {NextID} /\ NextID \notin DOMAIN log
           /\ \A i \in DOMAIN log : log'[i] = log[i]
           /\ log'[NextID] = wbatch[w]
           /\ lastID' = NextID /\ wlast' = NextID
           /\ \A i \in 0..MaxLog : i # NextID => want'[i] = want[i]
           /\ want'[NextID] = Replay(want[NextID - 1], wbatch[w])
<1>1. NextID = commitID + 1 /\ NextID \in 1..MaxLog /\ NextID > lastID
  BY IdNats DEF Log, NextID, MaxID, Behind
<1>2. StoreLog(NextID, wbatch[w])
  BY DEF Log
<1> HIDE DEF NextID
<1> QED
  BY <1>1, <1>2, StoreLogEffect

\* The slave's goroutine stores its log under a new id.
LEMMA FeedEffect ==
    ASSUME StoreName = "file", TypeOK, IdInv, FeedStore
    PROVE  \E b \in Batches :
           /\ fnext \in 1..MaxLog /\ fnext > lastID
           /\ DOMAIN log' = DOMAIN log \cup {fnext} /\ fnext \notin DOMAIN log
           /\ \A i \in DOMAIN log : log'[i] = log[i]
           /\ log'[fnext] = b
           /\ lastID' = fnext /\ wlast' = fnext
           /\ \A i \in 0..MaxLog : i # fnext => want'[i] = want[i]
           /\ want'[fnext] = Replay(want[fnext - 1], b)
<1>1. fnext \in 1..MaxLog
  BY BoundsAssumption DEF TypeOK, ThreadType, FeedStore
<1>2. fnext > lastID
  BY <1>1 DEF TypeOK, RplType, IdInv, FeedStore, Accepts
<1>3. PICK b \in Batches : StoreLog(fnext, b)
  BY DEF FeedStore
<1> QED
  BY <1>1, <1>2, <1>3, StoreLogEffect

\* The log that a writer or the replication thread commits is the next one,
\* and nobody else is committing.
LEMMA CommitDoneEffect ==
    ASSUME TypeOK, LockInv, CommitInv, NEW w \in Writers, CommitDone(w)
    PROVE  /\ wid[w] = commitID + 1 /\ wid[w] \in DOMAIN log
           /\ commitID' \in {commitID, commitID + 1}
           /\ commitLog' \in {commitLog, commitID'}
           /\ commitID' = commitID => commitLog' = commitLog
           /\ \A v \in Writers : wpc'[v] \notin {"logged", "committed"}
           /\ rpc \notin {"next", "apply", "update"} /\ xpc = "idle"
<1>1. wid[w] = commitID + 1 /\ wid[w] \in DOMAIN log
  BY DEF CommitInv, CommitDone
<1>2. /\ commitID' \in {commitID, commitID + 1}
      /\ commitLog' \in {commitLog, commitID'}
      /\ commitID' = commitID => commitLog' = commitLog
  <2>1. UpdateCommitID(wid[w]) \/ UNCHANGED <<commitID, commitLog>>
    BY DEF CommitDone
  <2> QED
    BY <1>1, <2>1 DEF UpdateCommitID, TypeOK, RplType
<1>3. \A v \in Writers : wpc'[v] \notin {"logged", "committed"}
  BY DEF TypeOK, WriterType, LockInv, CommitDone, Return
<1>4. rpc \notin {"next", "apply", "update"} /\ xpc = "idle"
  BY DEF LockInv, CommitDone
<1> QED
  BY <1>1, <1>2, <1>3, <1>4

\* The steps of a write command keep the ids, and commit the log they stored.
LEMMA WriteIds ==
    ASSUME TypeOK, LockInv, IdInv, CommitInv, NEW w \in Writers, Lock(w) \/ Write(w)
    PROVE  IdInv' /\ CommitInv'
<1>0. /\ wpc \in [Writers -> {"idle", "locked", "commit", "logged", "committed", "notice"}]
      /\ wbatch \in [Writers -> BatchType] /\ wid \in [Writers -> 0..MaxLog]
      /\ commitID \in Nat /\ commitLog \in Nat /\ lastID \in Nat /\ DOMAIN log \subseteq Nat
  BY IdNats DEF TypeOK, WriterType
<1>1. CASE Lock(w)
  BY <1>0, <1>1 DEF IdInv, CommitInv, Lock, Whole
<1>2. CASE Unlock(w)
  BY <1>0, <1>2 DEF IdInv, CommitInv, Unlock, Return, Whole
<1>3. CASE Commit(w)
  <2>1. IdInv'
    BY <1>3 DEF IdInv, Commit, Whole
  <2>2. \A v \in Writers : wpc'[v] \in {"logged", "committed"} =>
           wpc[v] = wpc'[v] /\ wid'[v] = wid[v] /\ wbatch'[v] = wbatch[v]
    BY <1>0, <1>3 DEF Commit, Return
  <2> QED
    BY <1>3, <2>1, <2>2 DEF CommitInv, Commit
<1>4. CASE Log(w)
  <2>1. IdInv'
    <3>1. UNCHANGED <<commitID, commitLog, fpc, fnext, xpc, history>> /\ xpc = "idle"
      BY <1>4 DEF Log, LockInv
    <3>2. /\ DOMAIN log' = DOMAIN log \cup {NextID} /\ lastID' = NextID /\ wlast' = NextID
          /\ NextID = commitID + 1 /\ NextID > lastID
      BY <1>4, LogEffect
    <3> HIDE DEF NextID
    <3>3. \A i \in DOMAIN log' : i <= lastID'
      BY <1>0, <3>2 DEF IdInv
    <3>4. commitID' <= lastID' /\ commitLog' <= commitID'
      BY <1>0, <3>1, <3>2 DEF IdInv
    <3> QED
      BY <1>0, <3>1, <3>2, <3>3, <3>4, BoundsAssumption DEF IdInv
  <2>2. \A v \in Writers : v # w => wpc'[v] \notin {"logged", "committed"}
    BY <1>0, <1>4, WritersAssumption DEF LockInv, Log
  <2>3. wid'[w] = NextID /\ wbatch'[w] = wbatch[w]
    BY <1>0, <1>4 DEF Log
  <2>4. rpc' \notin {"apply", "update"} /\ xpc' = "idle"
    BY <1>4 DEF LockInv, Log
  <2>5. UNCHANGED <<commitID, db>>
    BY <1>4 DEF Log
  <2> QED
    BY <1>4, <2>1, <2>2, <2>3, <2>4, <2>5, LogEffect DEF CommitInv
<1>5. CASE LogFails(w)
  BY <1>0, <1>5 DEF IdInv, CommitInv, LogFails, Return, Whole
<1>6. CASE StoreCommit(w)
  <2>1. IdInv'
    BY <1>6 DEF IdInv, StoreCommit, Whole
  <2>2. \A v \in Writers : wpc'[v] \in {"logged", "committed"} => wpc[v] \in {"logged", "committed"}
    BY <1>0, <1>6 DEF StoreCommit
  <2>3. xpc' = "idle"
    BY <1>6 DEF LockInv, StoreCommit
  <2> QED
    BY <1>6, <2>1, <2>2, <2>3 DEF CommitInv, StoreCommit
<1>7. CASE CommitDone(w)
  <2>1. /\ UNCHANGED <<log, lastID, wlast, fpc, fnext, xpc, history, rpc>>
    BY <1>7 DEF CommitDone
  <2>2. wid[w] <= lastID /\ lastID # 0
    <3>1. wid[w] = commitID + 1 /\ wid[w] \in DOMAIN log
      BY <1>7, CommitDoneEffect
    <3> QED
      BY <1>0, <3>1 DEF IdInv
  <2>3. commitID' <= lastID' /\ commitLog' <= commitID' /\ xpc' \notin {"load", "update"}
    <3>1. /\ wid[w] = commitID + 1 /\ commitID' \in {commitID, commitID + 1}
          /\ commitLog' \in {commitLog, commitID'} /\ xpc = "idle"
      BY <1>7, CommitDoneEffect
    <3>2. commitLog <= commitID
      BY DEF IdInv
    <3> QED
      BY <1>0, <2>1, <2>2, <3>1, <3>2
  <2>5. IdInv'
    BY <2>1, <2>3 DEF IdInv
  <2>4. CommitInv'
    <3>1. /\ \A v \in Writers : wpc'[v] \notin {"logged", "committed"}
          /\ rpc' \notin {"apply", "update"} /\ xpc' = "idle"
      BY <1>7, <2>1, CommitDoneEffect
    <3> QED
      BY <3>1 DEF CommitInv
  <2> QED
    BY <2>4, <2>5
<1>8. CASE Notice(w)
  BY <1>0, <1>8 DEF IdInv, CommitInv, Notice, Return, Whole
<1> QED
  BY <1>1, <1>2, <1>3, <1>4, <1>5, <1>6, <1>7, <1>8 DEF Write

\* The steps of the replication thread keep the ids, and commit the next log.
LEMMA ReplicationIds ==
    TypeOK /\ LockInv /\ IdInv /\ CommitInv /\ Replication => IdInv' /\ CommitInv'
<1> SUFFICES ASSUME TypeOK, LockInv, IdInv, CommitInv, Replication PROVE IdInv' /\ CommitInv'
  OBVIOUS
<1>0. commitID \in Nat /\ commitLog \in Nat /\ lastID \in Nat /\ DOMAIN log \subseteq Nat
  BY IdNats
<1>1. CASE ReplWake
  BY <1>1 DEF IdInv, CommitInv, ReplWake, Whole
<1>2. CASE ReplLock
  BY <1>2 DEF IdInv, CommitInv, ReplLock, Whole
<1>3. CASE ReplNext
  BY <1>3 DEF IdInv, CommitInv, ReplNext, Whole
<1>4. CASE ReplStop
  BY <1>4 DEF IdInv, CommitInv, ReplStop, ReplReturn, Whole
<1>5. CASE ReplCommit
  BY <1>5 DEF LockInv, IdInv, CommitInv, ReplCommit, ReplReturn, Whole
<1>6. CASE ReplUpdate
  <2>1. /\ xpc = "idle" /\ \A w \in Writers : wpc[w] = "idle"
        /\ rid = commitID + 1 /\ rid <= lastID /\ lastID # 0
    <3>1. rid = commitID + 1 /\ rid \in DOMAIN log
      BY <1>6 DEF CommitInv, ReplUpdate
    <3>2. xpc = "idle" /\ \A w \in Writers : wpc[w] = "idle"
      BY <1>6 DEF LockInv, ReplUpdate
    <3> QED
      BY <1>0, <3>1, <3>2 DEF IdInv
  <2>2. UpdateCommitID(rid) \/ UNCHANGED <<commitID, commitLog>>
    BY <1>6 DEF ReplUpdate
  <2>3. rpc' \notin {"apply", "update"} /\ UNCHANGED <<log, lastID, wlast, wpc, fpc, fnext, xpc, history>>
    BY <1>6 DEF ReplUpdate, ReplReturn
  <2>4. IdInv'
    <3>1. commitID' <= lastID' /\ commitLog' <= commitID'
      <4>1. commitLog <= commitID
        BY DEF IdInv
      <4> QED
        BY <1>0, <2>1, <2>2, <2>3, <4>1 DEF UpdateCommitID
    <3> QED
      BY <2>1, <2>3, <3>1 DEF IdInv
  <2>5. CommitInv'
    BY <2>1, <2>3 DEF CommitInv
  <2> QED
    BY <2>4, <2>5
<1> QED
  BY <1>1, <1>2, <1>3, <1>4, <1>5, <1>6 DEF Replication

\* Opening, and the logs of a master, keep the ids.
LEMMA SlaveIds ==
    ASSUME StoreName = "file", TypeOK, LockInv, IdInv, CommitInv,
           Opening \/ SlaveOf \/ SlaveOfNoOne \/ FeedSync \/ Feeder
    PROVE  IdInv' /\ CommitInv'
<1>0. commitID \in Nat /\ commitLog \in Nat /\ lastID \in Nat /\ DOMAIN log \subseteq Nat
  BY IdNats
<1>1. CASE Opening \/ SlaveOf \/ SlaveOfNoOne
  <2>1. UNCHANGED <<rplVars, db, writerVars, replVars, feedVars, exclVars, auxVars>>
    BY <1>1 DEF Opening, WaitNotice, WaitDone, WaitCheck, SlaveOf, SlaveOfNoOne
  <2> QED
    BY <2>1, SameIds, SameCommit
<1>3. CASE FeedSync
  <2>1. /\ UNCHANGED <<rplVars, db, writerVars, replVars, exclVars, auxVars>>
        /\ fnext' = NextID
    BY <1>3 DEF FeedSync
  <2>2. NextID > lastID
    BY <1>0 DEF NextID, MaxID
  <2>3. IdInv'
    BY <2>1, <2>2 DEF IdInv, Whole
  <2> QED
    BY <2>1, <2>3, SameCommit
<1>4. CASE FeedStore
  <2>1. PICK b \in Batches :
           /\ fnext \in 1..MaxLog /\ fnext > lastID
           /\ DOMAIN log' = DOMAIN log \cup {fnext} /\ fnext \notin DOMAIN log
           /\ \A i \in DOMAIN log : log'[i] = log[i]
           /\ lastID' = fnext /\ wlast' = fnext
    BY <1>4, FeedEffect
  <2>2. /\ UNCHANGED <<commitID, commitLog, db, wpc, wid, wbatch, rpc, rid, rbatch, xpc, xid, xdb>>
        /\ fpc # "idle"
    BY <1>4 DEF FeedStore
  <2>3. xpc \notin {"load", "update"}
    BY <2>2 DEF LockInv
  <2>4. Whole' => Whole /\ commitID <= fnext
    BY <1>0, <1>4 DEF FeedStore, Whole, NextID, MaxID
  <2>5. IdInv'
    <3>1. \A i \in DOMAIN log' : i <= lastID'
      BY <1>0, <2>1 DEF IdInv
    <3>2. StoreName = "file" => wlast' \in {0, lastID'}
      BY <2>1
    <3>3. wlast' # 0 /\ lastID' \in DOMAIN log' /\ commitLog' <= commitID'
      BY <2>1, <2>2 DEF IdInv
    <3> QED
      BY <2>1, <2>2, <2>3, <2>4, <3>1, <3>2, <3>3 DEF IdInv
  <2>6. CommitInv'
    BY <2>1, <2>2 DEF CommitInv
  <2> QED
    BY <2>5, <2>6
<1>5. CASE FeedFails \/ FeedDone
  <2>1. UNCHANGED <<rplVars, db, writerVars, replVars, exclVars, auxVars>> /\ fpc' = "idle"
    BY <1>5 DEF FeedFails, FeedDone
  <2>2. IdInv'
    BY <2>1 DEF IdInv, Whole
  <2> QED
    BY <2>1, <2>2, SameCommit
<1> QED
  BY <1>1, <1>3, <1>4, <1>5 DEF Feeder

\* FlushAll, LoadDump and Dump keep the ids.
LEMMA ExclusiveIds ==
    ASSUME StoreName = "file", TypeOK, LockInv, IdInv, CommitInv,
           FlushAll \/ LoadDump \/ DumpHead \/ Exclusive
    PROVE  IdInv' /\ CommitInv'
<1>0. /\ commitID \in Nat /\ commitLog \in Nat /\ lastID \in Nat /\ DOMAIN log \subseteq Nat
      /\ xid \in Nat /\ fnext \in Nat /\ (fpc # "idle" => fnext >= 1)
  BY IdNats, BoundsAssumption DEF TypeOK, ThreadType
<1>1. CASE FlushAll
  BY <1>1 DEF IdInv, CommitInv, FlushAll, Whole
<1>2. CASE LoadDump
  BY <1>2 DEF IdInv, CommitInv, LoadDump, Whole
<1>3. CASE DumpHead
  BY <1>3 DEF IdInv, CommitInv, DumpHead, Whole
<1>4. CASE FlushDelete
  <2>1. UNCHANGED <<rplVars, writerVars, replVars, feedVars>> /\ xpc' \in {"clear", "delete"}
    BY <1>4 DEF FlushDelete
  <2>2. xpc' = "clear" => db' = Empty
    BY <1>4 DEF FlushDelete
  <2>3. Whole' => Whole
    BY <1>4 DEF FlushDelete, Whole
  <2> QED
    BY <2>1, <2>2, <2>3 DEF IdInv, CommitInv
<1>5. CASE FlushClear
  <2>1. /\ DOMAIN log' = {} /\ lastID' = 0 /\ wlast' = 0 /\ commitID' = 0 /\ commitLog' = 0
        /\ UNCHANGED <<feedVars, writerVars, replVars>> /\ xpc' \in {"idle", "load"}
    BY <1>5 DEF FlushClear, ClearLog, ExclReturn
  <2>2. IdInv'
    BY <1>0, <2>1 DEF IdInv
  <2>3. rpc \notin {"apply", "update"} /\ \A w \in Writers : wpc[w] = "idle"
    BY <1>5 DEF LockInv, FlushClear
  <2> QED
    BY <2>1, <2>2, <2>3 DEF CommitInv
<1>6. CASE FlushFails
  <2>1. UNCHANGED <<commitID, commitLog, db, feedVars, writerVars, replVars>> /\ xpc' = "idle"
    BY <1>6 DEF FlushFails, ExclReturn
  <2>2. rpc \notin {"apply", "update"} /\ \A w \in Writers : wpc[w] = "idle"
    BY <1>6 DEF LockInv, FlushFails
  <2>3. CommitInv'
    BY <2>1, <2>2 DEF CommitInv
  <2>4. CASE UNCHANGED <<log, lastID, wlast, auxVars>>
    BY <2>1, <2>3, <2>4 DEF IdInv, Whole
  <2>5. CASE ClearLog /\ history' = "torn"
    <3>1. DOMAIN log' = {} /\ lastID' = 0 /\ wlast' = 0 /\ ~Whole'
      BY <2>5 DEF ClearLog, Whole
    <3> QED
      BY <1>0, <2>1, <2>3, <3>1 DEF IdInv
  <2> QED
    BY <1>6, <2>4, <2>5 DEF FlushFails
<1>7. CASE LoadKeys
  <2>1. UNCHANGED <<rplVars, writerVars, replVars, feedVars, xid, xdb>> /\ xpc' \in {"load", "update"}
    BY <1>7 DEF LoadKeys
  <2>2. xpc' = "update" => db' = xdb
    BY <1>7 DEF LoadKeys
  <2>3. ~Whole' /\ xpc = "load"
    BY <1>7 DEF LoadKeys, Whole
  <2> QED
    BY <2>1, <2>2, <2>3 DEF IdInv, CommitInv
<1>8. CASE LoadUpdate
  <2>1. /\ UNCHANGED <<log, lastID, wlast, feedVars, writerVars, replVars>> /\ xpc' = "idle"
        /\ commitID' = xid /\ commitLog' \in {xid, commitLog}
    BY <1>8 DEF LoadUpdate, ExclReturn, UpdateCommitID
  <2>2. lastID = 0 /\ commitID = 0 /\ rpc \notin {"apply", "update"}
        /\ \A w \in Writers : wpc[w] = "idle"
    BY <1>8 DEF LockInv, IdInv, LoadUpdate
  <2>3. IdInv'
    BY <1>0, <2>1, <2>2 DEF IdInv
  <2> QED
    BY <2>1, <2>2, <2>3 DEF CommitInv
<1>9. CASE LoadFails
  BY <1>9 DEF IdInv, CommitInv, LoadFails, ExclReturn, Whole
<1>10. CASE DumpSnapshot
  BY <1>10 DEF IdInv, CommitInv, DumpSnapshot, ExclReturn, Whole
<1> QED
  BY <1>1, <1>2, <1>3, <1>4, <1>5, <1>6, <1>7, <1>8, <1>9, <1>10 DEF Exclusive

\* What a purge of the file store leaves: the newest log, and every log whose
\* id is not covered by the commit id on disk.
LEMMA PurgeEffect ==
    ASSUME StoreName = "file", TypeOK, IdInv, PurgeExpired
    PROVE  /\ DOMAIN log' \subseteq DOMAIN log
           /\ \A i \in DOMAIN log' : log'[i] = log[i]
           /\ \A i \in DOMAIN log : i \in DOMAIN log' \/ i <= commitLog
           /\ \A i \in DOMAIN log', j \in DOMAIN log : i <= j => j \in DOMAIN log'
           /\ lastID' = lastID /\ lastID \in DOMAIN log'
<1>1. PICK p \in 1..lastID + 1 :
           /\ p <= commitLog + 1 /\ p <= lastID
           /\ log' = [i \in {j \in DOMAIN log : j >= p} |-> log[i]]
           /\ lastID' = IF p > lastID THEN 0 ELSE lastID
  BY DEF PurgeExpired
<1>2. commitLog \in Nat /\ lastID \in Nat /\ DOMAIN log \subseteq Nat
  BY IdNats
<1>3. lastID' = lastID /\ lastID \in DOMAIN log
  BY <1>1, <1>2 DEF IdInv
<1>4. DOMAIN log' = {j \in DOMAIN log : j >= p} /\ \A i \in DOMAIN log' : log'[i] = log[i]
  BY <1>1
<1> QED
  BY <1>1, <1>2, <1>3, <1>4

\* The ticks, a clean restart and a crash keep the ids.
LEMMA RestartIds ==
    ASSUME StoreName = "file", TypeOK, LockInv, IdInv, CommitInv,
           SyncCommitID \/ PurgeExpired \/ Close \/ Crash
    PROVE  IdInv' /\ CommitInv'
<1>0. commitID \in Nat /\ commitLog \in Nat /\ lastID \in Nat /\ DOMAIN log \subseteq Nat
  BY IdNats
<1>1. CASE SyncCommitID
  <2>1. /\ UNCHANGED <<log, lastID, wlast, commitID, db, writerVars, replVars, feedVars, exclVars,
                       auxVars>>
        /\ commitLog' = commitID
    BY <1>1 DEF SyncCommitID
  <2>2. IdInv'
    BY <1>0, <2>1 DEF IdInv, Whole
  <2> QED
    BY <2>1, <2>2, SameCommit
<1>2. CASE PurgeExpired
  <2>1. UNCHANGED <<wlast, commitID, commitLog, db, writerVars, replVars, feedVars, exclVars, history>>
    BY <1>2 DEF PurgeExpired
  <2>4. DOMAIN log' \subseteq DOMAIN log /\ lastID' = lastID /\ lastID \in DOMAIN log'
    BY <1>2, PurgeEffect
  <2>2. IdInv'
    BY <2>1, <2>4 DEF IdInv, Whole
  <2>3. CommitInv'
    <3>1. /\ \A i \in DOMAIN log' : log'[i] = log[i]
          /\ \A i \in DOMAIN log : i \in DOMAIN log' \/ i <= commitLog
      BY <1>2, PurgeEffect
    <3>2. commitID + 1 \in DOMAIN log =>
             commitID + 1 \in DOMAIN log' /\ log'[commitID + 1] = log[commitID + 1]
      BY <1>0, <3>1 DEF IdInv
    <3> QED
      BY <2>1, <3>2 DEF CommitInv
  <2> QED
    BY <2>2, <2>3
<1>3. CASE Close \/ Crash
  <2>1. /\ wlast' = 0 /\ fpc' = "idle" /\ xpc' = "idle" /\ rpc' = "idle"
        /\ wpc' = [w \in Writers |-> "idle"]
    BY <1>3 DEF Close, Crash, Reopen
  <2>2. CommitInv'
    BY <2>1 DEF CommitInv
  <2>3. commitID' = commitLog' /\ commitID' <= commitID /\ commitID' \in Nat
    <3>1. \/ commitLog' = commitID /\ commitID' = commitID
          \/ commitID' = commitLog /\ commitLog' = commitLog
      BY <1>3 DEF Close, Crash
    <3>2. commitLog <= commitID
      BY DEF IdInv
    <3> QED
      BY <1>0, <3>1, <3>2
  <2>4. \/ UNCHANGED <<log, lastID>> /\ (Whole' => Whole)
        \/ DOMAIN log' = {} /\ lastID' = 0
    BY <1>3 DEF Close, Crash, ClearLog, Whole
  <2>5. IdInv'
    <3>1. CASE UNCHANGED <<log, lastID>> /\ (Whole' => Whole)
      BY <1>0, <2>1, <2>3, <3>1 DEF IdInv
    <3>2. CASE DOMAIN log' = {} /\ lastID' = 0
      BY <1>0, <2>1, <2>3, <3>2 DEF IdInv
    <3> QED
      BY <2>4, <3>1, <3>2
  <2> QED
    BY <2>2, <2>5
<1> QED
  BY <1>1, <1>2, <1>3
=============================================================================
