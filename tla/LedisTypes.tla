----------------------------- MODULE LedisTypes -----------------------------
(***************************************************************************)
(* Type correctness of Ledis, for every set of writers, keys, batches and  *)
(* snapshots, every sync mode, log store and bound.                        *)
(***************************************************************************)
EXTENDS Ledis, TLAPS

USE DEF chanVars, lockVars, rplVars, writerVars, replVars, feedVars, exclVars,
        dumpVars, auxVars

\* Replaying a batch on a data set gives a data set.
LEMMA ReplayType ==
    ASSUME NEW d \in DBs, NEW b \in BatchType
    PROVE  Replay(d, b) \in DBs
BY DEF DBs, BatchType, Replay

\* The values that stand for "nothing" have the types of what they replace.
LEMMA IdleTypes ==
    /\ NoBatch \in BatchType
    /\ Empty \in DBs
BY DEF NoBatch, Empty, BatchType, DBs

\* Every batch that a command commits is a batch.
LEMMA BatchesType == Batches \subseteq BatchType
BY BatchesAssumption DEF BatchType

\* Initially every variable has its type.
LEMMA InitType == Init => TypeOK
<1> SUFFICES ASSUME Init PROVE TypeOK
  OBVIOUS
<1> USE IdleTypes, BoundsAssumption
<1>1. RplType
  BY DEF Init, RplType
<1>2. NodeType
  BY DEF Init, NodeType
<1>3. WriterType
  BY DEF Init, WriterType
<1>4. ThreadType
  BY DEF Init, ThreadType
<1>5. AuxType
  BY DEF Init, AuxType
<1> QED
  BY <1>1, <1>2, <1>3, <1>4, <1>5 DEF TypeOK

\* Variables that do not change keep their types.
LEMMA SameRpl == RplType /\ UNCHANGED rplVars => RplType'
BY DEF RplType
\* Steps that leave the node's state alone keep its type.
LEMMA SameNode ==
    NodeType /\ UNCHANGED <<db, mode, tries, role, chanVars, lockVars, faults, crashes>> => NodeType'
BY DEF NodeType
\* Steps that leave the writers alone keep their type.
LEMMA SameWriters == WriterType /\ UNCHANGED writerVars => WriterType'
BY DEF WriterType
\* Steps that leave the other threads alone keep their type.
LEMMA SameThreads == ThreadType /\ UNCHANGED <<replVars, feedVars, exclVars>> => ThreadType'
BY DEF ThreadType
\* Steps that leave the recorded history alone keep its type.
LEMMA SameAux == AuxType /\ UNCHANGED auxVars => AuxType'
BY DEF AuxType

\* An I/O error, or none, keeps the type of the counter.
LEMMA FaultType ==
    ASSUME NodeType, faults' = faults \/ (faults < MaxFaults /\ faults' = faults + 1)
    PROVE  faults' \in 0..MaxFaults
BY BoundsAssumption DEF NodeType

\* The steps of Open keep the types.
LEMMA OpeningType == TypeOK /\ Opening => TypeOK'
<1> SUFFICES ASSUME TypeOK, Opening PROVE TypeOK'
  OBVIOUS
<1>1. UNCHANGED <<rplVars, writerVars, replVars, feedVars, exclVars, auxVars>>
  BY DEF Opening, WaitNotice, WaitDone, WaitCheck
<1>2. UNCHANGED <<db, role, lockVars, faults, crashes>>
  BY DEF Opening, WaitNotice, WaitDone, WaitCheck
<1>3. /\ mode' \in {"notice", "wait", "check", "up"} /\ tries' \in 0..MaxTries
      /\ rc' \in 0..1 /\ rDoneCh' \in 0..1
  BY BoundsAssumption DEF TypeOK, NodeType, Opening, WaitNotice, WaitDone, WaitCheck
<1>4. NodeType'
  BY <1>2, <1>3 DEF TypeOK, NodeType
<1> QED
  BY <1>1, <1>4, SameRpl, SameWriters, SameThreads, SameAux DEF TypeOK

\* Storing a log keeps the types of the log store and of the history.
LEMMA StoreLogType ==
    ASSUME RplType, AuxType, NEW id \in 1..MaxLog, NEW b \in BatchType, StoreLog(id, b),
           UNCHANGED <<commitID, commitLog>>
    PROVE  RplType' /\ want' \in [0..MaxLog -> DBs]
<1>1. want \in [0..MaxLog -> DBs] /\ DOMAIN log \subseteq 1..MaxLog
      /\ \A i \in DOMAIN log : log[i] \in BatchType
  BY DEF RplType, AuxType
<1>2. want[id - 1] \in DBs
  BY <1>1, BoundsAssumption
<1>3. Replay(want[id - 1], b) \in DBs
  BY <1>2, ReplayType
<1>4. want' \in [0..MaxLog -> DBs]
  <2>1. want' = [want EXCEPT ![id] = Replay(want[id - 1], b)]
    BY DEF StoreLog
  <2> QED
    BY <1>1, <1>3, <2>1
<1>5. DOMAIN log' \subseteq 1..MaxLog /\ \A i \in DOMAIN log' : log'[i] \in BatchType
  BY <1>1 DEF StoreLog
<1>6. lastID' \in 0..MaxLog /\ wlast' \in 0..MaxLog
  BY BoundsAssumption DEF StoreLog
<1> QED
  BY <1>4, <1>5, <1>6 DEF RplType

\* When a writer returns, the writers keep their types.
LEMMA ReturnType ==
    ASSUME WriterType, NEW w \in Writers, Return(w)
    PROVE  WriterType'
<1>1. wpc' \in [Writers -> {"idle", "locked", "commit", "logged", "committed", "notice"}]
  BY DEF WriterType, Return
<1>2. wbatch' \in [Writers -> BatchType]
  BY IdleTypes DEF WriterType, Return
<1>3. wid' \in [Writers -> 0..MaxLog]
  BY BoundsAssumption DEF WriterType, Return
<1>4. \A v \in Writers : wpc'[v] \in {"logged", "committed"} => wid'[v] >= 1
  BY DEF WriterType, Return
<1> QED
  BY <1>1, <1>2, <1>3, <1>4 DEF WriterType

\* The steps of a write command keep the types.
LEMMA WriteType ==
    ASSUME TypeOK, NEW w \in Writers, Lock(w) \/ Write(w)
    PROVE  TypeOK'
<1>0. RplType /\ NodeType /\ WriterType /\ ThreadType /\ AuxType
  BY DEF TypeOK
<1>1. ThreadType'
  <2>1. UNCHANGED <<replVars, feedVars, exclVars>>
    BY DEF Lock, Write, Unlock, Commit, Log, LogFails, StoreCommit, CommitDone, Notice
  <2> QED
    BY <1>0, <2>1, SameThreads
<1>2. WriterType'
  <2>1. CASE Return(w)
    BY <1>0, <2>1, ReturnType
  <2>2. CASE Lock(w) \/ StoreCommit(w)
    BY <1>0, <2>2 DEF WriterType, Lock, StoreCommit
  <2>3. CASE Commit(w) /\ ~Return(w)
    <3>1. PICK b \in Batches : wbatch' = [wbatch EXCEPT ![w] = b]
      BY <2>3 DEF Commit
    <3>2. wpc' = [wpc EXCEPT ![w] = "commit"] /\ UNCHANGED wid
      BY <2>3 DEF Commit
    <3> QED
      BY <1>0, <3>1, <3>2, BatchesType DEF WriterType
  <2>4. CASE Log(w)
    <3>1. NextID \in 1..MaxLog
      BY <1>0, <2>4, BoundsAssumption DEF RplType, Log, NextID, MaxID
    <3>2. /\ wpc' = [wpc EXCEPT ![w] = "logged"] /\ wid' = [wid EXCEPT ![w] = NextID]
          /\ UNCHANGED wbatch
      BY <2>4 DEF Log
    <3> HIDE DEF NextID
    <3>3. wid' \in [Writers -> 0..MaxLog]
      BY <1>0, <3>1, <3>2 DEF WriterType
    <3>4. wpc' \in [Writers -> {"idle", "locked", "commit", "logged", "committed", "notice"}]
      BY <1>0, <3>2 DEF WriterType
    <3>5. \A v \in Writers : wpc'[v] \in {"logged", "committed"} => wid'[v] >= 1
      BY <1>0, <3>1, <3>2 DEF WriterType
    <3> QED
      BY <1>0, <3>2, <3>3, <3>4, <3>5 DEF WriterType
  <2>5. CASE CommitDone(w) /\ ~Return(w)
    <3>1. wpc' = [wpc EXCEPT ![w] = "notice"] /\ UNCHANGED <<wbatch, wid>>
      BY <2>5 DEF CommitDone
    <3> QED
      BY <1>0, <3>1 DEF WriterType
  <2> QED
    BY <2>1, <2>2, <2>3, <2>4, <2>5 DEF Write, Unlock, LogFails, Notice
<1>3. NodeType'
  <2>1. UNCHANGED <<mode, tries, role, rDoneCh, wLock, crashes>> /\ (UNCHANGED rc \/ rc' = 1)
    BY DEF Lock, Write, Unlock, Commit, Log, LogFails, StoreCommit, CommitDone, Notice
  <2>2. db' \in DBs
    <3>1. db \in DBs /\ wbatch[w] \in BatchType
      BY <1>0 DEF NodeType, WriterType
    <3> QED
      BY <3>1, ReplayType DEF Lock, Write, Unlock, Commit, Log, LogFails, StoreCommit, CommitDone,
                              Notice
  <2>3. faults' = faults \/ (faults < MaxFaults /\ faults' = faults + 1)
    BY DEF Lock, Write, Unlock, Commit, Log, LogFails, StoreCommit, CommitDone, Notice, NoFault,
           Fault, UpdateCommitIDFails
  <2>4. commitLock' \in {commitLock, w, "none"}
    BY DEF Lock, Write, Unlock, Commit, Log, LogFails, StoreCommit, CommitDone, Notice
  <2> QED
    BY <1>0, <2>1, <2>2, <2>3, <2>4, FaultType DEF NodeType
<1>4. RplType' /\ AuxType'
  <2>1. CASE Log(w)
    <3>1. NextID \in 1..MaxLog
      BY <1>0, <2>1, BoundsAssumption DEF RplType, Log, NextID, MaxID
    <3>2. /\ wbatch[w] \in BatchType /\ StoreLog(NextID, wbatch[w])
          /\ UNCHANGED <<commitID, commitLog, base, history, acked, dumpVars>>
      BY <1>0, <2>1 DEF WriterType, Log
    <3>3. RplType' /\ want' \in [0..MaxLog -> DBs]
      BY <1>0, <3>1, <3>2, StoreLogType
    <3> QED
      BY <1>0, <3>2, <3>3 DEF AuxType
  <2>2. CASE CommitDone(w)
    <3>1. wid[w] \in 1..MaxLog
      BY <1>0, <2>2, BoundsAssumption DEF WriterType, CommitDone
    <3>2. \/ UpdateCommitID(wid[w]) /\ acked' = acked \cup {wid[w]}
          \/ UNCHANGED <<commitID, commitLog, acked>>
      BY <2>2 DEF CommitDone
    <3>3. UNCHANGED <<log, lastID, wlast, want, base, history, dumpVars>>
      BY <2>2 DEF CommitDone
    <3>4. commitID' \in 0..MaxLog /\ commitLog' \in 0..MaxLog
      BY <1>0, <3>1, <3>2 DEF RplType, UpdateCommitID
    <3>5. acked' \subseteq 1..MaxLog
      BY <1>0, <3>1, <3>2 DEF AuxType
    <3>6. RplType'
      BY <1>0, <3>3, <3>4 DEF RplType
    <3>7. AuxType'
      BY <1>0, <3>3, <3>5 DEF AuxType
    <3> QED
      BY <3>6, <3>7
  <2>3. CASE ~Log(w) /\ ~CommitDone(w)
    <3>1. UNCHANGED <<rplVars, auxVars>>
      BY <2>3 DEF Lock, Write, Unlock, Commit, LogFails, StoreCommit, Notice
    <3> QED
      BY <1>0, <3>1, SameRpl, SameAux
  <2> QED
    BY <2>1, <2>2, <2>3
<1> QED
  BY <1>1, <1>2, <1>3, <1>4 DEF TypeOK

\* The steps of the replication thread keep the types.
LEMMA ReplicationType == TypeOK /\ Replication => TypeOK'
<1> SUFFICES ASSUME TypeOK, Replication PROVE TypeOK'
  OBVIOUS
<1>0. RplType /\ NodeType /\ WriterType /\ ThreadType /\ AuxType
  BY DEF TypeOK
<1>1. WriterType' /\ AuxType'
  <2>1. UNCHANGED <<writerVars, auxVars>>
    BY DEF Replication, ReplWake, ReplLock, ReplNext, ReplStop, ReplCommit, ReplUpdate
  <2> QED
    BY <1>0, <2>1, SameWriters, SameAux
<1>2. RplType'
  <2>1. UNCHANGED <<log, lastID, wlast>>
    BY DEF Replication, ReplWake, ReplLock, ReplNext, ReplStop, ReplCommit, ReplUpdate
  <2>2. UNCHANGED <<commitID, commitLog>> \/ UpdateCommitID(rid)
    BY DEF Replication, ReplWake, ReplLock, ReplNext, ReplStop, ReplCommit, ReplUpdate
  <2>3. commitID' \in 0..MaxLog /\ commitLog' \in 0..MaxLog
    BY <1>0, <2>2 DEF RplType, ThreadType, UpdateCommitID
  <2> QED
    BY <1>0, <2>1, <2>3 DEF RplType
<1>3. ThreadType'
  <2>1. UNCHANGED <<feedVars, exclVars>>
    BY DEF Replication, ReplWake, ReplLock, ReplNext, ReplStop, ReplCommit, ReplUpdate
  <2>2. rpc' \in {"idle", "lock", "next", "apply", "update"}
    BY <1>0 DEF ThreadType, Replication, ReplWake, ReplLock, ReplNext, ReplStop, ReplCommit,
                ReplUpdate, ReplReturn
  <2>3. rbatch' \in BatchType
    BY <1>0, IdleTypes DEF RplType, ThreadType, Replication, ReplWake, ReplLock, ReplNext,
                           ReplStop, ReplCommit, ReplUpdate, ReplReturn
  <2>4. rid' \in 0..MaxLog
    <3>1. rid' = rid \/ rid' = 0 \/ rid' \in DOMAIN log
      BY DEF Replication, ReplWake, ReplLock, ReplNext, ReplStop, ReplCommit, ReplUpdate,
             ReplReturn
    <3> QED
      BY <1>0, <3>1, BoundsAssumption DEF RplType, ThreadType
  <2> QED
    BY <1>0, <2>1, <2>2, <2>3, <2>4 DEF ThreadType
<1>4. NodeType'
  <2>1. UNCHANGED <<mode, tries, role, crashes>>
    BY DEF Replication, ReplWake, ReplLock, ReplNext, ReplStop, ReplCommit, ReplUpdate
  <2>2. /\ rc' \in {rc, 0} /\ rDoneCh' \in {rDoneCh, 1} /\ wLock' \in {wLock, "repl", "none"}
        /\ commitLock' \in {commitLock, "repl", "none"}
    BY DEF Replication, ReplWake, ReplLock, ReplNext, ReplStop, ReplCommit, ReplUpdate,
           ReplReturn
  <2>3. db' \in DBs
    <3>1. db \in DBs /\ rbatch \in BatchType
      BY <1>0 DEF NodeType, ThreadType
    <3> QED
      BY <3>1, ReplayType DEF Replication, ReplWake, ReplLock, ReplNext, ReplStop, ReplCommit,
                              ReplUpdate
  <2>4. faults' = faults \/ (faults < MaxFaults /\ faults' = faults + 1)
    BY DEF Replication, ReplWake, ReplLock, ReplNext, ReplStop, ReplCommit, ReplUpdate, NoFault,
           Fault, UpdateCommitIDFails
  <2> QED
    BY <1>0, <2>1, <2>2, <2>3, <2>4, FaultType DEF NodeType
<1> QED
  BY <1>1, <1>2, <1>3, <1>4 DEF TypeOK

\* SLAVEOF and the steps of the slave's goroutine keep the types.
LEMMA SlaveType == TypeOK /\ (SlaveOf \/ SlaveOfNoOne \/ FeedSync \/ Feeder) => TypeOK'
<1> SUFFICES ASSUME TypeOK, SlaveOf \/ SlaveOfNoOne \/ FeedSync \/ Feeder PROVE TypeOK'
  OBVIOUS
<1>0. RplType /\ NodeType /\ WriterType /\ ThreadType /\ AuxType
  BY DEF TypeOK
<1> USE DEF Feeder
<1>1. WriterType'
  <2>1. UNCHANGED writerVars
    BY DEF SlaveOf, SlaveOfNoOne, FeedSync, FeedStore, FeedFails, FeedDone
  <2> QED
    BY <1>0, <2>1, SameWriters
<1>2. NodeType'
  <2>1. UNCHANGED <<db, mode, tries, rDoneCh, lockVars, crashes>> /\ (UNCHANGED rc \/ rc' = 1)
    BY DEF SlaveOf, SlaveOfNoOne, FeedSync, FeedStore, FeedFails, FeedDone
  <2>2. role' \in {role, "slave", "master", "readonly"}
    BY DEF SlaveOf, SlaveOfNoOne, FeedSync, FeedStore, FeedFails, FeedDone
  <2>3. faults' = faults \/ (faults < MaxFaults /\ faults' = faults + 1)
    BY DEF SlaveOf, SlaveOfNoOne, FeedSync, FeedStore, FeedFails, FeedDone, NoFault, Fault
  <2> QED
    BY <1>0, <2>1, <2>2, <2>3, FaultType DEF NodeType
<1>3. ThreadType'
  <2>1. UNCHANGED <<replVars, exclVars>>
    BY DEF SlaveOf, SlaveOfNoOne, FeedSync, FeedStore, FeedFails, FeedDone
  <2>2. /\ fpc' \in {"idle", "recv", "stored"} /\ fnext' \in 0..MaxLog + 1
        /\ fpc' # "idle" => fnext' >= 1
    <3>1. \/ UNCHANGED feedVars
          \/ fpc' = "idle" /\ fnext' = 0
          \/ fpc' = "recv" /\ fnext' = NextID /\ NextID <= MaxLog
          \/ fpc' = "stored" /\ fnext' = fnext + 1 /\ fnext <= MaxLog
      BY DEF SlaveOf, SlaveOfNoOne, FeedSync, FeedStore, FeedFails, FeedDone
    <3>2. NextID \in Int /\ NextID >= 1
      BY <1>0, BoundsAssumption DEF RplType, NextID, MaxID
    <3> QED
      BY <1>0, <3>1, <3>2, BoundsAssumption DEF ThreadType
  <2> QED
    BY <1>0, <2>1, <2>2 DEF ThreadType
<1>4. RplType' /\ AuxType'
  <2>1. CASE FeedStore
    <3>1. fnext \in 1..MaxLog
      BY <1>0, <2>1, BoundsAssumption DEF ThreadType, FeedStore
    <3>2. PICK b \in Batches : StoreLog(fnext, b)
      BY <2>1 DEF FeedStore
    <3>3. /\ UNCHANGED <<commitID, commitLog, base, acked, dumpVars>>
          /\ history' \in {history, "torn"}
      BY <2>1 DEF FeedStore
    <3>4. RplType' /\ want' \in [0..MaxLog -> DBs]
      BY <1>0, <3>1, <3>2, <3>3, BatchesType, StoreLogType
    <3> QED
      BY <1>0, <3>3, <3>4 DEF AuxType
  <2>2. CASE ~FeedStore
    <3>1. UNCHANGED <<rplVars, auxVars>>
      BY <2>2 DEF SlaveOf, SlaveOfNoOne, FeedSync, FeedFails, FeedDone
    <3> QED
      BY <1>0, <3>1, SameRpl, SameAux
  <2> QED
    BY <2>1, <2>2
<1> QED
  BY <1>1, <1>2, <1>3, <1>4 DEF TypeOK

\* Clearing the logs keeps the types.
LEMMA ClearLogType ==
    ASSUME ClearLog
    PROVE  /\ DOMAIN log' = {} /\ lastID' = 0 /\ wlast' = 0
           /\ history' \in {"whole", "torn"} => AuxType'
BY IdleTypes, BoundsAssumption DEF ClearLog, AuxType

\* The steps of FlushAll, LoadDump and Dump keep the types.
LEMMA ExclusiveType == TypeOK /\ (FlushAll \/ LoadDump \/ DumpHead \/ Exclusive) => TypeOK'
<1> SUFFICES ASSUME TypeOK, FlushAll \/ LoadDump \/ DumpHead \/ Exclusive PROVE TypeOK'
  OBVIOUS
<1>0. RplType /\ NodeType /\ WriterType /\ ThreadType /\ AuxType
  BY DEF TypeOK
<1> USE DEF Exclusive
<1>1. WriterType'
  <2>1. UNCHANGED writerVars
    BY DEF FlushAll, LoadDump, DumpHead, FlushDelete, FlushClear, FlushFails, LoadKeys,
           LoadUpdate, LoadFails, DumpSnapshot
  <2> QED
    BY <1>0, <2>1, SameWriters
<1>2. ThreadType'
  <2>1. UNCHANGED <<replVars, feedVars>>
    BY DEF FlushAll, LoadDump, DumpHead, FlushDelete, FlushClear, FlushFails, LoadKeys,
           LoadUpdate, LoadFails, DumpSnapshot
  <2>2. /\ xpc' \in {"idle", "delete", "clear", "load", "update", "snap"}
        /\ xop' \in {"none", "flush", "load", "dump"}
    BY <1>0 DEF ThreadType, FlushAll, LoadDump, DumpHead, FlushDelete, FlushClear, FlushFails,
                LoadKeys, LoadUpdate, LoadFails, DumpSnapshot, ExclReturn
  <2>3. xid' \in 0..MaxLog
    <3>1. xid' = xid \/ xid' = 0 \/ xid' = commitID \/ xid' \in 0..MaxLog
      BY DEF FlushAll, LoadDump, DumpHead, FlushDelete, FlushClear, FlushFails, LoadKeys,
             LoadUpdate, LoadFails, DumpSnapshot, ExclReturn
    <3> QED
      BY <1>0, <3>1, BoundsAssumption DEF RplType, ThreadType
  <2>4. xdb' \in DBs
    BY <1>0, IdleTypes, SnapshotsAssumption
       DEF ThreadType, FlushAll, LoadDump, DumpHead, FlushDelete, FlushClear, FlushFails,
           LoadKeys, LoadUpdate, LoadFails, DumpSnapshot, ExclReturn
  <2> QED
    BY <1>0, <2>1, <2>2, <2>3, <2>4 DEF ThreadType
<1>3. NodeType'
  <2>1. UNCHANGED <<mode, tries, role, chanVars, commitLock, crashes>>
    BY DEF FlushAll, LoadDump, DumpHead, FlushDelete, FlushClear, FlushFails, LoadKeys,
           LoadUpdate, LoadFails, DumpSnapshot
  <2>2. wLock' \in {wLock, "excl", "none"}
    BY DEF FlushAll, LoadDump, DumpHead, FlushDelete, FlushClear, FlushFails, LoadKeys,
           LoadUpdate, LoadFails, DumpSnapshot, ExclStart, ExclReturn
  <2>3. db' \in DBs
    <3>1. db \in DBs /\ xdb \in DBs
      BY <1>0 DEF NodeType, ThreadType
    <3>2. CASE FlushDelete
      BY <3>1, <3>2 DEF FlushDelete, DBs
    <3>3. CASE LoadKeys
      BY <3>1, <3>3 DEF LoadKeys, DBs
    <3>4. CASE ~FlushDelete /\ ~LoadKeys
      BY <3>1, <3>4 DEF FlushAll, LoadDump, DumpHead, FlushClear, FlushFails, LoadUpdate,
                        LoadFails, DumpSnapshot
    <3> QED
      BY <3>2, <3>3, <3>4
  <2>4. faults' = faults \/ (faults < MaxFaults /\ faults' = faults + 1)
    BY DEF FlushAll, LoadDump, DumpHead, FlushDelete, FlushClear, FlushFails, LoadKeys,
           LoadUpdate, LoadFails, DumpSnapshot, NoFault, Fault,
           UpdateCommitIDFails
  <2> QED
    BY <1>0, <2>1, <2>2, <2>3, <2>4, FaultType DEF NodeType
<1>4. RplType' /\ AuxType'
  <2>1. CASE FlushClear
    <3>1. ClearLog /\ commitID' = 0 /\ commitLog' = 0 /\ history' = "whole"
      BY <2>1 DEF FlushClear
    <3>2. DOMAIN log' = {} /\ lastID' = 0 /\ wlast' = 0 /\ AuxType'
      BY <3>1, ClearLogType
    <3> QED
      BY <3>1, <3>2, BoundsAssumption DEF RplType
  <2>2. CASE FlushFails
    <3>1. UNCHANGED <<commitID, commitLog>>
      BY <2>2 DEF FlushFails
    <3>2. CASE UNCHANGED <<log, lastID, wlast, auxVars>>
      BY <1>0, <3>1, <3>2, SameRpl, SameAux
    <3>3. CASE ClearLog /\ history' = "torn"
      BY <1>0, <3>1, <3>3, ClearLogType, BoundsAssumption DEF RplType
    <3> QED
      BY <2>2, <3>2, <3>3 DEF FlushFails
  <2>3. CASE LoadUpdate
    <3>1. /\ UpdateCommitID(xid) /\ base' = xid /\ want' = [want EXCEPT ![xid] = xdb]
          /\ history' = "whole" /\ UNCHANGED <<log, lastID, wlast, acked, dumpVars>>
      BY <2>3 DEF LoadUpdate
    <3>2. xid \in 0..MaxLog /\ xdb \in DBs
      BY <1>0 DEF ThreadType
    <3>3. commitID' \in 0..MaxLog /\ commitLog' \in 0..MaxLog
      BY <1>0, <3>1, <3>2 DEF RplType, UpdateCommitID
    <3>4. RplType'
      BY <1>0, <3>1, <3>3 DEF RplType
    <3>5. AuxType'
      BY <1>0, <3>1, <3>2 DEF AuxType
    <3> QED
      BY <3>4, <3>5
  <2>4. CASE FlushDelete \/ LoadKeys \/ DumpSnapshot
    <3>1. UNCHANGED rplVars /\ UNCHANGED <<want, base, acked>> /\ history' \in {history, "torn"}
      BY <2>4 DEF FlushDelete, LoadKeys, DumpSnapshot
    <3>2. dstate' \in {dstate, "taken"} /\ did' \in {did, xid} /\ ddb' \in {ddb, db}
      BY <2>4 DEF FlushDelete, LoadKeys, DumpSnapshot
    <3>3. AuxType'
      BY <1>0, <3>1, <3>2 DEF AuxType, ThreadType, NodeType
    <3> QED
      BY <1>0, <3>1, <3>3, SameRpl
  <2>5. CASE FlushAll \/ LoadDump \/ DumpHead \/ LoadFails
    <3>1. UNCHANGED <<rplVars, auxVars>>
      BY <2>5 DEF FlushAll, LoadDump, DumpHead, LoadFails
    <3> QED
      BY <1>0, <3>1, SameRpl, SameAux
  <2> QED
    BY <2>1, <2>2, <2>3, <2>4, <2>5
<1> QED
  BY <1>1, <1>2, <1>3, <1>4 DEF TypeOK

\* A new process starts with the types right.
LEMMA ReopenType ==
    ASSUME TypeOK, Reopen, crashes' \in 0..MaxCrashes
    PROVE  NodeType' /\ WriterType' /\ ThreadType' /\ wlast' = 0
<1> USE IdleTypes, BoundsAssumption
<1>1. NodeType'
  BY DEF TypeOK, NodeType, Reopen
<1>2. WriterType'
  BY DEF WriterType, Reopen
<1>3. ThreadType'
  BY DEF ThreadType, Reopen
<1> QED
  BY <1>1, <1>2, <1>3 DEF Reopen

\* The ticks, a clean restart and a crash keep the types.
LEMMA RestartType == TypeOK /\ (SyncCommitID \/ PurgeExpired \/ Close \/ Crash) => TypeOK'
<1> SUFFICES ASSUME TypeOK, SyncCommitID \/ PurgeExpired \/ Close \/ Crash PROVE TypeOK'
  OBVIOUS
<1>0. RplType /\ NodeType /\ WriterType /\ ThreadType /\ AuxType
  BY DEF TypeOK
<1>1. CASE SyncCommitID \/ PurgeExpired
  <2>1. UNCHANGED <<db, mode, tries, role, chanVars, lockVars, faults, crashes>>
    BY <1>1 DEF SyncCommitID, PurgeExpired
  <2>2. UNCHANGED <<writerVars, replVars, feedVars, exclVars, auxVars>>
    BY <1>1 DEF SyncCommitID, PurgeExpired
  <2>3. RplType'
    <3>1. CASE SyncCommitID
      BY <1>0, <3>1 DEF RplType, SyncCommitID
    <3>2. CASE PurgeExpired
      <4>1. PICK p \in 1..lastID + 1 :
               /\ log' = [i \in {j \in DOMAIN log : j >= p} |-> log[i]]
               /\ lastID' = IF p > lastID THEN 0 ELSE lastID
        BY <3>2 DEF PurgeExpired
      <4>2. DOMAIN log' \subseteq 1..MaxLog /\ \A i \in DOMAIN log' : log'[i] \in BatchType
        BY <1>0, <4>1 DEF RplType
      <4>3. lastID' \in 0..MaxLog
        BY <1>0, <4>1, BoundsAssumption DEF RplType
      <4>4. UNCHANGED <<wlast, commitID, commitLog>>
        BY <3>2 DEF PurgeExpired
      <4> QED
        BY <1>0, <4>2, <4>3, <4>4 DEF RplType
    <3> QED
      BY <1>1, <3>1, <3>2
  <2> QED
    BY <1>0, <2>1, <2>2, <2>3, SameNode, SameWriters, SameThreads, SameAux DEF TypeOK
<1>2. CASE Close
  <2>1. Reopen /\ commitLog' = commitID /\ UNCHANGED <<log, lastID, commitID, crashes, auxVars>>
    BY <1>2 DEF Close
  <2>2. NodeType' /\ WriterType' /\ ThreadType' /\ wlast' = 0
    BY <1>0, <2>1, ReopenType DEF NodeType
  <2>3. RplType'
    BY <1>0, <2>1, <2>2, BoundsAssumption DEF RplType
  <2> QED
    BY <1>0, <2>1, <2>2, <2>3, SameAux DEF TypeOK
<1>3. CASE Crash
  <2>1. Reopen /\ commitID' = commitLog /\ UNCHANGED commitLog
    BY <1>3 DEF Crash
  <2>2. crashes' \in 0..MaxCrashes
    BY <1>0, <1>3, BoundsAssumption DEF NodeType, Crash
  <2>3. NodeType' /\ WriterType' /\ ThreadType' /\ wlast' = 0
    BY <2>1, <2>2, ReopenType
  <2>4. RplType' /\ AuxType'
    <3>1. CASE ClearLog /\ history' = "torn"
      BY <1>0, <2>1, <3>1, ClearLogType, BoundsAssumption DEF RplType
    <3>2. CASE /\ history' = IF commitLog < base THEN "torn" ELSE history
               /\ UNCHANGED <<log, lastID, want, base, acked, dumpVars>>
      <4>1. RplType'
        BY <1>0, <2>1, <2>3, <3>2, BoundsAssumption DEF RplType
      <4>2. AuxType'
        BY <1>0, <3>2 DEF AuxType
      <4> QED
        BY <4>1, <4>2
    <3> QED
      BY <1>3, <3>1, <3>2 DEF Crash
  <2> QED
    BY <2>3, <2>4 DEF TypeOK
<1> QED
  BY <1>1, <1>2, <1>3

\* Every step of the node keeps the types.
LEMMA NextType == TypeOK /\ [Next]_vars => TypeOK'
<1> SUFFICES ASSUME TypeOK, [Next]_vars PROVE TypeOK'
  OBVIOUS
<1>1. CASE UNCHANGED vars
  BY <1>1, SameRpl, SameNode, SameWriters, SameThreads, SameAux DEF TypeOK, vars
<1>2. CASE Next
  BY <1>2, WriteType, ReplicationType, OpeningType, SlaveType, ExclusiveType, RestartType
     DEF Next
<1> QED
  BY <1>1, <1>2

\* The ids are natural numbers.
LEMMA IdNats ==
    ASSUME TypeOK
    PROVE  /\ commitID \in Nat /\ commitLog \in Nat /\ lastID \in Nat /\ MaxLog \in Nat
           /\ DOMAIN log \subseteq Nat
BY BoundsAssumption DEF TypeOK, RplType

\* The variables of a node always have their types: log ids stay within the
\* bounds, and every log, batch and data set the node handles is a whole one.
THEOREM TypeCorrect == Spec => []TypeOK
<1>1. Init => TypeOK
  BY InitType
<1>2. TypeOK /\ [Next]_vars => TypeOK'
  BY NextType
<1> QED
  BY <1>1, <1>2, PTL DEF Spec
=============================================================================
