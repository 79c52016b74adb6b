-------------------------- MODULE LedisRefinement --------------------------
(***************************************************************************)
(* A node with the file store implements DurableStore: the data set that   *)
(* the logs record changes by whole batches, and the store shows it        *)
(* whenever no log waits to be committed.                                  *)
(***************************************************************************)
EXTENDS LedisSafety

USE DEF chanVars, lockVars, rplVars, writerVars, replVars, feedVars, exclVars,
        dumpVars, auxVars

\* What the refinement mapping puts for the variables of DurableStore.
State == IF Whole THEN {want[NextID - 1]} ELSE {}
View == IF Whole /\ ~Behind THEN {db} ELSE {}

\* The store shows the current data set or none.
LEMMA ViewIsState == IndInv /\ CommittedState => View = {} \/ View = State
<1> SUFFICES ASSUME IndInv, CommittedState, Whole, ~Behind PROVE db = want[NextID - 1]
  BY DEF View, State
<1>1. commitID \in Nat /\ lastID \in Nat /\ lastID <= commitID
  BY IdTypes DEF IndInv, Behind
<1>2. NextID - 1 = commitID
  BY <1>1 DEF NextID, MaxID
<1> QED
  BY <1>2 DEF CommittedState

\* A step that keeps the history and the id of the next log keeps the data set.
LEMMA SameState ==
    ASSUME Whole' => NextID' = NextID /\ want' = want, history' = history \/ ~Whole'
    PROVE  State' = State \/ State' = {}
BY DEF State, Whole

\* The id of the next log is the same after a crash, when nothing was cut off.
LEMMA CrashNextID ==
    ASSUME IndInv, Crash
    PROVE  Whole' => Whole /\ NextID' = NextID /\ want' = want
<1>0. /\ commitID \in Nat /\ commitLog \in Nat /\ lastID \in Nat /\ base \in Nat
      /\ commitLog <= commitID
  BY IdTypes DEF IndInv, IdInv
<1>1. commitID' = commitLog
  BY DEF Crash
<1>2. Whole' => Whole /\ base <= commitLog /\ UNCHANGED <<lastID, want>>
  BY <1>0 DEF Crash, Whole
<1>3. Whole => commitID <= lastID \/ (lastID = 0 /\ commitID = Oldest)
  BY DEF IndInv, IdInv, HistoryInv
<1> QED
  BY <1>0, <1>1, <1>2, <1>3 DEF NextID, MaxID, Oldest

\* Committing a log does not change the data set that the logs record.
LEMMA AdvanceNextID ==
    ASSUME IndInv, commitID' = commitID \/ (commitID' = commitID + 1 /\ commitID' \in DOMAIN log),
           UNCHANGED lastID
    PROVE  NextID' = NextID
<1>1. commitID \in Nat /\ lastID \in Nat /\ DOMAIN log \subseteq Nat
  BY IdTypes DEF IndInv
<1>2. commitID' = commitID \/ (commitID' = commitID + 1 /\ commitID' <= lastID)
  BY DEF IndInv, IdInv
<1> QED
  BY <1>1, <1>2 DEF NextID, MaxID

\* The log of a write command is one more batch of the data set.
LEMMA LogAccepts ==
    ASSUME IndInv, NEW w \in Writers, Log(w), Whole
    PROVE  \E d \in State, b \in Batches : State' = {Replay(d, b)} /\ View' = {}
<1>0. TypeOK /\ IdInv /\ wbatch[w] \in Batches
  BY DEF IndInv, InputInv, Log
<1>1. /\ NextID = commitID + 1 /\ NextID \in 1..MaxLog /\ lastID' = NextID
      /\ want'[NextID] = Replay(want[NextID - 1], wbatch[w])
  BY <1>0, LogEffect
<1>2. UNCHANGED <<commitID, history>>
  BY DEF Log
<1>3. commitID \in Nat
  BY <1>0, IdTypes
<1>4. Behind' /\ NextID' - 1 = NextID
  BY <1>1, <1>2, <1>3 DEF Behind, NextID, MaxID
<1> HIDE DEF NextID
<1>5. State = {want[NextID - 1]} /\ State' = {want'[NextID]} /\ View' = {}
  BY <1>2, <1>4 DEF State, View, Whole
<1> QED
  BY <1>0, <1>1, <1>5

\* So is a log of the master that follows the logs of this node.
LEMMA FeedAccepts ==
    ASSUME StoreName = "file", IndInv, FeedStore, Whole, fnext = NextID
    PROVE  \E d \in State, b \in Batches : State' = {Replay(d, b)} /\ View' = {}
<1>0. TypeOK /\ IdInv
  BY DEF IndInv
<1>1. PICK b \in Batches :
         /\ fnext \in 1..MaxLog /\ fnext > lastID /\ lastID' = fnext
         /\ want'[fnext] = Replay(want[fnext - 1], b)
  BY <1>0, FeedEffect
<1>2. UNCHANGED <<commitID, history>>
  BY DEF FeedStore
<1>3. commitID \in Nat /\ lastID \in Nat /\ MaxLog \in Nat
  BY <1>0, IdTypes
<1>4. Behind' /\ NextID' - 1 = NextID
  BY <1>1, <1>2, <1>3 DEF Behind, NextID, MaxID
<1> HIDE DEF NextID
<1>5. State = {want[NextID - 1]} /\ State' = {want'[NextID]} /\ View' = {}
  BY <1>2, <1>4 DEF State, View, Whole
<1> QED
  BY <1>1, <1>5

\* A complete flush leaves the empty data set, a complete load that of the dump.
LEMMA ClearRestores ==
    ASSUME IndInv, FlushClear
    PROVE  State' = {Empty} /\ View' = {Empty}
<1>1. /\ lastID' = 0 /\ commitID' = 0 /\ db' = Empty /\ Whole'
      /\ want' = [i \in 0..MaxLog |-> Empty]
  BY DEF IndInv, CommitInv, FlushClear, ClearLog, Whole
<1>2. NextID' - 1 = 0 /\ ~Behind' /\ want'[0] = Empty
  BY <1>1, BoundsAssumption DEF NextID, MaxID, Behind
<1> QED
  BY <1>1, <1>2 DEF State, View

\* The last step of LoadDump sets the data and what readers see to one of the dumps.
LEMMA LoadRestores ==
    ASSUME IndInv, LoadUpdate
    PROVE  \E d \in Snapshots : State' = {d} /\ View' = {d}
<1>1. /\ lastID' = 0 /\ commitID' = xid /\ db' = xdb /\ Whole'
      /\ want' = [want EXCEPT ![xid] = xdb]
  BY DEF IndInv, IdInv, CommitInv, LoadUpdate, UpdateCommitID, Whole
<1>2. xid \in 0..MaxLog /\ want \in [0..MaxLog -> DBs] /\ MaxLog \in Nat
  BY BoundsAssumption DEF IndInv, TypeOK, ThreadType, AuxType
<1>3. NextID' - 1 = xid /\ ~Behind' /\ want'[xid] = xdb
  BY <1>1, <1>2 DEF NextID, MaxID, Behind
<1>4. xdb \in Snapshots
  BY DEF IndInv, LockInv, InputInv, LoadUpdate
<1>5. State' = {xdb} /\ View' = {xdb}
  BY <1>1, <1>3 DEF State, View
<1> QED
  BY <1>4, <1>5
-----------------------------------------------------------------------------
\* How a step of the node may change the data set.
Changes ==
    \/ State' = State
    \/ State' = {}
    \/ \E d \in State, b \in Batches : State' = {Replay(d, b)} /\ View' = {}
    \/ \E d \in Snapshots \cup {Empty} : State' = {d} /\ View' = {d}

\* Writers and the replication thread.
LEMMA CommitChanges ==
    ASSUME IndInv, Replication \/ \E w \in Writers : Lock(w) \/ Write(w)
    PROVE  Changes
<1>0. TypeOK /\ LockInv /\ CommitInv
  BY DEF IndInv
<1>1. ASSUME NEW w \in Writers, Log(w) PROVE Changes
  <2>1. CASE Whole
    BY <1>1, <2>1, LogAccepts DEF Changes
  <2>2. CASE ~Whole
    BY <1>1, <2>2 DEF Changes, State, Log, Whole
  <2> QED
    BY <2>1, <2>2
<1>2. ASSUME NEW w \in Writers, CommitDone(w) PROVE Changes
  <2>1. wid[w] = commitID + 1 /\ wid[w] \in DOMAIN log /\ commitID' \in {commitID, commitID + 1}
    BY <1>0, <1>2, CommitDoneEffect
  <2>2. UNCHANGED <<lastID, want, history>>
    BY <1>2 DEF CommitDone
  <2>3. NextID' = NextID
    BY <2>1, <2>2, AdvanceNextID
  <2> QED
    BY <2>2, <2>3, SameState DEF Changes
<1>3. CASE ReplUpdate
  <2>1. rid = commitID + 1 /\ rid \in DOMAIN log /\ commitID' \in {commitID, rid}
    BY <1>0, <1>3 DEF CommitInv, ReplUpdate, UpdateCommitID
  <2>2. UNCHANGED <<lastID, want, history>>
    BY <1>3 DEF ReplUpdate
  <2>3. NextID' = NextID
    BY <2>1, <2>2, AdvanceNextID
  <2> QED
    BY <2>2, <2>3, SameState DEF Changes
<1>4. CASE Replication /\ ~ReplUpdate
  <2>1. UNCHANGED <<lastID, commitID, want, history>>
    BY <1>4 DEF Replication, ReplWake, ReplLock, ReplNext, ReplStop, ReplCommit
  <2> QED
    BY <2>1, SameState DEF Changes, NextID
<1>5. ASSUME NEW w \in Writers, Lock(w) \/ Write(w), ~Log(w), ~CommitDone(w) PROVE Changes
  <2>1. UNCHANGED <<lastID, commitID, want, history>>
    BY <1>5 DEF Lock, Write, Unlock, Commit, LogFails, StoreCommit, Notice
  <2> QED
    BY <2>1, SameState DEF Changes, NextID
<1> QED
  BY <1>1, <1>2, <1>3, <1>4, <1>5

\* Opening, the slave, the operators and the ticks.
LEMMA OtherChanges ==
    ASSUME StoreName = "file", IndInv,
           \/ Opening \/ SlaveOf \/ SlaveOfNoOne \/ FeedSync \/ Feeder
           \/ FlushAll \/ LoadDump \/ DumpHead \/ Exclusive
           \/ SyncCommitID \/ PurgeExpired \/ Close \/ Crash
    PROVE  Changes
<1>1. CASE FeedStore
  <2>1. CASE Whole /\ fnext = NextID
    BY <1>1, <2>1, FeedAccepts DEF Changes
  <2>2. CASE ~(Whole /\ fnext = NextID)
    <3>1. ~Whole'
      BY <1>1, <2>2 DEF FeedStore, Whole
    <3> QED
      BY <3>1 DEF Changes, State
  <2> QED
    BY <2>1, <2>2
<1>2. CASE FlushClear
  BY <1>2, ClearRestores DEF Changes
<1>3. CASE LoadUpdate
  BY <1>3, LoadRestores DEF Changes
<1>4. CASE FlushDelete \/ LoadKeys \/ FlushFails
  <2>1. \/ history' = "torn"
        \/ UNCHANGED <<lastID, commitID, want, history>>
    BY <1>4 DEF FlushDelete, LoadKeys, FlushFails
  <2>2. CASE history' = "torn"
    BY <2>2 DEF Changes, State, Whole
  <2>3. CASE UNCHANGED <<lastID, commitID, want, history>>
    BY <2>3, SameState DEF Changes, NextID
  <2> QED
    BY <2>1, <2>2, <2>3
<1>5. CASE Crash
  <2>1. Whole' => Whole /\ NextID' = NextID /\ want' = want
    BY <1>5, CrashNextID
  <2>2. history' = history \/ ~Whole'
    BY <1>5 DEF Crash, Whole
  <2> QED
    BY <2>1, <2>2, SameState DEF Changes
<1>6. CASE PurgeExpired
  <2>1. lastID' = lastID
    BY <1>6, PurgeEffect DEF IndInv
  <2>2. UNCHANGED <<commitID, want, history>>
    BY <1>6 DEF PurgeExpired
  <2> QED
    BY <2>1, <2>2, SameState DEF Changes, NextID
<1>7. CASE \/ Opening \/ SlaveOf \/ SlaveOfNoOne \/ FeedSync \/ FeedFails \/ FeedDone
           \/ FlushAll \/ LoadDump \/ DumpHead \/ LoadFails \/ DumpSnapshot
           \/ SyncCommitID \/ Close
  <2>1. UNCHANGED <<lastID, commitID, want, history>>
    BY <1>7 DEF Opening, WaitNotice, WaitDone, WaitCheck, SlaveOf, SlaveOfNoOne, FeedSync,
                FeedFails, FeedDone, FlushAll, LoadDump, DumpHead, LoadFails, DumpSnapshot,
                SyncCommitID, Close
  <2> QED
    BY <2>1, SameState DEF Changes, NextID
<1> QED
  BY <1>1, <1>2, <1>3, <1>4, <1>5, <1>6, <1>7 DEF Feeder, Exclusive

\* A change of the data set is a step of DurableStore: what the store shows
\* before and after is the data set or nothing.
LEMMA StepRefines ==
    ASSUME StoreName = "file", IndInv, IndInv', CommittedState, CommittedState', [Next]_vars
    PROVE  [Promise!Next]_(Promise!vars)
<1>1. View' = {} \/ View' = State'
  <2>1. (IndInv /\ CommittedState => View = {} \/ View = State)'
    BY ViewIsState, PTL
  <2> QED
    BY <2>1
<1>2. Changes
  <2>1. CASE UNCHANGED vars
    <3>1. UNCHANGED <<lastID, commitID, want, history>>
      BY <2>1 DEF vars
    <3> QED
      BY <3>1, SameState DEF Changes, NextID
  <2>2. CASE Next
    BY <2>2, CommitChanges, OtherChanges DEF Next
  <2> QED
    BY <2>1, <2>2
<1>3. State' = {} => View' = {}
  BY <1>1
<1>4. CASE State' = State
  BY <1>1, <1>4 DEF Promise!Next, Promise!Settle, Promise!Unsettle, State, View
<1>5. CASE State' = {}
  BY <1>3, <1>5 DEF Promise!Next, Promise!Lose, State, View
<1>6. CASE \E d \in State, b \in Batches : State' = {Replay(d, b)} /\ View' = {}
  BY <1>6 DEF Promise!Next, Promise!Accept, Promise!Applied, Replay, State, View
<1>7. CASE \E d \in Snapshots \cup {Empty} : State' = {d} /\ View' = {d}
  BY <1>7 DEF Promise!Next, Promise!Restore, Promise!EmptyData, Empty, State, View
<1> QED
  BY <1>2, <1>4, <1>5, <1>6, <1>7 DEF Changes

\* A node implements DurableStore, for every set of writers, keys and batches:
\* concurrent commits, replays, syncs, I/O errors and crashes look like one data
\* set that changes by whole batches.
THEOREM NodeKeepsPromise ==
    ASSUME StoreName = "file"
    PROVE  Spec => KeepsPromise
<1>1. Init => Promise!Init
  <2> SUFFICES ASSUME Init PROVE State = {Empty} /\ View = {Empty}
    BY DEF Promise!Init, Promise!EmptyData, Empty, State, View
  <2>1. /\ lastID = 0 /\ commitID = 0 /\ Whole /\ db = Empty
        /\ want = [i \in 0..MaxLog |-> Empty]
    BY DEF Init, Whole
  <2>2. NextID - 1 = 0 /\ ~Behind /\ want[0] = Empty
    BY <2>1, BoundsAssumption DEF NextID, MaxID, Behind
  <2> QED
    BY <2>1, <2>2 DEF State, View
<1>2. IndInv /\ IndInv' /\ CommittedState /\ CommittedState' /\ [Next]_vars
         => [Promise!Next]_(Promise!vars)
  BY StepRefines
<1> QED
  BY <1>1, <1>2, Invariance, CommittedStateHolds, PTL DEF Spec, KeepsPromise, Promise!Spec
=============================================================================
