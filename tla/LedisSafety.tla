---------------------------- MODULE LedisSafety ----------------------------
(***************************************************************************)
(* The safety of a node with the file store, for every set of writers,     *)
(* keys, batches and snapshots, every sync mode and every bound.           *)
(***************************************************************************)
EXTENDS LedisIds

USE DEF chanVars, lockVars, rplVars, writerVars, replVars, feedVars, exclVars,
        dumpVars, auxVars

-----------------------------------------------------------------------------
(* Replays.                                                                 *)

\* More logs, or fewer logs that the replay does not need, change nothing.
LEMMA RepairsGrow ==
    ASSUME NEW d, NEW s, NEW lg, NEW lg2, NEW c \in Nat, NEW last \in Nat, NEW last2 \in Nat,
           Repairs(d, s, lg, c, last), last <= last2,
           \A j \in DOMAIN lg : c < j /\ j <= last => j \in DOMAIN lg2 /\ lg2[j] = lg[j]
    PROVE  Repairs(d, s, lg2, c, last2)
BY DEF Repairs

\* A log that a replay will repeat may be applied early.
LEMMA RepairsApplied ==
    ASSUME NEW d, NEW s, NEW lg, NEW c \in Nat, NEW last \in Nat, NEW id \in Nat,
           Repairs(d, s, lg, c, last), c < id, id <= last, id \in DOMAIN lg
    PROVE  Repairs(Replay(d, lg[id]), s, lg, c, last)
BY DEF Repairs, Replay

\* Applying the first log of a replay leaves the rest of the replay to do.
LEMMA RepairsNext ==
    ASSUME NEW d, NEW s, NEW lg, NEW c \in Nat, NEW last \in Nat,
           Repairs(d, s, lg, c, last), c + 1 <= last, c + 1 \in DOMAIN lg
    PROVE  Repairs(Replay(d, lg[c + 1]), Replay(s, lg[c + 1]), lg, c + 1, last)
<1> SUFFICES ASSUME NEW k \in Keys
             PROVE  \/ Replay(d, lg[c + 1])[k] = Replay(s, lg[c + 1])[k]
                    \/ \E j \in (c + 1) + 1..last : j \in DOMAIN lg /\ lg[j][k] # Keep
  BY DEF Repairs
<1>1. CASE lg[c + 1][k] # Keep
  BY <1>1 DEF Replay
<1>2. CASE lg[c + 1][k] = Keep
  <2>1. CASE d[k] = s[k]
    BY <2>1 DEF Replay
  <2>2. CASE \E j \in c + 1..last : j \in DOMAIN lg /\ lg[j][k] # Keep
    BY <1>2, <2>2
  <2> QED
    BY <2>1, <2>2 DEF Repairs
<1> QED
  BY <1>1, <1>2

\* Data that is right needs no repair.
LEMMA RepairsSame ==
    ASSUME NEW d, NEW lg, NEW c, NEW last
    PROVE  Repairs(d, d, lg, c, last)
BY DEF Repairs

\* Data that no log can repair is right.
LEMMA RepairsNothing ==
    ASSUME NEW d \in DBs, NEW s \in DBs, NEW lg, NEW c \in Nat, NEW last \in Nat,
           Repairs(d, s, lg, c, last), last <= c
    PROVE  d = s
BY DEF Repairs, DBs
-----------------------------------------------------------------------------
(* The history: one lemma for each kind of step.                            *)

\* The part of the inductive invariant that is about the history.
PastInv == HistoryInv /\ DumpInv /\ AckedLogged /\ LogContiguous

\* The ids are natural numbers, those of the logs positive.
LEMMA IdTypes ==
    ASSUME TypeOK
    PROVE  /\ commitID \in 0..MaxLog /\ commitLog \in 0..MaxLog /\ lastID \in 0..MaxLog
           /\ base \in 0..MaxLog /\ did \in 0..MaxLog
           /\ DOMAIN log \subseteq 1..MaxLog /\ acked \subseteq 1..MaxLog
           /\ db \in DBs /\ want \in [0..MaxLog -> DBs] /\ MaxLog \in Nat
BY BoundsAssumption DEF TypeOK, RplType, NodeType, AuxType

\* A step that touches neither logs nor data, and commits nothing.
LEMMA QuietStep ==
    ASSUME PastInv,
           UNCHANGED <<log, lastID, commitID, commitLog, db, want, base, history, acked, dumpVars>>,
           \A w \in Writers : wpc'[w] = "committed" => wpc[w] = "committed",
           rpc' = "update" => rpc = "update",
           xpc' \in {"load", "update"} => xpc \in {"load", "update"}
    PROVE  PastInv'
<1>1. HistoryInv'
  BY DEF PastInv, HistoryInv, Whole, Oldest, MaxID, Recovers
<1>2. DumpInv'
  BY DEF PastInv, DumpInv, DumpSound, Whole, NextID, MaxID, Recovers
<1>3. AckedLogged' /\ LogContiguous'
  BY DEF PastInv, AckedLogged, LogContiguous, Whole
<1> QED
  BY <1>1, <1>2, <1>3 DEF PastInv

\* A step that cuts a flush, a load or a sync in two.
LEMMA TornStep ==
    ASSUME PastInv, history' = "torn", UNCHANGED <<acked, dumpVars, commitLog>>,
           DOMAIN log \subseteq DOMAIN log',
           xpc' \in {"load", "update"} => xpc \in {"load", "update"}
    PROVE  PastInv'
<1>1. HistoryInv' /\ LogContiguous'
  BY DEF HistoryInv, LogContiguous, Whole
<1>2. DumpInv'
  BY DEF PastInv, DumpInv, DumpSound, Whole
<1>3. AckedLogged'
  BY DEF PastInv, AckedLogged
<1> QED
  BY <1>1, <1>2, <1>3 DEF PastInv

\* The next log is stored, by a writer or by the slave's goroutine.
LEMMA StoreStep ==
    ASSUME TypeOK, IdInv, CommitInv, PastInv, NEW b,
           NextID \in 1..MaxLog,
           DOMAIN log' = DOMAIN log \cup {NextID}, \A i \in DOMAIN log : log'[i] = log[i],
           log'[NextID] = b, lastID' = NextID,
           \A i \in 0..MaxLog : i # NextID => want'[i] = want[i],
           want'[NextID] = Replay(want[NextID - 1], b),
           UNCHANGED <<commitID, commitLog, db, base, history, acked, dumpVars>>,
           \A w \in Writers : wpc'[w] = "committed" => wpc[w] = "committed",
           rpc' = "update" => rpc = "update",
           xpc' \in {"load", "update"} => xpc \in {"load", "update"}
    PROVE  PastInv'
<1> DEFINE id == NextID
<1>0. /\ commitID \in Nat /\ commitLog \in Nat /\ lastID \in Nat /\ base \in Nat /\ did \in 0..MaxLog
      /\ DOMAIN log \subseteq Nat /\ MaxLog \in Nat /\ commitID \in 0..MaxLog
  BY IdTypes
<1>1. id > lastID /\ id > commitID /\ id \in Nat /\ (id = lastID + 1 \/ id = commitID + 1)
  BY <1>0 DEF NextID, MaxID
<1>2. NextID' = id + 1
  BY <1>0, <1>1 DEF NextID, MaxID
<1>3. Whole => (lastID = 0 /\ id = commitID + 1) \/ id = lastID + 1
  BY <1>0, <1>1 DEF IdInv
<1>4. ASSUME NEW d, NEW c \in 0..MaxLog, c # id, Repairs(d, want[c], log, c, lastID)
      PROVE  Repairs(d, want'[c], log', c, lastID')
  <2>1. want'[c] = want[c]
    BY <1>4
  <2>2. Repairs(d, want[c], log', c, id)
    BY <1>0, <1>1, <1>4, RepairsGrow
  <2> QED
    BY <2>1, <2>2
<1> HIDE DEF NextID
<1>5. HistoryInv'
  <2> SUFFICES ASSUME Whole'
               PROVE  /\ base' <= commitID'
                      /\ lastID' = 0 => commitID' = Oldest'
                      /\ \A j \in Oldest' + 1..lastID' :
                            j \in DOMAIN log' /\ want'[j] = Replay(want'[j - 1], log'[j])
                      /\ \A c \in Oldest'..commitID' : Recovers(db, c)'
                      /\ \A w \in Writers : wpc'[w] = "committed" => Recovers(db, commitID + 1)'
                      /\ rpc' = "update" => Recovers(db, commitID + 1)'
    BY DEF HistoryInv
  <2>1. Whole /\ Oldest' = Oldest /\ Oldest \in 0..MaxLog
    BY IdTypes DEF Whole, Oldest, MaxID
  <2>2. base' <= commitID' /\ lastID' # 0
    BY <1>1, <2>1 DEF PastInv, HistoryInv
  <2>3. ASSUME NEW j \in Oldest + 1..id
        PROVE  j \in DOMAIN log' /\ want'[j] = Replay(want'[j - 1], log'[j])
    <3>1. CASE j = id
      <4>1. want'[j - 1] = want[j - 1]
        BY <1>0, <1>1, <3>1
      <4> QED
        BY <3>1, <4>1
    <3>2. CASE j # id
      <4>1. j \in Oldest + 1..lastID
        BY <1>0, <1>1, <1>3, <2>1, <2>3, <3>2 DEF PastInv, HistoryInv
      <4>2. j \in DOMAIN log /\ want[j] = Replay(want[j - 1], log[j])
        BY <2>1, <4>1 DEF PastInv, HistoryInv
      <4>3. want'[j] = want[j] /\ want'[j - 1] = want[j - 1]
        BY <1>0, <1>1, <2>1, <2>3, <3>2
      <4> QED
        BY <4>2, <4>3
    <3> QED
      BY <3>1, <3>2
  <2>4. ASSUME NEW c \in Oldest..commitID PROVE Recovers(db, c)'
    <3>1. Repairs(db, want[c], log, c, lastID)
      BY <2>1 DEF PastInv, HistoryInv, Recovers
    <3>2. Repairs(db, want'[c], log', c, lastID')
      BY <1>0, <1>1, <1>4, <2>1, <3>1
    <3> QED
      BY <3>2 DEF Recovers
  <2>5. ASSUME Recovers(db, commitID + 1), commitID + 1 # id PROVE Recovers(db, commitID + 1)'
    <3>1. commitID + 1 \in 0..MaxLog
      BY <1>0, <1>1, <2>5
    <3>2. Repairs(db, want'[commitID + 1], log', commitID + 1, lastID')
      BY <1>4, <2>5, <3>1 DEF Recovers
    <3> QED
      BY <3>2 DEF Recovers
  <2>6. /\ \A w \in Writers : wpc[w] = "committed" => commitID + 1 # id
        /\ rpc = "update" => commitID + 1 # id
    BY <1>0, <1>1 DEF CommitInv, IdInv
  <2> QED
    BY <2>1, <2>2, <2>3, <2>4, <2>5, <2>6 DEF PastInv, HistoryInv
<1>6. DumpInv'
  <2>1. Whole' => Whole
    BY DEF Whole
  <2>2. Whole /\ dstate = "taken" => did <= id - 1
    BY DEF PastInv, DumpInv
  <2>3. ASSUME Whole', dstate' = "taken", did' + 1..NextID' - 1 \subseteq DOMAIN log'
        PROVE  Recovers(ddb, did)'
    <3>1. did <= id - 1 /\ did \in 0..MaxLog /\ did # id
      BY <1>0, <1>1, <2>1, <2>2, <2>3
    <3>2. did + 1..id - 1 \subseteq DOMAIN log
      BY <1>0, <1>1, <1>2, <2>3, <3>1
    <3>3. Repairs(ddb, want[did], log, did, lastID)
      BY <2>1, <2>3, <3>2 DEF PastInv, DumpInv, DumpSound, Recovers
    <3>4. Repairs(ddb, want'[did], log', did, lastID')
      BY <1>4, <3>1, <3>3
    <3> QED
      BY <3>4 DEF Recovers
  <2>4. Whole' /\ dstate' = "taken" => did' <= NextID' - 1
    BY <1>0, <1>1, <1>2, <2>1, <2>2
  <2>5. xpc' \in {"load", "update"} => dstate' = "none"
    BY DEF PastInv, DumpInv
  <2> QED
    BY <2>3, <2>4, <2>5 DEF DumpInv, DumpSound
<1>7. AckedLogged'
  BY DEF PastInv, AckedLogged
<1>8. LogContiguous'
  <2>1. Whole' => Whole
    BY DEF Whole
  <2>2. ASSUME Whole, NEW i \in DOMAIN log', NEW j \in i..id PROVE j \in DOMAIN log'
    <3>1. CASE j = id
      BY <3>1
    <3>2. CASE j # id
      <4>1. i \in DOMAIN log /\ i <= lastID /\ i \in Nat
        BY <1>0, <1>1, <2>2, <3>2 DEF IdInv
      <4>2. lastID \in DOMAIN log /\ (lastID = 0 => DOMAIN log \subseteq 1..MaxLog)
        BY <1>0, <4>1, IdTypes DEF IdInv
      <4>3. lastID # 0
        BY <4>1, <4>2
      <4>4. j \in i..lastID
        BY <1>0, <1>1, <1>3, <2>2, <3>2, <4>1, <4>3
      <4> QED
        BY <2>2, <4>1, <4>4 DEF PastInv, LogContiguous
    <3> QED
      BY <3>1, <3>2
  <2> QED
    BY <2>1, <2>2 DEF LogContiguous
<1> QED
  BY <1>5, <1>6, <1>7, <1>8 DEF PastInv

\* The next log is applied to the store, by its writer or by the replication
\* thread; the commit id does not cover it yet.
LEMMA ApplyStep ==
    ASSUME TypeOK, IdInv, PastInv,
           commitID + 1 \in DOMAIN log, db' = Replay(db, log[commitID + 1]),
           UNCHANGED <<log, lastID, commitID, commitLog, want, base, history, acked, dumpVars>>,
           xpc' \in {"load", "update"} => xpc \in {"load", "update"}
    PROVE  PastInv'
<1>0. /\ commitID \in Nat /\ commitLog \in Nat /\ lastID \in Nat /\ base \in Nat
      /\ commitID + 1 <= lastID
  BY IdTypes DEF IdInv
<1>1. HistoryInv'
  <2> SUFFICES ASSUME Whole
               PROVE  /\ \A c \in Oldest..commitID : Recovers(db, c)'
                      /\ Recovers(db, commitID + 1)'
    BY DEF PastInv, HistoryInv, Whole, Oldest, MaxID
  <2>1. Oldest \in Nat /\ Oldest <= commitID
    BY <1>0 DEF PastInv, HistoryInv, IdInv, Oldest, MaxID
  <2>2. ASSUME NEW c \in Oldest..commitID PROVE Recovers(db, c)'
    <3>1. Repairs(db, want[c], log, c, lastID)
      BY DEF PastInv, HistoryInv, Recovers
    <3>2. Repairs(db', want[c], log, c, lastID)
      BY <1>0, <2>1, <3>1, RepairsApplied
    <3> QED
      BY <3>2 DEF Recovers
  <2>3. Recovers(db, commitID + 1)'
    <3>1. Repairs(db, want[commitID], log, commitID, lastID)
      BY <1>0, <2>1 DEF PastInv, HistoryInv, Recovers
    <3>2. want[commitID + 1] = Replay(want[commitID], log[commitID + 1])
      BY <1>0, <2>1 DEF PastInv, HistoryInv
    <3>3. Repairs(db', want[commitID + 1], log, commitID + 1, lastID)
      BY <1>0, <3>1, <3>2, RepairsNext
    <3> QED
      BY <3>3 DEF Recovers
  <2> QED
    BY <2>2, <2>3
<1>2. DumpInv'
  BY DEF PastInv, DumpInv, DumpSound, Whole, NextID, MaxID, Recovers
<1>3. AckedLogged' /\ LogContiguous'
  BY DEF PastInv, AckedLogged, LogContiguous, Whole
<1> QED
  BY <1>1, <1>2, <1>3 DEF PastInv

\* The order of the ids is transitive.
LEMMA LeqTrans ==
    ASSUME NEW a \in Nat, NEW b \in Nat, NEW c \in Nat, a <= b, b <= c
    PROVE  a <= c
OBVIOUS

\* The commit id moves on, over a log that has been applied to the store, or
\* the commit id on disk catches up.
LEMMA AdvanceStep ==
    ASSUME TypeOK, IdInv, PastInv,
           \/ commitID' = commitID
           \/ /\ commitID' = commitID + 1 /\ commitID + 1 \in DOMAIN log
              /\ Whole => Recovers(db, commitID + 1),
           commitLog' \in {commitLog, commitID'},
           \A i \in acked' : i \in acked \/ i \in DOMAIN log,
           UNCHANGED <<log, lastID, db, want, base, history, dumpVars>>,
           \A w \in Writers : wpc'[w] = "committed" => wpc[w] = "committed" /\ commitID' = commitID,
           rpc' = "update" => rpc = "update" /\ commitID' = commitID,
           xpc' \in {"load", "update"} => xpc \in {"load", "update"}
    PROVE  PastInv'
<1>0. /\ commitID \in Nat /\ commitLog \in Nat /\ lastID \in Nat /\ base \in Nat /\ did \in Nat
      /\ commitLog <= commitID /\ commitID' \in Nat /\ commitID <= commitID' /\ commitLog' \in Nat
      /\ commitLog <= commitLog' /\ commitLog' <= commitID'
  BY IdTypes DEF IdInv
<1>1. HistoryInv'
  <2> DEFINE old == MaxID(commitLog', base)
  <2>1. old \in Nat /\ Oldest \in Nat /\ Oldest <= old
        /\ (old = commitLog' \/ old = base) /\ commitLog' <= old /\ base <= old
    BY <1>0 DEF Oldest, MaxID
  <2> HIDE DEF old
  <2> SUFFICES ASSUME Whole
               PROVE  /\ base <= commitID'
                      /\ lastID = 0 => commitID' = old
                      /\ \A j \in old + 1..lastID :
                            j \in DOMAIN log /\ want[j] = Replay(want[j - 1], log[j])
                      /\ \A c \in old..commitID' : Recovers(db, c)
                      /\ \A w \in Writers : wpc'[w] = "committed" => Recovers(db, commitID' + 1)
                      /\ rpc' = "update" => Recovers(db, commitID' + 1)
    BY DEF HistoryInv, Whole, Recovers, Oldest, old
  <2>2. base <= commitID'
    <3>1. Whole => base <= commitID
      BY Zenon DEF PastInv, HistoryInv
    <3>2. base <= commitID /\ base \in Nat /\ commitID \in Nat /\ commitID' \in Nat
          /\ commitID <= commitID'
      BY <1>0, <3>1, Zenon
    <3> QED
      BY <3>2, LeqTrans, Zenon
  <2>3. lastID = 0 => commitID' = old
    <3>1. lastID = 0 => commitID' = commitID
      BY IdTypes DEF IdInv
    <3>2. lastID = 0 => commitID = Oldest
      BY DEF PastInv, HistoryInv
    <3> QED
      BY <1>0, <2>1, <2>2, <3>1, <3>2
  <2>4. \A j \in old + 1..lastID : j \in DOMAIN log /\ want[j] = Replay(want[j - 1], log[j])
    BY <1>0, <2>1 DEF PastInv, HistoryInv
  <2>5. \A c \in old..commitID' : Recovers(db, c)
    BY <1>0, <2>1 DEF PastInv, HistoryInv
  <2>6. /\ \A w \in Writers : wpc'[w] = "committed" => Recovers(db, commitID' + 1)
        /\ rpc' = "update" => Recovers(db, commitID' + 1)
    BY DEF PastInv, HistoryInv
  <2> QED
    BY <2>2, <2>3, <2>4, <2>5, <2>6
<1>2. Whole => NextID' = NextID
  <2>1. commitID' # commitID => commitID + 1 <= lastID
    BY <1>0, IdTypes DEF IdInv
  <2> QED
    BY <1>0, <2>1 DEF NextID, MaxID
<1>3. DumpInv'
  <2> HIDE DEF NextID
  <2> QED
    BY <1>2 DEF PastInv, DumpInv, DumpSound, Whole, Recovers
<1>4. AckedLogged'
  <2>1. acked \subseteq Nat
    BY IdTypes
  <2>2. \A i \in acked : i <= commitLog \/ i \in DOMAIN log
    BY DEF PastInv, AckedLogged
  <2>3. ASSUME NEW i \in acked' PROVE i <= commitLog' \/ i \in DOMAIN log
    <3>1. i \in DOMAIN log \/ i \in acked
      BY <2>3
    <3>2. i \in acked /\ i <= commitLog => i <= commitLog'
      <4>1. i \in acked => i \in Nat
        BY <2>1
      <4> QED
        BY <1>0, <4>1
    <3> QED
      BY <2>2, <3>1, <3>2
  <2> QED
    BY <2>3 DEF AckedLogged
<1>5. LogContiguous'
  BY DEF PastInv, LogContiguous, Whole
<1> QED
  BY <1>1, <1>3, <1>4, <1>5 DEF PastInv
-----------------------------------------------------------------------------
(* The history: the steps of the processes.                                 *)

\* The steps of a write command keep the history.
LEMMA WritePast ==
    ASSUME TypeOK, LockInv, IdInv, CommitInv, PastInv, NEW w \in Writers, Lock(w) \/ Write(w)
    PROVE  PastInv'
<1>0. wpc \in [Writers -> {"idle", "locked", "commit", "logged", "committed", "notice"}]
  BY DEF TypeOK, WriterType
<1>1. CASE Lock(w)
  BY <1>0, <1>1, QuietStep DEF Lock
<1>2. CASE Unlock(w)
  BY <1>0, <1>2, QuietStep DEF Unlock, Return
<1>3. CASE Commit(w)
  BY <1>0, <1>3, QuietStep DEF Commit, Return
<1>4. CASE Log(w)
  <2>1. /\ UNCHANGED <<commitID, commitLog, db, base, history, acked, dumpVars, rpc, xpc>>
        /\ \A v \in Writers : wpc'[v] = "committed" => wpc[v] = "committed"
    BY <1>0, <1>4 DEF Log
  <2> QED
    BY <1>4, <2>1, LogEffect, StoreStep
<1>5. CASE LogFails(w)
  BY <1>0, <1>5, QuietStep DEF LogFails, Return
<1>6. CASE StoreCommit(w)
  <2>1. CASE wpc' = [wpc EXCEPT ![w] = "notice"] /\ UNCHANGED db
    BY <1>0, <1>6, <2>1, QuietStep DEF StoreCommit
  <2>2. CASE db' = Replay(db, wbatch[w])
    <3>1. commitID + 1 \in DOMAIN log /\ log[commitID + 1] = wbatch[w]
      BY <1>6 DEF CommitInv, StoreCommit
    <3>2. UNCHANGED <<log, lastID, commitID, commitLog, want, base, history, acked, dumpVars, xpc>>
      BY <1>6 DEF StoreCommit
    <3> QED
      BY <2>2, <3>1, <3>2, ApplyStep
  <2> QED
    BY <1>6, <2>1, <2>2 DEF StoreCommit
<1>7. CASE CommitDone(w)
  <2>1. UNCHANGED <<log, lastID, db, want, base, history, dumpVars, rpc, xpc>>
    BY <1>7 DEF CommitDone
  <2>2. \A i \in acked' : i \in acked \/ i \in DOMAIN log
    <3>1. acked' = acked \cup {wid[w]} \/ acked' = acked
      BY <1>7 DEF CommitDone
    <3>2. wid[w] \in DOMAIN log
      BY <1>7, CommitDoneEffect
    <3> QED
      BY <3>1, <3>2
  <2>3. Whole => Recovers(db, commitID + 1)
    BY <1>7 DEF PastInv, HistoryInv, CommitDone
  <2> QED
    BY <1>7, <2>1, <2>2, <2>3, CommitDoneEffect, AdvanceStep
<1>8. CASE Notice(w)
  BY <1>0, <1>8, QuietStep DEF Notice, Return
<1> QED
  BY <1>1, <1>2, <1>3, <1>4, <1>5, <1>6, <1>7, <1>8 DEF Write

\* The steps of the replication thread keep the history.
LEMMA ReplicationPast ==
    TypeOK /\ LockInv /\ IdInv /\ CommitInv /\ PastInv /\ Replication => PastInv'
<1> SUFFICES ASSUME TypeOK, LockInv, IdInv, CommitInv, PastInv, Replication PROVE PastInv'
  OBVIOUS
<1>1. CASE ReplWake \/ ReplLock \/ ReplNext \/ ReplStop
  BY <1>1, QuietStep DEF ReplWake, ReplLock, ReplNext, ReplStop, ReplReturn
<1>2. CASE ReplCommit
  <2>1. CASE ReplReturn /\ UNCHANGED db
    BY <1>2, <2>1, QuietStep DEF ReplCommit, ReplReturn
  <2>2. CASE db' = Replay(db, rbatch)
    <3>1. commitID + 1 \in DOMAIN log /\ log[commitID + 1] = rbatch
      BY <1>2 DEF CommitInv, ReplCommit
    <3>2. UNCHANGED <<log, lastID, commitID, commitLog, want, base, history, acked, dumpVars, xpc>>
      BY <1>2 DEF ReplCommit
    <3> QED
      BY <2>2, <3>1, <3>2, ApplyStep
  <2> QED
    BY <1>2, <2>1, <2>2 DEF ReplCommit
<1>3. CASE ReplUpdate
  <2>1. /\ UNCHANGED <<log, lastID, db, want, base, history, dumpVars, acked, xpc, wpc>>
        /\ rpc' # "update"
    BY <1>3 DEF ReplUpdate, ReplReturn
  <2>2. Whole => Recovers(db, commitID + 1)
    BY <1>3 DEF PastInv, HistoryInv, ReplUpdate
  <2>3. rid = commitID + 1 /\ rid \in DOMAIN log /\ \A w \in Writers : wpc[w] = "idle"
    BY <1>3 DEF CommitInv, LockInv, ReplUpdate
  <2>4. UpdateCommitID(rid) \/ UNCHANGED <<commitID, commitLog>>
    BY <1>3 DEF ReplUpdate
  <2> QED
    BY <2>1, <2>2, <2>3, <2>4, AdvanceStep DEF UpdateCommitID
<1> QED
  BY <1>1, <1>2, <1>3 DEF Replication

\* Opening, and the logs of a master, keep the history.
LEMMA SlavePast ==
    ASSUME StoreName = "file", TypeOK, LockInv, IdInv, CommitInv, PastInv,
           Opening \/ SlaveOf \/ SlaveOfNoOne \/ FeedSync \/ Feeder
    PROVE  PastInv'
<1>1. CASE Opening
  BY <1>1, QuietStep DEF Opening, WaitNotice, WaitDone, WaitCheck
<1>2. CASE SlaveOf
  BY <1>2, QuietStep DEF SlaveOf
<1>3. CASE SlaveOfNoOne
  BY <1>3, QuietStep DEF SlaveOfNoOne
<1>4. CASE FeedSync \/ FeedFails \/ FeedDone
  BY <1>4, QuietStep DEF FeedSync, FeedFails, FeedDone
<1>5. CASE FeedStore
  <2>1. UNCHANGED <<commitID, commitLog, db, base, acked, dumpVars, rpc, xpc, wpc>>
    BY <1>5 DEF FeedStore
  <2>2. PICK b \in Batches :
           /\ fnext \in 1..MaxLog
           /\ DOMAIN log' = DOMAIN log \cup {fnext}
           /\ \A i \in DOMAIN log : log'[i] = log[i]
           /\ log'[fnext] = b /\ lastID' = fnext
           /\ \A i \in 0..MaxLog : i # fnext => want'[i] = want[i]
           /\ want'[fnext] = Replay(want[fnext - 1], b)
    BY <1>5, FeedEffect
  <2>3. CASE fnext = NextID
    <3>1. UNCHANGED history
      BY <1>5, <2>3 DEF FeedStore
    <3> QED
      BY <2>1, <2>2, <2>3, <3>1, StoreStep
  <2>4. CASE fnext # NextID
    <3>1. history' = "torn"
      BY <1>5, <2>4 DEF FeedStore
    <3> QED
      BY <2>1, <2>2, <3>1, TornStep
  <2> QED
    BY <2>3, <2>4
<1> QED
  BY <1>1, <1>2, <1>3, <1>4, <1>5 DEF Feeder

\* A flush that is complete starts a new history, with no logs and no data.
LEMMA ClearPast ==
    ASSUME TypeOK, LockInv, IdInv, CommitInv, PastInv, FlushClear
    PROVE  PastInv'
<1>1. /\ DOMAIN log' = {} /\ lastID' = 0 /\ commitID' = 0 /\ commitLog' = 0 /\ base' = 0
      /\ want' = [i \in 0..MaxLog |-> Empty] /\ acked' = {} /\ dstate' = "none"
      /\ db' = db /\ db = Empty /\ wpc' = wpc /\ rpc' = rpc
  BY DEF FlushClear, ClearLog, CommitInv
<1>2. rpc # "update" /\ \A w \in Writers : wpc[w] = "idle"
  BY DEF LockInv, FlushClear
<1>3. MaxID(commitLog', base') = 0 /\ want'[0] = Empty
  BY <1>1, BoundsAssumption DEF MaxID
<1>4. Repairs(db', want'[0], log', 0, lastID')
  BY <1>1, <1>3, RepairsSame
<1>5. HistoryInv'
  BY <1>1, <1>2, <1>3, <1>4 DEF HistoryInv, Recovers, Oldest
<1>6. DumpInv' /\ AckedLogged' /\ LogContiguous'
  BY <1>1 DEF DumpInv, DumpSound, AckedLogged, LogContiguous
<1> QED
  BY <1>5, <1>6 DEF PastInv

\* So does a load that is complete, with the data of the dump.
LEMMA LoadPast ==
    ASSUME TypeOK, LockInv, IdInv, CommitInv, PastInv, LoadUpdate
    PROVE  PastInv'
<1>0. /\ xid \in 0..MaxLog /\ commitLog \in Nat /\ want \in [0..MaxLog -> DBs] /\ MaxLog \in Nat
      /\ DOMAIN log \subseteq 1..MaxLog /\ acked \subseteq 1..MaxLog
  BY BoundsAssumption DEF TypeOK, RplType, ThreadType, AuxType
<1>1. /\ commitID' = xid /\ base' = xid /\ want' = [want EXCEPT ![xid] = xdb]
      /\ UNCHANGED <<log, lastID, db, wpc, rpc, acked, dumpVars>> /\ xpc' = "idle"
      /\ commitLog' \in {xid, commitLog}
  BY DEF LoadUpdate, UpdateCommitID, ExclReturn
<1>2. /\ rpc # "update" /\ \A w \in Writers : wpc[w] = "idle"
      /\ lastID = 0 /\ commitID = 0 /\ commitLog = 0 /\ dstate = "none" /\ db = xdb
  <2>1. rpc # "update" /\ \A w \in Writers : wpc[w] = "idle"
    BY DEF LockInv, LoadUpdate
  <2>2. lastID = 0 /\ commitID = 0 /\ commitLog = 0
    BY <1>0 DEF IdInv, LoadUpdate
  <2>3. dstate = "none"
    BY DEF PastInv, DumpInv, LoadUpdate
  <2>4. db = xdb
    BY DEF CommitInv, LoadUpdate
  <2> QED
    BY <2>1, <2>2, <2>3, <2>4
<1>3. DOMAIN log = {} /\ acked = {}
  <2>1. \A i \in 1..MaxLog : ~(i <= 0)
    BY <1>0
  <2>2. \A i \in DOMAIN log : i <= 0 /\ i \in 1..MaxLog
    BY <1>0, <1>2 DEF IdInv
  <2>3. DOMAIN log = {}
    BY <2>1, <2>2
  <2>4. \A i \in acked : i <= 0 /\ i \in 1..MaxLog
    BY <1>0, <1>2, <2>3 DEF PastInv, AckedLogged
  <2> QED
    BY <2>1, <2>3, <2>4
<1>4. MaxID(commitLog', base') = xid /\ want'[xid] = xdb
  BY <1>0, <1>1, <1>2 DEF MaxID
<1>5. Repairs(db', want'[xid], log', xid, lastID')
  BY <1>1, <1>2, <1>4, RepairsSame
<1>6. HistoryInv'
  BY <1>0, <1>1, <1>2, <1>4, <1>5 DEF HistoryInv, Recovers, Oldest
<1>7. DumpInv' /\ AckedLogged' /\ LogContiguous'
  BY <1>1, <1>2, <1>3 DEF DumpInv, DumpSound, AckedLogged, LogContiguous
<1> QED
  BY <1>6, <1>7 DEF PastInv

\* A dump taken now is sound now.
LEMMA DumpPast ==
    ASSUME TypeOK, LockInv, IdInv, CommitInv, PastInv, DumpSnapshot
    PROVE  PastInv'
<1>0. commitID \in Nat /\ commitLog \in Nat /\ lastID \in Nat /\ base \in Nat
  BY IdTypes
<1>1. /\ UNCHANGED <<log, lastID, commitID, commitLog, db, want, base, history, acked, wpc, rpc>>
      /\ did' = commitID /\ ddb' = db /\ xpc' = "idle"
  BY DEF DumpSnapshot, ExclReturn, CommitInv
<1>2. HistoryInv' /\ AckedLogged' /\ LogContiguous'
  BY <1>1 DEF PastInv, HistoryInv, AckedLogged, LogContiguous, Whole, Oldest, MaxID, Recovers
<1>3. Whole => Repairs(db, want[commitID], log, commitID, lastID)
  <2>1. Whole => commitID \in Oldest..commitID
    BY <1>0 DEF PastInv, HistoryInv, IdInv, Oldest, MaxID
  <2> QED
    BY <2>1 DEF PastInv, HistoryInv, Recovers
<1>4. did' <= NextID' - 1
  BY <1>0, <1>1 DEF NextID, MaxID
<1>5. DumpInv'
  BY <1>1, <1>3, <1>4 DEF DumpInv, DumpSound, Recovers, Whole
<1> QED
  BY <1>2, <1>5 DEF PastInv

\* FlushAll, LoadDump and Dump keep the history, or start a new one.
LEMMA ExclusivePast ==
    ASSUME TypeOK, LockInv, IdInv, CommitInv, PastInv,
           FlushAll \/ LoadDump \/ DumpHead \/ Exclusive
    PROVE  PastInv'
<1>1. CASE FlushAll
  BY <1>1, QuietStep DEF FlushAll
<1>2. CASE LoadDump
  BY <1>2, QuietStep DEF LoadDump
<1>3. CASE DumpHead
  BY <1>3, QuietStep DEF DumpHead
<1>4. CASE FlushDelete
  <2>1. /\ UNCHANGED <<log, lastID, commitID, commitLog, want, base, acked, dumpVars, wpc, rpc>>
        /\ xpc' \notin {"load", "update"}
    BY <1>4 DEF FlushDelete
  <2>2. UNCHANGED <<db, history>> \/ history' = "torn"
    BY <1>4 DEF FlushDelete
  <2> QED
    BY <2>1, <2>2, QuietStep, TornStep
<1>5. CASE FlushClear
  BY <1>5, ClearPast
<1>6. CASE FlushFails
  <2>1. UNCHANGED <<commitID, commitLog, db, wpc, rpc>> /\ xpc' = "idle"
    BY <1>6 DEF FlushFails, ExclReturn
  <2>2. CASE UNCHANGED <<log, lastID, wlast, auxVars>>
    BY <2>1, <2>2, QuietStep
  <2>3. CASE ClearLog /\ history' = "torn"
    BY <2>1, <2>3
       DEF ClearLog, PastInv, HistoryInv, DumpInv, DumpSound, AckedLogged, LogContiguous, Whole
  <2> QED
    BY <1>6, <2>2, <2>3 DEF FlushFails
<1>7. CASE LoadKeys
  BY <1>7, TornStep DEF LoadKeys
<1>8. CASE LoadUpdate
  BY <1>8, LoadPast
<1>9. CASE LoadFails
  BY <1>9, QuietStep DEF LoadFails, ExclReturn
<1>10. CASE DumpSnapshot
  BY <1>10, DumpPast
<1> QED
  BY <1>1, <1>2, <1>3, <1>4, <1>5, <1>6, <1>7, <1>8, <1>9, <1>10 DEF Exclusive

\* A purge takes only logs that no replay and no sound dump needs.
LEMMA PurgePast ==
    ASSUME StoreName = "file", TypeOK, LockInv, IdInv, CommitInv, PastInv, PurgeExpired
    PROVE  PastInv'
<1>0. /\ commitID \in Nat /\ commitLog \in Nat /\ lastID \in Nat /\ base \in Nat /\ did \in Nat
      /\ DOMAIN log \subseteq Nat
  BY IdTypes
<1>1. UNCHANGED <<commitID, commitLog, db, want, base, history, acked, dumpVars, wpc, rpc, xpc>>
  BY DEF PurgeExpired
<1>2. /\ DOMAIN log' \subseteq DOMAIN log
      /\ \A i \in DOMAIN log' : log'[i] = log[i]
      /\ \A i \in DOMAIN log : i \in DOMAIN log' \/ i <= commitLog
      /\ \A i \in DOMAIN log', j \in DOMAIN log : i <= j => j \in DOMAIN log'
      /\ lastID' = lastID
  BY PurgeEffect
<1>3. ASSUME NEW d, NEW s, NEW c \in Nat, commitLog <= c, Repairs(d, s, log, c, lastID)
      PROVE  Repairs(d, s, log', c, lastID)
  <2>1. ASSUME NEW j \in DOMAIN log, c < j, j <= lastID
        PROVE  j \in DOMAIN log' /\ log'[j] = log[j]
    <3>1. j \in Nat /\ c \in Nat /\ commitLog \in Nat
      BY <1>0, <1>3
    <3>2. ~(j <= commitLog)
      BY <1>3, <2>1, <3>1
    <3> QED
      BY <1>2, <3>2
  <2> QED
    BY <1>0, <1>3, <2>1, RepairsGrow
<1>4. HistoryInv'
  <2> SUFFICES ASSUME Whole
               PROVE  /\ base <= commitID
                      /\ lastID = 0 => commitID = Oldest
                      /\ \A j \in Oldest + 1..lastID :
                            j \in DOMAIN log' /\ want[j] = Replay(want[j - 1], log'[j])
                      /\ \A c \in Oldest..commitID : Repairs(db, want[c], log', c, lastID)
                      /\ \A w \in Writers : wpc[w] = "committed"
                            => Repairs(db, want[commitID + 1], log', commitID + 1, lastID)
                      /\ rpc = "update"
                            => Repairs(db, want[commitID + 1], log', commitID + 1, lastID)
    BY <1>1, <1>2 DEF HistoryInv, Whole, Recovers, Oldest
  <2>1. commitLog <= Oldest /\ Oldest \in Nat /\ commitLog <= commitID
    BY <1>0 DEF Oldest, MaxID, IdInv
  <2>2. \A j \in Oldest + 1..lastID :
           j \in DOMAIN log' /\ want[j] = Replay(want[j - 1], log'[j])
    <3> SUFFICES ASSUME NEW j \in Oldest + 1..lastID
                 PROVE  j \in DOMAIN log' /\ want[j] = Replay(want[j - 1], log'[j])
      OBVIOUS
    <3>1. j \in DOMAIN log /\ want[j] = Replay(want[j - 1], log[j]) /\ ~(j <= commitLog)
      BY <1>0, <2>1 DEF PastInv, HistoryInv
    <3> QED
      BY <1>2, <3>1
  <2>3. \A c \in Oldest..commitID : Repairs(db, want[c], log', c, lastID)
    BY <1>0, <1>3, <2>1 DEF PastInv, HistoryInv, Recovers
  <2>4. Repairs(db, want[commitID + 1], log, commitID + 1, lastID)
           => Repairs(db, want[commitID + 1], log', commitID + 1, lastID)
    BY <1>0, <1>3, <2>1
  <2> QED
    BY <2>2, <2>3, <2>4 DEF PastInv, HistoryInv, Recovers
<1>5. DumpInv'
  <2>1. NextID' = NextID
    BY <1>1, <1>2 DEF NextID
  <2>2. lastID <= NextID - 1 /\ NextID \in Nat
    BY <1>0 DEF NextID, MaxID
  <2> HIDE DEF NextID
  <2>3. ASSUME Whole, dstate = "taken", did + 1..NextID - 1 \subseteq DOMAIN log'
        PROVE  Repairs(ddb, want[did], log', did, lastID)
    <3>1. Repairs(ddb, want[did], log, did, lastID)
      BY <1>2, <2>3 DEF PastInv, DumpInv, DumpSound, Recovers
    <3>2. ASSUME NEW j \in DOMAIN log, did < j, j <= lastID
          PROVE  j \in DOMAIN log' /\ log'[j] = log[j]
      <4>1. j \in Nat /\ did \in Nat /\ lastID \in Nat
        BY <1>0
      <4>2. j \in did + 1..NextID - 1
        BY <2>2, <3>2, <4>1
      <4> QED
        BY <1>2, <2>3, <4>2
    <3> QED
      BY <1>0, <3>1, <3>2, RepairsGrow
  <2> QED
    BY <1>1, <1>2, <2>1, <2>3 DEF PastInv, DumpInv, DumpSound, Recovers, Whole
<1>6. AckedLogged'
  BY <1>1, <1>2 DEF PastInv, AckedLogged
<1>7. LogContiguous'
  <2> SUFFICES ASSUME Whole, NEW i \in DOMAIN log', NEW j \in i..lastID PROVE j \in DOMAIN log'
    BY <1>1, <1>2 DEF LogContiguous, Whole
  <2>1. i \in DOMAIN log /\ i \in Nat /\ j \in DOMAIN log /\ i <= j
    BY <1>0, <1>2 DEF PastInv, LogContiguous
  <2> QED
    BY <1>2, <2>1
<1> QED
  BY <1>4, <1>5, <1>6, <1>7 DEF PastInv

\* After a crash the commit id on disk is where the replay starts.
LEMMA CrashPast ==
    ASSUME TypeOK, LockInv, IdInv, CommitInv, PastInv, Crash
    PROVE  PastInv'
<1>0. /\ commitID \in Nat /\ commitLog \in Nat /\ lastID \in Nat /\ base \in Nat /\ did \in Nat
      /\ commitLog <= commitID
  BY IdTypes DEF IdInv
<1>1. /\ commitID' = commitLog /\ UNCHANGED <<commitLog, db>>
      /\ wpc' = [w \in Writers |-> "idle"] /\ rpc' = "idle" /\ xpc' = "idle"
  BY DEF Crash, Reopen
<1>2. CASE ClearLog /\ history' = "torn"
  BY <1>1, <1>2
     DEF ClearLog, PastInv, HistoryInv, DumpInv, DumpSound, AckedLogged, LogContiguous, Whole
<1>3. CASE /\ history' = IF commitLog < base THEN "torn" ELSE history
           /\ UNCHANGED <<log, lastID, want, base, acked, dumpVars>>
  <2>1. Whole' => Whole /\ base <= commitLog
    BY <1>0, <1>3 DEF Whole
  <2>2. Whole' => Oldest = commitLog /\ Oldest' = commitLog
    BY <1>0, <1>1, <1>3, <2>1 DEF Oldest, MaxID
  <2>3. HistoryInv'
    <3> SUFFICES ASSUME Whole'
                 PROVE  /\ base <= commitLog
                        /\ \A j \in commitLog + 1..lastID :
                              j \in DOMAIN log /\ want[j] = Replay(want[j - 1], log[j])
                        /\ \A c \in commitLog..commitLog : Recovers(db, c)
      BY <1>1, <1>3, <2>2 DEF HistoryInv, Recovers
    <3> QED
      BY <1>0, <2>1, <2>2 DEF PastInv, HistoryInv
  <2>4. Whole' => NextID' = NextID
    <3>1. Whole => commitID <= lastID \/ (lastID = 0 /\ commitID = Oldest)
      BY DEF IdInv, PastInv, HistoryInv
    <3> QED
      BY <1>0, <1>1, <1>3, <2>1, <2>2, <3>1 DEF NextID, MaxID
  <2>5. DumpInv'
    <3> HIDE DEF NextID
    <3> QED
      BY <1>1, <1>3, <2>1, <2>4 DEF PastInv, DumpInv, DumpSound, Recovers
  <2>6. AckedLogged' /\ LogContiguous'
    BY <1>1, <1>3, <2>1 DEF PastInv, AckedLogged, LogContiguous
  <2> QED
    BY <2>3, <2>5, <2>6 DEF PastInv
<1> QED
  BY <1>2, <1>3 DEF Crash

\* The ticks, a clean restart and a crash keep the history.
LEMMA RestartPast ==
    ASSUME StoreName = "file", TypeOK, LockInv, IdInv, CommitInv, PastInv,
           SyncCommitID \/ PurgeExpired \/ Close \/ Crash
    PROVE  PastInv'
<1>1. CASE SyncCommitID
  BY <1>1, AdvanceStep DEF SyncCommitID
<1>2. CASE PurgeExpired
  BY <1>2, PurgePast
<1>3. CASE Close
  <2>1. /\ UNCHANGED <<log, lastID, commitID, db, auxVars>> /\ commitLog' = commitID
        /\ wpc' = [w \in Writers |-> "idle"] /\ rpc' = "idle" /\ xpc' = "idle"
    BY <1>3 DEF Close, Reopen
  <2> QED
    BY <2>1, AdvanceStep
<1>4. CASE Crash
  BY <1>4, CrashPast
<1> QED
  BY <1>1, <1>2, <1>3, <1>4
-----------------------------------------------------------------------------
(* The theorems.                                                            *)

\* A node that has never been opened satisfies the inductive invariant.
LEMMA InitInv == Init => IndInv
<1> SUFFICES ASSUME Init PROVE IndInv
  OBVIOUS
<1>1. TypeOK
  BY InitType
<1>2. LockInv
  BY WritersAssumption DEF Init, LockInv
<1>3. InputInv /\ IdInv /\ CommitInv
  <2>1. InputInv
    BY DEF Init, InputInv
  <2>2. IdInv
    BY DEF Init, IdInv
  <2>3. CommitInv
    BY DEF Init, CommitInv
  <2> QED
    BY <2>1, <2>2, <2>3
<1>4. /\ DOMAIN log = {} /\ lastID = 0 /\ commitID = 0 /\ MaxID(commitLog, base) = 0
      /\ db = Empty /\ want[0] = Empty /\ base = 0 /\ acked = {} /\ dstate = "none"
      /\ rpc = "idle" /\ \A w \in Writers : wpc[w] = "idle"
  BY BoundsAssumption DEF Init, MaxID
<1>5. Repairs(db, want[0], log, 0, 0)
  BY <1>4, RepairsSame
<1>6. HistoryInv
  BY <1>4, <1>5 DEF HistoryInv, Oldest, Recovers
<1>7. DumpInv /\ AckedLogged /\ LogContiguous
  BY <1>4 DEF DumpInv, DumpSound, AckedLogged, LogContiguous
<1> QED
  BY <1>1, <1>2, <1>3, <1>6, <1>7 DEF IndInv

\* Every step of a node keeps the inductive invariant.
LEMMA NextInv ==
    ASSUME StoreName = "file", IndInv, [Next]_vars
    PROVE  IndInv'
<1>0. TypeOK /\ LockInv /\ InputInv /\ IdInv /\ CommitInv /\ PastInv
  BY DEF IndInv, PastInv
<1>1. TypeOK' /\ InputInv'
  BY <1>0, NextType, NextInput
<1>2. CASE UNCHANGED vars
  <2>1. LockInv' /\ IdInv' /\ CommitInv'
    BY <1>0, <1>2 DEF vars, LockInv, IdInv, CommitInv, Whole
  <2>2. PastInv'
    BY <1>0, <1>2, QuietStep DEF vars
  <2> QED
    BY <1>1, <2>1, <2>2 DEF IndInv, PastInv
<1>3. CASE Next
  <2>1. LockInv'
    BY <1>0, <1>3, WriteLocks, ReplicationLocks, SlaveLocks, ExclusiveLocks, RestartLocks
       DEF Next
  <2>2. IdInv' /\ CommitInv'
    BY <1>0, <1>3, WriteIds, ReplicationIds, SlaveIds, ExclusiveIds, RestartIds DEF Next
  <2>3. PastInv'
    BY <1>0, <1>3, WritePast, ReplicationPast, SlavePast, ExclusivePast, RestartPast DEF Next
  <2> QED
    BY <1>1, <2>1, <2>2, <2>3 DEF IndInv, PastInv
<1> QED
  BY <1>2, <1>3

\* The inductive invariant holds in every reachable state of a node with the
\* file store: locks, ids, the log being committed, and the history agree.
THEOREM Invariance ==
    ASSUME StoreName = "file"
    PROVE  Spec => []IndInv
<1>1. Init => IndInv
  BY InitInv
<1>2. IndInv /\ [Next]_vars => IndInv'
  BY NextInv
<1> QED
  BY <1>1, <1>2, PTL DEF Spec

\* Whenever no log waits to be committed, the store holds what the logs give:
\* replays, restarts and concurrent commits lose, repeat and reorder nothing.
THEOREM CommittedStateHolds ==
    ASSUME StoreName = "file"
    PROVE  Spec => []CommittedState
<1>1. IndInv => CommittedState
  <2> SUFFICES ASSUME IndInv, Whole, ~Behind PROVE db = want[commitID]
    BY DEF CommittedState
  <2>1. /\ commitID \in 0..MaxLog /\ commitLog \in Nat /\ lastID \in Nat /\ base \in Nat
        /\ db \in DBs /\ want[commitID] \in DBs /\ lastID <= commitID /\ MaxLog \in Nat
    BY IdTypes DEF IndInv, Behind
  <2>2. commitID \in Oldest..commitID
    <3>1. base <= commitID /\ commitLog <= commitID
      BY DEF IndInv, HistoryInv, IdInv
    <3> QED
      BY <2>1, <3>1 DEF Oldest, MaxID
  <2>3. Repairs(db, want[commitID], log, commitID, lastID)
    BY <2>2 DEF IndInv, HistoryInv, Recovers
  <2> QED
    BY <2>1, <2>3, RepairsNothing
<1> QED
  BY <1>1, Invariance, PTL

\* A crash at any moment is repaired by the replay from the commit id on disk.
THEOREM RecoverableHolds ==
    ASSUME StoreName = "file"
    PROVE  Spec => []Recoverable
<1>1. IndInv => Recoverable
  <2> SUFFICES ASSUME IndInv, Whole, base <= commitLog
               PROVE  commitLog + 1..lastID \subseteq DOMAIN log /\ Recovers(db, commitLog)
    BY DEF Recoverable
  <2>1. /\ commitID \in Nat /\ commitLog \in Nat /\ lastID \in Nat /\ base \in Nat
        /\ commitLog <= commitID
    BY IdTypes DEF IndInv, IdInv
  <2>2. Oldest = commitLog
    BY <2>1 DEF Oldest, MaxID
  <2> QED
    BY <2>1, <2>2 DEF IndInv, HistoryInv
<1> QED
  BY <1>1, Invariance, PTL

\* A write that was acknowledged survives a crash, and a dump serves a slave.
THEOREM AckedAndDumps ==
    ASSUME StoreName = "file"
    PROVE  Spec => [](AckedLogged /\ DumpSound /\ LogContiguous)
<1>1. IndInv => AckedLogged /\ DumpSound /\ LogContiguous
  BY DEF IndInv, DumpInv
<1> QED
  BY <1>1, Invariance, PTL

\* A write that was acknowledged has its log, committed or not.
THEOREM AckedLoggedHolds ==
    ASSUME StoreName = "file"
    PROVE  Spec => []AckedLogged
BY AckedAndDumps, PTL

\* The ids of the stored logs have no gap.
THEOREM LogContiguousHolds ==
    ASSUME StoreName = "file"
    PROVE  Spec => []LogContiguous
BY AckedAndDumps, PTL

\* The log that the replication thread asks for next is there, and the log
\* store takes the log that comes next.
THEOREM LogsGoOn ==
    ASSUME StoreName = "file"
    PROVE  Spec => [](ReplayPossible /\ NextLogAccepted)
<1>1. IndInv => ReplayPossible /\ NextLogAccepted
  <2> SUFFICES ASSUME IndInv, Whole
               PROVE  (Behind => commitID + 1 \in DOMAIN log) /\ Accepts(NextID)
    BY DEF ReplayPossible, NextLogAccepted
  <2>1. /\ commitID \in Nat /\ commitLog \in Nat /\ lastID \in Nat /\ base \in Nat
        /\ commitLog <= commitID /\ base <= commitID /\ wlast \in {0, lastID}
        /\ (lastID = 0 \/ commitID <= lastID)
    <3>1. /\ commitID \in Nat /\ commitLog \in Nat /\ lastID \in Nat /\ base \in Nat
      BY IdTypes DEF IndInv
    <3>2. base <= commitID
      BY DEF IndInv, HistoryInv
    <3>3. /\ commitLog <= commitID /\ wlast \in {0, lastID}
          /\ (lastID = 0 \/ commitID <= lastID)
      BY DEF IndInv, IdInv
    <3> QED
      BY <3>1, <3>2, <3>3
  <2>2. Oldest \in Nat /\ Oldest <= commitID
    BY <2>1 DEF Oldest, MaxID
  <2>3. Behind => commitID + 1 \in DOMAIN log
    BY <2>1, <2>2 DEF IndInv, HistoryInv, Behind
  <2>4. Accepts(NextID)
    BY <2>1 DEF Accepts, NextID, MaxID
  <2> QED
    BY <2>3, <2>4
<1> QED
  BY <1>1, Invariance, PTL

\* The file store takes the log that a writer or the master sends next.
THEOREM NextLogAcceptedHolds ==
    ASSUME StoreName = "file"
    PROVE  Spec => []NextLogAccepted
BY LogsGoOn, PTL

\* No step changes a log that is stored: two goroutines never store different
\* logs under one id, even while SLAVEOF and writers race.
THEOREM LogsWrittenOnce ==
    ASSUME StoreName = "file"
    PROVE  Spec => LogWrittenOnce
<1>1. IndInv /\ [Next]_vars => [\A i \in DOMAIN log \cap DOMAIN log' : log'[i] = log[i]]_vars
  <2> SUFFICES ASSUME IndInv, Next
               PROVE  \A i \in DOMAIN log \cap DOMAIN log' : log'[i] = log[i]
    OBVIOUS
  <2>0. TypeOK /\ IdInv
    BY DEF IndInv
  <2>1. ASSUME NEW w \in Writers, Log(w)
        PROVE  \A i \in DOMAIN log \cap DOMAIN log' : log'[i] = log[i]
    BY <2>0, <2>1, LogEffect
  <2>2. CASE FeedStore
    BY <2>0, <2>2, FeedEffect
  <2>3. CASE PurgeExpired
    BY <2>0, <2>3, PurgeEffect
  <2>4. CASE FlushClear \/ FlushFails \/ Close \/ Crash
    BY <2>4 DEF FlushClear, FlushFails, Close, Crash, ClearLog
  <2>5. CASE \/ Replication \/ Opening \/ SlaveOf \/ SlaveOfNoOne \/ FeedSync
             \/ FeedFails \/ FeedDone \/ FlushAll \/ LoadDump \/ DumpHead \/ FlushDelete
             \/ LoadKeys \/ LoadUpdate \/ LoadFails \/ DumpSnapshot \/ SyncCommitID
    <3>1. UNCHANGED log
      BY <2>5 DEF Replication, ReplWake, ReplLock, ReplNext, ReplStop, ReplCommit, ReplUpdate,
                  Opening, WaitNotice, WaitDone, WaitCheck, SlaveOf, SlaveOfNoOne, FeedSync,
                  FeedFails, FeedDone, FlushAll, LoadDump, DumpHead, FlushDelete, LoadKeys,
                  LoadUpdate, LoadFails, DumpSnapshot, SyncCommitID
    <3> QED
      BY <3>1
  <2>6. ASSUME NEW w \in Writers, Lock(w) \/ Write(w), ~Log(w)
        PROVE  UNCHANGED log
    BY <2>6 DEF Lock, Write, Unlock, Commit, LogFails, StoreCommit, CommitDone, Notice
  <2> QED
    BY <2>1, <2>2, <2>3, <2>4, <2>5, <2>6 DEF Next, Feeder, Exclusive
<1> QED
  BY <1>1, Invariance, PTL DEF Spec, LogWrittenOnce
=============================================================================
