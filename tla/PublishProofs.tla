---------------------------- MODULE PublishProofs ----------------------------
(***************************************************************************)
(* What the master knows of its slaves is true, and a publication that     *)
(* counts its acknowledgements has a slave that stores the log, for any    *)
(* number of slaves and logs and any limit of acknowledgements.            *)
(***************************************************************************)
EXTENDS Publish, FiniteSetTheorems, TLAPS

----------------------------------------------------------------------------
(* The inductive invariant *)

\* What a connection has been asked for is also no more than its slave has.
KnownInv ==
    /\ LastLogTruthful
    /\ \A c \in Conns : conn[c].ask <= has[Addr(c)]

\* A goroutine that still counts has a slave left to hear of, and one that
\* counted an acknowledgement has a slave that stores its log.
WaiterInv ==
    \A i \in Logs :
        /\ waiter[i].st \in {"busy", "recv"} => waiter[i].left > 0
        /\ waiter[i].n > 0 => \E a \in Slaves : has[a] >= i

\* The writer publishes a log, and what it waits for is a log's goroutine.
WriterInv == pub # "idle" => last \in Logs

PublishInv == TypeOK /\ KnownInv /\ WaiterInv /\ WriterInv /\ AckedStored

Waiter == [st: {"none", "busy", "recv", "done"}, left: Nat, n: Nat, total: Nat]

----------------------------------------------------------------------------
(* Facts about the operators *)

\* The number of registered slaves that a publication sees is a number.
LEMMA SlaveCounts ==
    /\ Cardinality(Registered) \in Nat
    /\ Cardinality(Owners) \in Nat
    /\ Cardinality(Owners) > 0 => \E a \in Slaves : a \in Owners
<1>1. Registered \subseteq Slaves /\ Owners \subseteq Slaves
  BY DEF Registered, Owners
<1>2. IsFiniteSet(Registered) /\ IsFiniteSet(Owners)
  BY <1>1, PublishAssumption, FS_Subset
<1>3. Cardinality(Registered) \in Nat /\ Cardinality(Owners) \in Nat
  BY <1>2, FS_CardinalityType
<1>4. Cardinality(Owners) > 0 => Owners # {}
  BY FS_EmptySet
<1> QED
  BY <1>1, <1>3, <1>4

\* A publication that does not end at once has slaves to wait for.
LEMMA TotalBound ==
    ASSUME NEW n \in Nat
    PROVE  Total(n) \in Nat /\ (Total(n) > 0 => n > 0)
<1>1. (n + 1) \div 2 \in Nat /\ ((n + 1) \div 2 > 0 => n > 0)
  OBVIOUS
<1> QED
  BY <1>1, PublishAssumption DEF Total

\* An acknowledgement for a log that a slave stores keeps the count honest.
LEMMA ReceiveKeeps ==
    ASSUME TypeOK, WaiterInv,
           NEW i \in Logs, waiter[i].st = "recv",
           NEW a \in Slaves, NEW id \in Nat, id <= has[a],
           Receive(i, id)
    PROVE  /\ waiter' \in [Logs -> Waiter]
           /\ \A j \in Logs :
                /\ waiter'[j].st \in {"busy", "recv"} => waiter'[j].left > 0
                /\ waiter'[j].n > 0 => \E b \in Slaves : has[b] >= j
<1> DEFINE w == waiter[i]
           k == IF id < i THEN w.n ELSE w.n + 1
           new == [w EXCEPT !.n = k, !.left = @ - 1,
                            !.st = IF (id >= i /\ k >= w.total) \/ w.left = 1
                                   THEN "done" ELSE "busy"]
<1>1. w \in Waiter /\ w.left > 0 /\ (w.n > 0 => \E b \in Slaves : has[b] >= i)
  BY DEF TypeOK, WaiterInv, Waiter
<1>2. i \in Nat /\ has[a] \in Nat
  BY PublishAssumption DEF Logs, TypeOK
<1>3. k \in Nat /\ w.left - 1 \in Nat
  BY <1>1 DEF Waiter
<1>4. /\ new \in Waiter /\ new.n = k /\ new.left = w.left - 1
      /\ new.st = (IF (id >= i /\ k >= w.total) \/ w.left = 1 THEN "done" ELSE "busy")
  BY <1>1, <1>3 DEF Waiter
<1>5. new.st \in {"busy", "recv"} => new.left > 0
  BY <1>1, <1>4 DEF Waiter
<1>6. k > 0 => \E b \in Slaves : has[b] >= i
  BY <1>1, <1>2
<1>7. waiter' = [waiter EXCEPT ![i] = new]
  BY DEF Receive
<1>8. waiter \in [Logs -> Waiter]
  BY DEF TypeOK, Waiter
<1> HIDE DEF new, k
<1>9. /\ waiter' \in [Logs -> Waiter]
      /\ waiter'[i] = new
      /\ \A j \in Logs : j # i => waiter'[j] = waiter[j]
  BY <1>4, <1>7, <1>8
<1> QED
  BY <1>4, <1>5, <1>6, <1>9 DEF WaiterInv

\* The same for asyncNotifyUint64, which may find nobody.
LEMMA NotifyKeeps ==
    ASSUME TypeOK, WaiterInv,
           NEW a \in Slaves, NEW id \in Nat, id <= has[a],
           Notify(id)
    PROVE  /\ waiter' \in [Logs -> Waiter]
           /\ \A j \in Logs :
                /\ waiter'[j].st \in {"busy", "recv"} => waiter'[j].left > 0
                /\ waiter'[j].n > 0 => \E b \in Slaves : has[b] >= j
<1>1. CASE \E i \in Logs : waiter[i].st = "recv"
  <2>1. PICK i \in Logs : waiter[i].st = "recv" /\ Receive(i, id)
    BY <1>1 DEF Notify
  <2> QED
    BY <2>1, ReceiveKeeps
<1>2. CASE ~\E i \in Logs : waiter[i].st = "recv"
  <2>1. waiter' = waiter
    BY <1>2 DEF Notify
  <2> QED
    BY <2>1 DEF TypeOK, WaiterInv, Waiter
<1> QED
  BY <1>1, <1>2

----------------------------------------------------------------------------
(* The steps *)

\* At the start no slave is known and no log written.
LEMMA PublishInit == Init => PublishInv
<1> SUFFICES ASSUME Init PROVE PublishInv
  OBVIOUS
<1>1. TypeOK
  BY DEF Init, TypeOK, Closed, NoWaiter, NoResult, Connection
<1>2. KnownInv
  BY DEF Init, KnownInv, LastLogTruthful, Closed, Conns, Addr
<1>3. WaiterInv /\ WriterInv /\ AckedStored
  BY DEF Init, WaiterInv, WriterInv, AckedStored, NoWaiter, NoResult
<1> QED
  BY <1>1, <1>2, <1>3 DEF PublishInv

\* The address of a connection is a slave.
LEMMA AddrType == \A c \in Conns : Addr(c) \in Slaves
BY DEF Conns, Addr

\* The writer stores a log.
LEMMA StoreLogKeeps == PublishInv /\ StoreLog => PublishInv'
<1> SUFFICES ASSUME PublishInv, StoreLog PROVE PublishInv'
  OBVIOUS
<1>1. TypeOK'
  BY DEF PublishInv, TypeOK, StoreLog, NoResult
<1>2. KnownInv'
  BY DEF PublishInv, TypeOK, KnownInv, LastLogTruthful, StoreLog
<1>3. WaiterInv' /\ AckedStored'
  BY DEF PublishInv, WaiterInv, AckedStored, StoreLog, NoResult
<1>4. WriterInv'
  BY PublishAssumption DEF PublishInv, TypeOK, WriterInv, StoreLog, Logs
<1> QED
  BY <1>1, <1>2, <1>3, <1>4 DEF PublishInv

\* publishNewLog ends at once only with owners, or has slaves to wait for.
LEMMA PublishNewLogKeeps == PublishInv /\ publishNewLog => PublishInv'
<1> SUFFICES ASSUME PublishInv, publishNewLog PROVE PublishInv'
  OBVIOUS
<1> DEFINE slaveNum == Cardinality(Registered)
           total == Total(slaveNum)
           w == [st |-> "busy", left |-> slaveNum, n |-> 0, total |-> total]
<1>1. slaveNum \in Nat /\ total \in Nat /\ (total > 0 => slaveNum > 0)
  BY SlaveCounts, TotalBound
<1>2. last \in Logs /\ last \in Nat
  BY DEF PublishInv, WriterInv, TypeOK, publishNewLog
<1>3. CASE Cardinality(Owners) >= total
  <2>1. /\ pub' = "idle"
        /\ result' = [how |-> "owned", id |-> last, total |-> total]
        /\ waiter' = waiter
        /\ UNCHANGED <<last, slaves, conn, cur, has>>
    BY <1>3 DEF publishNewLog
  <2>2. TypeOK'
    BY <1>1, <1>2, <2>1 DEF PublishInv, TypeOK
  <2>3. KnownInv' /\ WaiterInv' /\ WriterInv'
    BY <2>1 DEF PublishInv, KnownInv, LastLogTruthful, WaiterInv, WriterInv
  <2>4. total > 0 => \E a \in Slaves : has[a] >= last
    <3> SUFFICES ASSUME total > 0 PROVE \E a \in Slaves : has[a] >= last
      OBVIOUS
    <3>1. PICK a \in Slaves : a \in Owners
      BY <1>1, <1>3, SlaveCounts
    <3>2. slaves[a] \in Conns /\ conn[slaves[a]].lastLogID = last
      BY <3>1 DEF Owners, Registered, PublishInv, TypeOK
    <3>3. last <= has[Addr(slaves[a])]
      BY <3>2 DEF PublishInv, KnownInv, LastLogTruthful
    <3>4. Addr(slaves[a]) \in Slaves
      BY <3>2, AddrType
    <3>5. has[Addr(slaves[a])] \in Nat
      BY <3>4 DEF PublishInv, TypeOK
    <3> QED
      BY <1>2, <3>3, <3>4, <3>5
  <2>5. AckedStored'
    BY <2>1, <2>4 DEF AckedStored
  <2> QED
    BY <2>2, <2>3, <2>5 DEF PublishInv
<1>4. CASE ~(Cardinality(Owners) >= total)
  <2>1. /\ pub' = "wait"
        /\ waiter' = [waiter EXCEPT ![last] = w]
        /\ UNCHANGED <<last, slaves, conn, cur, has, result>>
    BY <1>4 DEF publishNewLog
  <2>2. slaveNum > 0
    BY <1>1, <1>4, SlaveCounts
  <2>3. w \in Waiter
    BY <1>1 DEF Waiter
  <2>4. waiter \in [Logs -> Waiter]
    BY DEF PublishInv, TypeOK, Waiter
  <2>5. /\ waiter' \in [Logs -> Waiter]
        /\ waiter'[last] = w
        /\ \A j \in Logs : j # last => waiter'[j] = waiter[j]
    BY <1>2, <2>1, <2>3, <2>4
  <2>6. TypeOK'
    BY <2>1, <2>5 DEF PublishInv, TypeOK, Waiter
  <2>7. KnownInv' /\ AckedStored'
    BY <2>1 DEF PublishInv, KnownInv, LastLogTruthful, AckedStored
  <2>8. WriterInv'
    BY <1>2, <2>1 DEF WriterInv
  <2>9. WaiterInv'
    BY <2>1, <2>2, <2>5 DEF PublishInv, WaiterInv
  <2> QED
    BY <2>6, <2>7, <2>8, <2>9 DEF PublishInv
<1> QED
  BY <1>3, <1>4

\* The wait ends, with its count or by the timeout.
LEMMA PublishEndKeeps == PublishInv /\ (PublishDone \/ PublishTimeout) => PublishInv'
<1> SUFFICES ASSUME PublishInv, PublishDone \/ PublishTimeout PROVE PublishInv'
  OBVIOUS
<1> DEFINE w == waiter[last]
<1>1. /\ pub' = "idle"
      /\ UNCHANGED <<last, waiter, slaves, conn, cur, has>>
      /\ result'.id = last /\ result'.total = w.total
      /\ result' \in [how: {"none", "owned", "acks", "slots", "timeout"},
                      id: {last}, total: {w.total}]
      /\ result'.how = "acks" => w.n >= w.total
      /\ result'.how # "owned"
  BY DEF PublishDone, PublishTimeout
<1>2. last \in Logs /\ last \in Nat /\ w \in Waiter
  BY DEF PublishInv, WriterInv, TypeOK, PublishDone, PublishTimeout, Waiter
<1>3. TypeOK'
  <2>1. w.total \in Nat
    BY <1>2 DEF Waiter
  <2> QED
    BY <1>1, <1>2, <2>1 DEF PublishInv, TypeOK
<1>4. KnownInv' /\ WaiterInv' /\ WriterInv'
  BY <1>1 DEF PublishInv, KnownInv, LastLogTruthful, WaiterInv, WriterInv
<1>5. AckedStored'
  BY <1>1, <1>2 DEF AckedStored, PublishInv, WaiterInv, Waiter
<1> QED
  BY <1>3, <1>4, <1>5 DEF PublishInv

\* A goroutine goes back to its channel.
LEMMA WaiterReadyKeeps ==
    ASSUME NEW i \in Logs, PublishInv, WaiterReady(i)
    PROVE  PublishInv'
<1>1. /\ waiter' = [waiter EXCEPT ![i].st = "recv"] /\ waiter[i].st = "busy"
      /\ UNCHANGED <<last, pub, slaves, conn, cur, has, result>>
  BY DEF WaiterReady
<1>2. waiter \in [Logs -> Waiter]
  BY DEF PublishInv, TypeOK, Waiter
<1>3. /\ waiter' \in [Logs -> Waiter]
      /\ waiter'[i].left = waiter[i].left /\ waiter'[i].n = waiter[i].n
      /\ \A j \in Logs : j # i => waiter'[j] = waiter[j]
  BY <1>1, <1>2 DEF Waiter
<1>4. TypeOK'
  BY <1>1, <1>3 DEF PublishInv, TypeOK, Waiter
<1>5. KnownInv' /\ AckedStored' /\ WriterInv'
  BY <1>1 DEF PublishInv, KnownInv, LastLogTruthful, AckedStored, WriterInv
<1>6. WaiterInv'
  BY <1>1, <1>3 DEF PublishInv, WaiterInv
<1> QED
  BY <1>4, <1>5, <1>6 DEF PublishInv

\* A slave registers, or asks for logs.
LEMMA AskKeeps ==
    ASSUME NEW c \in Conns, PublishInv, Replconf(c) \/ SyncStat(c)
    PROVE  PublishInv'
<1> DEFINE a == Addr(c)
<1>1. a \in Slaves /\ has[a] \in Nat /\ last \in Nat
  BY AddrType DEF PublishInv, TypeOK
<1>2. conn \in [Conns -> Connection]
  BY DEF PublishInv, TypeOK
<1>3. /\ UNCHANGED <<last, pub, waiter, has, result>>
      /\ slaves' \in [Slaves -> Conns \cup {None}]
      /\ cur' \in [Slaves -> Conns \cup {None}]
  BY <1>1 DEF PublishInv, TypeOK, Replconf, SyncStat
<1>4. /\ conn' \in [Conns -> Connection]
      /\ conn'[c].lastLogID = conn[c].lastLogID
      /\ conn'[c].ask \in {conn[c].ask, has[a]}
      /\ \A d \in Conns : d # c => conn'[d] = conn[d]
  <2>1. CASE Replconf(c)
    BY <1>2, <2>1 DEF Replconf, Connection
  <2>2. CASE SyncStat(c)
    <3> DEFINE new == [conn[c] EXCEPT !.st = "stat", !.ask = has[a], !.stat = last]
    <3>1. conn' = [conn EXCEPT ![c] = new]
      BY <1>2, <2>2 DEF SyncStat, AskedFor
    <3>2. new \in Connection /\ new.lastLogID = conn[c].lastLogID /\ new.ask = has[a]
      BY <1>1, <1>2 DEF Connection
    <3> HIDE DEF new
    <3> QED
      BY <1>2, <3>1, <3>2
  <2> QED
    BY <2>1, <2>2
<1>5. TypeOK'
  BY <1>3, <1>4 DEF PublishInv, TypeOK
<1>6. WaiterInv' /\ WriterInv' /\ AckedStored'
  BY <1>3 DEF PublishInv, WaiterInv, WriterInv, AckedStored
<1>7. KnownInv'
  BY <1>1, <1>3, <1>4 DEF PublishInv, KnownInv, LastLogTruthful
<1> QED
  BY <1>5, <1>6, <1>7 DEF PublishInv

\* A slave's acknowledgement of what it asked for.
LEMMA SyncAckKeeps ==
    ASSUME NEW c \in Conns, PublishInv, SyncAck(c)
    PROVE  PublishInv'
<1> DEFINE new == [st |-> "read", lastLogID |-> conn[c].ask, ask |-> 0, stat |-> 0]
<1>1. Addr(c) \in Slaves /\ has[Addr(c)] \in Nat
  BY AddrType DEF PublishInv, TypeOK
<1>2. conn \in [Conns -> Connection] /\ conn[c].ask \in Nat /\ conn[c].ask <= has[Addr(c)]
  BY DEF PublishInv, TypeOK, Connection, KnownInv
<1>3. UNCHANGED <<last, pub, slaves, cur, has, result>> /\ conn' = [conn EXCEPT ![c] = new]
  BY DEF SyncAck
<1>4. new \in Connection
  BY <1>2 DEF Connection
<1>5. /\ conn' \in [Conns -> Connection] /\ conn'[c] = new
      /\ \A d \in Conns : d # c => conn'[d] = conn[d]
  BY <1>2, <1>3, <1>4
<1>6. /\ waiter' \in [Logs -> Waiter]
      /\ \A j \in Logs :
            /\ waiter'[j].st \in {"busy", "recv"} => waiter'[j].left > 0
            /\ waiter'[j].n > 0 => \E b \in Slaves : has[b] >= j
  <2>1. CASE Notify(conn[c].ask)
    BY <1>1, <1>2, <2>1, NotifyKeeps DEF PublishInv
  <2>2. CASE waiter' = waiter
    BY <2>2 DEF PublishInv, TypeOK, WaiterInv, Waiter
  <2> QED
    BY <2>1, <2>2 DEF SyncAck
<1>7. TypeOK'
  BY <1>3, <1>5, <1>6 DEF PublishInv, TypeOK, Waiter
<1>8. WaiterInv' /\ WriterInv' /\ AckedStored'
  BY <1>3, <1>6 DEF PublishInv, WaiterInv, WriterInv, AckedStored
<1>9. KnownInv'
  BY <1>1, <1>2, <1>3, <1>5 DEF PublishInv, KnownInv, LastLogTruthful
<1> QED
  BY <1>7, <1>8, <1>9 DEF PublishInv

\* The slave stores what it is sent: what it has only grows.
LEMMA SyncReplyKeeps ==
    ASSUME NEW c \in Conns, PublishInv, SyncReply(c)
    PROVE  PublishInv'
<1>1. /\ has \in [Slaves -> Nat] /\ last \in Nat /\ conn \in [Conns -> Connection]
      /\ waiter \in [Logs -> Waiter]
  BY DEF PublishInv, TypeOK, Waiter
<1>2. UNCHANGED <<last, pub, waiter, slaves, cur, result>>
  BY DEF SyncReply
<1>3. /\ has' \in [Slaves -> Nat]
      /\ \A a \in Slaves : has[a] <= has'[a] /\ has'[a] <= last
  BY <1>1, AddrType DEF SyncReply, PublishInv, KnownInv, LastLogTruthful
<1>4. /\ conn' \in [Conns -> Connection]
      /\ \A d \in Conns : conn'[d].lastLogID = conn[d].lastLogID /\ conn'[d].ask = conn[d].ask
  BY <1>1 DEF SyncReply, Connection
<1>5. TypeOK'
  BY <1>2, <1>3, <1>4 DEF PublishInv, TypeOK
<1>6. KnownInv'
  <2>1. ASSUME NEW d \in Conns
        PROVE  conn'[d].lastLogID <= has'[Addr(d)] /\ conn'[d].ask <= has'[Addr(d)]
    <3>1. /\ conn[d].lastLogID \in Nat /\ conn[d].ask \in Nat
          /\ Addr(d) \in Slaves
          /\ conn[d].lastLogID <= has[Addr(d)] /\ conn[d].ask <= has[Addr(d)]
      BY <1>1, AddrType DEF Connection, PublishInv, KnownInv, LastLogTruthful
    <3> QED
      BY <1>1, <1>3, <1>4, <3>1
  <2> QED
    BY <1>2, <1>3, <2>1 DEF KnownInv, LastLogTruthful
<1>7. \A i \in Nat : (\E a \in Slaves : has[a] >= i) => (\E a \in Slaves : has'[a] >= i)
  BY <1>1, <1>3
<1>8. WaiterInv'
  <2>1. Logs \subseteq Nat
    BY PublishAssumption DEF Logs
  <2> QED
    BY <1>2, <1>7, <2>1 DEF PublishInv, WaiterInv
<1>9. WriterInv' /\ AckedStored'
  <2>1. result.id \in Nat
    BY DEF PublishInv, TypeOK
  <2> QED
    BY <1>2, <1>7, <2>1 DEF PublishInv, WriterInv, AckedStored
<1> QED
  BY <1>5, <1>6, <1>8, <1>9 DEF PublishInv

\* A connection ends; its last acknowledgement still counts.
LEMMA RemoveSlaveKeeps ==
    ASSUME NEW c \in Conns, PublishInv, removeSlave(c)
    PROVE  PublishInv'
<1>1. Addr(c) \in Slaves /\ has[Addr(c)] \in Nat
  BY AddrType DEF PublishInv, TypeOK
<1>2. /\ conn \in [Conns -> Connection] /\ conn[c].lastLogID \in Nat
      /\ conn[c].lastLogID <= has[Addr(c)]
  BY DEF PublishInv, TypeOK, Connection, KnownInv, LastLogTruthful
<1>3. /\ UNCHANGED <<last, pub, has, result>>
      /\ slaves' \in [Slaves -> Conns \cup {None}]
      /\ cur' \in [Slaves -> Conns \cup {None}]
  BY <1>1 DEF removeSlave, PublishInv, TypeOK
<1>4. Closed \in Connection /\ conn' = [conn EXCEPT ![c] = Closed]
  BY DEF Closed, Connection, removeSlave
<1>5. /\ conn' \in [Conns -> Connection] /\ conn'[c] = Closed
      /\ \A d \in Conns : d # c => conn'[d] = conn[d]
  BY <1>2, <1>4
<1>6. /\ waiter' \in [Logs -> Waiter]
      /\ \A j \in Logs :
            /\ waiter'[j].st \in {"busy", "recv"} => waiter'[j].left > 0
            /\ waiter'[j].n > 0 => \E b \in Slaves : has[b] >= j
  <2>1. CASE Notify(conn[c].lastLogID)
    BY <1>1, <1>2, <2>1, NotifyKeeps DEF PublishInv
  <2>2. CASE waiter' = waiter
    BY <2>2 DEF PublishInv, TypeOK, WaiterInv, Waiter
  <2> QED
    BY <2>1, <2>2 DEF removeSlave
<1>7. TypeOK'
  BY <1>3, <1>5, <1>6 DEF PublishInv, TypeOK, Waiter
<1>8. WaiterInv' /\ WriterInv' /\ AckedStored'
  BY <1>3, <1>6 DEF PublishInv, WaiterInv, WriterInv, AckedStored
<1>9. KnownInv'
  BY <1>1, <1>3, <1>5 DEF PublishInv, KnownInv, LastLogTruthful, Closed
<1> QED
  BY <1>7, <1>8, <1>9 DEF PublishInv

----------------------------------------------------------------------------
(* The theorems *)

\* The invariant holds of every state of a master and its slaves.
LEMMA PublishInvariance == Spec => []PublishInv
<1>1. PublishInv /\ [Next]_vars => PublishInv'
  <2> SUFFICES ASSUME PublishInv, [Next]_vars PROVE PublishInv'
    OBVIOUS
  <2>1. CASE StoreLog
    BY <2>1, StoreLogKeeps
  <2>2. CASE publishNewLog
    BY <2>2, PublishNewLogKeeps
  <2>3. CASE PublishDone \/ PublishTimeout
    BY <2>3, PublishEndKeeps
  <2>4. ASSUME NEW i \in Logs, WaiterReady(i) PROVE PublishInv'
    BY <2>4, WaiterReadyKeeps
  <2>5. ASSUME NEW c \in Conns, Replconf(c) \/ SyncStat(c) PROVE PublishInv'
    BY <2>5, AskKeeps
  <2>6. ASSUME NEW c \in Conns, SyncAck(c) PROVE PublishInv'
    BY <2>6, SyncAckKeeps
  <2>7. ASSUME NEW c \in Conns, SyncReply(c) PROVE PublishInv'
    BY <2>7, SyncReplyKeeps
  <2>8. ASSUME NEW c \in Conns, removeSlave(c) PROVE PublishInv'
    BY <2>8, RemoveSlaveKeeps
  <2>9. CASE UNCHANGED vars
    BY <2>9 DEF vars, PublishInv, TypeOK, KnownInv, LastLogTruthful, WaiterInv, WriterInv,
                AckedStored
  <2> QED
    BY <2>1, <2>2, <2>3, <2>4, <2>5, <2>6, <2>7, <2>8, <2>9 DEF Next
<1> QED
  BY <1>1, PublishInit, PTL DEF Spec

\* The last log that the master has noted for a connection is one its slave
\* stores, and no slave is ahead of the master.
THEOREM LastLogTruthfulHolds == Spec => []LastLogTruthful
<1>1. PublishInv => LastLogTruthful
  BY DEF PublishInv, KnownInv
<1> QED
  BY <1>1, PublishInvariance, PTL

\* A publication that ends with its count has a slave that stores the log,
\* whatever acknowledgements came late, were lost or went to another log.
THEOREM AckedStoredHolds == Spec => []AckedStored
<1>1. PublishInv => AckedStored
  BY DEF PublishInv
<1> QED
  BY <1>1, PublishInvariance, PTL
=============================================================================
