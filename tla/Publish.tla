------------------------------- MODULE Publish -------------------------------
(***************************************************************************)
(* The master's side of synchronous replication (server/replication.go,    *)
(* server/cmd_replication.go): a writer stores a log and waits for slaves  *)
(* to own it, slaves come, ask for logs and go.  A writer holds the write  *)
(* lock, so one log at a time is published; the goroutine that counts the  *)
(* acknowledgements outlives a wait that times out.                        *)
(***************************************************************************)
EXTENDS Integers, FiniteSets

CONSTANTS
    Slaves,            \* the listening addresses of the slaves
    None,              \* no connection
    WaitMaxSlaveAcks,  \* 0 for no limit
    MaxLog,            \* bound: the logs written
    Closing,           \* TRUE: connections may end
    Reconnecting       \* TRUE: a slave may return before its old connection ends

ASSUME PublishAssumption ==
    /\ IsFiniteSet(Slaves)
    /\ None \notin Slaves \X {1, 2}
    /\ WaitMaxSlaveAcks \in Nat
    /\ MaxLog \in Nat

VARIABLES
    last,    \* the master's last log
    pub,     \* the publication under way
    waiter,  \* the goroutine that counts acknowledgements for a log
    slaves,  \* app.slaves: the connection registered for an address
    conn,    \* the connections as the master sees them
    cur,     \* the connection a slave uses
    has,     \* the last log a slave has stored
    result   \* how the last publication ended

vars == <<last, pub, waiter, slaves, conn, cur, has, result>>

\* A slave has at most one connection it has given up and one it uses.
Conns == Slaves \X {1, 2}
Addr(c) == c[1]
Logs == 1..MaxLog

Closed == [st |-> "closed", lastLogID |-> 0, ask |-> 0, stat |-> 0]
NoWaiter == [st |-> "none", left |-> 0, n |-> 0, total |-> 0]
NoResult == [how |-> "none", id |-> 0, total |-> 0]

Init ==
    /\ last = 0
    /\ pub = "idle"
    /\ waiter = [i \in Logs |-> NoWaiter]
    /\ slaves = [a \in Slaves |-> None]
    /\ conn = [c \in Conns |-> Closed]
    /\ cur = [a \in Slaves |-> None]
    /\ has = [a \in Slaves |-> 0]
    /\ result = NoResult

Registered == {a \in Slaves : slaves[a] # None}

----------------------------------------------------------------------------
(* The unbuffered channel slaveSyncAck *)

\* Mutant: every acknowledgement counts.
ReceiveAny(i, id) ==
    LET w == waiter[i]
        n == w.n + 1
    IN  waiter' = [waiter EXCEPT ![i] =
            [w EXCEPT !.n = n, !.left = @ - 1,
                      !.st = IF n >= w.total \/ w.left = 1 THEN "done" ELSE "busy"]]

\* The goroutine takes an acknowledgement and counts it unless it is for an
\* earlier log; it ends with enough of them, or after one for each slave.
Receive(i, id) ==
    LET w == waiter[i]
        n == IF id < i THEN w.n ELSE w.n + 1
    IN  waiter' = [waiter EXCEPT ![i] =
            [w EXCEPT !.n = n, !.left = @ - 1,
                      !.st = IF (id >= i /\ n >= w.total) \/ w.left = 1
                             THEN "done" ELSE "busy"]]

\* asyncNotifyUint64: some goroutine that waits gets it, otherwise it is lost.
Notify(id) ==
    IF \E i \in Logs : waiter[i].st = "recv"
    THEN \E i \in Logs : waiter[i].st = "recv" /\ Receive(i, id)
    ELSE UNCHANGED waiter

WaiterReady(i) ==
    /\ waiter[i].st = "busy"
    /\ waiter' = [waiter EXCEPT ![i].st = "recv"]
    /\ UNCHANGED <<last, pub, slaves, conn, cur, has, result>>

----------------------------------------------------------------------------
(* The writer *)

StoreLog ==
    /\ pub = "idle"
    /\ last < MaxLog
    /\ last' = last + 1
    /\ pub' = "stored"
    /\ result' = NoResult
    /\ UNCHANGED <<waiter, slaves, conn, cur, has>>

\* Half of the slaves, rounded up, within the limit
Total(slaveNum) ==
    LET half == (slaveNum + 1) \div 2 IN
    IF WaitMaxSlaveAcks > 0 /\ WaitMaxSlaveAcks < half THEN WaitMaxSlaveAcks ELSE half

\* The slaves that have asked for the log after this one
Owners == {a \in Registered : conn[slaves[a]].lastLogID = last}

publishNewLog ==
    /\ pub = "stored"
    /\ LET slaveNum == Cardinality(Registered)
           total    == Total(slaveNum)
       IN  IF Cardinality(Owners) >= total
           THEN /\ pub' = "idle"
                /\ result' = [how |-> "owned", id |-> last, total |-> total]
                /\ UNCHANGED waiter
           ELSE /\ pub' = "wait"
                /\ waiter' = [waiter EXCEPT ![last] =
                      [st |-> "busy", left |-> slaveNum, n |-> 0, total |-> total]]
                /\ UNCHANGED result
    /\ UNCHANGED <<last, slaves, conn, cur, has>>

PublishDone ==
    /\ pub = "wait"
    /\ waiter[last].st = "done"
    /\ pub' = "idle"
    /\ LET w == waiter[last] IN
       result' = [how   |-> IF w.n >= w.total THEN "acks" ELSE "slots",
                  id    |-> last,
                  total |-> w.total]
    /\ UNCHANGED <<last, waiter, slaves, conn, cur, has>>

PublishTimeout ==
    /\ pub = "wait"
    /\ pub' = "idle"
    /\ result' = [how |-> "timeout", id |-> last, total |-> waiter[last].total]
    /\ UNCHANGED <<last, waiter, slaves, conn, cur, has>>

----------------------------------------------------------------------------
(* The slaves' connections *)

\* REPLCONF: the address is the key, whatever connection it had.
Replconf(c) ==
    /\ conn[c] = Closed
    /\ cur[Addr(c)] # None => Reconnecting
    /\ conn' = [conn EXCEPT ![c].st = "idle"]
    /\ cur' = [cur EXCEPT ![Addr(c)] = c]
    /\ slaves' = [slaves EXCEPT ![Addr(c)] = c]
    /\ UNCHANGED <<last, pub, waiter, has, result>>

\* Mutant: SYNC n is taken as the last log the slave has.
AskedForOffByOne(a) == has[a] + 1

\* SYNC n, n one more than the last log of the slave: logId - 1
AskedFor(a) == has[a]

\* The statistics are read, and a log beyond them refused.
SyncStat(c) ==
    /\ conn[c].st = "idle"
    /\ cur[Addr(c)] = c
    /\ AskedFor(Addr(c)) <= last
    /\ conn' = [conn EXCEPT ![c].st = "stat", ![c].ask = AskedFor(Addr(c)), ![c].stat = last]
    /\ UNCHANGED <<last, pub, waiter, slaves, cur, has, result>>

\* A slave that is up to date by those statistics acknowledges.
SyncAck(c) ==
    /\ conn[c].st = "stat"
    /\ conn' = [conn EXCEPT ![c] = [st |-> "read", lastLogID |-> @.ask, ask |-> 0, stat |-> 0]]
    /\ IF conn[c].ask = conn[c].stat /\ Addr(c) \in Registered
       THEN Notify(conn[c].ask)
       ELSE UNCHANGED waiter
    /\ UNCHANGED <<last, pub, slaves, cur, has, result>>

\* The logs there are, none after a second's wait; the slave stores them.
SyncReply(c) ==
    /\ conn[c].st = "read"
    /\ conn' = [conn EXCEPT ![c].st = "idle"]
    /\ has' = IF cur[Addr(c)] = c THEN [has EXCEPT ![Addr(c)] = last] ELSE has
    /\ UNCHANGED <<last, pub, waiter, slaves, cur, result>>

\* The connection ends: whatever is registered for its address goes.
removeSlave(c) ==
    /\ Closing
    /\ conn[c].st # "closed"
    /\ conn' = [conn EXCEPT ![c] = Closed]
    /\ cur' = IF cur[Addr(c)] = c THEN [cur EXCEPT ![Addr(c)] = None] ELSE cur
    /\ IF Addr(c) \in Registered
       THEN /\ slaves' = [slaves EXCEPT ![Addr(c)] = None]
            /\ Notify(conn[c].lastLogID)
       ELSE UNCHANGED <<slaves, waiter>>
    /\ UNCHANGED <<last, pub, has, result>>

Next ==
    \/ StoreLog \/ publishNewLog \/ PublishDone \/ PublishTimeout
    \/ \E i \in Logs : WaiterReady(i)
    \/ \E c \in Conns : Replconf(c) \/ SyncStat(c) \/ SyncAck(c) \/ SyncReply(c)
                            \/ removeSlave(c)

Spec == Init /\ [][Next]_vars

----------------------------------------------------------------------------
(* Properties *)

Connection ==
    [st: {"closed", "idle", "stat", "read"},
     lastLogID: Nat, ask: Nat, stat: Nat]

\* Connections, registered slaves, publications and their outcomes are well formed.
TypeOK ==
    /\ last \in Nat
    /\ pub \in {"idle", "stored", "wait"}
    /\ waiter \in [Logs -> [st: {"none", "busy", "recv", "done"},
                            left: Nat, n: Nat, total: Nat]]
    /\ slaves \in [Slaves -> Conns \cup {None}]
    /\ conn \in [Conns -> Connection]
    /\ cur \in [Slaves -> Conns \cup {None}]
    /\ has \in [Slaves -> Nat]
    /\ result \in [how: {"none", "owned", "acks", "slots", "timeout"}, id: Nat, total: Nat]

\* The master never takes a slave to be further than it is, on any of its
\* connections, and no slave is ahead of the master: publishNewLog never meets
\* the "invalid slave" it logs.
LastLogTruthful ==
    /\ \A c \in Conns : conn[c].lastLogID <= has[Addr(c)]
    /\ \A a \in Slaves : has[a] <= last

\* A publication that ends with its count of acknowledgements, or because the
\* slaves had asked for more, has a slave that stores the log: late, lost,
\* stolen and repeated acknowledgements included, a failed master loses none
\* of the writes it acknowledged so.
AckedStored ==
    result.how \in {"owned", "acks"} /\ result.total > 0 =>
        \E a \in Slaves : has[a] >= result.id

\* As many slaves store the log as the publication waited for.
\* etc/ledis.conf: "If sync is true, wait at most min(wait_max_slave_acks,
\* (n + 1) / 2) to promise syncing ok."
EnoughOwners ==
    result.how \in {"owned", "acks"} =>
        Cardinality({a \in Slaves : has[a] >= result.id}) >= result.total

\* A publication that waited for slaves ends with one that stores the log, or
\* with the timeout.
\* doc/Replication.md: "Sends this log to slaves and waits the ACK from slaves or
\* timeout."
WaitsForAck ==
    result.how \notin {"none", "timeout"} /\ result.total > 0 =>
        \E a \in Slaves : has[a] >= result.id

\* A slave that is connected is among the slaves of the master.
\* doc/commands.md on ROLE: "An array about the slaves, each sub array contains
\* slave IP, port, and the last acknowledged replication binlog id."
ConnectedListed == \A a \in Slaves : cur[a] # None => a \in Registered
=============================================================================
