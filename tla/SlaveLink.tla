------------------------------ MODULE SlaveLink ------------------------------
(***************************************************************************)
(* The slave's side of replication (server/replication.go): the thread     *)
(* that connects to the master, loads a full dump when it must and asks    *)
(* for logs for ever, and the SLAVEOF command that stops it and starts it. *)
(* The thread reads m.conn without the lock under which SLAVEOF clears it. *)
(*                                                                         *)
(* The master is external: a log whose old part is purged, with dumps.     *)
(* The slave's replication thread is in module Ledis; here a log that is   *)
(* stored is applied.                                                      *)
(***************************************************************************)
EXTENDS Naturals, Sequences, SequencesExt, TLC

CONSTANTS
    Log,       \* the master's logs: <<"put", key>> or <<"del", key>>
    MaxFail,   \* bound: failures of the connection
    MaxCmd,    \* bound: SLAVEOF commands
    Crashes    \* TRUE: the process may die and come back

VARIABLES
    mfirst, mlast,   \* the first log the master still has, and its last
    mdump,           \* the commit id of the master's latest snapshot
    pc, conn, quit,  \* the thread, m.conn and m.quit
    restart,         \* the thread is to begin with a full sync
    then,            \* where the thread goes on after a full sync
    file,            \* master.dump
    lastID, commit,  \* the slave's last log and commit id
    data,            \* the slave's data: key to the log that put it
    slaveof, cmd,    \* cfg.SlaveOf is set, and the SLAVEOF under way
    fails, cmds      \* what the bounds leave

link == <<pc, conn, quit, restart, then, file>>
store == <<lastID, commit, data>>
master == <<mfirst, mlast, mdump>>
control == <<slaveof, cmd, fails, cmds>>
vars == <<link, store, master, control>>

Empty == [k \in {} |-> 0]
LogEnd == Len(Log)

Apply(d, i) ==
    IF Log[i][1] = "put" THEN (Log[i][2] :> i) @@ d
    ELSE [k \in DOMAIN d \ {Log[i][2]} |-> d[k]]

\* The data after the first i logs
DataAt[i \in 0..LogEnd] == IF i = 0 THEN Empty ELSE Apply(DataAt[i - 1], i)

\* A dump: the pairs in the order of their keys, and the commit id
DumpAt(i) ==
    [id |-> i, pairs |-> [j \in 1..Len(SetToSortSeq(DOMAIN DataAt[i], <)) |->
        LET k == SetToSortSeq(DOMAIN DataAt[i], <)[j] IN <<k, DataAt[i][k]>>]]

NoFile == [id |-> 0, pairs |-> <<>>]

Init ==
    /\ mfirst = 1 /\ mlast = 0 /\ mdump = 0
    /\ pc = "off" /\ conn = "nil" /\ quit = FALSE /\ restart = FALSE /\ then = "off"
    /\ file = NoFile
    /\ lastID = 0 /\ commit = 0 /\ data = Empty
    /\ slaveof = FALSE /\ cmd = "idle" /\ fails = MaxFail /\ cmds = MaxCmd

----------------------------------------------------------------------------
(* The master and the network: external *)

MasterWrite ==
    /\ mlast < LogEnd
    /\ mlast' = mlast + 1
    /\ UNCHANGED <<mfirst, mdump, link, store, control>>

MasterPurge ==
    /\ mfirst <= mlast
    /\ mfirst' = mfirst + 1
    /\ UNCHANGED <<mlast, mdump, link, store, control>>

LinkFails ==
    /\ conn = "up"
    /\ fails > 0
    /\ conn' = "broken"
    /\ fails' = fails - 1
    /\ UNCHANGED <<pc, quit, restart, then, file, store, master, slaveof, cmd, cmds>>

----------------------------------------------------------------------------
(* The thread *)

Go(p) == pc' = p

\* The head of the loop
CheckQuit ==
    /\ pc \in {"start", "connected"}
    /\ Go(IF quit THEN "off" ELSE IF pc = "start" THEN "connect" ELSE "conf")
    /\ UNCHANGED <<conn, quit, restart, then, file, store, master, control>>

\* Under connLock; a failure is tried again three seconds later, or never.
checkConn ==
    /\ pc = "connect"
    /\ \/ /\ conn \in {"nil", "up"}
          /\ conn' = "up"
          /\ Go("connected")
          /\ UNCHANGED fails
       \/ /\ conn = "nil" /\ fails > 0
          /\ fails' = fails - 1
          /\ Go("start")
          /\ UNCHANGED conn
       \/ /\ conn = "broken"
          /\ conn' = "nil"
          /\ Go("start")
          /\ UNCHANGED fails
    /\ UNCHANGED <<quit, restart, then, file, store, master, slaveof, cmd, cmds>>

\* The full sync that ends removes master.dump.
Leave(p) ==
    /\ Go(p)
    /\ file' = IF pc = "receive" THEN NoFile ELSE file
    /\ UNCHANGED <<then, store>>

\* A call of m.conn: a nil connection is fatal, a broken one an error.
Call(ok) ==
    \/ conn = "up" /\ ok
    \/ conn = "broken" /\ Leave("start")
    \/ conn = "nil" /\ Leave("panic")

\* A read that SLAVEOF interrupts had taken m.conn already and fails.
Receive(ok) == Call(ok) \/ (conn = "nil" /\ Leave("start"))

replConf ==
    /\ pc = "conf"
    /\ Call(/\ Go(IF restart THEN "full" ELSE "sync")
            /\ then' = "sync"
            /\ UNCHANGED <<file, store>>)
    /\ UNCHANGED <<conn, quit, restart, master, control>>

\* FULLSYNC is sent and master.dump opened, without truncation.
fullSync ==
    /\ pc = "full"
    /\ Call(Go("receive") /\ UNCHANGED <<then, file, store>>)
    /\ UNCHANGED <<conn, quit, restart, master, control>>

\* The dump over what the file holds; pairs are of one size.
Received(dump) ==
    [id |-> dump.id,
     pairs |-> dump.pairs \o SubSeq(file.pairs, Len(dump.pairs) + 1, Len(file.pairs))]

\* The latest snapshot, unless it is too old, or a new one
FullSyncReceive ==
    /\ pc = "receive"
    /\ Receive(/\ \/ mdump' = mlast
                  \/ mdump >= mfirst - 1 /\ UNCHANGED mdump
               /\ file' = Received(DumpAt(mdump'))
               /\ Go("load")
               /\ UNCHANGED <<then, store>>)
    /\ conn # "up" => UNCHANGED mdump
    /\ UNCHANGED <<conn, quit, restart, mfirst, mlast, control>>

\* LoadDumpFile: everything is flushed, the logs too; a pair of the same key
\* overwrites the one before it.
FullSyncLoad ==
    /\ pc = "load"
    /\ data' = [k \in {file.pairs[j][1] : j \in 1..Len(file.pairs)} |->
                   LET at == {j \in 1..Len(file.pairs) : file.pairs[j][1] = k}
                   IN  file.pairs[CHOOSE j \in at : \A x \in at : x <= j][2]]
    /\ commit' = file.id
    /\ lastID' = 0
    /\ Go("remove")
    /\ UNCHANGED <<conn, quit, restart, then, file, master, control>>

FullSyncRemove ==
    /\ pc = "remove"
    /\ file' = NoFile
    /\ Go(then)
    /\ UNCHANGED <<conn, quit, restart, then, store, master, control>>

\* Mutant: the commit id of a dump is not looked at.
nextSyncLogIDLast == lastID + 1

nextSyncLogID == IF lastID > commit THEN lastID + 1 ELSE commit + 1

\* SYNC nextSyncLogID; a log that is purged asks for a full sync.
SyncSend ==
    /\ pc = "sync"
    /\ Call(Go("logs") /\ UNCHANGED <<then, file, store>>)
    /\ UNCHANGED <<conn, quit, restart, master, control>>

\* The logs there are, which may be none; an error for a log not yet written.
SyncReceive ==
    /\ pc = "logs"
    /\ Receive(
         \/ /\ nextSyncLogID < mfirst
            /\ Go("full")
            /\ then' = "looped"
            /\ UNCHANGED <<file, store>>
         \/ /\ nextSyncLogID > mlast + 1
            /\ Go("start")
            /\ UNCHANGED <<then, file, store>>
         \/ /\ nextSyncLogID = mlast + 1
            /\ Go("looped")
            /\ UNCHANGED <<then, file, store>>
         \/ /\ nextSyncLogID \in mfirst..mlast
            /\ data' = Apply(data, nextSyncLogID)
            /\ lastID' = nextSyncLogID
            /\ commit' = nextSyncLogID
            /\ Go("looped")
            /\ UNCHANGED <<then, file>>)
    /\ UNCHANGED <<conn, quit, restart, master, control>>

SyncLoop ==
    /\ pc = "looped"
    /\ Go(IF quit THEN "off" ELSE "sync")
    /\ UNCHANGED <<conn, quit, restart, then, file, store, master, control>>

runReplication ==
    \/ CheckQuit \/ checkConn \/ replConf
    \/ fullSync \/ FullSyncReceive \/ FullSyncLoad \/ FullSyncRemove
    \/ SyncSend \/ SyncReceive \/ SyncLoop

----------------------------------------------------------------------------
(* SLAVEOF *)

\* Close: m.quit is closed if the thread is there,
SlaveofQuit(on, full) ==
    /\ cmd = "idle" /\ cmds > 0 /\ pc # "panic"
    /\ on \/ slaveof
    /\ cmds' = cmds - 1
    /\ slaveof' = on
    /\ quit' = TRUE
    /\ cmd' = IF full THEN "closeFull" ELSE "close"
    /\ UNCHANGED <<pc, conn, restart, then, file, store, master, fails>>

\* the connection closed and forgotten,
closeConn ==
    /\ cmd \in {"close", "closeFull"}
    /\ pc # "panic"
    /\ conn' = "nil"
    /\ cmd' = IF cmd = "close" THEN "wait" ELSE "waitFull"
    /\ UNCHANGED <<pc, quit, restart, then, file, store, master, slaveof, fails, cmds>>

\* Mutant: the end of the thread is not waited for.
SlaveofDoneAtOnce ==
    /\ cmd \in {"wait", "waitFull"}
    /\ cmd' = "idle"
    /\ IF slaveof THEN quit' = FALSE /\ Go("start") /\ restart' = (cmd = "waitFull")
       ELSE UNCHANGED <<quit, pc, restart>>
    /\ UNCHANGED <<conn, then, file, store, master, slaveof, fails, cmds>>

\* and the end of the thread waited for; then a new one starts, or none.
SlaveofDone ==
    /\ cmd \in {"wait", "waitFull"}
    /\ pc = "off"
    /\ cmd' = "idle"
    /\ IF slaveof THEN quit' = FALSE /\ Go("start") /\ restart' = (cmd = "waitFull")
       ELSE UNCHANGED <<quit, pc, restart>>
    /\ UNCHANGED <<conn, then, file, store, master, slaveof, fails, cmds>>

----------------------------------------------------------------------------
(* The process ends, at will or by the nil connection, and is started again *)

Crash ==
    /\ pc = "panic" \/ (Crashes /\ fails > 0)
    /\ fails' = IF pc = "panic" THEN fails ELSE fails - 1
    /\ Go(IF slaveof THEN "start" ELSE "off")
    /\ conn' = "nil" /\ quit' = ~slaveof /\ restart' = FALSE /\ cmd' = "idle"
    /\ UNCHANGED <<then, file, store, master, slaveof, cmds>>

Next ==
    \/ MasterWrite \/ MasterPurge \/ LinkFails
    \/ runReplication
    \/ \E full \in BOOLEAN : SlaveofQuit(TRUE, full)
    \/ SlaveofQuit(FALSE, FALSE)
    \/ closeConn \/ SlaveofDone
    \/ Crash

Spec == Init /\ [][Next]_vars

\* The thread and the command that waits for it go on; a process that dies is
\* started again.
FairSpec ==
    /\ Spec
    /\ WF_vars(runReplication)
    /\ WF_vars(closeConn) /\ WF_vars(SlaveofDone)
    /\ WF_vars(pc = "panic" /\ Crash)

----------------------------------------------------------------------------
\* The ids of master and slave, the step of the slave's thread and its connection
\* are well formed (master, runReplication).
TypeOK ==
    /\ mfirst \in 1..(LogEnd + 1) /\ mlast \in 0..LogEnd /\ mdump \in 0..mlast
    /\ pc \in {"off", "start", "connect", "connected", "conf", "full", "receive",
               "load", "remove", "sync", "logs", "looped", "panic"}
    /\ conn \in {"nil", "up", "broken"}
    /\ lastID \in 0..LogEnd /\ commit \in 0..LogEnd

\* The slave's data are the master's after the log the slave asks the next of,
\* through reconnections, full syncs and SLAVEOF in any order.
\* doc/Replication.md: "Slave discards all old data and replicated logs, then
\* loads the dump file".
SameAsMaster == data = DataAt[nextSyncLogID - 1]

\* When SLAVEOF NO ONE has answered the thread is gone: nothing of the old
\* master is stored after it.
StopStops == cmd = "idle" /\ ~slaveof => pc \in {"off", "panic"}

\* SLAVEOF never ends the process.
\* doc/Replication.md: "Use `slaveof no one` to stop replication and change the
\* slave to master."
NoNilConn == pc # "panic"

\* A slave that stays a slave has, in the end, all the master's logs.
CatchesUp == <>[](slaveof /\ cmd = "idle") => <>[](data = DataAt[mlast] /\ nextSyncLogID > mlast)
=============================================================================
