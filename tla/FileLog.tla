------------------------------- MODULE FileLog -------------------------------
(***************************************************************************)
(* The log store that keeps tables of logs in files (rpl/file_store.go,    *)
(* rpl/file_table.go): a table being written, tables that are read, the    *)
(* purge of old ones, Clear, a crash at any file operation and the repair  *)
(* of the tables that were not closed.                                     *)
(*                                                                         *)
(* One thread stores and clears logs, under the lock of the replication;   *)
(* a slave's connection reads them without it (Replication.GetLog).        *)
(***************************************************************************)
EXTENDS Naturals, Sequences, FiniteSets, SequencesExt, FiniteSetsExt

CONSTANTS
    MaxId,      \* bound: the ids of the logs
    PerFile,    \* a table with so many logs is full
    MaxFiles,   \* MaxLogFileNum
    CrashAt,    \* the points of StoreLog at which the process may die
    MaxFaults,  \* bound: the crashes, closes and failed writes
    MaxClear,   \* bound: the Clears
    IOErrors,   \* TRUE: the write of an offset to a meta file may fail
    LatePurge   \* TRUE: a Clear may come before the files of a purge are removed

VARIABLES
    disk,     \* the files: index to logs, number of offsets, magic at the end,
              \* and whether their names are still there
    w,        \* the table writer
    rs,       \* the table readers, in the order of their ids
    step,     \* where StoreLog or Clear is
    moved,    \* the reader a flush has made of the writer
    purges,   \* the readers whose files are still to be removed
    rd,       \* a GetLog of a slave's connection
    st,       \* "up", "down", or "failed": the store cannot be opened
    acked,    \* history: the logs stored and neither purged nor cleared
    synced,   \* history: the logs that are on the disk
    faults, clears

store == <<disk, w, rs, step, moved, purges, st, acked, synced, faults, clears>>
vars == <<store, rd>>

NoTable == [index |-> 0, first |-> 0, last |-> 0]
NoRead == [st |-> "idle", id |-> 0, table |-> NoTable, got |-> "none", whole |-> FALSE]

newTableWriter(index, sync) ==
    [index |-> index, first |-> 0, last |-> 0, open |-> FALSE, closed |-> FALSE,
     sync |-> sync]

Init ==
    /\ disk = [i \in {} |-> 0]
    /\ w = newTableWriter(1, TRUE)
    /\ rs = <<>>
    /\ step = "idle"
    /\ moved = NoTable
    /\ purges = {}
    /\ rd = NoRead
    /\ st = "up"
    /\ acked = {} /\ synced = {}
    /\ faults = MaxFaults /\ clears = MaxClear

\* Mutant: rm is given back when the table is found.
ReadingUnlocked == FALSE

\* rm is held for reading from Search to the end of the read.
Reading == rd.st = "read"

----------------------------------------------------------------------------
(* The ids of the store *)

\* Mutant: the last table is not looked at.
LastIDWriter == w.last

LastID == IF w.last > 0 THEN w.last
          ELSE IF rs # <<>> THEN Last(rs).last ELSE 0

FirstID == IF rs # <<>> THEN rs[1].first ELSE w.first

----------------------------------------------------------------------------
(* StoreLog of the next id *)

tableFull == w.open /\ Len(disk[w.index].logs) >= PerFile

\* Flush closes the files, the data file with the magic at its end, and makes
\* a reader of the writer.
Flush ==
    /\ st = "up" /\ step = "idle" /\ LastID < MaxId
    /\ tableFull
    /\ disk' = [disk EXCEPT ![w.index].magic = TRUE]
    /\ moved' = [index |-> w.index, first |-> w.first, last |-> w.last]
    /\ w' = [w EXCEPT !.index = @ + 1, !.first = 0, !.last = 0, !.open = FALSE]
    /\ step' = "flushed"
    /\ UNCHANGED <<rs, purges, st, acked, synced, faults, clears, rd>>

FlushAppend ==
    /\ st = "up" /\ step = "flushed" /\ ~Reading
    /\ rs' = Append(rs, moved)
    /\ moved' = NoTable
    /\ step' = "again"
    /\ UNCHANGED <<disk, w, purges, st, acked, synced, faults, clears, rd>>

\* The files of a new table are made by its first log.
openFile ==
    /\ st = "up" /\ ~w.closed
    /\ step = "again" \/ (step = "idle" /\ LastID < MaxId /\ ~tableFull)
    /\ IF w.open
       THEN UNCHANGED <<disk, w>>
       ELSE /\ disk' = [i \in DOMAIN disk \cup {w.index} |->
                           IF i = w.index
                           THEN [logs |-> <<>>, meta |-> 0, magic |-> FALSE, linked |-> TRUE]
                           ELSE disk[i]]
            /\ w' = [w EXCEPT !.open = TRUE]
    /\ step' = "head"
    /\ UNCHANGED <<rs, moved, purges, st, acked, synced, faults, clears, rd>>

\* Encode writes the head of the log, then its data.
EncodeHead ==
    /\ st = "up" /\ step = "head"
    /\ disk' = [disk EXCEPT ![w.index].logs = Append(@, [id |-> LastID + 1, whole |-> FALSE])]
    /\ step' = "data"
    /\ UNCHANGED <<w, rs, moved, purges, st, acked, synced, faults, clears, rd>>

EncodeData ==
    /\ st = "up" /\ step = "data"
    /\ disk' = [disk EXCEPT ![w.index].logs[Len(disk[w.index].logs)].whole = TRUE]
    /\ step' = "meta"
    /\ UNCHANGED <<w, rs, moved, purges, st, acked, synced, faults, clears, rd>>

\* The offset goes to the meta file, the data to the disk if sync_log is 2.
StoreMeta ==
    /\ st = "up" /\ step = "meta"
    /\ step' = "idle"
    /\ \/ LET id == LastID + 1 IN
          /\ disk' = [disk EXCEPT ![w.index].meta = @ + 1]
          /\ w' = [w EXCEPT !.first = IF @ = 0 THEN id ELSE @, !.last = id]
          /\ acked' = acked \cup {id}
          /\ synced' = IF w.sync THEN synced \cup {id} ELSE synced
          /\ UNCHANGED faults
       \/ /\ IOErrors /\ faults > 0
          /\ faults' = faults - 1
          /\ UNCHANGED <<disk, w, acked, synced>>
    /\ UNCHANGED <<rs, moved, purges, st, clears, rd>>

----------------------------------------------------------------------------
(* Purge *)

\* The first n tables leave the readers under rm (one purge at a time: the
\* hourly one and the one of the ticker do not meet).
LeaveReaders(n) ==
    /\ st = "up" /\ ~Reading /\ step # "cleared" /\ purges = {}
    /\ purges' = purges \cup {rs[i].index : i \in 1..n}
    /\ acked' = {id \in acked : id > rs[n].last}
    /\ rs' = SubSeq(rs, n + 1, Len(rs))
    /\ UNCHANGED <<disk, w, step, moved, st, synced, faults, clears, rd>>

\* Those before the first that is young enough; none if all are too old.
PurgeExpired(n) ==
    /\ n \in 1..(Len(rs) - 1)
    /\ LeaveReaders(n)

\* Those beyond MaxLogFileNum.
checkTableReaders ==
    /\ Len(rs) > MaxFiles
    /\ LeaveReaders(Len(rs) - MaxFiles)

\* The files are removed later, by name, without a lock: those a writer has
\* open go on without a name.
purgeTableReaders ==
    /\ st = "up" /\ purges # {}
    /\ LET i == Min(purges) IN
          /\ disk' = IF i = w.index /\ w.open
                     THEN [disk EXCEPT ![i].linked = FALSE]
                     ELSE [x \in DOMAIN disk \ {i} |-> disk[x]]
          /\ purges' = purges \ {i}
    /\ UNCHANGED <<w, rs, step, moved, st, acked, synced, faults, clears, rd>>

----------------------------------------------------------------------------
(* Clear: the writer and the readers are closed, then the files removed *)

ClearClose ==
    /\ st = "up" /\ step = "idle" /\ clears > 0 /\ ~Reading
    /\ LatePurge \/ purges = {}
    /\ clears' = clears - 1
    /\ w' = [w EXCEPT !.closed = TRUE, !.open = FALSE]
    /\ rs' = <<>>
    /\ step' = "cleared"
    /\ acked' = {} /\ synced' = {}
    /\ UNCHANGED <<disk, moved, purges, st, faults, rd>>

\* The new writer is not told of sync_log.
Clear ==
    /\ st = "up" /\ step = "cleared"
    /\ disk' = [i \in {} |-> 0]
    /\ w' = newTableWriter(1, FALSE)
    /\ step' = "idle"
    /\ UNCHANGED <<rs, moved, purges, st, acked, synced, faults, clears, rd>>

----------------------------------------------------------------------------
(* Close, a crash, and load *)

\* The table being written is flushed: nothing is left to repair.
Close ==
    /\ st = "up" /\ step = "idle" /\ ~Reading /\ faults > 0
    /\ faults' = faults - 1
    /\ st' = "down"
    /\ disk' = IF w.open THEN [disk EXCEPT ![w.index].magic = TRUE] ELSE disk
    /\ rd' = NoRead
    /\ UNCHANGED <<w, rs, step, moved, purges, acked, synced, clears>>

Crash ==
    /\ st = "up" /\ step \in CrashAt /\ faults > 0
    /\ faults' = faults - 1
    /\ st' = "down"
    /\ rd' = NoRead
    /\ UNCHANGED <<disk, w, rs, step, moved, purges, acked, synced, clears>>

\* check: the magic is there, and an offset for each log.
check(t) == t.magic /\ t.meta > 0 /\ t.meta = Len(t.logs)

\* Mutant: the last log of a table without magic is given up.
repairDropsLast(t) ==
    [t EXCEPT !.logs = Front(t.logs), !.meta = Len(t.logs) - 1, !.magic = TRUE]

\* The logs are taken as their heads say; a head whose data are not there is
\* followed by a hole.
repair(t) == [t EXCEPT !.meta = Len(t.logs), !.magic = TRUE]

\* The repair ends in a nil file when a log does not come after the one before.
Repairable(t) == \A i \in 2..Len(t.logs) : t.logs[i].id > t.logs[i - 1].id

NewTable(t) == IF check(t) THEN t ELSE repair(t)

\* A table without logs gets the ids 0 to 0.
newTableReader(i, t) ==
    [index |-> i,
     first |-> IF t.logs = <<>> THEN 0 ELSE t.logs[1].id,
     last  |-> IF t.logs = <<>> THEN 0 ELSE Last(t.logs).id]

\* tableReaders.check: ids from 1 on, one table after the other
checkReaders(ts) ==
    /\ ts # <<>> => ts[1].first > 0
    /\ \A i \in 2..Len(ts) : ts[i].first > ts[i - 1].last /\ ts[i].index > ts[i - 1].index

NewFileStore ==
    /\ st = "down"
    /\ LET found  == {i \in DOMAIN disk : disk[i].linked}
           fixed  == [i \in found |-> NewTable(disk[i])]
           tables == {newTableReader(i, fixed[i]) : i \in found}
           ts     == SetToSortSeq(tables, LAMBDA a, b : a.first < b.first)
       IN  IF (\A i \in found : check(disk[i]) \/ Repairable(disk[i]))
                 /\ checkReaders(ts)
           THEN /\ st' = "up"
                /\ disk' = fixed
                /\ rs' = ts
                /\ w' = newTableWriter(IF ts = <<>> THEN 1 ELSE Last(ts).index + 1, TRUE)
           ELSE /\ st' = "failed"
                /\ UNCHANGED <<disk, rs, w>>
    /\ step' = "idle" /\ moved' = NoTable /\ purges' = {}
    /\ UNCHANGED <<acked, synced, faults, clears, rd>>

----------------------------------------------------------------------------
(* GetLog *)

LogIn(t, id) == CHOOSE l \in Range(disk[t].logs) : l.id = id

\* The writer holds its lock while it stores.
StoreHoldsLock == step \in {"head", "data", "meta"}

\* First in the table being written; a writer that Clear has closed, with its
\* ids still there, has no files: the read panics.
GetLogWriter(id) ==
    /\ st = "up" /\ rd.st = "idle" /\ ~StoreHoldsLock
    /\ rd' = IF id < w.first \/ id > w.last
             THEN [NoRead EXCEPT !.st = "search", !.id = id]
             ELSE IF w.closed
             THEN [NoRead EXCEPT !.id = id, !.got = "panic"]
             ELSE [NoRead EXCEPT !.id = id, !.got = "log", !.whole = LogIn(w.index, id).whole]
    /\ UNCHANGED store

\* The binary search: half of the tables are left out at every turn.
Search(id) ==
    LET go[i \in 1..(Len(rs) + 1), j \in 0..Len(rs)] ==
            IF i > j THEN NoTable
            ELSE LET h == i + ((j - i) \div 2) IN
                 IF rs[h].first <= id /\ id <= rs[h].last THEN rs[h]
                 ELSE IF rs[h].last < id THEN go[h + 1, j] ELSE go[i, h - 1]
    IN  go[1, Len(rs)]

GetLogSearch ==
    /\ st = "up" /\ rd.st = "search" /\ step # "cleared"
    /\ rd' = IF Search(rd.id) = NoTable
             THEN [rd EXCEPT !.st = "idle", !.got = "notfound"]
             ELSE [rd EXCEPT !.st = "read", !.table = Search(rd.id)]
    /\ UNCHANGED store

GetLogReader ==
    /\ st = "up" /\ rd.st = "read"
    /\ rd' = [rd EXCEPT !.st = "idle", !.got = "log", !.table = NoTable,
                        !.whole = LogIn(rd.table.index, rd.id).whole]
    /\ UNCHANGED store

Next ==
    \/ Flush \/ FlushAppend \/ openFile \/ EncodeHead \/ EncodeData \/ StoreMeta
    \/ \E n \in 1..Len(rs) : PurgeExpired(n)
    \/ checkTableReaders \/ purgeTableReaders
    \/ ClearClose \/ Clear
    \/ Close \/ Crash \/ NewFileStore
    \/ \E id \in acked : GetLogWriter(id)
    \/ GetLogSearch \/ GetLogReader

Spec == Init /\ [][Next]_vars

----------------------------------------------------------------------------
(* Properties *)

\* An offset in a meta file has its log in the data file, the ids of the writer
\* are in order, every reader has its files, and a table is between the writer
\* and the readers exactly during a rotation.
TypeOK ==
    /\ \A i \in DOMAIN disk : disk[i].meta <= Len(disk[i].logs)
    /\ w.first <= w.last
    /\ w.last > 0 => w.open \/ w.closed
    /\ \A i \in 1..Len(rs) : rs[i].index \in DOMAIN disk
    /\ moved # NoTable <=> step = "flushed"
    /\ rd.got \in {"none", "log", "notfound", "panic"}

Tables == rs \o (IF step = "flushed" THEN <<moved>> ELSE <<>>)
             \o (IF w.last > 0 THEN <<[index |-> w.index, first |-> w.first, last |-> w.last]>>
                 ELSE <<>>)

\* "if log1's id is 1, log2 must be 2": the tables follow each other without
\* a gap, and each file has the logs its table names, through rotations,
\* purges, crashes and repairs.
IdsContiguous ==
    st = "up" /\ step # "cleared" =>
        /\ \A i \in 2..Len(Tables) : Tables[i].first = Tables[i - 1].last + 1
        /\ \A i \in 1..Len(Tables) :
              \A id \in Tables[i].first..Tables[i].last :
                  \E l \in Range(disk[Tables[i].index].logs) : l.id = id

\* A log that was acknowledged is in a table, whole, until it is purged or
\* cleared: crashes and repairs lose none.
AckedKept ==
    st = "up" /\ step # "cleared" =>
        \A id \in acked :
            \E i \in 1..Len(Tables) :
                /\ Tables[i].first <= id /\ id <= Tables[i].last
                /\ disk[Tables[i].index].linked
                /\ LogIn(Tables[i].index, id).whole

\* The table a read has found stays in the store, with its files, until the
\* read is over, though its lock is given back before: rm keeps the purge,
\* the closing of idle tables and Clear away.
ReadUndisturbed ==
    rd.st = "read" =>
               /\ rd.table \in Range(rs)
               /\ rd.table.index \in DOMAIN disk

\* The binary search over the readers finds the table of every id that has
\* one, whatever was purged or repaired, and nothing for the others.
SearchFinds ==
    \A id \in 1..MaxId :
        LET at == {i \in 1..Len(rs) : rs[i].first <= id /\ id <= rs[i].last} IN
        IF at = {} THEN Search(id) = NoTable ELSE \E i \in at : Search(id) = rs[i]

\* A log that is kept is found by whoever asks for it.
\* doc/Replication.md on a log that is not purged: "The master has this log and
\* will send it to slave."
KeptFound == rd.got = "notfound" => rd.id \notin acked

\* The store can be opened again whatever the process was doing when it died.
\* rpl/file_store.go: "if data has no magic data, it means that we don't close
\* replication gracefully. so we must repair the log data".
StoreOpens == st # "failed"

\* A table that was repaired holds logs that were written to their end.
\* rpl/file_store.go: "so we must repair the log data".
RepairedWhole ==
    st = "up" => \A i \in 1..Len(rs) : \A l \in Range(disk[rs[i].index].logs) : l.whole

\* With sync_log = 2 a log that is acknowledged is on the disk.
\* etc/ledis.conf on sync_log: "2: sync every commit".
AckedSynced == acked \subseteq synced
=============================================================================
