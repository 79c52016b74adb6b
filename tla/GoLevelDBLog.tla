---------------------------- MODULE GoLevelDBLog ----------------------------
(***************************************************************************)
(* The goleveldb log store (rpl/goleveldb_store.go) on the data store      *)
(* wrapper (store/db.go, store/writebatch.go), which decides at every      *)
(* write whether it is synced: the cached ends of the log, purges, and     *)
(* what is left after a power failure.                                     *)
(***************************************************************************)
EXTENDS Integers, Sequences, FiniteSetsExt, TLC

CONSTANTS
    MaxId,     \* bound: log ids
    MaxTime,   \* bound: seconds that pass
    SyncLog,   \* sync_log: 0 never, 1 every second, 2 every commit
    MaxFaults  \* bound: failing writes and power failures

VARIABLES
    db,          \* log id -> create time, the content of the goleveldb database
    unsynced,    \* earlier contents that a power failure may bring back, oldest first,
                 \* each with the time of the write that replaced it
    first, last, \* the cached ids, 0 (InvalidLogID) when not known
    lastCommit,  \* db.lastCommit
    now,
    acked,       \* ids whose StoreLog returned without error, since purged ones out
    faults

vars == <<db, unsynced, first, last, lastCommit, now, acked, faults>>

InvalidLogID == 0
Empty == [i \in {} |-> 0]

Init ==
    /\ db = Empty
    /\ unsynced = <<>>
    /\ first = InvalidLogID
    /\ last = InvalidLogID
    /\ lastCommit = -2
    /\ now = 0
    /\ acked = {}
    /\ faults = 0

----------------------------------------------------------------------------
(* store/db.go *)

needSyncCommit == SyncLog = 2 \/ (SyncLog = 1 /\ now - lastCommit > 1)

\* A write, SyncPut or Put, SyncCommit or Commit, that makes the content c
Written(c) ==
    /\ db' = c
    /\ unsynced' = IF needSyncCommit THEN <<>> ELSE Append(unsynced, [was |-> db, at |-> now])
    /\ lastCommit' = IF SyncLog = 1 THEN now ELSE lastCommit

WriteFails ==
    /\ faults < MaxFaults
    /\ faults' = faults + 1
    /\ lastCommit' = IF SyncLog = 1 THEN now ELSE lastCommit
    /\ UNCHANGED <<db, unsynced>>

----------------------------------------------------------------------------
(* The log store *)

firstID == IF first # InvalidLogID \/ DOMAIN db = {} THEN first ELSE Min(DOMAIN db)

lastID == IF last # InvalidLogID \/ DOMAIN db = {} THEN last ELSE Max(DOMAIN db)

FirstID ==
    /\ first' = firstID
    /\ UNCHANGED <<db, unsynced, last, lastCommit, now, acked, faults>>

LastID ==
    /\ last' = lastID
    /\ UNCHANGED <<db, unsynced, first, lastCommit, now, acked, faults>>

\* created is the clock of the process that made the log, the master's on a slave
StoreLog(id, created) ==
    \/ /\ id # lastID + 1
       /\ last' = InvalidLogID
       /\ UNCHANGED <<db, unsynced, first, lastCommit, now, acked, faults>>
    \/ /\ id = lastID + 1
       /\ \/ /\ Written(db @@ (id :> created))
             /\ last' = id
             /\ acked' = acked \cup {id}
             /\ UNCHANGED faults
          \/ /\ WriteFails
             /\ last' = InvalidLogID
             /\ UNCHANGED acked
       /\ UNCHANGED <<first, now>>

Restricted(ids) == [i \in ids |-> db[i]]

\* The logs before the first one that is younger than t
Old(t) == {i \in DOMAIN db : \A j \in DOMAIN db : j <= i => db[j] <= t}

PurgeExpired(t) ==
    /\ first' = InvalidLogID
    /\ last' = InvalidLogID
    /\ \/ /\ Written(Restricted(DOMAIN db \ Old(t)))
          /\ acked' = acked \ Old(t)
          /\ UNCHANGED faults
       \/ /\ WriteFails
          /\ UNCHANGED acked
    /\ UNCHANGED now

\* Clear removes the database and opens a new one, whose lastCommit is zero.
Clear ==
    /\ db' = Empty
    /\ unsynced' = <<>>
    /\ first' = InvalidLogID
    /\ last' = InvalidLogID
    /\ lastCommit' = -2
    /\ acked' = {}
    /\ UNCHANGED <<now, faults>>

\* Close and open; after a power failure the database is what it was at some
\* moment since the last sync.
Reopen ==
    /\ \/ UNCHANGED <<db, acked, faults>>
       \/ /\ faults < MaxFaults
          /\ faults' = faults + 1
          /\ \E i \in DOMAIN unsynced : db' = unsynced[i].was
          /\ UNCHANGED acked
    /\ unsynced' = <<>>
    /\ first' = InvalidLogID
    /\ last' = InvalidLogID
    /\ lastCommit' = -2
    /\ UNCHANGED now

Tick ==
    /\ now < MaxTime
    /\ now' = now + 1
    /\ UNCHANGED <<db, unsynced, first, last, lastCommit, acked, faults>>

Next ==
    \/ FirstID \/ LastID
    \/ \E id \in 1..MaxId, created \in 0..now : StoreLog(id, created)
    \/ \E t \in 0..now : PurgeExpired(t)
    \/ Clear \/ Reopen \/ Tick

Spec == Init /\ [][Next]_vars

----------------------------------------------------------------------------
(* Properties *)

\* The cached ids are those of the log, whatever was stored, refused, purged
\* or cleared and whichever write failed: firstID and lastID never answer from
\* a cache that a purge or a failed Put made wrong.
CachesTrue ==
    /\ first # InvalidLogID => DOMAIN db # {} /\ first = Min(DOMAIN db)
    /\ last # InvalidLogID => DOMAIN db # {} /\ last = Max(DOMAIN db)

\* The log has no gap, though create times need not grow with the ids.
IdsContiguous ==
    \A i, j \in DOMAIN db : i..j \subseteq DOMAIN db

\* With sync_log = 2 a log that StoreLog took survives a power failure.
AckedDurable == acked \subseteq DOMAIN db

\* With sync_log = 1 writes that are more than a second apart are never both
\* unsynced: the later one syncs the log.
\* etc/ledis.conf on sync_log: "1: sync every second".
SyncedEverySecond ==
    \A i, j \in DOMAIN unsynced : unsynced[j].at - unsynced[i].at <= 1
=============================================================================
