---------------------------- MODULE SnapshotStore ----------------------------
(***************************************************************************)
(* The snapshots a master keeps for full syncs (server/snapshot.go,        *)
(* fullsyncCommand of server/cmd_replication.go): Create, with a dump that *)
(* may fail and a process that may die at every file operation, OpenLatest,*)
(* the hourly check and the purge of old files.                            *)
(*                                                                         *)
(* Time is a second and a fraction of it; a file is named by its time.     *)
(***************************************************************************)
EXTENDS Integers, Sequences, FiniteSets, SequencesExt, FiniteSetsExt

CONSTANTS
    Seconds,    \* bound: the clock
    Fractions,  \* the fractions of a second
    MaxNum,     \* max_num
    MaxAge      \* seconds after which a snapshot is too old for a full sync

VARIABLES
    now,     \* the clock: a second and a fraction
    files,   \* the files: time, name ends in .tmp or not, dump complete or not
    names,   \* the times of the snapshots, from old to new
    cr,      \* Create: its step and its time, and whether there was a snapshot
    sent,    \* history: the snapshot of the last full sync
    refused, \* history: Create has refused a time
    up

vars == <<now, files, names, cr, sent, refused, up>>

NoTime == <<0, 0>>
NotCreating == [st |-> "no", t |-> NoTime, had |-> FALSE]

Before(a, b) == a[1] < b[1] \/ (a[1] = b[1] /\ a[2] < b[2])

Init ==
    /\ now = <<1, 0>>
    /\ files = {}
    /\ names = <<>>
    /\ cr = NotCreating
    /\ sent = NoTime
    /\ refused = FALSE
    /\ up = TRUE

Final(t) == [t |-> t, tmp |-> FALSE, whole |-> TRUE]

\* The lock of the store is held by Create from its start to its end.
Free == up /\ cr.st = "no"

----------------------------------------------------------------------------
(* purge *)

\* Mutant: no room is made for the snapshot to come.
purgedLater(s, create) ==
    LET num == Len(s) - MaxNum IN IF num <= 0 THEN s ELSE SubSeq(s, num + 1, Len(s))

\* What is left of the names; with create, room is made for one more.
purged(s, create) ==
    LET n == Len(s) - MaxNum + (IF create THEN 1 ELSE 0)
        num == IF n > Len(s) THEN Len(s) ELSE n
    IN  IF num <= 0 THEN s ELSE SubSeq(s, num + 1, Len(s))

WithoutFiles(gone) == {f \in files : f.tmp \/ f.t \notin gone}

purge(s, create) ==
    /\ names' = purged(s, create)
    /\ files' = WithoutFiles(Range(s) \ Range(purged(s, create)))

----------------------------------------------------------------------------
(* Create *)

\* The old ones are purged first.  Only the fractions of the times are
\* compared.
CreateStart ==
    /\ Free
    /\ purge(names, TRUE)
    /\ IF names' # <<>> /\ now[2] <= Last(names')[2]
       THEN /\ refused' = Before(Last(names'), now)
            /\ UNCHANGED cr
       ELSE /\ cr' = [st |-> "open", t |-> now, had |-> names # <<>>]
            /\ refused' = FALSE
    /\ UNCHANGED <<now, sent, up>>

CreateOpen ==
    /\ up /\ cr.st = "open"
    /\ files' = files \cup {[t |-> cr.t, tmp |-> TRUE, whole |-> FALSE]}
    /\ cr' = [cr EXCEPT !.st = "dump"]
    /\ UNCHANGED <<now, names, sent, refused, up>>

Tmp(whole) == [t |-> cr.t, tmp |-> TRUE, whole |-> whole]

\* The dump succeeds, or fails and its file is removed.
CreateDump ==
    /\ up /\ cr.st = "dump"
    /\ \/ /\ files' = (files \ {Tmp(FALSE)}) \cup {Tmp(TRUE)}
          /\ cr' = [cr EXCEPT !.st = "rename"]
       \/ /\ files' = files \ {Tmp(FALSE)}
          /\ cr' = NotCreating
    /\ UNCHANGED <<now, names, sent, refused, up>>

CreateRename ==
    /\ up /\ cr.st = "rename"
    /\ files' = (files \ {Tmp(TRUE)}) \cup {Final(cr.t)}
    /\ cr' = [cr EXCEPT !.st = "append"]
    /\ UNCHANGED <<now, names, sent, refused, up>>

Create ==
    /\ up /\ cr.st = "append"
    /\ names' = Append(names, cr.t)
    /\ sent' = cr.t
    /\ cr' = NotCreating
    /\ UNCHANGED <<now, files, refused, up>>

----------------------------------------------------------------------------
(* OpenLatest, by a full sync: a snapshot that is young enough is sent as it *)
(* is; otherwise the command creates one.                                    *)

OpenLatest ==
    /\ Free /\ names # <<>>
    /\ now[1] - Last(names)[1] <= MaxAge
    /\ sent' = Last(names)
    /\ UNCHANGED <<now, files, names, cr, refused, up>>

\* checkSnapshots: at the start and every hour.  Files that were not finished
\* are removed.
checkSnapshots ==
    LET kept == {f \in files : ~f.tmp}
        all == SetToSortSeq({f.t : f \in kept}, Before)
    IN  /\ names' = purged(all, FALSE)
        /\ files' = {f \in kept : f.t \in Range(purged(all, FALSE))}

run ==
    /\ Free
    /\ checkSnapshots
    /\ UNCHANGED <<now, cr, sent, refused, up>>

Crash ==
    /\ up
    /\ up' = FALSE
    /\ cr' = NotCreating /\ sent' = NoTime
    /\ names' = <<>>
    /\ UNCHANGED <<now, files, refused>>

newSnapshotStore ==
    /\ ~up
    /\ up' = TRUE
    /\ checkSnapshots
    /\ UNCHANGED <<now, cr, sent, refused>>

Tick ==
    /\ \E s \in 1..Seconds, f \in Fractions : Before(now, <<s, f>>) /\ now' = <<s, f>>
    /\ UNCHANGED <<files, names, cr, sent, refused, up>>

Next ==
    \/ CreateStart \/ CreateOpen \/ CreateDump \/ CreateRename \/ Create
    \/ OpenLatest \/ run \/ Crash \/ newSnapshotStore \/ Tick

Spec == Init /\ [][Next]_vars

----------------------------------------------------------------------------
(* Properties *)

\* The names are in the order of their times and each has its file; Create is at
\* one of its steps.
TypeOK ==
    /\ \A i \in 2..Len(names) : Before(names[i - 1], names[i])
    /\ cr.st \in {"no", "open", "dump", "rename", "append"}
    /\ up => \A i \in 1..Len(names) : Final(names[i]) \in files

\* A file with the name of a snapshot is a complete dump, wherever a dump has
\* failed or the process has died: a slave never gets half of one.
SnapshotsWhole == \A f \in files : ~f.tmp => f.whole

\* No more than max_num files stay, one more while a new one is being named,
\* and the newest are the ones that stay.
NewestKept ==
    /\ Cardinality({f \in files : ~f.tmp}) <= (IF MaxNum > 0 THEN MaxNum ELSE 1)
    /\ Free => \A f \in files : ~f.tmp /\ names # <<>> => ~Before(f.t, names[1])

\* A snapshot is never given up for one that does not come to be.
\* etc/ledis.conf on max_num: "Reserve newest max_num snapshot dump files".
KeepsOne == [][cr.had /\ cr'.st = "no" /\ up' => names' # <<>>]_vars

\* A time after that of the last snapshot is not refused.
\* server/snapshot.go refuses with "create snapshot file time %s is behind %s".
LaterAccepted == ~refused
=============================================================================
