------------------------------- MODULE Migrate -------------------------------
(***************************************************************************)
(* XMIGRATE and XMIGRATEDB (server/cmd_migrate.go, ledis/migrate.go): a    *)
(* key is dumped, restored at another server and deleted, under a lock     *)
(* that only migrations take, over a pooled connection with a deadline.    *)
(*                                                                         *)
(* A key here is a name and a type; ALL stands for every type of a name.   *)
(***************************************************************************)
EXTENDS Integers, Sequences, FiniteSets, SequencesExt, FiniteSetsExt

CONSTANTS
    Clients,    \* the connections that migrate
    Keys,       \* numbers, in the order of a scan
    AllTypes,   \* the keys of one name, in the order of TypeNames
    Count,      \* how many keys XMIGRATEDB takes
    Modes,      \* the commands: "one", "db", "all"
    Retries,    \* the retries of XMIGRATE
    Volatile,   \* TRUE: the keys have a ttl
    MaxWrites,  \* bound: the writes at the source
    MaxCommands,  \* bound: the commands
    Late        \* TRUE: a deadline may pass while its connection is in the pool

VARIABLES
    src,     \* the source: value (0: none), ttl, and whether the ttl has run out
    dst,     \* the destination
    locks,   \* migrateKeyLockers
    cl,      \* the clients
    jobs,    \* the RESTOREs of the destination
    pool,    \* the pooled connections: "none", "live", "late"
    writes, commands

vars == <<src, dst, locks, cl, jobs, pool, writes, commands>>

Absent == [v |-> 0, ttl |-> FALSE, due |-> FALSE]
Idle == [st |-> "idle", mode |-> "one", todo |-> <<>>, at |-> 0, retry |-> 0, dump |-> Absent]

Init ==
    /\ src = [k \in Keys |-> [v |-> 1, ttl |-> Volatile, due |-> FALSE]]
    /\ dst = [k \in Keys |-> Absent]
    /\ locks = {}
    /\ cl = [c \in Clients |-> Idle]
    /\ jobs = [c \in Clients |-> {}]
    /\ pool = "none"
    /\ writes = MaxWrites /\ commands = MaxCommands

Key(c) == cl[c].todo[cl[c].at]

----------------------------------------------------------------------------
(* The source *)

Todo(mode, k) ==
    CASE mode = "one" -> <<k>>
      [] mode = "all" -> AllTypes
      [] mode = "db"  ->
            LET all == SetToSortSeq({x \in Keys : src[x].v > 0}, <)
            IN  SubSeq(all, 1, IF Count < Len(all) THEN Count ELSE Len(all))

\* getMigrateDBConn: a connection of the pool, or a new one; a pooled one
\* still has the deadline of its last command, and SELECT meets it.
getMigrateDBConn(c, mode, k) ==
    /\ cl[c].st = "idle" /\ commands > 0
    /\ commands' = commands - 1
    /\ LET todo == Todo(mode, k) IN
       cl' = [cl EXCEPT ![c] =
                 [Idle EXCEPT !.mode = mode, !.todo = todo, !.at = 1, !.retry = Retries,
                              !.st = IF todo = <<>> THEN "ok"
                                     ELSE IF pool = "late" THEN "late" ELSE "lock"]]
    /\ pool' = IF Todo(mode, k) = <<>> THEN pool ELSE "none"
    /\ UNCHANGED <<src, dst, locks, jobs, writes>>

\* Mutant: XMIGRATE starts again without end.
AfterKeyForever(me, result) ==
    LET more == me.at < Len(me.todo) IN
    IF result = "ok" \/ (result = "nokey" /\ me.mode # "one")
    THEN [me EXCEPT !.st = IF more THEN "lock" ELSE "ok", !.at = IF more THEN @ + 1 ELSE @,
                    !.dump = Absent]
    ELSE IF result \in {"migrating", "timeout"}
    THEN [me EXCEPT !.st = "lock", !.at = 1]
    ELSE [me EXCEPT !.st = result, !.dump = Absent]

\* What the command goes on with after a key: XMIGRATEDB skips a key that is
\* gone or in migration; ALL skips one that is gone; XMIGRATE starts again
\* when it is in migration.
AfterKey(me, result) ==
    LET more == me.at < Len(me.todo) IN
    IF result = "ok" \/ (result = "nokey" /\ me.mode # "one")
          \/ (result = "migrating" /\ me.mode = "db")
    THEN [me EXCEPT !.st = IF more THEN "lock" ELSE "ok", !.at = IF more THEN @ + 1 ELSE @,
                    !.dump = Absent]
    ELSE IF result = "migrating" /\ me.retry > 1
    THEN [me EXCEPT !.st = "lock", !.at = 1, !.retry = @ - 1]
    ELSE [me EXCEPT !.st = result, !.dump = Absent]

migrateKeyLock(c) ==
    /\ cl[c].st = "lock"
    /\ IF Key(c) \in locks
       THEN /\ cl' = [cl EXCEPT ![c] = AfterKey(@, "migrating")]
            /\ UNCHANGED locks
       ELSE /\ locks' = locks \cup {Key(c)}
            /\ cl' = [cl EXCEPT ![c].st = "dump"]
    /\ UNCHANGED <<src, dst, jobs, pool, writes, commands>>

\* The end of a key's migration, with the deferred unlock
Finish(c, result) ==
    /\ locks' = locks \ {Key(c)}
    /\ cl' = [cl EXCEPT ![c] = AfterKey(@, result)]

xdump(c) ==
    /\ cl[c].st = "dump"
    /\ IF src[Key(c)].v = 0
       THEN Finish(c, "nokey")
       ELSE /\ cl' = [cl EXCEPT ![c].st = "ttl", ![c].dump = [Absent EXCEPT !.v = src[Key(c)].v]]
            /\ UNCHANGED locks
    /\ UNCHANGED <<src, dst, jobs, pool, writes, commands>>

\* A ttl that has run out is -1, like none.
xttl(c) ==
    /\ cl[c].st = "ttl"
    /\ cl' = [cl EXCEPT ![c].st = "send",
                        ![c].dump.ttl = src[Key(c)].ttl /\ ~src[Key(c)].due]
    /\ UNCHANGED <<src, dst, locks, jobs, pool, writes, commands>>

\* RESTORE is sent to the destination, with a deadline for the reply.
Send(c) ==
    /\ cl[c].st = "send"
    /\ jobs' = [jobs EXCEPT ![c] = @ \cup
                    {[n |-> commands, key |-> Key(c), v |-> cl[c].dump.v, ttl |-> cl[c].dump.ttl,
                      st |-> "clear", wanted |-> TRUE]}]
    /\ cl' = [cl EXCEPT ![c].st = "wait"]
    /\ UNCHANGED <<src, dst, locks, pool, writes, commands>>

\* The deadline passes: the connection is closed, the destination goes on.
Timeout(c) ==
    /\ cl[c].st = "wait"
    /\ Finish(c, "timeout")
    /\ jobs' = [jobs EXCEPT ![c] = {[j EXCEPT !.wanted = FALSE] : j \in @}]
    /\ UNCHANGED <<src, dst, pool, writes, commands>>

\* Mutant: the key is deleted before the reply has come.
migrateKeyEarly(c) ==
    /\ cl[c].st = "wait"
    /\ src' = [src EXCEPT ![Key(c)] = Absent]
    /\ jobs' = [jobs EXCEPT ![c] = {[j EXCEPT !.wanted = FALSE] : j \in @}]
    /\ Finish(c, "ok")
    /\ UNCHANGED <<dst, pool, writes, commands>>

\* The reply: the key is deleted.
migrateKey(c) ==
    /\ cl[c].st = "wait"
    /\ \E j \in jobs[c] :
          /\ j.wanted /\ j.st = "done"
          /\ jobs' = [jobs EXCEPT ![c] = @ \ {j}]
    /\ src' = [src EXCEPT ![Key(c)] = Absent]
    /\ Finish(c, "ok")
    /\ UNCHANGED <<dst, pool, writes, commands>>

\* The reply of the command; the connection goes back to the pool unless an
\* error has closed it.
xmigrateCommand(c) ==
    /\ cl[c].st \in {"ok", "nokey", "migrating", "timeout", "late"}
    /\ pool' = IF cl[c].st \in {"timeout", "late"} \/ cl[c].todo = <<>> THEN pool ELSE "live"
    /\ cl' = [cl EXCEPT ![c] = Idle]
    /\ UNCHANGED <<src, dst, locks, jobs, writes, commands>>

DeadlinePasses ==
    /\ Late /\ pool = "live"
    /\ pool' = "late"
    /\ UNCHANGED <<src, dst, locks, cl, jobs, writes, commands>>

----------------------------------------------------------------------------
(* RESTORE at the destination: three commits *)

RestoreClear(c, j) ==
    /\ j.st = "clear"
    /\ dst' = [dst EXCEPT ![j.key] = Absent]
    /\ jobs' = [jobs EXCEPT ![c] = (@ \ {j}) \cup {[j EXCEPT !.st = "set"]}]
    /\ UNCHANGED <<src, locks, cl, pool, writes, commands>>

After(j) == IF j.wanted THEN {[j EXCEPT !.st = "done"]} ELSE {}

\* A string is written without regard to a ttl the key may have; the other
\* types are empty after the clear.
Restore(c, j) ==
    /\ j.st = "set"
    /\ dst' = [dst EXCEPT ![j.key].v = j.v]
    /\ jobs' = [jobs EXCEPT ![c] = (@ \ {j}) \cup
                    (IF j.ttl THEN {[j EXCEPT !.st = "expire"]} ELSE After(j))]
    /\ UNCHANGED <<src, locks, cl, pool, writes, commands>>

RestoreExpire(c, j) ==
    /\ j.st = "expire"
    /\ dst' = IF dst[j.key].v > 0 THEN [dst EXCEPT ![j.key].ttl = TRUE] ELSE dst
    /\ jobs' = [jobs EXCEPT ![c] = (@ \ {j}) \cup After(j)]
    /\ UNCHANGED <<src, locks, cl, pool, writes, commands>>

----------------------------------------------------------------------------
(* Other clients of the source, and its ttl checker *)

Write(k) ==
    /\ writes > 0
    /\ writes' = writes - 1
    /\ src' = [src EXCEPT ![k] = [v |-> 2, ttl |-> FALSE, due |-> FALSE]]
    /\ UNCHANGED <<dst, locks, cl, jobs, pool, commands>>

Due(k) ==
    /\ src[k].ttl /\ ~src[k].due
    /\ src' = [src EXCEPT ![k].due = TRUE]
    /\ UNCHANGED <<dst, locks, cl, jobs, pool, writes, commands>>

CheckTTL(k) ==
    /\ src[k].due
    /\ src' = [src EXCEPT ![k] = Absent]
    /\ UNCHANGED <<dst, locks, cl, jobs, pool, writes, commands>>

Step(c) == migrateKeyLock(c) \/ xdump(c) \/ xttl(c) \/ Send(c) \/ migrateKey(c) \/ xmigrateCommand(c)

Next ==
    \/ \E c \in Clients :
          \/ \E m \in Modes, k \in Keys : getMigrateDBConn(c, m, k)
          \/ migrateKeyLock(c) \/ xdump(c) \/ xttl(c) \/ Send(c) \/ Timeout(c)
          \/ migrateKey(c) \/ xmigrateCommand(c)
          \/ \E j \in jobs[c] : RestoreClear(c, j) \/ Restore(c, j) \/ RestoreExpire(c, j)
    \/ DeadlinePasses
    \/ \E k \in Keys : Write(k) \/ Due(k) \/ CheckTTL(k)

Spec == Init /\ [][Next]_vars

\* A command runs on in its goroutine; a reply that does not come in time ends
\* in the deadline.  The destination may be as slow as it likes.
FairSpec ==
    /\ Spec
    /\ \A c \in Clients : WF_vars(Step(c)) /\ WF_vars(Timeout(c))

----------------------------------------------------------------------------
(* Properties *)

Migrating(c, k) == cl[c].st \in {"dump", "ttl", "send", "wait"} /\ Key(c) = k

\* Locks are of keys, what travels to the destination has a value, and a command
\* that waits for a reply waits for exactly one (xmigrateCommand).
TypeOK ==
    /\ locks \subseteq Keys
    /\ \A c \in Clients : \A j \in jobs[c] : j.key \in Keys /\ j.v > 0
    /\ \A c \in Clients : cl[c].st = "wait" =>
          Cardinality({j \in jobs[c] : j.wanted}) = 1

\* A key without ttl is at the source or at the destination, or about to be
\* written there by a RESTORE that has just cleared it: timeouts, retries and
\* two migrations of the same key never make it vanish.
NeverLost ==
    \A k \in Keys :
        \/ src[k].v > 0 \/ dst[k].v > 0
        \/ \E c \in Clients : \E j \in jobs[c] : j.key = k /\ j.st = "set"

\* One migration of a key at a time, and the lock of a key is held by it.
OneMigration ==
    \A k \in Keys : Cardinality({c \in Clients : Migrating(c, k)}) = (IF k \in locks THEN 1 ELSE 0)

\* A lock is given back, whatever the destination does.
LockReleased == \A k \in Keys : (k \in locks) ~> (k \notin locks)

\* Every command has its reply.
Replies == \A c \in Clients : (cl[c].st # "idle") ~> (cl[c].st = "idle")

\* "will block any other write operations": what the key held when it is
\* deleted is what was migrated.
WritesBlocked ==
    [][\A c \in Clients : cl[c].st = "wait" /\ src[Key(c)].v > 0 /\ src'[Key(c)].v = 0
           => src[Key(c)].v = cl[c].dump.v]_vars

\* A key with a ttl has one at the destination too.
\* doc/commands.md on EXPIRE: "After the timeout has expired, the key will be
\* deleted."
TtlKept == \A k \in Keys : dst[k].v = 1 /\ Volatile =>
    dst[k].ttl \/ \E c \in Clients : \E j \in jobs[c] : j.key = k /\ j.st # "clear" /\ j.ttl

\* A command fails only when its own time is up.
\* server/cmd_migrate_test.go runs a second XMIGRATE on the pooled connection,
\* which must succeed.
OwnTimeout == \A c \in Clients : cl[c].st # "late"
=============================================================================
