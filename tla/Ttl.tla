-------------------------------- MODULE Ttl ---------------------------------
(***************************************************************************)
(* The expiry of keys (ledis/t_ttl.go, Ledis.checkTTL in ledis/ledis.go):  *)
(* clients that set, delete, expire and persist keys of one data type, the *)
(* checker that scans the time records while they do, the replication      *)
(* thread that writes the master's records on a read-only node, and the    *)
(* clock.                                                                  *)
(*                                                                         *)
(* The checker holds the lock of the data type for one record at a time:   *)
(* the operations of clients come between any two of its steps.            *)
(***************************************************************************)
EXTENDS Expiry

CONSTANTS
    Keys,
    Hour,         \* how far the checker looks ahead: 3600 seconds
    Prompt,       \* TRUE: a check begins and ends within a second
    MaxWhen,      \* bound: the largest expiration time, and the last second
                  \* in which clients, the master and the operator do anything
    MaxTime,      \* bound: the end of the clock
    MaxSwitches   \* bound: changes between read-only and writable

ASSUME HourAssumption == Hour \in Nat \ {0}
ASSUME PromptAssumption == Prompt \in BOOLEAN
ASSUME TimeAssumption == MaxWhen \in Nat /\ MaxTime \in Nat

VARIABLES
    now,       \* the clock, in seconds
    data,      \* the keys that exist
    exp,       \* their expiry records
    nc,        \* the checker's next check time
    readonly,  \* Ledis.IsReadOnly()
    switches,  \* changes of readonly so far
    rwSince,   \* when the node became writable (auxiliary: no guard reads it)
    cpc,       \* the checker: "new" until its first check, "idle", "scan"
    cnow, cnc, \* the time at which it began, the next check time it computed
    snap       \* the time records its iterator has still to visit

dbVars == <<data, exp>>
checkVars == <<cpc, cnow, cnc, snap>>
roleVars == <<readonly, switches, rwSince>>
vars == <<now, dbVars, nc, roleVars, checkVars>>

Whens == 1..MaxWhen

Init ==
    /\ now = 1
    /\ data = {} /\ exp = NoExpiry(Keys)
    /\ nc = 0
    /\ readonly \in BOOLEAN /\ switches = 0 /\ rwSince = 1
    /\ cpc = "new" /\ cnow = 0 /\ cnc = 0 /\ snap = {}
-----------------------------------------------------------------------------
(* The clients.                                                             *)

\* SET leaves a time to live alone.
Set(k) ==
    /\ ~readonly
    /\ data' = data \cup {k}
    /\ UNCHANGED <<now, exp, nc, roleVars, checkVars>>

Del(k) ==
    /\ ~readonly
    /\ data' = data \ {k}
    /\ exp' = rmExpire(exp, k)
    /\ UNCHANGED <<now, nc, roleVars, checkVars>>

Persist(k) ==
    /\ ~readonly
    /\ exp.meta[k] # NoTTL
    /\ exp' = rmExpire(exp, k)
    /\ UNCHANGED <<now, data, nc, roleVars, checkVars>>

setNextCheckTime(when) == IF nc > when THEN when ELSE nc

\* On a read-only node the batch is refused, after the next check time is set.
setExpireAt(k, when) ==
    /\ when > now
    /\ k \in data
    /\ exp' = IF readonly THEN exp ELSE expireAt(exp, k, when)
    /\ nc' = setNextCheckTime(when)
    /\ UNCHANGED <<now, data, roleVars, checkVars>>

SetEX(k, when) ==
    /\ when > now
    /\ data' = IF readonly THEN data ELSE data \cup {k}
    /\ exp' = IF readonly THEN exp ELSE expireAt(exp, k, when)
    /\ nc' = setNextCheckTime(when)
    /\ UNCHANGED <<now, roleVars, checkVars>>
-----------------------------------------------------------------------------
(* The node: the records of the master's writes, and its role.              *)

ReplicateExpire(k, when) ==
    /\ readonly
    /\ data' = data \cup {k}
    /\ exp' = expireAt(exp, k, when)
    /\ UNCHANGED <<now, nc, roleVars, checkVars>>

ReplicateDel(k) ==
    /\ readonly
    /\ data' = data \ {k}
    /\ exp' = rmExpire(exp, k)
    /\ UNCHANGED <<now, nc, roleVars, checkVars>>

SwitchRole ==
    /\ switches < MaxSwitches
    /\ readonly' = ~readonly /\ switches' = switches + 1
    /\ rwSince' = IF readonly THEN now ELSE rwSince
    /\ UNCHANGED <<now, dbVars, nc, checkVars>>
-----------------------------------------------------------------------------
(* The checker.                                                             *)

\* A tick finds something to check; the first check ignores the role.
CheckDue ==
    /\ now >= nc
    /\ cpc = "new" \/ (cpc = "idle" /\ ~readonly)

\* Mutant: the next check is two hours ahead, and records only one.
CheckStartFar ==
    /\ CheckDue
    /\ cpc' = "scan" /\ cnow' = now /\ cnc' = now + 2 * Hour
    /\ snap' = {e \in exp.time : e[1] <= now + Hour}
    /\ UNCHANGED <<now, dbVars, nc, roleVars>>

CheckStart ==
    /\ CheckDue
    /\ cpc' = "scan" /\ cnow' = now /\ cnc' = now + Hour
    /\ snap' = {e \in exp.time : e[1] <= now + Hour}
    /\ UNCHANGED <<now, dbVars, nc, roleVars>>

\* The records that the iterator may be at: those with the least time.
First(s) == {e \in s : \A f \in s : e[1] <= f[1]}

\* Mutant: a time record that is due is enough to delete the key.
CheckEntryUnchecked(e) ==
    /\ e[1] <= cnow
    /\ snap' = snap \ {e}
    /\ IF ~readonly
       THEN /\ data' = data \ {e[2]}
            /\ exp' = rmExpired(exp, e[2], e[1])
       ELSE UNCHANGED dbVars
    /\ UNCHANGED <<now, nc, roleVars, cpc, cnow, cnc>>

\* Mutant: a key that was given a later time loses all its time records.
CheckEntryCleansUp(e) ==
    /\ e[1] <= cnow
    /\ snap' = snap \ {e}
    /\ IF expired(exp, e[2], cnow) /\ ~readonly
       THEN /\ data' = data \ {e[2]}
            /\ exp' = rmExpired(exp, e[2], e[1])
       ELSE /\ exp' = [exp EXCEPT !.time = {r \in @ : r[2] # e[2]}]
            /\ UNCHANGED data
    /\ UNCHANGED <<now, nc, roleVars, cpc, cnow, cnc>>

CheckEntry(e) ==
    /\ e[1] <= cnow
    /\ snap' = snap \ {e}
    /\ IF expired(exp, e[2], cnow) /\ ~readonly
       THEN /\ data' = data \ {e[2]}
            /\ exp' = rmExpired(exp, e[2], e[1])
       ELSE UNCHANGED dbVars
    /\ UNCHANGED <<now, nc, roleVars, cpc, cnow, cnc>>

\* The first record that is not due gives the next check time.
CheckNext(e) ==
    /\ e[1] > cnow
    /\ cnc' = e[1] /\ snap' = {}
    /\ UNCHANGED <<now, dbVars, nc, roleVars, cpc, cnow>>

\* The next check time is overwritten, a nearer one set meanwhile included.
CheckEnd ==
    /\ snap = {}
    /\ nc' = cnc
    /\ cpc' = "idle" /\ cnow' = 0 /\ cnc' = 0
    /\ UNCHANGED <<now, dbVars, roleVars, snap>>

Check ==
    \/ CheckStart
    \/ /\ cpc = "scan"
       /\ \/ \E e \in First(snap) : CheckEntry(e) \/ CheckNext(e)
          \/ CheckEnd

Tick ==
    /\ now < MaxTime
    /\ Prompt => cpc # "scan" /\ ~CheckDue
    /\ now' = now + 1
    /\ UNCHANGED <<dbVars, nc, roleVars, checkVars>>

Clients ==
    \E k \in Keys :
        \/ Set(k) \/ Del(k) \/ Persist(k)
        \/ \E when \in Whens : setExpireAt(k, when) \/ SetEX(k, when)

Replication ==
    \E k \in Keys :
        \/ ReplicateDel(k)
        \/ \E when \in Whens : ReplicateExpire(k, when)

Next ==
    \/ now <= MaxWhen /\ (Clients \/ Replication \/ SwitchRole)
    \/ Check
    \/ Tick

Spec == Init /\ [][Next]_vars

\* The clock goes on, and the goroutine of the checker is scheduled.
FairSpec == Spec /\ WF_vars(Tick) /\ WF_vars(Check)
-----------------------------------------------------------------------------
(* Properties.                                                              *)

\* Clock, keys, records of times to live, the checker's next time and the records
\* that a check has read are well formed (ttlChecker, expireAt).
TypeOK ==
    /\ now \in 1..MaxTime
    /\ data \subseteq Keys
    /\ exp \in Expiries(Keys, Whens)
    /\ nc \in Nat /\ cnow \in Nat /\ cnc \in Nat
    /\ readonly \in BOOLEAN /\ switches \in 0..MaxSwitches /\ rwSince \in 1..MaxTime
    /\ cpc \in {"new", "idle", "scan"}
    /\ snap \subseteq Whens \X Keys

\* Whatever EXPIRE, PERSIST, DEL and the checker do to a key, and however often
\* it is given another time, the record that the checker has to find for its
\* present time to live is there (expireAt, rmExpire, ttlChecker.check).
TimeIndexed ==
    \A k \in Keys : exp.meta[k] # NoTTL => <<exp.meta[k], k>> \in exp.time

\* A key whose time to live lies ahead is not deleted by the checker, neither by
\* the record of an earlier EXPIRE nor by a record that was read before the key
\* was given the later time ("check expire again" in ttlChecker.check).
NotBeforeItsTime ==
    [][snap' # snap => \A k \in data : exp.meta[k] > now => k \in data']_vars

Latest(a, b) == IF a < b THEN b ELSE a

\* With checks that take less than a second, a key is gone at the latest an
\* hour after its time has come and the node has become writable: the time of a
\* nearer check may be lost when a check ends (setNextCheckTime with force) or
\* never be set (records that come by replication), but the next check is never
\* further away than that.
GoneWithinTheHour ==
    ~readonly => \A k \in Keys : exp.meta[k] # NoTTL =>
                     now <= Latest(exp.meta[k], rwSince) + Hour

\* A key with a time to live loses it, by the checker or otherwise, unless the
\* node is read-only (Ledis.checkTTL skips the check).
TtlEnds ==
    \A k \in Keys : exp.meta[k] # NoTTL ~> exp.meta[k] = NoTTL \/ readonly

\* doc/commands.md on PERSIST: "Remove the existing timeout on key".  A key that
\* has no time to live is not deleted by the checker.
PersistedKept ==
    [][snap' # snap => \A k \in data : exp.meta[k] = NoTTL => k \in data']_vars
=============================================================================
