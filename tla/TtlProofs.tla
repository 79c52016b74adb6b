----------------------------- MODULE TtlProofs ------------------------------
(***************************************************************************)
(* The expiry of keys for any keys and times: the records that the checker *)
(* needs are there, no key is deleted before its time, and with checks     *)
(* that end within their second no key outlives its time by more than an   *)
(* hour.                                                                   *)
(***************************************************************************)
EXTENDS Ttl, TLAPS

----------------------------------------------------------------------------
(* The inductive invariants *)

\* The types that the proofs need
Types ==
    /\ now \in Nat
    /\ exp \in Expiries(Keys, Whens)
    /\ nc \in Nat /\ cnow \in Nat /\ cnc \in Nat /\ rwSince \in Nat
    /\ readonly \in BOOLEAN /\ cpc \in {"new", "idle", "scan"}
    /\ snap \subseteq Whens \X Keys

\* The checker does not come from the future.
ClockInv == cnow <= now /\ rwSince <= now

IndexInv == Types /\ ClockInv /\ TimeIndexed

\* The checker never looks further ahead than an hour, and until its first
\* check it is due at once.
AheadInv ==
    /\ nc <= now + Hour
    /\ cpc = "new" => nc = 0
    /\ cpc = "scan" => cnow = now /\ cnc <= now + Hour
    /\ \A e \in snap : cpc = "scan" => e[1] <= now + Hour

\* A record that is due is still before the checker, unless the node was
\* read-only when it passed.
ScanInv ==
    cpc = "scan" /\ ~readonly =>
        \A k \in Keys : exp.meta[k] # NoTTL =>
            exp.meta[k] > now \/ rwSince = now \/ <<exp.meta[k], k>> \in snap

\* Between checks the next one is near enough for every key.
NextInv ==
    cpc = "idle" /\ ~readonly =>
        \A k \in Keys : exp.meta[k] # NoTTL => nc <= Latest(exp.meta[k], rwSince) + Hour

HourInv == IndexInv /\ AheadInv /\ ScanInv /\ NextInv /\ GoneWithinTheHour

----------------------------------------------------------------------------
(* The expiry records *)

\* expireAt gives the key its time and a record of it, and leaves the rest.
LEMMA ExpireAtFacts ==
    ASSUME NEW e \in Expiries(Keys, Whens), NEW k \in Keys, NEW when \in Whens
    PROVE  /\ expireAt(e, k, when) \in Expiries(Keys, Whens)
           /\ expireAt(e, k, when).meta[k] = when
           /\ <<when, k>> \in expireAt(e, k, when).time
           /\ \A j \in Keys : j # k => expireAt(e, k, when).meta[j] = e.meta[j]
           /\ e.time \subseteq expireAt(e, k, when).time
BY DEF Expiries, expireAt

\* What rmExpire and the checker leave of the other keys
Kept(e, f) ==
    \A j \in Keys : \/ f.meta[j] = NoTTL
                    \/ f.meta[j] = e.meta[j] /\ (<<e.meta[j], j>> \in e.time => <<e.meta[j], j>> \in f.time)

\* rmExpire takes the time and its record of one key.
LEMMA RmExpireFacts ==
    ASSUME NEW e \in Expiries(Keys, Whens), NEW k \in Keys
    PROVE  rmExpire(e, k) \in Expiries(Keys, Whens) /\ Kept(e, rmExpire(e, k))
BY DEF Expiries, rmExpire, Kept

\* So does the checker, by the record it has found.
LEMMA RmExpiredFacts ==
    ASSUME NEW e \in Expiries(Keys, Whens), NEW k \in Keys, NEW when \in Whens
    PROVE  /\ rmExpired(e, k, when) \in Expiries(Keys, Whens) /\ Kept(e, rmExpired(e, k, when))
           /\ rmExpired(e, k, when).meta[k] = NoTTL
BY DEF Expiries, rmExpired, Kept

\* A step on the records gives a time or takes some.
Gives(k, when) == exp' = expireAt(exp, k, when)
Takes == exp' \in Expiries(Keys, Whens) /\ Kept(exp, exp')

\* Either kind keeps the index.
LEMMA IndexKept ==
    ASSUME Types, TimeIndexed,
           Takes \/ \E k \in Keys, when \in Whens : Gives(k, when)
    PROVE  exp' \in Expiries(Keys, Whens) /\ TimeIndexed'
<1>1. CASE Takes
  BY <1>1 DEF Takes, Kept, TimeIndexed
<1>2. ASSUME NEW k \in Keys, NEW when \in Whens, Gives(k, when)
      PROVE  exp' \in Expiries(Keys, Whens) /\ TimeIndexed'
  <2>1. /\ exp' \in Expiries(Keys, Whens) /\ exp'.meta[k] = when /\ <<when, k>> \in exp'.time
        /\ \A j \in Keys : j # k => exp'.meta[j] = exp.meta[j]
        /\ exp.time \subseteq exp'.time
    BY <1>2, ExpireAtFacts DEF Gives, Types
  <2> QED
    BY <2>1 DEF TimeIndexed
<1> QED
  BY <1>1, <1>2

\* Leaving the records alone takes nothing.
LEMMA UnchangedTakes == Types /\ exp' = exp => Takes
BY DEF Types, Takes, Kept

----------------------------------------------------------------------------
(* Clients and replication *)

\* A client gives only times that lie ahead; replication gives any, but only on
\* a read-only node.  The next check time only comes nearer.
DataEffect ==
    /\ UNCHANGED <<now, roleVars, checkVars>>
    /\ nc' \in Nat /\ nc' <= nc
    /\ \/ Takes
       \/ \E k \in Keys, when \in Whens : (readonly \/ when > now) /\ Gives(k, when)

\* The times that are given are numbers.
LEMMA WhensNat == Whens \subseteq Nat
BY TimeAssumption DEF Whens

\* So is what a meta record holds.
LEMMA MetaNat == \A e \in Expiries(Keys, Whens) : \A k \in Keys : e.meta[k] \in Nat
<1> SUFFICES ASSUME NEW e \in Expiries(Keys, Whens), NEW k \in Keys PROVE e.meta[k] \in Nat
  OBVIOUS
<1>1. e.meta[k] \in {NoTTL} \cup Whens
  BY DEF Expiries
<1>2. CASE e.meta[k] = NoTTL
  BY <1>2 DEF NoTTL
<1>3. CASE e.meta[k] \in Whens
  BY <1>3, TimeAssumption DEF Whens
<1> QED
  BY <1>1, <1>2, <1>3

\* The steps of clients are of that kind.
LEMMA ClientsEffect == Types /\ Clients => DataEffect
<1> SUFFICES ASSUME Types, Clients PROVE DataEffect
  OBVIOUS
<1>1. PICK k \in Keys : \/ Set(k) \/ Del(k) \/ Persist(k)
                       \/ \E when \in Whens : setExpireAt(k, when) \/ SetEX(k, when)
  BY DEF Clients
<1>2. CASE Set(k)
  BY <1>2, UnchangedTakes DEF Set, DataEffect, Types
<1>3. CASE Del(k) \/ Persist(k)
  <2>1. exp' = rmExpire(exp, k) /\ UNCHANGED <<now, nc, roleVars, checkVars>>
    BY <1>3 DEF Del, Persist
  <2>2. Takes
    BY <2>1, RmExpireFacts DEF Takes, Types
  <2> QED
    BY <2>1, <2>2 DEF DataEffect, Types
<1>4. ASSUME NEW when \in Whens, setExpireAt(k, when) \/ SetEX(k, when)
      PROVE  DataEffect
  <2>1. /\ when > now /\ nc' = setNextCheckTime(when) /\ UNCHANGED <<now, roleVars, checkVars>>
        /\ exp' = exp \/ Gives(k, when)
    BY <1>4 DEF setExpireAt, SetEX, Gives
  <2>2. nc' \in Nat /\ nc' <= nc
    BY <2>1, WhensNat DEF setNextCheckTime, Types
  <2> QED
    BY <2>1, <2>2, UnchangedTakes DEF DataEffect
<1> QED
  BY <1>1, <1>2, <1>3, <1>4

\* So are those of the replication thread.
LEMMA ReplicationEffect == Types /\ Replication => DataEffect
<1> SUFFICES ASSUME Types, Replication PROVE DataEffect
  OBVIOUS
<1>1. PICK k \in Keys : ReplicateDel(k) \/ \E when \in Whens : ReplicateExpire(k, when)
  BY DEF Replication
<1>2. nc \in Nat /\ nc <= nc
  BY DEF Types
<1>3. CASE ReplicateDel(k)
  <2>1. exp' = rmExpire(exp, k) /\ UNCHANGED <<now, nc, roleVars, checkVars>>
    BY <1>3 DEF ReplicateDel
  <2>2. Takes
    BY <2>1, RmExpireFacts DEF Takes, Types
  <2> QED
    BY <1>2, <2>1, <2>2 DEF DataEffect
<1>4. ASSUME NEW when \in Whens, ReplicateExpire(k, when)
      PROVE  DataEffect
  BY <1>2, <1>4 DEF DataEffect, ReplicateExpire, Gives
<1> QED
  BY <1>1, <1>3, <1>4

\* The records stay indexed.
LEMMA DataIndex == IndexInv /\ DataEffect => IndexInv'
<1> SUFFICES ASSUME IndexInv, DataEffect PROVE IndexInv'
  OBVIOUS
<1>1. exp' \in Expiries(Keys, Whens) /\ TimeIndexed'
  BY IndexKept DEF IndexInv, DataEffect
<1>2. Types' /\ ClockInv'
  BY <1>1 DEF IndexInv, Types, ClockInv, DataEffect, roleVars, checkVars
<1> QED
  BY <1>1, <1>2 DEF IndexInv

\* A time that was given lies ahead, or the node is read-only; every other
\* one was there before.
LEMMA DataTimes ==
    ASSUME Types, DataEffect, ~readonly, NEW k \in Keys, exp'.meta[k] # NoTTL
    PROVE  /\ exp'.meta[k] \in Nat
           /\ exp'.meta[k] > now \/ exp'.meta[k] = exp.meta[k]
<1>1. CASE Takes
  BY <1>1, WhensNat DEF Takes, Kept, Expiries
<1>2. ASSUME NEW j \in Keys, NEW when \in Whens, when > now, Gives(j, when)
      PROVE  /\ exp'.meta[k] \in Nat
             /\ exp'.meta[k] > now \/ exp'.meta[k] = exp.meta[k]
  <2>1. /\ exp' \in Expiries(Keys, Whens) /\ exp'.meta[j] = when
        /\ \A i \in Keys : i # j => exp'.meta[i] = exp.meta[i]
    <3>1. exp \in Expiries(Keys, Whens) /\ exp' = expireAt(exp, j, when)
      BY <1>2 DEF Gives, Types
    <3>2. /\ expireAt(exp, j, when) \in Expiries(Keys, Whens)
          /\ expireAt(exp, j, when).meta[j] = when
          /\ \A i \in Keys : i # j => expireAt(exp, j, when).meta[i] = exp.meta[i]
      BY <3>1 DEF Expiries, expireAt
    <3> QED
      BY <3>1, <3>2
  <2> QED
    BY <1>2, <2>1, WhensNat DEF Expiries
<1> QED
  BY <1>1, <1>2 DEF DataEffect

\* The bounds hold for a key that is given a time.
LEMMA DataHour == HourInv /\ DataEffect => HourInv'
<1> SUFFICES ASSUME HourInv, DataEffect PROVE HourInv'
  OBVIOUS
<1>1. IndexInv'
  BY DataIndex DEF HourInv
<1>2. /\ now' = now /\ readonly' = readonly /\ rwSince' = rwSince
      /\ cpc' = cpc /\ cnow' = cnow /\ cnc' = cnc /\ snap' = snap
      /\ nc' \in Nat /\ nc' <= nc
  BY DEF DataEffect, roleVars, checkVars
<1>3. now \in Nat /\ nc \in Nat /\ rwSince \in Nat /\ rwSince <= now /\ Hour \in Nat
  BY HourAssumption DEF HourInv, IndexInv, Types, ClockInv
<1>4. AheadInv'
  BY <1>2, <1>3 DEF HourInv, AheadInv
<1>5. Types
  BY DEF HourInv, IndexInv
<1>6. ScanInv'
  BY <1>2, <1>5, DataTimes DEF HourInv, ScanInv
<1>7. NextInv'
  <2> SUFFICES ASSUME cpc = "idle", ~readonly, NEW k \in Keys, exp'.meta[k] # NoTTL
               PROVE  nc' <= Latest(exp'.meta[k], rwSince) + Hour
    BY <1>2 DEF NextInv, Latest
  <2>1. exp'.meta[k] \in Nat /\ (exp'.meta[k] > now \/ exp'.meta[k] = exp.meta[k])
    BY <1>5, DataTimes
  <2>2. nc <= now + Hour
    BY DEF HourInv, AheadInv
  <2>3. CASE exp'.meta[k] > now
    BY <1>2, <1>3, <2>1, <2>2, <2>3 DEF Latest
  <2>4. CASE exp'.meta[k] = exp.meta[k]
    <3>1. nc <= Latest(exp.meta[k], rwSince) + Hour
      BY <2>4 DEF HourInv, NextInv
    <3> QED
      BY <1>2, <1>3, <2>1, <2>4, <3>1 DEF Latest
  <2> QED
    BY <2>1, <2>3, <2>4
<1>8. GoneWithinTheHour'
  <2> SUFFICES ASSUME ~readonly, NEW k \in Keys, exp'.meta[k] # NoTTL
               PROVE  now <= Latest(exp'.meta[k], rwSince) + Hour
    BY <1>2 DEF GoneWithinTheHour, Latest
  <2>1. exp'.meta[k] \in Nat /\ (exp'.meta[k] > now \/ exp'.meta[k] = exp.meta[k])
    BY <1>5, DataTimes
  <2> QED
    BY <1>3, <2>1 DEF Latest, HourInv, GoneWithinTheHour
<1> QED
  BY <1>1, <1>4, <1>6, <1>7, <1>8 DEF HourInv

----------------------------------------------------------------------------
(* The role, the checker and the clock *)

\* A change of role touches no record.
LEMMA SwitchIndex == IndexInv /\ SwitchRole => IndexInv'
<1> SUFFICES ASSUME IndexInv, SwitchRole PROVE IndexInv'
  OBVIOUS
<1>1. Types' /\ ClockInv'
  BY DEF IndexInv, Types, ClockInv, SwitchRole, dbVars, checkVars
<1>2. TimeIndexed'
  BY DEF IndexInv, TimeIndexed, SwitchRole, dbVars
<1> QED
  BY <1>1, <1>2 DEF IndexInv

\* The hour is counted from the time at which the node becomes writable.
LEMMA SwitchHour == HourInv /\ SwitchRole => HourInv'
<1> SUFFICES ASSUME HourInv, SwitchRole PROVE HourInv'
  OBVIOUS
<1>1. IndexInv'
  BY SwitchIndex DEF HourInv
<1>2. /\ now' = now /\ exp' = exp /\ nc' = nc
      /\ cpc' = cpc /\ cnow' = cnow /\ cnc' = cnc /\ snap' = snap
      /\ ~readonly' => rwSince' = now
  BY DEF SwitchRole, dbVars, checkVars
<1>3. now \in Nat /\ nc \in Nat /\ Hour \in Nat /\ exp \in Expiries(Keys, Whens)
  BY HourAssumption DEF HourInv, IndexInv, Types
<1>4. \A k \in Keys : exp.meta[k] \in Nat
  BY <1>3, MetaNat
<1>5. AheadInv /\ AheadInv'
  BY <1>2 DEF HourInv, AheadInv
<1>6. ScanInv'
  BY <1>2 DEF ScanInv
<1>7. ASSUME ~readonly', NEW k \in Keys
      PROVE  now + Hour <= Latest(exp.meta[k], rwSince') + Hour
  BY <1>2, <1>3, <1>4, <1>7 DEF Latest
<1>8. NextInv' /\ GoneWithinTheHour'
  <2>1. nc <= now + Hour /\ now <= now + Hour
    BY <1>3, <1>5 DEF AheadInv
  <2>2. ASSUME ~readonly', NEW k \in Keys
        PROVE  nc' <= Latest(exp'.meta[k], rwSince') + Hour /\ now' <= Latest(exp'.meta[k], rwSince') + Hour
    <3>1. Latest(exp.meta[k], rwSince') \in Nat
      BY <1>2, <1>3, <1>4, <2>2 DEF Latest
    <3> QED
      BY <1>2, <1>3, <1>7, <2>1, <2>2, <3>1
  <2> QED
    BY <2>2 DEF NextInv, GoneWithinTheHour, Latest
<1> QED
  BY <1>1, <1>5, <1>6, <1>8 DEF HourInv

\* What a record of the iterator is
LEMMA SnapEntry ==
    ASSUME Types, NEW e \in First(snap)
    PROVE  /\ e \in snap /\ e[1] \in Whens /\ e[2] \in Keys /\ e = <<e[1], e[2]>>
           /\ \A f \in snap : e[1] <= f[1]
BY DEF Types, First

\* The checker takes at most the time and the record that it found.
LEMMA EntryTakes ==
    ASSUME Types, NEW e \in First(snap), CheckEntry(e)
    PROVE  Takes
<1>1. exp' = rmExpired(exp, e[2], e[1]) \/ exp' = exp
  BY DEF CheckEntry, dbVars
<1>2. CASE exp' = rmExpired(exp, e[2], e[1])
  BY <1>2, SnapEntry, RmExpiredFacts DEF Takes, Types
<1> QED
  BY <1>1, <1>2, UnchangedTakes

\* No step of the checker breaks the index.
LEMMA CheckIndex == IndexInv /\ Check => IndexInv'
<1> SUFFICES ASSUME IndexInv, Check PROVE IndexInv'
  OBVIOUS
<1>1. now \in Nat /\ Hour \in Nat /\ now <= now /\ 0 <= now
  BY HourAssumption DEF IndexInv, Types
<1>2. CASE CheckStart
  <2>1. Types' /\ ClockInv'
    BY <1>1, <1>2 DEF IndexInv, Types, ClockInv, CheckStart, dbVars, roleVars, Expiries
  <2>2. TimeIndexed'
    BY <1>2 DEF IndexInv, TimeIndexed, CheckStart, dbVars
  <2> QED
    BY <2>1, <2>2 DEF IndexInv
<1>3. ASSUME NEW e \in First(snap), CheckEntry(e)
      PROVE  IndexInv'
  <2>1. exp' \in Expiries(Keys, Whens) /\ TimeIndexed'
    BY <1>3, EntryTakes, IndexKept DEF IndexInv
  <2>2. Types' /\ ClockInv'
    BY <1>3, <2>1 DEF IndexInv, Types, ClockInv, CheckEntry, roleVars
  <2> QED
    BY <2>1, <2>2 DEF IndexInv
<1>4. ASSUME NEW e \in First(snap), CheckNext(e)
      PROVE  IndexInv'
  <2>1. e[1] \in Nat
    BY SnapEntry, WhensNat DEF IndexInv
  <2>2. Types' /\ ClockInv'
    BY <1>4, <2>1 DEF IndexInv, Types, ClockInv, CheckNext, dbVars, roleVars
  <2>3. TimeIndexed'
    BY <1>4 DEF IndexInv, TimeIndexed, CheckNext, dbVars
  <2> QED
    BY <2>2, <2>3 DEF IndexInv
<1>5. CASE CheckEnd
  <2>1. Types' /\ ClockInv'
    BY <1>1, <1>5 DEF IndexInv, Types, ClockInv, CheckEnd, dbVars, roleVars
  <2>2. TimeIndexed'
    BY <1>5 DEF IndexInv, TimeIndexed, CheckEnd, dbVars
  <2> QED
    BY <2>1, <2>2 DEF IndexInv
<1> QED
  BY <1>2, <1>3, <1>4, <1>5 DEF Check

\* Neither does the clock.
LEMMA TickIndex == IndexInv /\ Tick => IndexInv'
<1> SUFFICES ASSUME IndexInv, Tick PROVE IndexInv'
  OBVIOUS
<1>1. Types' /\ ClockInv'
  BY DEF IndexInv, Types, ClockInv, Tick, dbVars, roleVars, checkVars
<1>2. TimeIndexed'
  BY DEF IndexInv, TimeIndexed, Tick, dbVars
<1> QED
  BY <1>1, <1>2 DEF IndexInv

\* A check begins with every record that is due.
LEMMA StartHour == HourInv /\ CheckStart => HourInv'
<1> SUFFICES ASSUME HourInv, CheckStart PROVE HourInv'
  OBVIOUS
<1>1. IndexInv'
  BY CheckIndex DEF HourInv, Check
<1>2. /\ now' = now /\ exp' = exp /\ nc' = nc /\ readonly' = readonly /\ rwSince' = rwSince
      /\ cpc' = "scan" /\ cnow' = now /\ cnc' = now + Hour
      /\ snap' = {e \in exp.time : e[1] <= now + Hour}
  BY DEF CheckStart, dbVars, roleVars
<1>3. now \in Nat /\ nc \in Nat /\ Hour \in Nat /\ exp \in Expiries(Keys, Whens) /\ TimeIndexed
  BY HourAssumption DEF HourInv, IndexInv, Types
<1>4. AheadInv'
  BY <1>2, <1>3 DEF HourInv, AheadInv
<1>5. ScanInv'
  <2> SUFFICES ASSUME NEW k \in Keys, exp.meta[k] # NoTTL, ~(exp.meta[k] > now)
               PROVE  <<exp.meta[k], k>> \in snap'
    BY <1>2 DEF ScanInv
  <2>1. <<exp.meta[k], k>> \in exp.time
    BY <1>3 DEF TimeIndexed
  <2>2. exp.meta[k] <= now + Hour
    BY <1>3, MetaNat
  <2> QED
    BY <1>2, <2>1, <2>2
<1>6. NextInv' /\ GoneWithinTheHour'
  BY <1>2 DEF HourInv, NextInv, GoneWithinTheHour, Latest
<1> QED
  BY <1>1, <1>4, <1>5, <1>6 DEF HourInv

\* A record that is passed was stale, or its key is gone.
LEMMA EntryHour ==
    ASSUME HourInv, cpc = "scan", NEW e \in First(snap), CheckEntry(e)
    PROVE  HourInv'
<1>1. IndexInv'
  BY CheckIndex DEF HourInv, Check
<1>2. /\ now' = now /\ nc' = nc /\ readonly' = readonly /\ rwSince' = rwSince
      /\ cpc' = cpc /\ cnow' = cnow /\ cnc' = cnc /\ snap' = snap \ {e}
  BY DEF CheckEntry, roleVars
<1>3. Types /\ now \in Nat /\ cnow = now
  BY DEF HourInv, IndexInv, Types, AheadInv
<1>4. e[1] \in Whens /\ e[2] \in Keys /\ e = <<e[1], e[2]>>
  BY <1>3, SnapEntry
<1>5. Takes
  BY <1>3, EntryTakes
<1>6. \A k \in Keys : exp'.meta[k] # NoTTL => exp'.meta[k] = exp.meta[k]
  BY <1>5 DEF Takes, Kept
<1>7. AheadInv'
  BY <1>2 DEF HourInv, AheadInv
<1>8. ScanInv'
  <2> SUFFICES ASSUME ~readonly, NEW k \in Keys, exp'.meta[k] # NoTTL
               PROVE  exp'.meta[k] > now \/ rwSince = now \/ <<exp'.meta[k], k>> \in snap'
    BY <1>2 DEF ScanInv
  <2>1. exp'.meta[k] = exp.meta[k] /\ exp.meta[k] \in Nat
    BY <1>3, <1>6, MetaNat DEF Types
  <2>2. exp.meta[k] > now \/ rwSince = now \/ <<exp.meta[k], k>> \in snap
    BY <2>1 DEF HourInv, ScanInv
  <2>3. CASE k # e[2]
    BY <1>2, <1>4, <2>1, <2>2, <2>3
  <2>4. CASE k = e[2]
    <3>1. ~expired(exp, k, now)
      <4> SUFFICES ASSUME expired(exp, k, now) PROVE FALSE
        OBVIOUS
      <4>1. exp' = rmExpired(exp, e[2], e[1])
        BY <1>3, <2>4 DEF CheckEntry
      <4>2. rmExpired(exp, e[2], e[1]).meta[e[2]] = NoTTL
        BY <1>3, <1>4, RmExpiredFacts DEF Types
      <4> QED
        BY <2>4, <4>1, <4>2
    <3> QED
      BY <1>3, <2>1, <3>1 DEF expired
  <2> QED
    BY <2>3, <2>4
<1>9. NextInv' /\ GoneWithinTheHour'
  BY <1>2, <1>6 DEF HourInv, NextInv, GoneWithinTheHour, Latest
<1> QED
  BY <1>1, <1>7, <1>8, <1>9 DEF HourInv

\* The iterator goes in the order of time, so the first record that is not due
\* is the next that will be.
LEMMA NextHour ==
    ASSUME HourInv, cpc = "scan", NEW e \in First(snap), CheckNext(e)
    PROVE  HourInv'
<1>1. IndexInv'
  BY CheckIndex DEF HourInv, Check
<1>2. /\ now' = now /\ exp' = exp /\ nc' = nc /\ readonly' = readonly /\ rwSince' = rwSince
      /\ cpc' = cpc /\ cnow' = cnow /\ cnc' = e[1] /\ snap' = {} /\ e[1] > cnow
  BY DEF CheckNext, dbVars, roleVars
<1>3. Types /\ now \in Nat /\ cnow = now /\ exp \in Expiries(Keys, Whens)
  BY DEF HourInv, IndexInv, Types, AheadInv
<1>4. /\ e \in snap /\ e[1] \in Nat
      /\ \A f \in snap : e[1] <= f[1]
  BY <1>3, SnapEntry, WhensNat
<1>5. e[1] <= now + Hour
  BY <1>4 DEF HourInv, AheadInv
<1>6. AheadInv'
  BY <1>2, <1>3, <1>5 DEF HourInv, AheadInv
<1>7. ScanInv'
  <2> SUFFICES ASSUME ~readonly, NEW k \in Keys, exp.meta[k] # NoTTL
               PROVE  exp.meta[k] > now \/ rwSince = now
    BY <1>2 DEF ScanInv
  <2>1. exp.meta[k] \in Nat
    BY <1>3, MetaNat
  <2>2. CASE <<exp.meta[k], k>> \in snap
    <3>1. e[1] <= <<exp.meta[k], k>>[1]
      BY <1>4, <2>2
    <3> QED
      BY <1>2, <1>3, <1>4, <2>1, <3>1
  <2> QED
    BY <2>2 DEF HourInv, ScanInv
<1>8. NextInv' /\ GoneWithinTheHour'
  BY <1>2 DEF HourInv, NextInv, GoneWithinTheHour, Latest
<1> QED
  BY <1>1, <1>6, <1>7, <1>8 DEF HourInv

\* At the end no record is due that the checker could have removed.
LEMMA EndHour ==
    ASSUME HourInv, cpc = "scan", CheckEnd
    PROVE  HourInv'
<1>1. IndexInv'
  BY CheckIndex DEF HourInv, Check
<1>2. /\ now' = now /\ exp' = exp /\ nc' = cnc /\ readonly' = readonly /\ rwSince' = rwSince
      /\ cpc' = "idle" /\ snap = {} /\ snap' = {}
  BY DEF CheckEnd, dbVars, roleVars
<1>3. /\ now \in Nat /\ cnc \in Nat /\ rwSince \in Nat /\ Hour \in Nat
      /\ exp \in Expiries(Keys, Whens) /\ cnc <= now + Hour
  BY HourAssumption DEF HourInv, IndexInv, Types, AheadInv
<1>4. AheadInv'
  BY <1>2, <1>3 DEF AheadInv
<1>5. NextInv'
  <2> SUFFICES ASSUME ~readonly, NEW k \in Keys, exp.meta[k] # NoTTL
               PROVE  cnc <= Latest(exp.meta[k], rwSince) + Hour
    BY <1>2 DEF NextInv, Latest
  <2>1. exp.meta[k] \in Nat
    BY <1>3, MetaNat
  <2>2. exp.meta[k] > now \/ rwSince = now
    BY <1>2 DEF HourInv, ScanInv
  <2> QED
    BY <1>3, <2>1, <2>2 DEF Latest
<1>6. ScanInv' /\ GoneWithinTheHour'
  BY <1>2 DEF HourInv, ScanInv, GoneWithinTheHour, Latest
<1> QED
  BY <1>1, <1>4, <1>5, <1>6 DEF HourInv

\* A second passes only between checks, and only before the next one is due.
LEMMA TickHour ==
    ASSUME Prompt = TRUE, HourInv, Tick
    PROVE  HourInv'
<1>1. IndexInv'
  BY TickIndex DEF HourInv
<1>2. /\ now' = now + 1 /\ exp' = exp /\ nc' = nc /\ readonly' = readonly /\ rwSince' = rwSince
      /\ cpc' = cpc /\ snap' = snap /\ cpc # "scan" /\ ~CheckDue
  BY DEF Tick, dbVars, roleVars, checkVars
<1>3. /\ now \in Nat /\ nc \in Nat /\ rwSince \in Nat /\ Hour \in Nat
      /\ exp \in Expiries(Keys, Whens) /\ cpc \in {"new", "idle", "scan"}
  BY HourAssumption DEF HourInv, IndexInv, Types
<1>4. AheadInv'
  BY <1>2, <1>3 DEF HourInv, AheadInv
<1>5. ScanInv' /\ NextInv'
  BY <1>2 DEF HourInv, ScanInv, NextInv, Latest
<1>6. GoneWithinTheHour'
  <2> SUFFICES ASSUME ~readonly, NEW k \in Keys, exp.meta[k] # NoTTL
               PROVE  now + 1 <= Latest(exp.meta[k], rwSince) + Hour
    BY <1>2 DEF GoneWithinTheHour, Latest
  <2>1. exp.meta[k] \in Nat
    BY <1>3, MetaNat
  <2>2. cpc = "idle"
    BY <1>2, <1>3 DEF HourInv, AheadInv, CheckDue
  <2>3. ~(now >= nc)
    BY <1>2, <2>2 DEF CheckDue
  <2>4. nc <= Latest(exp.meta[k], rwSince) + Hour
    BY <2>2 DEF HourInv, NextInv
  <2> QED
    BY <1>3, <2>1, <2>3, <2>4 DEF Latest
<1> QED
  BY <1>1, <1>4, <1>5, <1>6 DEF HourInv

----------------------------------------------------------------------------
(* The theorems *)

\* The invariants hold of a node that has just started.
LEMMA InitHour == Init => HourInv
<1> SUFFICES ASSUME Init PROVE HourInv
  OBVIOUS
<1>1. now = 1 /\ exp = NoExpiry(Keys) /\ nc = 0 /\ rwSince = 1 /\ cpc = "new" /\ snap = {}
  BY DEF Init
<1>2. exp \in Expiries(Keys, Whens)
  BY <1>1 DEF NoExpiry, Expiries
<1>3. \A k \in Keys : exp.meta[k] = NoTTL
  BY <1>1 DEF NoExpiry
<1>4. Types /\ ClockInv
  BY <1>2 DEF Init, Types, ClockInv
<1>5. TimeIndexed /\ NextInv /\ ScanInv /\ GoneWithinTheHour
  BY <1>3 DEF TimeIndexed, NextInv, ScanInv, GoneWithinTheHour
<1>6. AheadInv
  BY <1>1, HourAssumption DEF AheadInv
<1> QED
  BY <1>4, <1>5, <1>6 DEF HourInv, IndexInv

\* Every step keeps the index.
LEMMA NextIndex == IndexInv /\ [Next]_vars => IndexInv'
<1> SUFFICES ASSUME IndexInv, [Next]_vars PROVE IndexInv'
  OBVIOUS
<1>1. CASE Clients \/ Replication
  BY <1>1, ClientsEffect, ReplicationEffect, DataIndex DEF IndexInv
<1>2. CASE SwitchRole
  BY <1>2, SwitchIndex
<1>3. CASE Check
  BY <1>3, CheckIndex
<1>4. CASE Tick
  BY <1>4, TickIndex
<1>5. CASE UNCHANGED vars
  BY <1>5 DEF vars, dbVars, roleVars, checkVars, IndexInv, Types, ClockInv, TimeIndexed
<1> QED
  BY <1>1, <1>2, <1>3, <1>4, <1>5 DEF Next

\* With prompt checks every step keeps the bounds.
LEMMA NextHourInv == ASSUME Prompt = TRUE PROVE HourInv /\ [Next]_vars => HourInv'
<1> SUFFICES ASSUME HourInv, [Next]_vars PROVE HourInv'
  OBVIOUS
<1>1. CASE Clients \/ Replication
  BY <1>1, ClientsEffect, ReplicationEffect, DataHour DEF HourInv, IndexInv
<1>2. CASE SwitchRole
  BY <1>2, SwitchHour
<1>3. CASE Check
  BY <1>3, StartHour, EntryHour, NextHour, EndHour DEF Check
<1>4. CASE Tick
  BY <1>4, TickHour
<1>5. CASE UNCHANGED vars
  <2>1. IndexInv'
    BY <1>5, NextIndex DEF HourInv
  <2>2. AheadInv' /\ ScanInv' /\ NextInv' /\ GoneWithinTheHour'
    BY <1>5 DEF vars, dbVars, roleVars, checkVars, HourInv, AheadInv, ScanInv, NextInv,
                GoneWithinTheHour, Latest
  <2> QED
    BY <2>1, <2>2 DEF HourInv
<1> QED
  BY <1>1, <1>2, <1>3, <1>4, <1>5 DEF Next

\* So the index is always there.
LEMMA IndexAlways == Spec => []IndexInv
<1>1. Init => IndexInv
  BY InitHour DEF HourInv
<1> QED
  BY <1>1, NextIndex, PTL DEF Spec

\* For any keys, times and interleaving of clients, replication and checker: the
\* time record of a key's present time to live is where ttlChecker.check will
\* find it, even while a check is under way.
THEOREM TimeIndexedHolds == Spec => []TimeIndexed
<1>1. IndexInv => TimeIndexed
  BY DEF IndexInv
<1> QED
  BY <1>1, IndexAlways, PTL

\* For any keys, times and interleaving: ttlChecker.check deletes no key whose
\* time to live still lies ahead.
THEOREM NotBeforeItsTimeHolds == Spec => NotBeforeItsTime
<1>1. ASSUME IndexInv, [Next]_vars
      PROVE  [snap' # snap => \A k \in data : exp.meta[k] > now => k \in data']_vars
  <2> SUFFICES ASSUME Next, snap' # snap, NEW k \in data, exp.meta[k] > now, k \notin data'
               PROVE  FALSE
    BY <1>1
  <2>1. CASE Clients \/ Replication
    BY <1>1, <2>1, ClientsEffect, ReplicationEffect DEF IndexInv, DataEffect, checkVars
  <2>2. CASE SwitchRole \/ Tick
    BY <2>2 DEF SwitchRole, Tick, checkVars
  <2>3. CASE Check
    <3>1. PICK e \in First(snap) : CheckEntry(e)
      BY <2>3 DEF Check, CheckStart, CheckNext, CheckEnd, dbVars
    <3>2. k = e[2] /\ exp.meta[k] <= cnow
      BY <3>1 DEF CheckEntry, expired, dbVars
    <3>3. exp.meta[k] \in Nat /\ now \in Nat /\ cnow \in Nat /\ cnow <= now
      BY <1>1, <3>2, SnapEntry, MetaNat DEF IndexInv, Types, ClockInv
    <3> QED
      BY <3>2, <3>3
  <2> QED
    BY <2>1, <2>2, <2>3 DEF Next
<1> QED
  BY <1>1, IndexAlways, PTL DEF Spec, NotBeforeItsTime

\* For any keys and times, when every check begins and ends within its second:
\* on a writable node no key outlives its time, or the moment at which the node
\* became writable, by more than the hour for which Ledis.checkTTL may sleep.
THEOREM GoneWithinTheHourHolds ==
    ASSUME Prompt = TRUE
    PROVE  Spec => []GoneWithinTheHour
<1>1. Init => HourInv
  BY InitHour
<1>2. HourInv /\ [Next]_vars => HourInv'
  BY NextHourInv
<1>3. HourInv => GoneWithinTheHour
  BY DEF HourInv
<1> QED
  BY <1>1, <1>2, <1>3, PTL DEF Spec
=============================================================================
