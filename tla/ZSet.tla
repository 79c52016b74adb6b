-------------------------------- MODULE ZSet --------------------------------
(***************************************************************************)
(* Sorted sets as they are stored (ledis/t_zset.go): per member a record   *)
(* with its score, ordered by member, and an empty record under its score, *)
(* ordered by score and member; and a record with their number.            *)
(*                                                                         *)
(* A write holds the lock of the type, reads the committed store and       *)
(* commits once.  Three commands read before they take the lock: the       *)
(* variable pend holds what one of them has read.                          *)
(***************************************************************************)
EXTENDS Expiry, Sequences, SequencesExt

CONSTANTS
    Keys,
    Members,      \* natural numbers, for their order
    MaxScore,     \* scores lie strictly between -MaxScore and MaxScore
    Whens,        \* the expiration times
    Stores,       \* the ZUNIONSTORE and ZINTERSTORE commands that are called:
                  \* [dest, inter, keys, weights, aggregate]
    Ranks,        \* the ranks that ZREMRANGEBYRANK is given
    ZeroDelta,    \* TRUE: ZINCRBY of a member by 0
    LexRemovals   \* TRUE: ZREMRANGEBYLEX is used

VARIABLES
    score,     \* the records by member: a function from <<key, member>>
    index,     \* the records by score: <<key, score, member>>
    size,      \* the size records: a number, or NoSize
    exp,       \* the expiry records
    flushing,  \* FLUSHDB is between two of its rounds, and holds the lock
    pend       \* what the command before its lock has read, or NoPend

recVars == <<score, index, size, exp>>
vars == <<recVars, flushing, pend>>

NoSize == -1
NoPend == [op |-> "none"]
Scores == -(MaxScore - 1)..(MaxScore - 1)

Init ==
    /\ score = [p \in {} |-> 0]
    /\ index = {}
    /\ size = [k \in Keys |-> NoSize]
    /\ exp = NoExpiry(Keys)
    /\ flushing = FALSE
    /\ pend = NoPend

Has(k, m) == <<k, m>> \in DOMAIN score
MembersOf(k) == {m \in Members : Has(k, m)}
ZCard(k) == IF size[k] = NoSize THEN 0 ELSE size[k]
ZKeyExists(k) == size[k] # NoSize

\* The records by score of a key between two scores, in the order of the store.
Before(e, f) == e[2] < f[2] \/ (e[2] = f[2] /\ e[3] < f[3])

zIterator(k, min, max, offset, count) ==
    LET all == SetToSortSeq({e \in index : e[1] = k /\ min <= e[2] /\ e[2] <= max}, Before)
        last == IF count < 0 THEN Len(all) ELSE Min({Len(all), offset + count})
    IN  IF offset < 0 THEN <<>> ELSE SubSeq(all, offset + 1, last)
-----------------------------------------------------------------------------
(* Writes.                                                                  *)

Unlocked == ~flushing

zIncrSize(k, delta) ==
    IF ZCard(k) + delta <= 0
    THEN size' = [size EXCEPT ![k] = NoSize] /\ exp' = rmExpire(exp, k)
    ELSE size' = [size EXCEPT ![k] = ZCard(k) + delta] /\ UNCHANGED exp

\* The records after the members of f are given their scores.
zSetItem(k, f) ==
    [score |-> [p \in {<<k, m>> : m \in DOMAIN f} |-> f[p[2]]] @@ score,
     index |-> (index \ {<<k, score[<<k, m>>], m>> : m \in DOMAIN f \cap MembersOf(k)})
                   \cup {<<k, f[m], m>> : m \in DOMAIN f}]

\* ZADD of different members.
ZAdd(k, f) ==
    /\ Unlocked
    /\ score' = zSetItem(k, f).score /\ index' = zSetItem(k, f).index
    /\ zIncrSize(k, Cardinality(DOMAIN f \ MembersOf(k)))
    /\ UNCHANGED <<flushing, pend>>

\* The records without those by member of M (zDelItem) and the entries E.
Removed(k, M, E) ==
    /\ score' = [p \in DOMAIN score \ {<<k, m>> : m \in M} |-> score[p]]
    /\ index' = index \ E
    /\ zIncrSize(k, -Cardinality({m \in M : Has(k, m)}))

ZRem(k, M) ==
    /\ Unlocked
    /\ Removed(k, M, {e \in index : e[1] = k /\ e[3] \in M /\ Has(k, e[3])
                                    /\ e[2] = score[<<k, e[3]>>]})
    /\ UNCHANGED <<flushing, pend>>

\* The member is counted first, the new records are written, then the record
\* under the old score is deleted.  A score out of range changes nothing.
ZIncrBy(k, delta, m) ==
    LET old == IF Has(k, m) THEN score[<<k, m>>] ELSE 0
    IN  /\ Unlocked
        /\ old + delta \in Scores
        /\ ZeroDelta \/ delta # 0 \/ ~Has(k, m)
        /\ score' = (<<k, m>> :> (old + delta)) @@ score
        /\ index' = LET put == index \cup {<<k, old + delta, m>>}
                    IN  IF Has(k, m) THEN put \ {<<k, old, m>>} ELSE put
        /\ IF Has(k, m) THEN UNCHANGED <<size, exp>> ELSE zIncrSize(k, 1)
        /\ UNCHANGED <<flushing, pend>>

\* Mutant: the records by score stay.
zRemRangeMembers(k, min, max, offset, count) ==
    Removed(k, {e[3] : e \in ToSet(zIterator(k, min, max, offset, count))}, {})

\* Whatever the records by score say is removed, in both orders.
zRemRange(k, min, max, offset, count) ==
    LET es == ToSet(zIterator(k, min, max, offset, count))
    IN  Removed(k, {e[3] : e \in es}, es)

ZRemRangeByScore(k, min, max) ==
    /\ Unlocked
    /\ zRemRange(k, min, max, 0, -1)
    /\ UNCHANGED <<flushing, pend>>

ZClear(k) == ZRemRangeByScore(k, -MaxScore, MaxScore)

\* The records by member only.
ZRemRangeByLex(k, min, max) ==
    /\ LexRemovals /\ size[k] <= Cardinality(Members)
    /\ Unlocked
    /\ score' = [p \in {q \in DOMAIN score : q[1] # k \/ q[2] \notin min..max} |-> score[p]]
    /\ UNCHANGED <<index, size, exp, flushing, pend>>

zExpireAt(k, when) ==
    /\ Unlocked
    /\ ZCard(k) # 0
    /\ exp' = expireAt(exp, k, when)
    /\ UNCHANGED <<score, index, size, flushing, pend>>

ZPersist(k) ==
    /\ Unlocked
    /\ exp' = rmExpire(exp, k)
    /\ UNCHANGED <<score, index, size, flushing, pend>>

\* The checker (module Ttl): zDelete, then the expiry records.
zExpired(k) ==
    LET es == ToSet(zIterator(k, -MaxScore, MaxScore, 0, -1))
        gone == {m \in {e[3] : e \in es} : Has(k, m)}
    IN  /\ Unlocked
        /\ exp.meta[k] # NoTTL
        /\ score' = [p \in DOMAIN score \ {<<k, m>> : m \in gone} |-> score[p]]
        /\ index' = index \ es
        /\ size' = [size EXCEPT ![k] = IF ZCard(k) <= Cardinality(gone) THEN NoSize
                                       ELSE ZCard(k) - Cardinality(gone)]
        /\ exp' = rmExpired(exp, k, exp.meta[k])
        /\ UNCHANGED <<flushing, pend>>

\* FLUSHDB: the lock, then a round for each size record, as long as there is one.
zFlushStart ==
    /\ Unlocked
    /\ flushing' = TRUE
    /\ UNCHANGED <<recVars, pend>>

\* Mutant: the members with positive scores stay.
zFlushKeyLow(k) ==
    /\ flushing /\ size[k] # NoSize
    /\ zRemRange(k, -MaxScore, 0, 0, -1)
    /\ UNCHANGED <<flushing, pend>>

zFlushKey(k) ==
    /\ flushing /\ size[k] # NoSize
    /\ zRemRange(k, -MaxScore, MaxScore, 0, -1)
    /\ UNCHANGED <<flushing, pend>>

zFlushEnd ==
    /\ flushing /\ \A k \in Keys : size[k] = NoSize
    /\ flushing' = FALSE
    /\ UNCHANGED <<recVars, pend>>

zFlush == zFlushStart \/ zFlushEnd \/ \E k \in Keys : zFlushKey(k)
-----------------------------------------------------------------------------
(* Commands that read before they lock.                                     *)

\* A range by rank: offset -1 stands for none.
zParseLimit(k, start, stop) ==
    LET Pos(i) == IF i < 0 THEN ZCard(k) + i ELSE i
        from == Max({0, Pos(start)})
    IN  IF ((start < 0 \/ stop < 0) /\ from >= ZCard(k)) \/ from > Pos(stop)
        THEN [offset |-> -1, count |-> 0]
        ELSE [offset |-> from, count |-> Pos(stop) - from + 1]

RankRead(k, start, stop) ==
    /\ pend = NoPend
    /\ pend' = [op |-> "rank", key |-> k, start |-> start, stop |-> stop,
                limit |-> zParseLimit(k, start, stop)]
    /\ UNCHANGED <<recVars, flushing>>

ZRemRangeByRank ==
    /\ pend.op = "rank" /\ Unlocked
    /\ zRemRange(pend.key, -MaxScore, MaxScore, pend.limit.offset, pend.limit.count)
    /\ pend' = NoPend
    /\ UNCHANGED flushing

aggregateFunc(name, a, b) ==
    CASE name = "sum" -> a + b
      [] name = "max" -> Max({a, b})
      [] name = "min" -> Min({a, b})

\* The map of a store, member by member, after the source with the number i.
Merge(st, i, map, k) ==
    LET w(m) == score[<<k, m>>] * st.weights[i]
        src == MembersOf(k)
        old == DOMAIN map
        new == IF i = 1 THEN src ELSE IF st.inter THEN old \cap src ELSE old \cup src
    IN  [m \in new |-> IF m \in old /\ m \in src THEN aggregateFunc(st.aggregate, map[m], w(m))
                       ELSE IF m \in src THEN w(m) ELSE map[m]]

\* The sources are read one after the other, without a lock.
StoreRead ==
    \/ /\ pend = NoPend
       /\ \E st \in Stores :
             pend' = [op |-> "store", st |-> st, i |-> 1,
                      map |-> Merge(st, 1, [m \in {} |-> 0], st.keys[1])]
       /\ UNCHANGED <<recVars, flushing>>
    \/ /\ pend.op = "store" /\ pend.i < Len(pend.st.keys)
       /\ pend' = [pend EXCEPT !.i = @ + 1,
                               !.map = Merge(pend.st, pend.i + 1, @, pend.st.keys[pend.i + 1])]
       /\ UNCHANGED <<recVars, flushing>>

\* ZUNIONSTORE, ZINTERSTORE: the destination is deleted, its time to live with
\* it, and the map written.  A score out of range, and nothing is changed.
ZStore ==
    LET d == pend.st.dest
        es == ToSet(zIterator(d, -MaxScore, MaxScore, 0, -1))
        gone == {e[3] : e \in es}
        left == ZCard(d) - Cardinality({m \in gone : Has(d, m)})
    IN  /\ pend.op = "store" /\ pend.i = Len(pend.st.keys) /\ Unlocked
        /\ IF \E m \in DOMAIN pend.map : pend.map[m] \notin Scores
           THEN UNCHANGED recVars
           ELSE /\ score' = [p \in (DOMAIN score \ {<<d, m>> : m \in gone})
                                       \cup {<<d, m>> : m \in DOMAIN pend.map} |->
                                IF p[1] = d /\ p[2] \in DOMAIN pend.map THEN pend.map[p[2]]
                                ELSE score[p]]
                /\ index' = (index \ es) \cup {<<d, pend.map[m], m>> : m \in DOMAIN pend.map}
                /\ size' = [size EXCEPT ![d] = Cardinality(DOMAIN pend.map)]
                /\ exp' = IF left <= 0 THEN rmExpire(exp, d) ELSE exp
        /\ pend' = NoPend
        /\ UNCHANGED flushing

Next ==
    \/ \E k \in Keys, m \in Members, d \in Scores : ZIncrBy(k, d, m)
    \/ \E k \in Keys, M \in SUBSET Members :
          ZRem(k, M) \/ \E f \in [M -> Scores] : M # {} /\ ZAdd(k, f)
    \/ \E k \in Keys, min, max \in Scores : ZRemRangeByScore(k, min, max)
    \/ \E k \in Keys, min, max \in Members : ZRemRangeByLex(k, min, max)
    \/ \E k \in Keys :
          \/ ZClear(k) \/ ZPersist(k) \/ zExpired(k)
          \/ \E w \in Whens : zExpireAt(k, w)
          \/ \E start, stop \in Ranks : RankRead(k, start, stop)
    \/ ZRemRangeByRank \/ StoreRead \/ ZStore
    \/ zFlush

Spec == Init /\ [][Next]_vars

\* A goroutine that holds the lock goes on.
FairSpec == Spec /\ WF_vars(zFlushEnd \/ \E k \in Keys : zFlushKey(k))
-----------------------------------------------------------------------------
(* Reads.                                                                   *)

ZScore(k, m) == score[<<k, m>>]

ZCount(k, min, max) == Len(zIterator(k, min, max, 0, -1))

\* ZRANGEBYSCORE and, reversed, ZREVRANGEBYSCORE; a range by rank is one over
\* all scores.
zRange(k, min, max, offset, count, reverse) ==
    IF offset < 0 THEN <<>>
    ELSE IF ~reverse THEN zIterator(k, min, max, offset, count)
    ELSE LET all == Reverse(zIterator(k, min, max, 0, -1))
             last == IF count < 0 THEN Len(all) ELSE Min({Len(all), offset + count})
         IN  SubSeq(all, offset + 1, last)

\* The number of entries up to that of the member, less one, or from it on.
zrank(k, m, reverse) ==
    LET e == <<k, ZScore(k, m), m>>
        upto == {f \in index : f[1] = k /\ IF reverse THEN ~Before(f, e) ELSE ~Before(e, f)}
    IN  IF Has(k, m) /\ e \in upto THEN Cardinality(upto) - 1 ELSE -1

ZRangeByLex(k, min, max, lopen, ropen) ==
    {m \in MembersOf(k) : /\ IF lopen THEN min < m ELSE min <= m
                          /\ IF ropen THEN m < max ELSE m <= max}

ZLexCount(k, min, max, lopen, ropen) ==
    Cardinality({p \in DOMAIN score : p[1] = k /\ p[2] \in ZRangeByLex(k, min, max, lopen, ropen)})
-----------------------------------------------------------------------------
(* Properties.                                                              *)

\* Member records, score records, sizes and times to live are well formed; a size
\* record is never negative (zIncrSize).
TypeOK ==
    /\ DOMAIN score \subseteq Keys \X Members
    /\ \A p \in DOMAIN score : score[p] \in Scores
    /\ index \subseteq Keys \X Scores \X Members
    /\ size \in [Keys -> {NoSize} \cup Nat]
    /\ exp \in Expiries(Keys, Whens)
    /\ flushing \in BOOLEAN

\* The two orders hold the same members: for every member there is the record
\* under its score, and no other (zSetItem, zDelItem, ZIncrBy, zRemRange, ZStore).
Indexed == index = {<<p[1], score[p], p[2]>> : p \in DOMAIN score}

\* A member has the record under its score, whatever ZREMRANGEBYLEX leaves behind:
\* members that exist are found by range.
MembersIndexed == {<<p[1], score[p], p[2]>> : p \in DOMAIN score} \subseteq index

\* ZCARD is the number of members.  doc/commands.md on ZCARD: "the cardinality
\* (number of elements) of the sorted set, or `0` if key does not exist".
ZCardIsMembers == \A k \in Keys : ZCard(k) = Cardinality(MembersOf(k))

\* A key with a time to live is a sorted set with members.
TtlOnZSets == \A k \in Keys : exp.meta[k] # NoTTL => MembersOf(k) # {}

\* ZRANK, ZREVRANK, ZCOUNT, ZRANGE and ZREVRANGE answer with the order of scores
\* and members.  doc/commands.md on ZRANK: "If member exists in the sorted set,
\* Integer reply: the rank of member."
RanksAgree ==
    \A k \in Keys :
        LET Lower(m) == {n \in MembersOf(k) :
                           \/ ZScore(k, n) < ZScore(k, m)
                           \/ ZScore(k, n) = ZScore(k, m) /\ n < m}
        IN  /\ \A m \in MembersOf(k) :
                  /\ zrank(k, m, FALSE) = Cardinality(Lower(m))
                  /\ zrank(k, m, TRUE) =
                         Cardinality(MembersOf(k)) - 1 - Cardinality(Lower(m))
                  /\ \A start, stop \in -2..1 :
                        LET l == zParseLimit(k, start, stop)
                            Pos(i) == IF i < 0 THEN Cardinality(MembersOf(k)) + i ELSE i
                            In(s) == \E i \in DOMAIN s : s[i][3] = m
                        IN  /\ In(zRange(k, -MaxScore, MaxScore, l.offset, l.count, FALSE))
                                   <=> zrank(k, m, FALSE) \in Pos(start)..Pos(stop)
                            /\ In(zRange(k, -MaxScore, MaxScore, l.offset, l.count, TRUE))
                                   <=> zrank(k, m, TRUE) \in Pos(start)..Pos(stop)
            /\ \A min, max \in Scores :
                  ZCount(k, min, max) = Cardinality({m \in MembersOf(k) : ZScore(k, m) \in min..max})

\* FLUSHDB, which goes on as long as it finds a size record and keeps the lock
\* of the type meanwhile, ends.  doc/commands.md on FLUSHDB: "Delete all the keys
\* of the currently selected DB. This command never fails."
FlushEnds == flushing ~> ~flushing

\* doc/commands.md on ZREMRANGEBYRANK: "Removes all elements in the sorted set
\* stored at key with rank between start and stop.", negative numbers being
\* "offsets starting at the element with the highest score".
RankRemovalExact ==
    [][\A k \in Keys :
         ZRemRangeByRank /\ pend.key = k =>
             LET l == zParseLimit(k, pend.start, pend.stop)
                 es == zIterator(k, -MaxScore, MaxScore, l.offset, l.count)
             IN  MembersOf(k) \ (MembersOf(k)') = {es[i][3] : i \in DOMAIN es}]_vars
=============================================================================
