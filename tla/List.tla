-------------------------------- MODULE List --------------------------------
(***************************************************************************)
(* Lists as they are stored (ledis/t_list.go): a record per element, under *)
(* the key and a sequence number, and a meta record with the numbers of    *)
(* the first and of the last element.  Every operation holds the lock of   *)
(* the list type and commits one batch, so it is one step; a batch that is *)
(* refused (module Ledis) changes nothing.                                 *)
(***************************************************************************)
EXTENDS Expiry, Sequences, SequencesExt

CONSTANTS
    Keys,
    Values,
    MinSeq, MaxSeq,  \* the numbers between which elements are stored
    IntMax,          \* the largest int32
    Whens,           \* the expiration times
    MaxPush,         \* bound: the values of one push
    Sizes,           \* the arguments of LTRIM_FRONT and LTRIM_BACK
    LowStops,        \* TRUE: LTRIM may be given a stop left of the list
    SetMissing       \* TRUE: LSet may be called for a key without a list

VARIABLES
    elem,    \* the element records: a function from <<key, sequence number>>
    meta,    \* the meta records: <<head, tail>> of each key, or NoMeta
    exp,     \* the expiry records
    trimmed  \* the reply of an LTRIM_FRONT or LTRIM_BACK that is the last operation

vars == <<elem, meta, exp, trimmed>>

NoMeta == <<>>

\* int32 arithmetic.
Int32(n) == ((n + IntMax + 1) % (2 * (IntMax + 1))) - (IntMax + 1)

listInitialSeq == MinSeq + (MaxSeq - MinSeq) \div 2

lGetMeta(k) ==
    IF meta[k] = NoMeta
    THEN [head |-> listInitialSeq, tail |-> listInitialSeq, size |-> 0]
    ELSE [head |-> meta[k][1], tail |-> meta[k][2],
          size |-> Int32(meta[k][2] - meta[k][1] + 1)]

\* A negative size is logged, and the meta record stays as it is.
lSetMeta(k, head, tail) ==
    LET size == Int32(tail - head + 1)
    IN  IF size < 0 THEN meta
        ELSE [meta EXCEPT ![k] = IF size = 0 THEN NoMeta ELSE <<head, tail>>]

Without(f, S) == [x \in DOMAIN f \ S |-> f[x]]

\* Mutant: the element records are deleted one short of the tail.
lDeleteShort(K) ==
    {p \in DOMAIN elem :
        p[1] \in K /\ p[2] >= lGetMeta(p[1]).head /\ p[2] < lGetMeta(p[1]).tail}

\* The element records that lDelete removes for the keys K.
lDelete(K) ==
    {p \in DOMAIN elem :
        p[1] \in K /\ p[2] \in lGetMeta(p[1]).head..lGetMeta(p[1]).tail}

Init ==
    /\ elem = <<>>
    /\ meta = [k \in Keys |-> NoMeta]
    /\ exp = NoExpiry(Keys)
    /\ trimmed = 0
-----------------------------------------------------------------------------
(* Writes.                                                                  *)

\* Past the range of sequence numbers the push is refused: no step.
lpush(k, side, vs) ==
    LET m == lGetMeta(k)
        d == IF side = "head" THEN -1 ELSE 1
        first == (IF side = "head" THEN m.head ELSE m.tail)
                     + (IF m.size > 0 THEN d ELSE 0)
        last == first + (Len(vs) - 1) * d
    IN  /\ vs # <<>>
        /\ last > MinSeq /\ last < MaxSeq
        /\ elem' = [p \in {<<k, first + i * d>> : i \in 0..(Len(vs) - 1)} |->
                       vs[(p[2] - first) * d + 1]] @@ elem
        /\ meta' = IF side = "head" THEN lSetMeta(k, last, m.tail)
                                    ELSE lSetMeta(k, m.head, last)
        /\ trimmed' = 0 /\ UNCHANGED exp

\* Mutant: the time to live stays with the key.
rmExpireIfEmptyNever(k, size) == exp

\* The time to live goes with the last element.
rmExpireIfEmpty(k, size) == IF size = 0 THEN rmExpire(exp, k) ELSE exp

lpop(k, side) ==
    LET m == lGetMeta(k)
        head == IF side = "head" THEN m.head + 1 ELSE m.head
        tail == IF side = "head" THEN m.tail ELSE m.tail - 1
    IN  /\ m.size # 0
        /\ elem' = Without(elem, {<<k, IF side = "head" THEN m.head ELSE m.tail>>})
        /\ meta' = lSetMeta(k, head, tail)
        /\ exp' = rmExpireIfEmpty(k, tail - head + 1)
        /\ trimmed' = 0

Clear(K) ==
    /\ elem' = Without(elem, lDelete(K))
    /\ meta' = [k \in Keys |-> IF k \in K THEN NoMeta ELSE meta[k]]
    /\ trimmed' = 0

\* LTRIM: an index below zero counts from the tail.
ltrim2(k, start0, stop0) ==
    LET m == lGetMeta(k)
        start == IF start0 < 0 THEN m.size + start0 ELSE start0
        stop == IF stop0 < 0 THEN m.size + stop0 ELSE stop0
        from == IF start < 0 THEN 0 ELSE start
        to == IF stop >= m.size THEN m.size - 1 ELSE stop
    IN  /\ LowStops \/ stop >= 0 \/ start > stop
        /\ \/ /\ start >= m.size \/ start > stop
              /\ Clear({k})
              /\ exp' = rmExpire(exp, k)
           \/ /\ start < m.size /\ start <= stop
              /\ elem' = Without(elem, {<<k, m.head + i>> : i \in
                                  (0..(from - 1)) \cup ((to + 1)..(m.size - 1))})
              /\ meta' = lSetMeta(k, m.head + from, m.head + to)
              /\ trimmed' = 0 /\ UNCHANGED exp

\* LTRIM_FRONT, LTRIM_BACK.
ltrim(k, size, side) ==
    LET m == lGetMeta(k)
        from == IF side = "head" THEN m.head ELSE Max({Int32(m.tail - size + 1), m.head})
        to == IF side = "head" THEN Min({Int32(m.head + size - 1), m.tail}) ELSE m.tail
        head == IF side = "head" THEN Int32(to + 1) ELSE m.head
        tail == IF side = "head" THEN m.tail ELSE Int32(from - 1)
    IN  /\ size # 0 /\ m.size # 0
        /\ elem' = Without(elem, {<<k, i>> : i \in from..to})
        /\ meta' = lSetMeta(k, head, tail)
        /\ exp' = rmExpireIfEmpty(k, Int32(tail - head + 1))
        /\ trimmed' = Int32(to - from + 1)

IndexSeq(k, i) == IF i >= 0 THEN lGetMeta(k).head + i ELSE lGetMeta(k).tail + i + 1

LSet(k, i, v) ==
    LET seq == IndexSeq(k, i)
    IN  /\ SetMissing \/ meta[k] # NoMeta
        /\ seq >= lGetMeta(k).head /\ seq <= lGetMeta(k).tail
        /\ elem' = (<<k, seq>> :> v) @@ elem
        /\ trimmed' = 0 /\ UNCHANGED <<meta, exp>>

\* LCLEAR (of one key) and LMCLEAR, in one batch.
LMclear(K) ==
    /\ Clear(K)
    /\ exp' = [meta |-> [k \in Keys |-> IF k \in K THEN NoTTL ELSE exp.meta[k]],
               time |-> {e \in exp.time : e[2] \notin K \/ e[1] # exp.meta[e[2]]}]

\* FLUSHDB finds the lists by their meta records.
lFlush == LMclear({k \in Keys : meta[k] # NoMeta})

\* The checker (module Ttl) deletes the list first.
lExpired(k) ==
    /\ exp.meta[k] # NoTTL
    /\ Clear({k})
    /\ exp' = rmExpired(exp, k, exp.meta[k])

lExpireAt(k, when) ==
    /\ lGetMeta(k).size # 0
    /\ exp' = expireAt(exp, k, when)
    /\ trimmed' = 0 /\ UNCHANGED <<elem, meta>>

LPersist(k) ==
    /\ exp' = rmExpire(exp, k)
    /\ trimmed' = 0 /\ UNCHANGED <<elem, meta>>

Indices == -(MaxSeq - MinSeq - 1)..(MaxSeq - MinSeq - 1)

Next ==
    \/ \E k \in Keys, side \in {"head", "tail"} :
          \/ lpop(k, side)
          \/ \E n \in 1..MaxPush : \E vs \in [1..n -> Values] : lpush(k, side, vs)
          \/ \E n \in Sizes : ltrim(k, n, side)
    \/ \E k \in Keys, i \in Indices :
          \/ \E v \in Values : LSet(k, i, v)
          \/ \E j \in Indices : ltrim2(k, i, j)
    \/ \E K \in SUBSET Keys : LMclear(K)
    \/ lFlush
    \/ \E k \in Keys : lExpired(k) \/ LPersist(k) \/ \E w \in Whens : lExpireAt(k, w)

Spec == Init /\ [][Next]_vars
-----------------------------------------------------------------------------
(* Reads.                                                                   *)

LLen(k) == lGetMeta(k).size

LKeyExists(k) == meta[k] # NoMeta

\* The stored value, or none.
LIndex(k, i) ==
    LET p == <<k, IndexSeq(k, i)>> IN {elem[q] : q \in DOMAIN elem \cap {p}}

\* The element records in the order of the store, from the given one on; the
\* iterator of LRANGE has a count and no upper end.
RawFrom(k, seq) ==
    LET Before(p, q) == p[1] < q[1] \/ (p[1] = q[1] /\ p[2] < q[2])
        from == SetToSortSeq({p \in DOMAIN elem : ~Before(p, <<k, seq>>)}, Before)
    IN  [i \in DOMAIN from |-> elem[from[i]]]

LRange(k, start0, stop0) ==
    LET m == lGetMeta(k)
        start == Max({0, IF start0 < 0 THEN m.size + start0 ELSE start0})
        stop == IF stop0 < 0 THEN m.size + stop0 ELSE stop0
        limit == Min({stop, m.size - 1}) - start + 1
        raw == RawFrom(k, m.head + start)
    IN  IF start > stop \/ start >= m.size THEN <<>>
        ELSE SubSeq(raw, 1, Min({limit, Len(raw)}))
-----------------------------------------------------------------------------
(* Properties.                                                              *)

Seqs == (MinSeq + 1)..(MaxSeq - 1)

\* Meta records name sequence numbers strictly inside the int32 range that the
\* code reserves (listMinSeq, listMaxSeq), and element records lie inside it too.
TypeOK ==
    /\ DOMAIN elem \subseteq Keys \X Seqs
    /\ \A p \in DOMAIN elem : elem[p] \in Values
    /\ \A k \in Keys : meta[k] \in {NoMeta} \cup (Seqs \X Seqs)
    /\ exp \in Expiries(Keys, Whens)

\* The element records of a key are exactly those between the head and the tail
\* of its meta record, so that LLEN is the number of elements and none is left
\* behind for a later list of that key (lpush, lpop, ltrim, ltrim2, lDelete).
\* doc/commands.md on LLEN: "int64: the length of the list at key."
Stored ==
    \A k \in Keys :
        {p[2] : p \in {q \in DOMAIN elem : q[1] = k}} =
            IF meta[k] = NoMeta THEN {} ELSE meta[k][1]..meta[k][2]

\* The list that a key holds, by its records.
ListOf(k) ==
    [i \in 1..lGetMeta(k).size |-> elem[<<k, lGetMeta(k).head + i - 1>>]]

\* The lists behave as deques with a time to live, whatever operations fall on
\* them: elements keep their order, a list that becomes empty is no list any
\* more and loses its time to live, a new list under the key starts afresh.
Abstract == INSTANCE Deque WITH list <- [k \in Keys |-> ListOf(k)], due <- exp.meta

IsDeque == Abstract!Spec

\* A step of the deque, or none.
DequeStep == [Abstract!Next]_(Abstract!vars)

\* The position that an index of a command stands for.
Position(k, i) == IF i < 0 THEN LLen(k) + i + 1 ELSE i + 1

\* LINDEX, LLEN and LRANGE answer with the elements of the list at the positions
\* asked for, never with those of a neighbouring key, whose records follow in
\* the store (LRange iterates without an upper end).
ReadsAgree ==
    \A k \in Keys :
        /\ LLen(k) = Len(ListOf(k))
        /\ LKeyExists(k) <=> ListOf(k) # <<>>
        /\ \A i \in Indices :
              /\ LIndex(k, i) = {ListOf(k)[p] : p \in {Position(k, i)} \cap DOMAIN ListOf(k)}
              /\ \A j \in Indices :
                    LRange(k, i, j) =
                        LET inRange == {p \in DOMAIN ListOf(k) :
                                           Position(k, i) <= p /\ p <= Position(k, j)}
                        IN  IF inRange = {} THEN <<>>
                            ELSE SubSeq(ListOf(k), Min(inRange), Max(inRange))

\* LTRIM_FRONT and LTRIM_BACK remove as many elements as they say, however many
\* they are asked for (server/cmd_list_test.go, "ltrim_front", key, 5 of a list
\* of two: "else if n != 2").
TrimCounted ==
    trimmed' # 0 => \E k \in Keys : LLen(k) - LLen(k)' = trimmed' /\ Stored'
=============================================================================
