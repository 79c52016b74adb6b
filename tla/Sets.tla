-------------------------------- MODULE Sets --------------------------------
(***************************************************************************)
(* Sets as they are stored (ledis/t_set.go): a record per member and a     *)
(* record with their number, and the commands that store the union, the    *)
(* difference or the intersection of sets.  An operation holds the lock of *)
(* the set type, reads the committed store and commits once.               *)
(***************************************************************************)
EXTENDS Expiry, Sequences, FiniteSets

CONSTANTS
    Keys,
    Members,
    Whens,       \* the expiration times
    MaxArgs,     \* bound: the members or keys of one command
    Repeats,     \* TRUE: a member may be given twice in one command
    EmptyStores  \* TRUE: the result that is stored may be empty

VARIABLES
    item,  \* the member records
    size,  \* the size records: a number, or NoSize
    exp    \* the expiry records

vars == <<item, size, exp>>

NoSize == -1

Init ==
    /\ item = {}
    /\ size = [k \in Keys |-> NoSize]
    /\ exp = NoExpiry(Keys)

SCard(k) == IF size[k] = NoSize THEN 0 ELSE size[k]
SKeyExists(k) == size[k] # NoSize
SMembers(k) == {m \in Members : <<k, m>> \in item}
SIsMember(k, m) == <<k, m>> \in item

sIncrSize(k, delta) ==
    IF SCard(k) + delta <= 0
    THEN size' = [size EXCEPT ![k] = NoSize] /\ exp' = rmExpire(exp, k)
    ELSE size' = [size EXCEPT ![k] = SCard(k) + delta] /\ UNCHANGED exp

\* A member that is given twice is counted twice.
SAdd(k, ms) ==
    /\ item' = item \cup {<<k, ms[i]>> : i \in DOMAIN ms}
    /\ sIncrSize(k, Cardinality({i \in DOMAIN ms : ~SIsMember(k, ms[i])}))

SRem(k, ms) ==
    /\ item' = item \ {<<k, ms[i]>> : i \in DOMAIN ms}
    /\ sIncrSize(k, -Cardinality({i \in DOMAIN ms : SIsMember(k, ms[i])}))

sUnionGeneric(ks) == UNION {SMembers(ks[i]) : i \in DOMAIN ks}

\* Left to right, until nothing is left.
sDiffGeneric(ks) ==
    LET d[i \in 1..Len(ks)] ==
            IF i = 1 THEN SMembers(ks[1])
            ELSE IF d[i - 1] = {} THEN {} ELSE d[i - 1] \ SMembers(ks[i])
    IN  d[Len(ks)]

sInterGeneric(ks) ==
    LET d[i \in 1..Len(ks)] ==
            IF i = 1 THEN SMembers(ks[1])
            ELSE IF d[i - 1] = {} \/ SMembers(ks[i]) = {} THEN {}
            ELSE d[i - 1] \cap SMembers(ks[i])
    IN  d[Len(ks)]

Result(op, ks) ==
    CASE op = "union" -> sUnionGeneric(ks)
      [] op = "diff"  -> sDiffGeneric(ks)
      [] op = "inter" -> sInterGeneric(ks)

\* Mutant: the new members are added to those of the destination.
sStoreGenericAdds(dst, op, ks) ==
    LET v == Result(op, ks)
    IN  /\ EmptyStores \/ v # {}
        /\ item' = item \cup {<<dst, m>> : m \in v}
        /\ size' = [size EXCEPT ![dst] = Cardinality(v)]
        /\ UNCHANGED exp

\* The deletion of the destination is in the batch before the new members are,
\* but the operands, of which the destination may be one, are read from the
\* store.  Its time to live stays.
sStoreGeneric(dst, op, ks) ==
    LET v == Result(op, ks)
    IN  /\ EmptyStores \/ v # {}
        /\ item' = {p \in item : p[1] # dst} \cup {<<dst, m>> : m \in v}
        /\ size' = [size EXCEPT ![dst] = Cardinality(v)]
        /\ UNCHANGED exp

sDelete(K) ==
    /\ item' = {p \in item : p[1] \notin K}
    /\ size' = [k \in Keys |-> IF k \in K THEN NoSize ELSE size[k]]

\* SCLEAR (of one key) and SMCLEAR, in one batch.
SMclear(K) ==
    /\ sDelete(K)
    /\ exp' = [meta |-> [k \in Keys |-> IF k \in K THEN NoTTL ELSE exp.meta[k]],
               time |-> {e \in exp.time : e[2] \notin K \/ e[1] # exp.meta[e[2]]}]

\* FLUSHDB finds the sets by their size records.
sFlush == SMclear({k \in Keys : size[k] # NoSize})

\* The checker (module Ttl).
sExpired(k) ==
    /\ exp.meta[k] # NoTTL
    /\ sDelete({k})
    /\ exp' = rmExpired(exp, k, exp.meta[k])

sExpireAt(k, when) ==
    /\ SCard(k) # 0
    /\ exp' = expireAt(exp, k, when)
    /\ UNCHANGED <<item, size>>

SPersist(k) == exp' = rmExpire(exp, k) /\ UNCHANGED <<item, size>>

Args(S) == UNION {[1..n -> S] : n \in 1..MaxArgs}

NoRepeats(s) == Repeats \/ \A i, j \in DOMAIN s : s[i] = s[j] => i = j

Stores == {"union", "diff", "inter"}

Next ==
    \/ \E k \in Keys, ms \in Args(Members) : NoRepeats(ms) /\ (SAdd(k, ms) \/ SRem(k, ms))
    \/ \E k \in Keys, op \in Stores, ks \in Args(Keys) : sStoreGeneric(k, op, ks)
    \/ \E K \in SUBSET Keys : SMclear(K)
    \/ sFlush
    \/ \E k \in Keys : sExpired(k) \/ SPersist(k) \/ \E w \in Whens : sExpireAt(k, w)

Spec == Init /\ [][Next]_vars
-----------------------------------------------------------------------------
(* Properties.                                                              *)

\* Member records, sizes and times to live are well formed; a size record that
\* sIncrSize keeps is never negative.
TypeOK ==
    /\ item \subseteq Keys \X Members
    /\ size \in [Keys -> {NoSize} \cup 0..Cardinality(Members)]
    /\ exp \in Expiries(Keys, Whens)

\* SCARD is the number of members that SMEMBERS finds, through every sequence of
\* additions, removals and stores, also of a set into itself (sIncrSize against
\* SAdd, SRem, sStoreGeneric and sDelete).
\* doc/commands.md on SCARD: "the cardinality (number of elements) of the set, or
\* 0 if key does not exist".
SCardIsMembers == \A k \in Keys : SCard(k) = Cardinality(SMembers(k))

\* doc/commands.md on SKEYEXISTS, "like EXISTS": "1 if the key exists", "0 if the
\* key does not exists": a key exists as long as it has members.
ExistsIffMembers == \A k \in Keys : SKeyExists(k) <=> SMembers(k) # {}

\* A key with a time to live is a set with members: whatever removes the last
\* member removes the time to live, and a new set does not inherit one.
TtlOnSets == \A k \in Keys : exp.meta[k] # NoTTL => SMembers(k) # {}

\* The algorithms with their early exits against union, difference and
\* intersection, for operands in every order and number.
Algebra ==
    \A ks \in Args(Keys) :
        LET sets == {SMembers(ks[i]) : i \in DOMAIN ks}
        IN  /\ sUnionGeneric(ks) = UNION sets
            /\ sInterGeneric(ks) = {m \in Members : \A s \in sets : m \in s}
            /\ sDiffGeneric(ks) =
                  {m \in SMembers(ks[1]) : \A i \in 2..Len(ks) : m \notin SMembers(ks[i])}
=============================================================================
