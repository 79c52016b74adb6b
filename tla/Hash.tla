-------------------------------- MODULE Hash --------------------------------
(***************************************************************************)
(* Hashes as they are stored (ledis/t_hash.go): a record per field and a   *)
(* record with their number, which HLEN, HKEYEXISTS, HEXPIRE and FLUSHDB   *)
(* go by.  An operation reads the committed store, never its own batch,    *)
(* holds the lock of the hash type and commits once: it is one step.       *)
(***************************************************************************)
EXTENDS Expiry, Sequences, FiniteSets, TLC

CONSTANTS
    Keys,
    Fields,
    Texts,     \* values that are not numbers
    Nil,       \* the reply for a field that is missing
    IntMax,    \* the largest int64
    Whens,     \* the expiration times
    MaxArgs,   \* bound: the fields of one HMSET or HDEL
    Repeats    \* TRUE: a field may be given twice in one command

VARIABLES
    item,  \* the field records: a function from <<key, field>>
    size,  \* the size records, 0 for none
    exp    \* the expiry records

vars == <<item, size, exp>>

Ints == -(IntMax + 1)..IntMax
Int64(n) == ((n + IntMax + 1) % (2 * (IntMax + 1))) - (IntMax + 1)

Init ==
    /\ item = [p \in {} |-> 0]
    /\ size = [k \in Keys |-> 0]
    /\ exp = NoExpiry(Keys)

FieldsOf(k) == {f \in Fields : <<k, f>> \in DOMAIN item}

\* Mutant: the time to live stays when the last field goes.
hIncrSizeKeepsTtl(k, delta) ==
    /\ size' = [size EXCEPT ![k] = IF @ + delta <= 0 THEN 0 ELSE @ + delta]
    /\ UNCHANGED exp

\* The size record, and the time to live that goes with the last field.
hIncrSize(k, delta) ==
    IF size[k] + delta <= 0
    THEN size' = [size EXCEPT ![k] = 0] /\ exp' = rmExpire(exp, k)
    ELSE size' = [size EXCEPT ![k] = @ + delta] /\ UNCHANGED exp

hSetItem(k, f, v) ==
    /\ item' = (<<k, f>> :> v) @@ item
    /\ IF f \in FieldsOf(k) THEN UNCHANGED <<size, exp>> ELSE hIncrSize(k, 1)

HSet(k, f, v) == hSetItem(k, f, v)

\* The last of several values for one field wins; each of them is counted.
HMset(k, fvs) ==
    /\ item' = [p \in {<<k, fvs[i][1]>> : i \in DOMAIN fvs} |->
                   LET given == {i \in DOMAIN fvs : fvs[i][1] = p[2]}
                   IN  fvs[CHOOSE i \in given : \A j \in given : j <= i][2]] @@ item
    /\ hIncrSize(k, Cardinality({i \in DOMAIN fvs : fvs[i][1] \notin FieldsOf(k)}))

HDel(k, fs) ==
    /\ item' = [p \in DOMAIN item \ {<<k, fs[i]>> : i \in DOMAIN fs} |-> item[p]]
    /\ hIncrSize(k, -Cardinality({i \in DOMAIN fs : fs[i] \in FieldsOf(k)}))

\* A missing field counts as 0, a field that is not a number is refused.
HIncrBy(k, f, delta) ==
    LET n == IF f \in FieldsOf(k) THEN item[<<k, f>>] ELSE 0
    IN  /\ n \notin Texts
        /\ hSetItem(k, f, Int64(n + delta))

hDelete(K) ==
    /\ item' = [p \in {q \in DOMAIN item : q[1] \notin K} |-> item[p]]
    /\ size' = [k \in Keys |-> IF k \in K THEN 0 ELSE size[k]]

\* HCLEAR (of one key) and HMCLEAR, in one batch.
HMclear(K) ==
    /\ hDelete(K)
    /\ exp' = [meta |-> [k \in Keys |-> IF k \in K THEN NoTTL ELSE exp.meta[k]],
               time |-> {e \in exp.time : e[2] \notin K \/ e[1] # exp.meta[e[2]]}]

\* FLUSHDB finds the hashes by their size records.
hFlush == HMclear({k \in Keys : size[k] # 0})

\* The checker (module Ttl).
hExpired(k) ==
    /\ exp.meta[k] # NoTTL
    /\ hDelete({k})
    /\ exp' = rmExpired(exp, k, exp.meta[k])

hExpireAt(k, when) ==
    /\ size[k] # 0
    /\ exp' = expireAt(exp, k, when)
    /\ UNCHANGED <<item, size>>

HPersist(k) == exp' = rmExpire(exp, k) /\ UNCHANGED <<item, size>>

Args(S) == UNION {[1..n -> S] : n \in 1..MaxArgs}

NoRepeats(s) == Repeats \/ \A i, j \in DOMAIN s : s[i] = s[j] => i = j

Values == Ints \cup Texts

Next ==
    \E k \in Keys :
        \/ \E f \in Fields, v \in Values : HSet(k, f, v)
        \/ \E fvs \in Args(Fields \X Values) :
              NoRepeats([i \in DOMAIN fvs |-> fvs[i][1]]) /\ HMset(k, fvs)
        \/ \E fs \in Args(Fields) : NoRepeats(fs) /\ HDel(k, fs)
        \/ \E f \in Fields, d \in Ints : HIncrBy(k, f, d)
        \/ \E K \in SUBSET Keys : HMclear(K)
        \/ hFlush
        \/ hExpired(k) \/ HPersist(k)
        \/ \E w \in Whens : hExpireAt(k, w)

Spec == Init /\ [][Next]_vars
-----------------------------------------------------------------------------
(* Reads: by the size record, by field, and by iteration over the fields.   *)

HLen(k) == size[k]
HKeyExists(k) == size[k] # 0
HGet(k, f) == IF f \in FieldsOf(k) THEN item[<<k, f>>] ELSE Nil
HMget(k, fs) == [i \in DOMAIN fs |-> HGet(k, fs[i])]
HGetAll(k) == {<<f, item[<<k, f>>]>> : f \in FieldsOf(k)}
HKeys(k) == {fv[1] : fv \in HGetAll(k)}
-----------------------------------------------------------------------------
(* Properties.                                                              *)

\* Field records, sizes and times to live are well formed; a size record that
\* hIncrSize keeps is never negative.
TypeOK ==
    /\ DOMAIN item \subseteq Keys \X Fields
    /\ \A p \in DOMAIN item : item[p] \in Values
    /\ size \in [Keys -> 0..Cardinality(Fields)]
    /\ exp \in Expiries(Keys, Whens)

\* The counter that every write keeps up is the number of fields that an
\* iteration finds, and the reads by size, by field and by iteration agree
\* (hIncrSize against hSetItem, HMset, HDel and hDelete).
ReadsAgree ==
    \A k \in Keys :
        /\ HLen(k) = Cardinality(HKeys(k))
        /\ HKeyExists(k) <=> HGetAll(k) # {}
        /\ \A fs \in Args(Fields) : \A i \in DOMAIN fs :
              HMget(k, fs)[i] # Nil <=> <<fs[i], HMget(k, fs)[i]>> \in HGetAll(k)

\* A key with a time to live is a hash with fields: whatever removes the last
\* field removes the time to live, and a new hash does not inherit one.
TtlOnHashes == \A k \in Keys : exp.meta[k] # NoTTL => FieldsOf(k) # {}

\* doc/commands.md on FLUSHDB: "Delete all the keys of the currently selected DB."
\* Every field belongs to a key that FLUSHDB finds, by its size record.
FlushFindsAll == \A p \in DOMAIN item : size[p[1]] # 0
=============================================================================
