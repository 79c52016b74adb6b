------------------------------- MODULE Expiry -------------------------------
(***************************************************************************)
(* The two kinds of records that hold the time to live of the keys of one  *)
(* data type (ledis/t_ttl.go): a meta record per key, with the second at   *)
(* which the key expires, and a time record per second and key, which the  *)
(* checker finds by scanning them in the order of time.                    *)
(***************************************************************************)
EXTENDS Integers

NoTTL == 0

\* The meta records (NoTTL: there is none) and the time records of the keys K.
NoExpiry(K) == [meta |-> [k \in K |-> NoTTL], time |-> {}]

Expiries(K, T) == [meta : [K -> {NoTTL} \cup T], time : SUBSET (T \X K)]

\* The time record of an earlier EXPIRE of the key stays.
expireAt(e, k, when) ==
    [meta |-> [e.meta EXCEPT ![k] = when],
     time |-> e.time \cup {<<when, k>>}]

rmExpire(e, k) ==
    [meta |-> [e.meta EXCEPT ![k] = NoTTL],
     time |-> e.time \ {<<e.meta[k], k>>}]

\* Seconds to live, -1 for a key without a time to live or past it.
ttl(e, k, now) ==
    IF e.meta[k] > now THEN e.meta[k] - now ELSE -1

\* What the checker does with a time record that is due: nothing when the key
\* has been given a later time.  A key without a meta record counts as due.
expired(e, k, now) == e.meta[k] <= now

rmExpired(e, k, when) ==
    [meta |-> [e.meta EXCEPT ![k] = NoTTL],
     time |-> e.time \ {<<when, k>>}]
=============================================================================
