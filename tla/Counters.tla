------------------------------ MODULE Counters ------------------------------
(***************************************************************************)
(* Strings as whole values and as numbers (ledis/t_kv.go): SET, SETNX,     *)
(* GETSET, MSET, MGET, INCR, INCRBY, DECR, DECRBY and DEL by several       *)
(* clients.  The operations that look at the old value take the lock of    *)
(* the string type, read, write and commit; their steps interleave with    *)
(* those of the clients that hold no lock.                                 *)
(*                                                                         *)
(* A value is the text the clients give and the store keeps; a number is   *)
(* parsed from it and formatted into it.                                   *)
(***************************************************************************)
EXTENDS Integers, Sequences, FiniteSets, TLC

CONSTANTS
    Keys,
    Clients,
    Free,     \* no client: the lock is free
    Nil,      \* no value
    Error,    \* no number
    IntMax,   \* the largest int64
    Given,    \* the texts clients store
    Deltas    \* the increments of INCRBY, and of DECRBY

VARIABLES
    kv,     \* the text of a key, or Nil
    lock,   \* the client that holds the lock of the string type
    op,     \* what a client is doing, with what it has read
    total,  \* history: what the increments of a key add up to
    won,    \* history: the SETNX that won since the key last had no value
    last    \* history: the increment just acknowledged

vars == <<kv, lock, op, total, won, last>>

Ints == -(IntMax + 1)..IntMax
Int64(n) == ((n + IntMax + 1) % (2 * (IntMax + 1))) - (IntMax + 1)

\* strconv.ParseInt: signs and leading zeros are fine, "" and words are not.
ParseInt(t) ==
    CASE \E n \in Ints : t = ToString(n)          -> CHOOSE n \in Ints : t = ToString(n)
      [] \E n \in Ints \cap Nat : t = "+" \o ToString(n) \/ t = "0" \o ToString(n)
            -> CHOOSE n \in Ints \cap Nat : t = "+" \o ToString(n) \/ t = "0" \o ToString(n)
      [] OTHER -> Error

\* No value is the number 0.
StrInt64(t) == IF t = Nil THEN 0 ELSE ParseInt(t)

FormatInt64ToSlice(n) == ToString(n)

NumberOr0(t) == IF StrInt64(t) = Error THEN 0 ELSE StrInt64(t)

Idle == [do |-> "idle"]

Init ==
    /\ kv = [k \in Keys |-> Nil]
    /\ lock = Free
    /\ op = [c \in Clients |-> Idle]
    /\ total = [k \in Keys |-> 0]
    /\ won = [k \in Keys |-> 0]
    /\ last = Nil

\* A value stored without regard to the old one starts the histories afresh.
Stored(f) ==
    /\ kv' = f
    /\ total' = [k \in Keys |-> IF f[k] = kv[k] THEN total[k] ELSE NumberOr0(f[k])]
    /\ won' = [k \in Keys |-> IF f[k] = Nil THEN 0 ELSE won[k]]

----------------------------------------------------------------------------
(* Writes that take the lock, write and commit without a look *)

\* Mutant: the lock is not taken.
WriteUnlocked(f) ==
    /\ Stored(f)
    /\ last' = Nil
    /\ UNCHANGED <<lock, op>>

Write(f) ==
    /\ lock = Free
    /\ Stored(f)
    /\ last' = Nil
    /\ UNCHANGED <<lock, op>>

Set(k, v) == Write([kv EXCEPT ![k] = v])

\* The pairs go into one batch.
MSet(f) == Write([k \in Keys |-> IF k \in DOMAIN f THEN f[k] ELSE kv[k]])

Del(ks) == Write([k \in Keys |-> IF k \in ks THEN Nil ELSE kv[k]])

----------------------------------------------------------------------------
(* Reads before writes, under the lock *)

LockAndGet(c, do, k, arg) ==
    /\ op[c] = Idle
    /\ lock = Free
    /\ lock' = c
    /\ op' = [op EXCEPT ![c] = [do |-> do, key |-> k, arg |-> arg, old |-> kv[k]]]
    /\ last' = Nil
    /\ UNCHANGED <<kv, total, won>>

Unlock(c) ==
    /\ lock' = Free
    /\ op' = [op EXCEPT ![c] = Idle]

\* INCR, INCRBY, DECR and DECRBY; a text that is no number is refused.
incr(c) ==
    /\ op[c].do = "incr"
    /\ LET k == op[c].key
           n == StrInt64(op[c].old)
       IN  IF n = Error
           THEN /\ last' = Nil
                /\ UNCHANGED <<kv, total>>
           ELSE /\ kv' = [kv EXCEPT ![k] = FormatInt64ToSlice(Int64(n + op[c].arg))]
                /\ total' = [total EXCEPT ![k] = Int64(@ + op[c].arg)]
                /\ last' = [old |-> n, delta |-> op[c].arg, reply |-> Int64(n + op[c].arg)]
    /\ Unlock(c)
    /\ UNCHANGED won

SetNX(c) ==
    /\ op[c].do = "setnx"
    /\ LET k == op[c].key IN
       IF op[c].old = Nil
       THEN /\ kv' = [kv EXCEPT ![k] = op[c].arg]
            /\ total' = [total EXCEPT ![k] = NumberOr0(op[c].arg)]
            /\ won' = [won EXCEPT ![k] = @ + 1]
       ELSE UNCHANGED <<kv, total, won>>
    /\ Unlock(c)
    /\ UNCHANGED last

GetSet(c) ==
    /\ op[c].do = "getset"
    /\ Stored([kv EXCEPT ![op[c].key] = op[c].arg])
    /\ Unlock(c)
    /\ UNCHANGED last

----------------------------------------------------------------------------
(* MGET: an iterator, which is a snapshot, then a Find for each key *)

MGet(c) ==
    /\ op[c] = Idle
    /\ op' = [op EXCEPT ![c] = [do |-> "mget", snap |-> kv, got |-> [k \in {} |-> Nil]]]
    /\ last' = Nil
    /\ UNCHANGED <<kv, lock, total, won>>

MGetFind(c, k) ==
    /\ op[c].do = "mget"
    /\ k \notin DOMAIN op[c].got
    /\ op' = [op EXCEPT ![c].got = (k :> op[c].snap[k]) @@ @]
    /\ UNCHANGED <<kv, lock, total, won, last>>

MGetReply(c) ==
    /\ op[c].do = "mget"
    /\ DOMAIN op[c].got = Keys
    /\ op' = [op EXCEPT ![c] = Idle]
    /\ UNCHANGED <<kv, lock, total, won, last>>

Next ==
    \/ \E k \in Keys, v \in Given : Set(k, v)
    \/ \E v \in Given : MSet([k \in Keys |-> v])
    \/ \E ks \in SUBSET Keys \ {{}} : Del(ks)
    \/ \E c \in Clients :
          \/ \E k \in Keys :
                \/ \E d \in Deltas : \/ LockAndGet(c, "incr", k, d)
                                     \/ LockAndGet(c, "incr", k, Int64(-d))
                \/ \E v \in Given : \/ LockAndGet(c, "setnx", k, v)
                                    \/ LockAndGet(c, "getset", k, v)
                \/ MGetFind(c, k)
          \/ incr(c) \/ SetNX(c) \/ GetSet(c) \/ MGet(c) \/ MGetReply(c)

Spec == Init /\ [][Next]_vars

----------------------------------------------------------------------------
\* Strings are values that were given or numbers of 64 bits, and the lock of the
\* type belongs to the command that is between its read and its write.
TypeOK ==
    /\ \A k \in Keys : kv[k] = Nil \/ kv[k] \in Given \/ ParseInt(kv[k]) \in Ints
    /\ lock \in Clients \cup {Free}
    /\ \A c \in Clients : lock = c <=> op[c].do \in {"incr", "setnx", "getset"}

\* No increment is lost: a counter holds what was stored in it plus every
\* increment acknowledged since, in 64 bits, whoever else writes meanwhile.
NoLostIncrement ==
    \A k \in Keys : StrInt64(kv[k]) # Error => StrInt64(kv[k]) = total[k]

\* Of the SETNX for a key at most one wins for as long as the key has a value.
SetNXWinsOnce == \A k \in Keys : won[k] <= 1

\* MGET, which takes no lock, answers with the values all its keys had at one
\* time, when it began, and never with half of an MSET or a DEL.
MGetWhole ==
    \A c \in Clients :
        op[c].do = "mget" /\ op'[c] = Idle => op[c].got = op[c].snap

\* INCR adds to the number it found.
\* doc/commands.md on INCR: "Increments the number stored at key by one."
IncrExact == last # Nil => last.reply = last.old + last.delta
=============================================================================
