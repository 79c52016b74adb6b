------------------------------ MODULE MCTypes -------------------------------
(***************************************************************************)
(* The data types and their times to live, for TLC.  The records of a type *)
(* carry its type byte in their keys and its commands take its own lock,   *)
(* so that no step of one type reads or writes what belongs to another: a  *)
(* behaviour of all of them is one of each.  The first state chooses the   *)
(* part whose steps follow; the others stay as they are in a new database. *)
(***************************************************************************)
EXTENDS Ttl, TLC

CONSTANTS
    Parts,             \* the parts that the first state may choose
    ann, bob, nobody,  \* two clients and no client
    text,              \* a text that is no number
    nil, err           \* no value, no number

VARIABLES
    part,                                         \* the part that moves
    lelem, lmeta, lexp, ltrimmed,                 \* List
    hitem, hsize, hexp,                           \* Hash
    sitem, ssize, sexp,                           \* Sets
    zscore, zindex, zsize, zexp, zflushing, zpend, \* ZSet
    bkv, blast, bpend,                            \* Bits
    ckv, clock, cop, ctotal, cwon, clast          \* Counters

listVars == <<lelem, lmeta, lexp, ltrimmed>>
hashVars == <<hitem, hsize, hexp>>
setVars == <<sitem, ssize, sexp>>
zsetVars == <<zscore, zindex, zsize, zexp, zflushing, zpend>>
bitVars == <<bkv, blast, bpend>>
counterVars == <<ckv, clock, cop, ctotal, cwon, clast>>
allVars == <<part, vars, listVars, hashVars, setVars, zsetVars, bitVars, counterVars>>

Symmetry == Permutations(Keys) \cup Permutations({ann, bob})
-----------------------------------------------------------------------------
(* The instances.                                                           *)

\* Two lists side by side in the store, the sequence numbers 1 to 3.
L == INSTANCE List WITH
    Keys <- {1, 2}, Values <- {"a"}, MinSeq <- 0, MaxSeq <- 4, IntMax <- 15,
    Whens <- {1}, MaxPush <- 2, Sizes <- {0, 1, 2, 4}, LowStops <- FALSE, SetMissing <- FALSE,
    elem <- lelem, meta <- lmeta, exp <- lexp, trimmed <- ltrimmed

\* One list, the sequence numbers 1 to 5.
D == INSTANCE List WITH
    Keys <- {1}, Values <- {"a", "b"}, MinSeq <- 0, MaxSeq <- 6, IntMax <- 15,
    Whens <- {1}, MaxPush <- 2, Sizes <- {0, 1, 2, 4}, LowStops <- FALSE, SetMissing <- FALSE,
    elem <- lelem, meta <- lmeta, exp <- lexp, trimmed <- ltrimmed

\* Two hashes of two fields; int64 is -1..0.
H == INSTANCE Hash WITH
    Keys <- {"k", "l"}, Fields <- {"f", "g"}, Texts <- {text}, Nil <- nil, IntMax <- 0,
    Whens <- {1}, MaxArgs <- 2, Repeats <- FALSE,
    item <- hitem, size <- hsize, exp <- hexp

\* Three sets of two members; stores of up to three operands.
S == INSTANCE Sets WITH
    Keys <- {"k", "l", "d"}, Members <- {"m", "n"}, Whens <- {1}, MaxArgs <- 3,
    Repeats <- FALSE, EmptyStores <- FALSE,
    item <- sitem, size <- ssize, exp <- sexp

\* A union with weights into one of its sources, and an intersection.
ZStores ==
    {[dest |-> "k", inter |-> FALSE, keys |-> <<"k", "l">>, weights |-> <<1, -1>>,
      aggregate |-> "sum"],
     [dest |-> "l", inter |-> TRUE, keys |-> <<"k", "l">>, weights |-> <<1, 1>>,
      aggregate |-> "min"]}

\* Two sorted sets of two members, scores -1 to 1.
Z == INSTANCE ZSet WITH
    Keys <- {"k", "l"}, Members <- {1, 2}, MaxScore <- 2, Whens <- {}, Stores <- ZStores,
    Ranks <- {-1, 0}, ZeroDelta <- FALSE, LexRemovals <- FALSE,
    score <- zscore, index <- zindex, size <- zsize, exp <- zexp,
    flushing <- zflushing, pend <- zpend

\* One sorted set, with ZREMRANGEBYLEX among the other operations.
X == INSTANCE ZSet WITH
    Keys <- {"k"}, Members <- {1, 2}, MaxScore <- 2, Whens <- {}, Stores <- {},
    Ranks <- {-2, 1}, ZeroDelta <- FALSE, LexRemovals <- TRUE,
    score <- zscore, index <- zindex, size <- zsize, exp <- zexp,
    flushing <- zflushing, pend <- zpend

\* One sorted set with times to live, and its store into itself.
Y == INSTANCE ZSet WITH
    Keys <- {"k"}, Members <- {1, 2}, MaxScore <- 2, Whens <- {1},
    Stores <- {[dest |-> "k", inter |-> FALSE, keys |-> <<"k">>, weights |-> <<-1>>,
                aggregate |-> "sum"]},
    Ranks <- {-1, 0}, ZeroDelta <- FALSE, LexRemovals <- FALSE,
    score <- zscore, index <- zindex, size <- zsize, exp <- zexp,
    flushing <- zflushing, pend <- zpend

\* Bytes of two bits: 01, and 10 00; strings of up to four of them.
TwoBits == {<<[j \in 0..1 |-> j]>>, <<[j \in 0..1 |-> 1 - j], [j \in 0..1 |-> 0]>>}

B == INSTANCE Bits WITH
    Keys <- {"a"}, W <- 2, U <- 3, MaxValueSize <- 4, Given <- TwoBits, Offsets <- -2..3,
    Bounds <- {-3, -1, 0, 2}, Ops <- {}, Sources <- {},
    kv <- bkv, last <- blast, pend <- bpend

\* BITOP on three sources while the strings change; a byte is a bit.
OneBit == {<<[j \in {0} |-> 1]>>, <<[j \in {0} |-> 0], [j \in {0} |-> 1]>>}

O == INSTANCE Bits WITH
    Keys <- {"a", "b"}, W <- 1, U <- 1, MaxValueSize <- 2, Given <- OneBit, Offsets <- {1},
    Bounds <- {0}, Ops <- {"and", "or", "xor"},
    Sources <- {<<"a", "b", "a">>},
    kv <- bkv, last <- blast, pend <- bpend

\* Two clients and one string; int64 is -2..1.
C == INSTANCE Counters WITH
    Keys <- {"k"}, Clients <- {ann, bob}, Free <- nobody, Nil <- nil, Error <- err, IntMax <- 1,
    Given <- {"01", "x", ""}, Deltas <- {1},
    kv <- ckv, lock <- clock, op <- cop, total <- ctotal, won <- cwon, last <- clast

\* One client and two strings.
R == INSTANCE Counters WITH
    Keys <- {"k", "l"}, Clients <- {ann}, Free <- nobody, Nil <- nil, Error <- err, IntMax <- 1,
    Given <- {"01", "x"}, Deltas <- {1},
    kv <- ckv, lock <- clock, op <- cop, total <- ctotal, won <- cwon, last <- clast
-----------------------------------------------------------------------------
MCInit ==
    /\ part \in Parts
    /\ Init /\ (part # "ttl" => ~readonly)
    /\ IF part = "deque" THEN D!Init ELSE L!Init
    /\ H!Init
    /\ S!Init
    /\ IF part \in {"zlex", "zrank"} THEN X!Init ELSE Z!Init
    /\ IF part = "bitop" THEN O!Init ELSE B!Init
    /\ IF part = "mget" THEN R!Init ELSE C!Init

TtlStep ==
    /\ part = "ttl" /\ Next
    /\ UNCHANGED <<part, listVars, hashVars, setVars, zsetVars, bitVars, counterVars>>

ListStep ==
    /\ (part = "list" /\ L!Next) \/ (part = "deque" /\ D!Next)
    /\ UNCHANGED <<part, vars, hashVars, setVars, zsetVars, bitVars, counterVars>>

HashStep ==
    /\ part = "hash" /\ H!Next
    /\ UNCHANGED <<part, vars, listVars, setVars, zsetVars, bitVars, counterVars>>

SetStep ==
    /\ part = "set" /\ S!Next
    /\ UNCHANGED <<part, vars, listVars, hashVars, zsetVars, bitVars, counterVars>>

ZSetStep ==
    /\ \/ part = "zset" /\ Z!Next
       \/ part = "zlex" /\ X!Next
       \/ part = "zrank" /\ Y!Next
    /\ UNCHANGED <<part, vars, listVars, hashVars, setVars, bitVars, counterVars>>

BitStep ==
    /\ (part = "bits" /\ B!Next) \/ (part = "bitop" /\ O!Next)
    /\ UNCHANGED <<part, vars, listVars, hashVars, setVars, zsetVars, counterVars>>

CounterStep ==
    /\ (part = "counter" /\ C!Next) \/ (part = "mget" /\ R!Next)
    /\ UNCHANGED <<part, vars, listVars, hashVars, setVars, zsetVars, bitVars>>

MCNext ==
    \/ TtlStep \/ ListStep \/ HashStep \/ SetStep \/ ZSetStep \/ BitStep \/ CounterStep

MCSpec == MCInit /\ [][MCNext]_allVars
-----------------------------------------------------------------------------
(* What is checked of the part that moves, besides the properties of Ttl.   *)

\* The element records of a list are exactly those between the head and the tail
\* of its meta record (lpush, lpop, ltrim, ltrim2, lDelete), so that none is left
\* behind for a later list of that key; and LINDEX, LLEN and LRANGE answer with
\* those at the positions asked for, never with those of the key that follows in
\* the store.
ListRecords ==
    /\ part = "list" => L!TypeOK /\ L!Stored /\ L!ReadsAgree
    /\ part = "deque" => D!TypeOK /\ D!Stored /\ D!ReadsAgree

\* A list with its records and its time to live implements the abstract deque of
\* module Deque: elements keep their order, a list that becomes empty loses its
\* time to live, and a new list under the key starts afresh.  LTRIM_FRONT and
\* LTRIM_BACK remove as many elements as they reply (ltrim).
ListIsDeque ==
    /\ part = "deque" => D!Abstract!Init
    /\ [][/\ part = "deque" => D!DequeStep /\ D!TrimCounted
          /\ part = "list" => L!TrimCounted]_listVars

\* HLEN, HGET, HMGET, HKEYS, HVALS and HGETALL agree about every hash, through
\* HINCRBY at the edges of its range too (hSetItem, HDel, hIncrSize); a hash with
\* a time to live has fields: the last HDEL takes the time to live with it, and a
\* new hash does not inherit one.
HashRecords == part = "hash" => H!TypeOK /\ H!ReadsAgree /\ H!TtlOnHashes

\* SCARD is the number of members and SKEYEXISTS answers 1 exactly for the sets
\* with members, after stores of a set into itself too (sIncrSize,
\* sStoreGeneric); a set with a time to live has members (SRem, sExpireAt).  What
\* SUNION, SINTER and SDIFF compute, with their early exits, is the union, the
\* intersection and the difference for operands in every order and number.
SetRecords ==
    part = "set" =>
        /\ S!TypeOK
        /\ S!SCardIsMembers /\ S!ExistsIffMembers /\ S!TtlOnSets
        /\ S!Algebra

\* Both orders of a sorted set hold the same members, for every member the record
\* under its score and no other, and ZCARD is their number (zSetItem, zDelItem,
\* ZIncrBy, zRemRange, zIncrSize, zStore).  ZRANK, ZREVRANK, ZCOUNT, ZRANGE and
\* ZREVRANGE answer with the order of scores and members, and what removes the
\* last member removes the time to live.  Whatever ZREMRANGEBYLEX leaves behind,
\* a member that exists is found by range.
ZSetRecords ==
    /\ part = "zset" => Z!TypeOK /\ Z!Indexed /\ Z!ZCardIsMembers
    /\ part = "zrank" => Y!TypeOK /\ Y!RanksAgree /\ Y!TtlOnZSets
    /\ part = "zlex" => X!TypeOK /\ X!MembersIndexed

\* GETRANGE, STRLEN, GETBIT, BITCOUNT and BITPOS look at the same bytes and bits
\* for every range that BITCOUNT and BITPOS survive (getRange).  APPEND, SETRANGE
\* and SETBIT leave every bit they do not name as it was, and the bytes they add
\* and do not name are zero.  BITOP computes the operation on the sources it has
\* read, a short one continued with zeros, whatever is written between its reads.
BitsExact ==
    /\ part = "bits" => B!TypeOK /\ B!ReadsAgree /\ B!WritesExact
    /\ part = "bitop" => O!TypeOK /\ O!WritesExact /\ O!BitOpExact

\* No increment is lost: a counter holds what was stored in it plus every
\* increment acknowledged since (incr, under the lock of the string type).  Of
\* the SETNX for a key at most one wins for as long as the key has a value.  MGET,
\* which takes no lock, answers with the values its keys had at one time, and
\* never with half of an MSET or a DEL.
StringsAtomic ==
    /\ [](part = "counter" => C!TypeOK /\ C!NoLostIncrement /\ C!SetNXWinsOnce)
    /\ [](part = "mget" => R!TypeOK /\ R!NoLostIncrement /\ R!SetNXWinsOnce)
    /\ [][/\ part = "counter" => C!MGetWhole
          /\ part = "mget" => R!MGetWhole]_counterVars
=============================================================================
