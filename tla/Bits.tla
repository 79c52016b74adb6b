-------------------------------- MODULE Bits --------------------------------
(***************************************************************************)
(* Strings as arrays of bytes and bits (ledis/t_kv.go, server/cmd_kv.go).  *)
(* Every write reads and commits under the lock of the string type and is  *)
(* one step, except BITOP: it reads its sources one by one before it takes *)
(* the lock, and stores what it made of them.                              *)
(*                                                                         *)
(* A byte is a function from 0..W-1 to bits, bit 0 the most significant.   *)
(***************************************************************************)
EXTENDS Integers, Sequences, FiniteSets, FiniteSetsExt, SequencesExt

CONSTANTS
    Keys,
    W,             \* bits of a byte: 8
    U,             \* offsets are truncated to U bits: 32
    MaxValueSize,  \* in bytes
    Given,         \* the values clients give to SET, APPEND and SETRANGE
    Offsets,       \* byte offsets of SETRANGE, bit offsets of SETBIT
    Bounds,        \* the bounds of GETRANGE, BITCOUNT and BITPOS
    Ops,           \* operations of BITOP
    Sources        \* sequences of source keys

VARIABLES
    kv,    \* the values: a function from the keys that have one
    last,  \* history: the last write, its arguments and the old value
    pend   \* the BITOP under way

vars == <<kv, last, pend>>

Byte == [0..W-1 -> 0..1]
Zero == [j \in 0..W-1 |-> 0]
Zeros(n) == [i \in 1..n |-> Zero]

NoOp == [op |-> "none"]
NoWrite == [cmd |-> "none"]

Init ==
    /\ kv = [k \in {} |-> <<>>]
    /\ last = NoWrite
    /\ pend = NoOp

\* bucket.Get, nil and an empty value alike
Get(k) == IF k \in DOMAIN kv THEN kv[k] ELSE <<>>

Put(k, v) == kv' = [x \in DOMAIN kv \cup {k} |-> IF x = k THEN v ELSE kv[x]]

Wrote(cmd, k, a, v) ==
    last' = IF pend.op = "none"
            THEN [cmd |-> cmd, key |-> k, arg |-> a, given |-> v, old |-> Get(k)]
            ELSE NoWrite

----------------------------------------------------------------------------
Set(k, v) ==
    /\ Len(v) <= MaxValueSize
    /\ Put(k, v)
    /\ Wrote("set", k, 0, v)
    /\ UNCHANGED pend

Del(k) ==
    /\ kv' = [x \in DOMAIN kv \ {k} |-> kv[x]]
    /\ Wrote("del", k, 0, <<>>)
    /\ UNCHANGED pend

\* An empty value or one too long changes nothing.
Append_(k, v) ==
    /\ v # <<>>
    /\ Len(Get(k)) + Len(v) <= MaxValueSize
    /\ Put(k, Get(k) \o v)
    /\ Wrote("append", k, 0, v)
    /\ UNCHANGED pend

\* append(value, make([]byte, extra)...) up to n bytes
Extended(v, n) == v \o Zeros(Max({0, n - Len(v)}))

SetRange(k, offset, v) ==
    /\ v # <<>>
    /\ Len(v) + offset <= MaxValueSize
    /\ LET value == Extended(Get(k), offset + Len(v)) IN
       Put(k, [i \in 1..Len(value) |-> IF i > offset /\ i <= offset + Len(v)
                                       THEN v[i - offset] ELSE value[i]])
    /\ Wrote("setrange", k, offset, v)
    /\ UNCHANGED pend

Uint(offset) == offset % (2^U)

SetBit(k, offset, on) ==
    LET byteOffset == Uint(offset) \div W
        value      == Extended(Get(k), byteOffset + 1)
    IN  /\ Put(k, [value EXCEPT ![byteOffset + 1][Uint(offset) % W] = on])
        /\ Wrote("setbit", k, Uint(offset), on)
        /\ UNCHANGED pend

----------------------------------------------------------------------------
(* BITOP *)

Bit(op, a, b) == CASE op = "and" -> a * b
                   [] op = "or"  -> Max({a, b})
                   [] op = "xor" -> (a + b) % 2

\* Mutant: the tail of the longer value is taken as it is.
CombineKeepsTail(op, value, ovalue) ==
    LET long  == IF Len(value) < Len(ovalue) THEN ovalue ELSE value
        short == IF Len(value) < Len(ovalue) THEN value ELSE ovalue
    IN  [i \in 1..Len(long) |->
            IF i <= Len(short)
            THEN [j \in 0..W-1 |-> Bit(op, long[i][j], short[i][j])]
            ELSE long[i]]

\* The bytes of the shorter value, then its absent ones as zeros.
Combine(op, value, ovalue) ==
    LET long  == IF Len(value) < Len(ovalue) THEN ovalue ELSE value
        short == IF Len(value) < Len(ovalue) THEN value ELSE ovalue
    IN  [i \in 1..Len(long) |->
            [j \in 0..W-1 |->
                Bit(op, long[i][j], IF i <= Len(short) THEN short[i][j] ELSE 0)]]

\* One source is not enough, whatever the operation; NOT refuses more than one.
BitOP(op, dest, srcs) ==
    /\ pend.op = "none"
    /\ UNCHANGED kv
    /\ IF op = "not" \/ Len(srcs) < 2
       THEN /\ Wrote("bitop", dest, op, srcs)
            /\ UNCHANGED pend
       ELSE /\ pend' = [op |-> op, dest |-> dest, srcs |-> srcs,
                        value |-> Get(srcs[1]), seen |-> <<Get(srcs[1])>>]
            /\ last' = NoWrite

BitOPSource ==
    /\ pend.op # "none"
    /\ Len(pend.seen) < Len(pend.srcs)
    /\ LET ovalue == Get(pend.srcs[Len(pend.seen) + 1]) IN
       pend' = [pend EXCEPT !.value = Combine(pend.op, @, ovalue),
                            !.seen = Append(@, ovalue)]
    /\ UNCHANGED <<kv, last>>

BitOPStore ==
    /\ pend.op # "none"
    /\ Len(pend.seen) = Len(pend.srcs)
    /\ Put(pend.dest, pend.value)
    /\ last' = NoWrite
    /\ pend' = NoOp

Next ==
    \/ \E k \in Keys :
          \/ Del(k)
          \/ \E v \in Given :
                \/ Set(k, v)
                \/ Append_(k, v)
                \/ \E offset \in Offsets \cap Nat : SetRange(k, offset, v)
          \/ \E offset \in Offsets, on \in 0..1 : SetBit(k, offset, on)
          \/ \E op \in Ops, srcs \in Sources : BitOP(op, k, srcs)
    \/ BitOPSource
    \/ BitOPStore

Spec == Init /\ [][Next]_vars

----------------------------------------------------------------------------
(* The reads *)

\* First and last byte, from 0, of a range given with negative indices
getRange(start, end, valLen) ==
    LET s == IF start < 0 THEN valLen + start ELSE start
        e == IF end < 0 THEN valLen + end ELSE end
    IN  <<Max({0, s}), IF Max({0, e}) >= valLen THEN valLen - 1 ELSE Max({0, e})>>

GetRange(k, start, end) ==
    LET r == getRange(start, end, Len(Get(k))) IN
    IF r[1] > r[2] THEN <<>> ELSE SubSeq(Get(k), r[1] + 1, r[2] + 1)

StrLen(k) == Len(Get(k))

\* BITCOUNT and BITPOS take the slice unchecked: it panics, and the
\* connection ends without a reply, when the range starts after its end.
Sliced(k, start, end) ==
    LET r == getRange(start, end, Len(Get(k))) IN r[1] <= r[2] + 1

BitCount(k, start, end) ==
    LET r == getRange(start, end, Len(Get(k))) IN
    MapThenSumSet(LAMBDA i : Cardinality({j \in 0..W-1 : Get(k)[i][j] = 1}),
                  (r[1] + 1)..(r[2] + 1))

\* Bytes that are all skipValue are passed over.
BitPos(k, on, start, end) ==
    LET r    == getRange(start, end, Len(Get(k)))
        skip == [j \in 0..W-1 |-> 1 - on]
        hits == {i \in r[1]..r[2] : Get(k)[i + 1] # skip}
    IN  IF hits = {} THEN -1
        ELSE Min(hits) * W + Min({j \in 0..W-1 : Get(k)[Min(hits) + 1][j] = on})

GetBit(k, offset) ==
    LET byteOffset == Uint(offset) \div W IN
    IF byteOffset >= Len(Get(k)) THEN 0
    ELSE Get(k)[byteOffset + 1][Uint(offset) % W]

\* The bounds of [start] [end]: the whole value unless they are given.
parseBitRange(args) ==
    <<IF Len(args) > 0 THEN args[1] ELSE 0, IF Len(args) = 2 THEN args[2] ELSE -1>>

----------------------------------------------------------------------------
(* Properties *)

\* The stored values are byte strings of at most MaxValueSize bytes; SETBIT,
\* which checks no size, keeps to it because its offset has U bits.
TypeOK ==
    /\ DOMAIN kv \subseteq Keys
    /\ \A k \in DOMAIN kv : kv[k] \in BoundedSeq(Byte, MaxValueSize)
    /\ pend.op \in Ops \cup {"none"}

\* The bits a value has set, counted from its first bit
Ones(v) == {i \in 0..(Len(v) * W - 1) : v[i \div W + 1][i % W] = 1}

\* The bytes GETRANGE k start end names: the ones from start to end, a
\* negative index counted from the end, both cut to the value.
InRange(n, start, end) ==
    {i \in 0..n-1 :
        /\ i >= IF start < 0 THEN n + start ELSE start
        /\ i <= Max({IF end < 0 THEN n + end ELSE end, 0})}

\* GETRANGE, STRLEN, GETBIT, BITCOUNT and BITPOS agree about the value they
\* read: the range commands look at the same bytes, the bit commands at the
\* same bits, for every range that BITCOUNT and BITPOS survive; a range is
\* fatal to them exactly when it starts after its end with bytes in between.
ReadsAgree ==
    \A k \in Keys : LET v == Get(k) IN
        /\ \A offset \in Offsets : GetBit(k, offset) = 1 <=> Uint(offset) \in Ones(v)
        /\ \A args \in BoundedSeq(Bounds, 2) :
              LET b     == parseBitRange(args)
                  inr   == InRange(StrLen(k), b[1], b[2])
                  at(x) == {i \in 0..(StrLen(k) * W - 1) :
                                i \div W \in inr /\ (i \in Ones(v) <=> x = 1)}
              IN  /\ GetRange(k, b[1], b[2]) = [i \in 1..Cardinality(inr) |-> v[Min(inr) + i]]
                  /\ inr # {} => Sliced(k, b[1], b[2])
                  /\ Sliced(k, b[1], b[2]) =>
                        /\ BitCount(k, b[1], b[2]) = Cardinality(at(1))
                        /\ \A on \in 0..1 :
                              BitPos(k, on, b[1], b[2]) =
                                  IF at(on) = {} THEN -1 ELSE Min(at(on))

\* A write leaves every bit it does not name as it was, and the bytes it adds
\* and does not name are zero: SETRANGE and SETBIT past the end, APPEND.
WritesExact ==
    last.cmd \in {"append", "setrange", "setbit"} =>
        LET old  == last.old
            at   == IF last.cmd = "append" THEN Len(old) ELSE last.arg
            keep == IF last.cmd = "setbit"
                    THEN (Ones(old) \ {at}) \cup {i \in {at} : last.given = 1}
                    ELSE {i \in Ones(old) : i \div W \notin at..(at + Len(last.given) - 1)}
                            \cup {at * W + i : i \in Ones(last.given)}
            size == IF last.cmd = "setbit" THEN at \div W + 1 ELSE at + Len(last.given)
        IN  /\ Ones(Get(last.key)) = keep
            /\ StrLen(last.key) = Max({Len(old), size})

\* What BITOP has made of the sources it has read is the operation on them
\* bit by bit, a short source continued with zeros, in whatever order the
\* lengths come and whatever is written meanwhile.
BitOpExact ==
    pend.op # "none" =>
        LET n  == Max({Len(pend.seen[i]) : i \in 1..Len(pend.seen)})
            in == [i \in 0..(n * W - 1) |->
                      {s \in 1..Len(pend.seen) : i \in Ones(pend.seen[s])}]
        IN  /\ Len(pend.value) = n
            /\ Ones(pend.value) =
                  {i \in 0..(n * W - 1) :
                      CASE pend.op = "and" -> in[i] = 1..Len(pend.seen)
                        [] pend.op = "or"  -> in[i] # {}
                        [] pend.op = "xor" -> Cardinality(in[i]) % 2 = 1}

\* BITOP NOT with its one source stores the complement of it.
\* ledis/t_kv.go: "BITOP NOT has only one srckey".
NotStores ==
    last.cmd = "bitop" /\ last.arg = "not" /\ Len(last.given) = 1 =>
        Len(Get(last.key)) = Len(Get(last.given[1]))
=============================================================================
