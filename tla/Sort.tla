-------------------------------- MODULE Sort --------------------------------
(***************************************************************************)
(* XLSORT, XSSORT and XZSORT (ledis/sort.go, server/cmd_sort.go): the      *)
(* elements of a key, ordered by themselves or by the values of other      *)
(* keys, which are looked up one after the other while others write, and   *)
(* replied or stored in a list.                                            *)
(*                                                                         *)
(* An element is a number; its order as bytes is the other way round (as   *)
(* "9" and "10").  Element e has a key that BY and GET lead to.            *)
(***************************************************************************)
EXTENDS Integers, Sequences, FiniteSets, SequencesExt, FiniteSetsExt

CONSTANTS
    Clients,
    Elements,   \* numbers above 0
    MaxLen,     \* bound: the elements of the source
    Weights,    \* what the keys of the elements may hold
    Nil,        \* no such key
    Text,       \* a value that is no number, as a place in the order of bytes
    Offsets, Sizes,   \* LIMIT arguments
    Stores,     \* STORE or not
    MaxWrites   \* bound: the writes

VARIABLES
    src,     \* the elements of the sorted key
    weight,  \* the keys of the elements
    dst,     \* the list of STORE
    cl,      \* the clients
    writes

vars == <<src, weight, dst, cl, writes>>

NoArgs == [offset |-> 0, size |-> 0, alpha |-> FALSE, desc |-> FALSE, by |-> "none",
           get |-> FALSE, store |-> FALSE]
Idle == [st |-> "idle", args |-> NoArgs, values |-> <<>>, keys |-> <<>>, order |-> <<>>,
         res |-> <<>>]

Init ==
    /\ src \in UNION {[1..n -> Elements] : n \in 0..MaxLen}
    /\ weight \in [Elements -> Weights]
    /\ dst = <<>>
    /\ cl = [c \in Clients |-> Idle]
    /\ writes = MaxWrites

----------------------------------------------------------------------------
(* The order and the range *)

\* The first and the last index, from 0 on; nothing when the first is above.
getSortRange(len, offset, size) ==
    LET start == IF offset > 0 THEN offset ELSE 0
        end == IF size > 0 THEN start + size - 1 ELSE len - 1
    IN  IF start >= len THEN <<len - 1, len - 2>>
        ELSE <<start, IF end >= len THEN len - 1 ELSE end>>

BytesLess(a, b) == a > b

\* The key of an item by number: 0 when there is none
Score(key) == IF key = Nil THEN 0 ELSE key

Less(args, a, b) ==
    IF ~args.alpha
    THEN \/ Score(a.key) < Score(b.key)
         \/ Score(a.key) = Score(b.key) /\ BytesLess(a.value, b.value)
    ELSE IF args.by # "none" THEN a.key = Nil \/ (b.key # Nil /\ BytesLess(a.key, b.key))
    ELSE BytesLess(a.value, b.value)

\* sort.Sort: an order in which no item comes after one it is less than
\* (external; items that are less than each other come in any order).
Sorted(args, items) ==
    LET n == Len(items)
        Strictly(a, b) == Less(args, a, b) /\ ~Less(args, b, a)
    IN  {p \in [1..n -> 1..n] :
            /\ \A i, j \in 1..n : i # j => p[i] # p[j]
            /\ \A i, j \in 1..n : i < j =>
                  IF args.desc THEN ~Strictly(items[p[i]], items[p[j]])
                               ELSE ~Strictly(items[p[j]], items[p[i]])}

\* A BY without a * is no pattern: the elements stay as they are.
dontsort(args) == args.by = "fixed"

----------------------------------------------------------------------------
(* The steps of a command *)

\* XLSort, XSSort and XZSort read the elements.
XSort(c, args) ==
    /\ cl[c].st = "idle"
    /\ cl' = [cl EXCEPT ![c] =
                 IF src = <<>>
                 THEN [Idle EXCEPT !.st = IF args.store THEN "clear" ELSE "done", !.args = args]
                 ELSE [Idle EXCEPT !.st = "keys", !.args = args, !.values = src]]
    /\ UNCHANGED <<src, weight, dst, writes>>

\* The keys the elements are ordered by are read one at a time; a value that
\* is no number ends the command, unless the order is by bytes.
lookupKeyByPattern(c) ==
    LET args == cl[c].args
        e == cl[c].values[Len(cl[c].keys) + 1]
        key == IF dontsort(args) THEN Nil
               ELSE IF args.by = "pattern" THEN weight[e] ELSE e
    IN  /\ cl[c].st = "keys" /\ Len(cl[c].keys) < Len(cl[c].values)
        /\ cl' = IF key = Text /\ ~args.alpha
                 THEN [cl EXCEPT ![c].st = "error"]
                 ELSE [cl EXCEPT ![c].keys = Append(@, key)]
        /\ UNCHANGED <<src, weight, dst, writes>>

Items(c) == [i \in 1..Len(cl[c].values) |-> [value |-> cl[c].values[i], key |-> cl[c].keys[i]]]

xsort(c) ==
    LET args == cl[c].args
        n == Len(cl[c].values)
        range == getSortRange(n, args.offset, args.size)
    IN  /\ cl[c].st = "keys" /\ Len(cl[c].keys) = n
        /\ \E p \in IF dontsort(args) THEN {[i \in 1..n |-> i]} ELSE Sorted(args, Items(c)) :
              LET picked == SubSeq([i \in 1..n |-> cl[c].values[p[i]]], range[1] + 1, range[2] + 1) IN
              cl' = [cl EXCEPT ![c].order = picked, ![c].st = "get"]
        /\ UNCHANGED <<src, weight, dst, writes>>

\* The element, or what GET leads to
sortGet(c) ==
    LET args == cl[c].args
        i == Len(cl[c].res) + 1
    IN  /\ cl[c].st = "get"
        /\ IF i > Len(cl[c].order)
           THEN cl' = [cl EXCEPT ![c].st = IF args.store THEN "clear" ELSE "done"]
           ELSE cl' = [cl EXCEPT ![c].res =
                          Append(@, IF args.get THEN weight[cl[c].order[i]] ELSE cl[c].order[i])]
        /\ UNCHANGED <<src, weight, dst, writes>>

\* Mutant: the list keeps what it had.
StoreClearNot(c) ==
    /\ cl[c].st = "clear"
    /\ cl' = [cl EXCEPT ![c].st = "push"]
    /\ UNCHANGED <<src, weight, dst, writes>>

\* STORE: the list is cleared and then filled.
StoreClear(c) ==
    /\ cl[c].st = "clear"
    /\ dst' = <<>>
    /\ cl' = [cl EXCEPT ![c].st = "push"]
    /\ UNCHANGED <<src, weight, writes>>

handleXSort(c) ==
    /\ cl[c].st = "push"
    /\ dst' = dst \o cl[c].res
    /\ cl' = [cl EXCEPT ![c].st = "stored"]
    /\ UNCHANGED <<src, weight, writes>>

Done(c) ==
    /\ cl[c].st \in {"done", "stored", "error"}
    /\ cl' = [cl EXCEPT ![c] = Idle]
    /\ UNCHANGED <<src, weight, dst, writes>>

----------------------------------------------------------------------------
(* Other writers *)

SetWeight(e, v) ==
    /\ writes > 0 /\ weight[e] # v
    /\ writes' = writes - 1
    /\ weight' = [weight EXCEPT ![e] = v]
    /\ UNCHANGED <<src, dst, cl>>

Drop ==
    /\ writes > 0 /\ src # <<>>
    /\ writes' = writes - 1
    /\ src' = Tail(src)
    /\ UNCHANGED <<weight, dst, cl>>

Args == [offset : Offsets, size : Sizes, alpha : BOOLEAN, desc : BOOLEAN,
         by : {"none", "fixed", "pattern"}, get : BOOLEAN, store : Stores]

Next ==
    \/ \E c \in Clients :
          \/ \E args \in Args : XSort(c, args)
          \/ lookupKeyByPattern(c) \/ xsort(c) \/ sortGet(c)
          \/ StoreClear(c) \/ handleXSort(c) \/ Done(c)
    \/ \E e \in Elements, v \in Weights : SetWeight(e, v)
    \/ Drop

Spec == Init /\ [][Next]_vars

----------------------------------------------------------------------------
(* Properties *)

\* How an item stands to another in the order asked for: by number, a missing
\* key as 0 and equal ones by their bytes; or by bytes, missing keys first.
Place(args, item) ==
    LET up == IF args.alpha
              THEN IF args.by = "none" THEN <<0, 0 - item.value>>
                   ELSE IF item.key = Nil THEN <<0, 0>> ELSE <<1, 0 - item.key>>
              ELSE <<Score(item.key), 0 - item.value>>
    IN  IF args.desc THEN <<0 - up[1], 0 - up[2]>> ELSE up

Above(p, q) == p[1] > q[1] \/ (p[1] = q[1] /\ p[2] > q[2])

\* The reply has the elements that stand at the places LIMIT names in the
\* order of the keys as they were looked up, each as often as the key held it,
\* though other keys and the sorted one have changed since.
OrderExact ==
    \A c \in Clients :
        LET me == cl[c]
            n == Len(me.values)
            from == IF me.args.offset > 0 THEN me.args.offset ELSE 0
            count == IF from >= n THEN 0
                     ELSE IF me.args.size <= 0 \/ me.args.size > n - from THEN n - from
                     ELSE me.args.size
            place == [i \in 1..n |-> Place(me.args, Items(c)[i])]
        IN  me.st \in {"get", "done"} /\ n > 0 =>
            /\ Len(me.order) = count
            /\ ~dontsort(me.args) => \A k \in 1..count :
                  \E i \in 1..n :
                      /\ me.values[i] = me.order[k]
                      /\ Cardinality({j \in 1..n : Above(place[i], place[j])}) < from + k
                      /\ from + k <= Cardinality({j \in 1..n : ~Above(place[j], place[i])})
            /\ \A e \in Elements :
                  Cardinality({k \in 1..count : me.order[k] = e})
                      <= Cardinality({i \in 1..n : me.values[i] = e})

\* The list of a STORE that has just replied is what the sort has found.
\* doc/commands.md on XLSORT: "Returns or stores the elements contained in the
\* list at key."
StoredExact == \A c \in Clients : cl[c].st = "stored" => dst = cl[c].res
=============================================================================
