------------------------------- MODULE Deque --------------------------------
(***************************************************************************)
(* What the list commands promise: every key holds a sequence of values    *)
(* that grows and shrinks at its ends, and a time to live that goes with   *)
(* the list.  Module List implements this one.                             *)
(***************************************************************************)
EXTENDS Integers, Sequences

CONSTANTS Keys, Values, Whens

VARIABLES
    list,  \* the values of each key, in order
    due    \* the second at which the list of a key expires, 0 for none

vars == <<list, due>>

Init == list = [k \in Keys |-> <<>>] /\ due = [k \in Keys |-> 0]

\* The key now holds s; an empty list is no list, and has no time to live.
Becomes(k, s) ==
    /\ list' = [list EXCEPT ![k] = s]
    /\ due' = IF s = <<>> THEN [due EXCEPT ![k] = 0] ELSE due

\* Values are added in front of all others or behind them.
Push(k) ==
    \E n \in 1..2 : \E vs \in [1..n -> Values] :
        Becomes(k, vs \o list[k]) \/ Becomes(k, list[k] \o vs)

\* A section of the list is kept: pops and trims.
Keep(k) ==
    \E i \in 1..(Len(list[k]) + 1), j \in 0..Len(list[k]) :
        Becomes(k, SubSeq(list[k], i, j))

Replace(k) ==
    \E i \in 1..Len(list[k]), v \in Values :
        Becomes(k, [list[k] EXCEPT ![i] = v])

\* LMCLEAR, FLUSHDB: several lists at once.
Clear(K) ==
    /\ list' = [k \in Keys |-> IF k \in K THEN <<>> ELSE list[k]]
    /\ due' = [k \in Keys |-> IF k \in K THEN 0 ELSE due[k]]

SetTtl(k) ==
    /\ list[k] # <<>>
    /\ \E w \in Whens \cup {0} : due' = [due EXCEPT ![k] = w]
    /\ UNCHANGED list

Next ==
    \/ \E k \in Keys : Push(k) \/ Keep(k) \/ Replace(k) \/ SetTtl(k)
    \/ \E K \in SUBSET Keys : Clear(K)

Spec == Init /\ [][Next]_vars
=============================================================================
