------------------------------ MODULE MCLedis ------------------------------
(***************************************************************************)
(* Small instances of Ledis for TLC.                                       *)
(***************************************************************************)
EXTENDS Ledis, TLC

CONSTANTS w1, w2, k1, k2, v1

OneWriter == {w1}
MCWriters == {w1, w2}
MCKeys == {k1, k2}
MCValues == {v1}

\* A put of both keys, a delete of one of them, a delete of the other.
MCBatches == {k1 :> v1 @@ k2 :> v1, k1 :> Nil @@ k2 :> Keep, k1 :> Keep @@ k2 :> Nil}
TwoBatches == {k1 :> v1 @@ k2 :> v1, k1 :> Nil @@ k2 :> Keep}
MCSnapshots == {k1 :> v1 @@ k2 :> Nil}

Symmetry == Permutations(MCWriters)
=============================================================================
