---------------------------- MODULE DurableStore ----------------------------
(***************************************************************************)
(* What one ledisdb node promises: there is one current data set, changed  *)
(* only by whole write batches, one at a time.  While batches are being    *)
(* committed or replayed the store shows no definite data; whenever it     *)
(* shows some, it is the current data set.  A flush or a full sync puts a  *)
(* new data set in its place; one that is cut off loses the data set until *)
(* the next one.                                                           *)
(***************************************************************************)
CONSTANTS Keys, Keep, Nil, Batches, Snapshots

VARIABLES state, \* {d} when d is the current data set, {} when it is lost
          view   \* {d} when the store shows the data set d, {} when it shows none

vars == <<state, view>>

EmptyData == [k \in Keys |-> Nil]
Applied(d, b) == [k \in Keys |-> IF b[k] = Keep THEN d[k] ELSE b[k]]

Init == state = {EmptyData} /\ view = {EmptyData}

\* A batch is accepted; it shows later.
Accept == /\ \E d \in state, b \in Batches : state' = {Applied(d, b)}
          /\ view' = {}

\* All accepted batches show.
Settle == view' = state /\ UNCHANGED state

\* A restart finds accepted batches to replay.
Unsettle == view' = {} /\ UNCHANGED state

\* A flush, a load or a sync was cut in two.
Lose == state' = {} /\ view' = {}

\* A flush or a load is complete.
Restore == \E d \in Snapshots \cup {EmptyData} : state' = {d} /\ view' = {d}

Next == Accept \/ Settle \/ Unsettle \/ Lose \/ Restore

Spec == Init /\ [][Next]_vars
=============================================================================
