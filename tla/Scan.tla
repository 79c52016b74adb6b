-------------------------------- MODULE Scan --------------------------------
(***************************************************************************)
(* The scans: the range iterator of the store (store/iterator.go), the     *)
(* pages read with it (ledis/scan.go) and a client that walks through the  *)
(* keys of a type, or the elements of a key, page by page                  *)
(* (server/cmd_scan.go) while others write.                                *)
(*                                                                         *)
(* The keys of the store are numbers in their order.  Group g is a type of *)
(* keys, or the elements of one key: its members 1..K follow the place of  *)
(* the empty name, and the next group begins after them.                   *)
(***************************************************************************)
EXTENDS Integers, Sequences, FiniteSets, SequencesExt, FiniteSetsExt

CONSTANTS
    K,             \* the names of a group
    Slots,         \* the places of the store that are used, <<group, name>>
    Groups,        \* the groups that are scanned
    Counts,        \* COUNT arguments
    DefaultCount,  \* the count of a scan that gives none
    Matches,       \* MATCH arguments: the names that match
    Redis,         \* TRUE: SSCAN, HSCAN and ZSCAN; FALSE: XSCAN and the like
    ZeroName       \* the name "0" (K + 1 when no key has it)

VARIABLES
    data,   \* the places that hold something
    cl,     \* the client
    seen,   \* what it was given
    stay,   \* history: the names that were there since the scan began
    ever    \* history: the names that were there at some time of the scan

vars == <<data, cl, seen, stay, ever>>

None == -1

encodeKey(g, k) == g * (K + 1) + k

NameOf(p) == p % (K + 1)

nilCursorLedis == 0
nilCursorRedis == ZeroName

Idle == [st |-> "idle", g |-> 0, desc |-> FALSE, count |-> 0, match |-> {},
         cursor |-> nilCursorLedis]

Places == {encodeKey(s[1], s[2]) : s \in Slots}

Init ==
    /\ data \in SUBSET Places
    /\ cl = Idle
    /\ seen = <<>>
    /\ stay = {} /\ ever = {}

----------------------------------------------------------------------------
(* The iterator of the store (a snapshot), and the ranges over it *)

First(S) == IF S = {} THEN None ELSE Min(S)
Final(S) == IF S = {} THEN None ELSE Max(S)

Seek(x) == First({p \in data : p >= x})
Next_(p) == First({q \in data : q > p})
Prev(p) == Final({q \in data : q < p})

\* Where an iterator over a range begins
rangeLimitIterator(r, reverse) ==
    IF ~reverse
    THEN LET p == Seek(r.min) IN
         IF r.lopen /\ p = r.min THEN Next_(p) ELSE p
    ELSE LET s == Seek(r.max)
             p == IF s = None THEN Final(data) ELSE IF s # r.max THEN Prev(s) ELSE s
         IN  IF r.ropen /\ p = r.max THEN Prev(p) ELSE p

\* The side it runs towards is checked at every step.
Valid(p, r, reverse) ==
    /\ p # None
    /\ IF ~reverse THEN IF r.ropen THEN p < r.max ELSE p <= r.max
                   ELSE IF r.lopen THEN p > r.min ELSE p >= r.min

----------------------------------------------------------------------------
(* The pages *)

\* From the cursor to the end of the group, or from its start to the cursor;
\* the end of the group is open in every case.
buildScanKeyRange(g, cursor, inclusive, reverse) ==
    [min |-> encodeKey(g, IF reverse THEN 0 ELSE cursor),
     max |-> IF reverse /\ cursor # 0 THEN encodeKey(g, cursor) ELSE encodeKey(g + 1, 0),
     lopen |-> reverse \/ ~inclusive, ropen |-> ~reverse \/ ~inclusive]

checkScanCount(count) == IF count <= 0 THEN DefaultCount ELSE count

\* The matching names of the range until there are count of them
Page(r, count, match, reverse) ==
    LET go[p \in data \cup {None}, n \in 0..count] ==
            IF ~Valid(p, r, reverse) \/ n = count THEN <<>>
            ELSE LET q == IF reverse THEN Prev(p) ELSE Next_(p) IN
                 IF NameOf(p) \in match THEN <<NameOf(p)>> \o go[q, n + 1] ELSE go[q, n]
    IN  go[rangeLimitIterator(r, reverse), 0]

scanGeneric(g, cursor, count, inclusive, match, reverse) ==
    Page(buildScanKeyRange(g, cursor, inclusive, reverse), checkScanCount(count), match, reverse)

\* HSCAN, SSCAN and ZSCAN walk through the elements of a key likewise.
dataScanGeneric(g, cursor, count, inclusive, match, reverse) ==
    scanGeneric(g, cursor, count, inclusive, match, reverse)

----------------------------------------------------------------------------
(* The commands *)

parseScanArgs(cursor) ==
    IF Redis /\ cursor = nilCursorRedis THEN nilCursorLedis ELSE cursor

lastCursor == IF Redis THEN nilCursorRedis ELSE nilCursorLedis

\* Mutant: the cursor is the first of the page.
ReplyCursorFirst(ay, count) == IF Len(ay) < count THEN lastCursor ELSE ay[1]

\* Mutant: a page shorter than count is followed by another.
ReplyCursorMore(ay, count) == IF ay = <<>> THEN cl.cursor ELSE Last(ay)

\* The cursor for the next iteration; the count is the one of the request.
ReplyCursor(ay, count) == IF Len(ay) < count THEN lastCursor ELSE Last(ay)

\* A count of 0 or less and nothing found: an index of -1, a panic that
\* closes the connection.
Reply(ay) ==
    IF Len(ay) >= cl.count /\ ay = <<>>
    THEN /\ cl' = [cl EXCEPT !.st = "broken"]
         /\ UNCHANGED seen
    ELSE LET cursor == ReplyCursor(ay, cl.count) IN
         /\ seen' = seen \o ay
         /\ cl' = [cl EXCEPT !.st = IF cursor = lastCursor THEN "done" ELSE "walk",
                             !.cursor = cursor]

xscanCommand ==
    /\ cl.st = "walk" /\ ~Redis
    /\ Reply(scanGeneric(cl.g, parseScanArgs(cl.cursor), cl.count, FALSE, cl.match, cl.desc))
    /\ UNCHANGED <<data, stay, ever>>

dataScanCommand ==
    /\ cl.st = "walk" /\ Redis
    /\ Reply(dataScanGeneric(cl.g, parseScanArgs(cl.cursor), cl.count, FALSE, cl.match, cl.desc))
    /\ UNCHANGED <<data, stay, ever>>

----------------------------------------------------------------------------
(* The client and the writers *)

Names(g) == {k \in 1..K : encodeKey(g, k) \in data}

Begin(g, desc, count, match) ==
    /\ cl.st = "idle"
    /\ cl' = [st |-> "walk", g |-> g, desc |-> desc, count |-> count, match |-> match,
              cursor |-> lastCursor]
    /\ stay' = Names(g) /\ ever' = Names(g)
    /\ UNCHANGED <<data, seen>>

\* The end of a scan, and of its history
End ==
    /\ cl.st \in {"done", "broken"}
    /\ cl' = Idle /\ seen' = <<>> /\ stay' = {} /\ ever' = {}
    /\ UNCHANGED data

Write(p) ==
    /\ cl.st = "walk"
    /\ data' = IF p \in data THEN data \ {p} ELSE data \cup {p}
    /\ LET here == {k \in 1..K : encodeKey(cl.g, k) \in data'} IN
       /\ stay' = stay \cap here
       /\ ever' = ever \cup here
    /\ UNCHANGED <<cl, seen>>

Next ==
    \/ \E g \in Groups, d \in BOOLEAN, n \in Counts, m \in Matches : Begin(g, d, n, m)
    \/ xscanCommand \/ dataScanCommand
    \/ \E p \in Places : Write(p)
    \/ End

Spec == Init /\ [][Next]_vars

\* A client that scans asks for the next page as long as there is one.
FairSpec == Spec /\ WF_vars(xscanCommand) /\ WF_vars(dataScanCommand)

----------------------------------------------------------------------------
(* Properties *)

\* The store, the cursor and the names given so far are well formed.
TypeOK ==
    /\ data \subseteq Places
    /\ cl.st \in {"idle", "walk", "done", "broken"}
    /\ cl.cursor \in 0..(K + 1)
    /\ Range(seen) \subseteq 1..K /\ Len(seen) <= K
    /\ stay \subseteq ever

\* A scan that has ended gave every matching name that was there from its
\* first page to its last, each once and in order, and no name that was never
\* there, in whatever way the keys changed between the pages.
ScanExact ==
    /\ Range(seen) \subseteq ever \cap cl.match
    /\ \A i \in 2..Len(seen) :
           IF cl.desc THEN seen[i] < seen[i - 1] ELSE seen[i] > seen[i - 1]
    /\ cl.st = "done" => stay \cap cl.match \subseteq Range(seen)

\* One page from any cursor, forward or reverse, with the cursor or without:
\* the first count matching names on its side, none of another group.
PageExact ==
    \A g \in Groups, cursor \in 0..K, inclusive \in BOOLEAN, reverse \in BOOLEAN,
       count \in Counts, match \in Matches :
        LET side == {k \in Names(g) \cap match :
                        \/ cursor = 0
                        \/ inclusive /\ k = cursor
                        \/ IF reverse THEN k < cursor ELSE k > cursor}
            all == SetToSortSeq(side, LAMBDA a, b : IF reverse THEN a > b ELSE a < b)
            n == IF count <= 0 THEN DefaultCount ELSE count
        IN  scanGeneric(g, cursor, count, inclusive, match, reverse)
                = SubSeq(all, 1, IF n < Len(all) THEN n ELSE Len(all))

\* Every request for a page has a reply.
\* doc/commands.md on XSCAN: the reply is "an array of two values, first value is
\* the cursor for next iteration".
Answered == cl.st # "broken"

\* A scan comes to its end, however busy the writers are: every page moves
\* the cursor on.
ScanEnds == (cl.st = "walk") ~> (cl.st # "walk")
=============================================================================
