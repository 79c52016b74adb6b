---------------------------- MODULE ServerProofs ----------------------------
(***************************************************************************)
(* A server with any number of RESP connections: no command runs when the  *)
(* store is closed, none for a client whose last password was wrong, and   *)
(* scripts exclude each other.                                             *)
(***************************************************************************)
EXTENDS Server, FiniteSetTheorems, TLAPS

----------------------------------------------------------------------------
(* The inductive invariant *)

States == {"gone", "new", "ready", "idle", "plain", "block", "lock", "script", "stuck", "end"}

Conn == [st: States, open: BOOLEAN, authed: BOOLEAN, right: BOOLEAN, db: Dbs,
         cmd: Commands \cup {"plain"}]

\* The states in which a connection is not served
Passing == {"gone", "new", "ready", "end"}

LuaClient == [db: Dbs \cup {NoDb}, authed: BOOLEAN, refused: BOOLEAN]

ConnType == cs \in [Clients -> Conn] /\ lua \in LuaClient

\* The registered connections are the ones connWait counts.
CountInv ==
    /\ rcs = {c \in Clients : cs[c].st \notin {"gone", "new"}}
    /\ wait = Cardinality(rcs)

\* Once connWait was zero, the connections that come only pass through.
CloseInv ==
    /\ closing # "no" => quit
    /\ closing \in {"store", "closed"} => \A c \in Clients : cs[c].st \in Passing

\* A client is authenticated only by its last password, and served only then.
AuthInv ==
    \A c \in Clients : /\ cs[c].authed => cs[c].right
                       /\ Password /\ Busy(c) => cs[c].authed

ScriptInv == OneScript /\ script \in Clients \cup {Nobody}

ServerInv == ConnType /\ CountInv /\ CloseInv /\ AuthInv /\ ScriptInv

----------------------------------------------------------------------------
(* Steps of one connection that registers nothing and touches no script *)

Local(c) ==
    /\ cs' \in [Clients -> Conn]
    /\ \A d \in Clients : d # c => cs'[d] = cs[d]
    /\ cs'[c].st \in {"gone", "new"} <=> cs[c].st \in {"gone", "new"}
    /\ cs[c].st \in Passing => cs'[c].st \in Passing \/ ~quit
    /\ cs'[c].st \in {"script", "stuck"} <=> cs[c].st \in {"script", "stuck"}
    /\ cs'[c].authed => cs'[c].right
    /\ Password /\ Busy(c)' => cs'[c].authed
    /\ UNCHANGED <<web, rcs, wait, quit, closing, script, lua>>

\* Such a step keeps the invariant.
LEMMA LocalKeeps ==
    ASSUME NEW c \in Clients, ServerInv, Local(c)
    PROVE  ServerInv'
<1>1. ConnType'
  BY DEF ServerInv, ConnType, Local
<1>2. CountInv'
  BY DEF ServerInv, CountInv, Local
<1>3. CloseInv'
  BY DEF ServerInv, CloseInv, Local
<1>4. AuthInv'
  BY DEF ServerInv, AuthInv, Local, Busy
<1>5. ScriptInv'
  BY DEF ServerInv, ScriptInv, OneScript, Local
<1> QED
  BY <1>1, <1>2, <1>3, <1>4, <1>5 DEF ServerInv

\* The goroutine starts, its read fails, its peer goes, its command ends.
LEMMA LifeIsLocal ==
    ASSUME NEW c \in Clients, ServerInv,
           run(c) \/ PeerCloses(c) \/ ReadFails(c) \/ Done(c)
    PROVE  Local(c)
<1>1. cs \in [Clients -> Conn] /\ cs[c] \in Conn
  BY DEF ServerInv, ConnType
<1>2. (cs[c].authed => cs[c].right) /\ (Password /\ Busy(c) => cs[c].authed)
  BY DEF ServerInv, AuthInv
<1>3. CASE run(c)
  BY <1>1, <1>2, <1>3 DEF run, Local, Conn, States, Passing, Busy
<1>4. CASE PeerCloses(c)
  BY <1>1, <1>2, <1>4 DEF PeerCloses, Local, Conn, States, Passing, Busy
<1>5. CASE ReadFails(c)
  BY <1>1, <1>2, <1>5 DEF ReadFails, Local, Conn, States, Passing, Busy
<1>6. CASE Done(c)
  BY <1>1, <1>2, <1>6 DEF Done, Local, Conn, States, Passing, Busy
<1> QED
  BY <1>3, <1>4, <1>5, <1>6

\* A request of an unauthenticated client does nothing but AUTH.
LEMMA RequestIsLocal ==
    ASSUME NEW c \in Clients, NEW cmd \in Commands, ServerInv, handleRequest(c, cmd)
    PROVE  Local(c)
<1>1. cs \in [Clients -> Conn] /\ cs[c] \in Conn /\ cs[c].st = "idle"
  BY DEF ServerInv, ConnType, handleRequest
<1>2. cs[c].authed => cs[c].right
  BY DEF ServerInv, AuthInv
<1>3. UNCHANGED <<web, rcs, wait, quit, closing, script, lua>>
  BY DEF handleRequest
<1>4. CASE cmd = "quit"
  <2>1. cs' = [cs EXCEPT ![c].st = "end", ![c].open = FALSE]
    BY <1>4 DEF handleRequest
  <2> QED
    BY <1>1, <1>2, <1>3, <2>1 DEF Local, Conn, States, Passing, Busy
<1>5. CASE cmd = "select"
  <2>1. PICK db \in Dbs :
            cs' = IF Password /\ ~cs[c].authed THEN cs ELSE [cs EXCEPT ![c].db = db]
    BY <1>5 DEF handleRequest
  <2> QED
    BY <1>1, <1>2, <1>3, <2>1 DEF Local, Conn, States, Passing, Busy
<1>6. CASE cmd = "xselect"
  <2>1. PICK db \in Dbs : cs' = [perform(c, "plain") EXCEPT ![c].db = db]
    BY <1>6 DEF handleRequest
  <2>2. CASE Password /\ ~cs[c].authed
    <3>1. perform(c, "plain") = cs
      BY <2>2 DEF perform
    <3> QED
      BY <1>1, <1>2, <1>3, <2>1, <3>1 DEF Local, Conn, States, Passing, Busy
  <2>3. CASE ~(Password /\ ~cs[c].authed)
    <3>1. perform(c, "plain") = [cs EXCEPT ![c].st = "plain", ![c].cmd = "plain"]
      BY <2>3 DEF perform
    <3> QED
      BY <1>1, <1>2, <1>3, <2>1, <2>3, <3>1 DEF Local, Conn, States, Passing, Busy
  <2> QED
    BY <2>2, <2>3
<1>7. CASE cmd \notin {"quit", "select", "xselect"}
  <2>1. cs' = perform(c, cmd)
    BY <1>7 DEF handleRequest
  <2>2. CASE Password /\ ~cs[c].authed /\ cmd \notin {"auth", "badauth"}
    <3>1. cs' = cs
      BY <2>1, <2>2 DEF perform
    <3> QED
      BY <1>1, <1>2, <1>3, <3>1 DEF Local, Conn, States, Passing, Busy
  <2>3. CASE cmd \in {"auth", "badauth"}
    <3>1. PICK good \in BOOLEAN : cs' = [cs EXCEPT ![c].authed = good, ![c].right = good]
      BY <2>1, <2>3 DEF perform, authCommand
    <3> QED
      BY <1>1, <1>2, <1>3, <3>1 DEF Local, Conn, States, Passing, Busy
  <2>4. CASE cmd \notin {"auth", "badauth"} /\ ~(Password /\ ~cs[c].authed)
    <3>1. \/ cs' = cs
          \/ \E st \in {"plain", "block", "lock"} : cs' = [cs EXCEPT ![c].st = st, ![c].cmd = cmd]
      BY <2>1, <2>4 DEF perform
    <3> QED
      BY <1>1, <1>2, <1>3, <2>4, <3>1 DEF Local, Conn, States, Passing, Busy
  <2> QED
    BY <2>2, <2>3, <2>4
<1> QED
  BY <1>4, <1>5, <1>6, <1>7

----------------------------------------------------------------------------
(* Connections come and go *)

\* At the start there is none.
LEMMA ServerInit == Init => ServerInv
<1> SUFFICES ASSUME Init PROVE ServerInv
  OBVIOUS
<1>1. Gone \in Conn /\ Gone.st = "gone" /\ Gone.authed = FALSE
  BY ServerAssumption DEF Gone, Conn, States
<1>2. \A c \in Clients : cs[c] = Gone
  BY DEF Init
<1>3. ConnType
  BY <1>1 DEF Init, ConnType, LuaClient
<1>4. CountInv
  <2>1. rcs = {} /\ {c \in Clients : cs[c].st \notin {"gone", "new"}} = {}
    BY <1>1, <1>2 DEF Init
  <2> QED
    BY <2>1, FS_EmptySet DEF Init, CountInv
<1>5. CloseInv /\ AuthInv
  BY <1>1, <1>2 DEF Init, CloseInv, AuthInv, Busy
<1>6. ScriptInv
  BY <1>1, <1>2, ServerAssumption DEF Init, ScriptInv, OneScript
<1> QED
  BY <1>3, <1>4, <1>5, <1>6 DEF ServerInv

\* A connection is accepted: nobody counts it yet.
LEMMA AcceptIsLocal ==
    ASSUME NEW c \in Clients, ServerInv, Accept(c)
    PROVE  Local(c)
<1>1. cs \in [Clients -> Conn] /\ cs[c].st = "gone"
  BY DEF ServerInv, ConnType, Accept
<1> DEFINE new == [Gone EXCEPT !.st = "new", !.open = TRUE]
<1>2. new \in Conn /\ new.st = "new" /\ new.authed = FALSE
  BY ServerAssumption DEF Gone, Conn, States
<1>3. cs' = [cs EXCEPT ![c] = new] /\ UNCHANGED <<web, rcs, wait, quit, closing, script, lua>>
  BY DEF Accept
<1> HIDE DEF new
<1>4. cs' \in [Clients -> Conn] /\ cs'[c] = new /\ \A d \in Clients : d # c => cs'[d] = cs[d]
  BY <1>1, <1>2, <1>3
<1> QED
  BY <1>1, <1>2, <1>3, <1>4 DEF Local, Passing, Busy

\* The set of registered connections is finite.
LEMMA RegisteredFinite == ServerInv => IsFiniteSet(rcs) /\ rcs \subseteq Clients
<1> SUFFICES ASSUME ServerInv PROVE IsFiniteSet(rcs) /\ rcs \subseteq Clients
  OBVIOUS
<1>1. rcs \subseteq Clients
  BY DEF ServerInv, CountInv
<1> QED
  BY <1>1, ServerAssumption, FS_Subset

\* newClientRESP counts the connection before its goroutine runs.
LEMMA NewClientKeeps ==
    ASSUME NEW c \in Clients, ServerInv, newClientRESP(c)
    PROVE  ServerInv'
<1>1. cs \in [Clients -> Conn] /\ cs[c] \in Conn /\ cs[c].st = "new"
  BY DEF ServerInv, ConnType, newClientRESP
<1>2. /\ cs' = [cs EXCEPT ![c].st = "ready"] /\ wait' = wait + 1 /\ rcs' = rcs \cup {c}
      /\ UNCHANGED <<web, quit, closing, script, lua>>
  BY DEF newClientRESP
<1>3. /\ cs' \in [Clients -> Conn]
      /\ cs'[c].st = "ready" /\ cs'[c].authed = cs[c].authed /\ cs'[c].right = cs[c].right
      /\ \A d \in Clients : d # c => cs'[d] = cs[d]
  BY <1>1, <1>2 DEF Conn, States
<1>4. ConnType'
  BY <1>2, <1>3 DEF ServerInv, ConnType
<1>5. CountInv'
  <2>1. c \notin rcs
    BY <1>1 DEF ServerInv, CountInv
  <2>2. Cardinality(rcs \cup {c}) = Cardinality(rcs) + 1
    BY <2>1, RegisteredFinite, FS_AddElement
  <2>3. rcs' = {d \in Clients : cs'[d].st \notin {"gone", "new"}}
    BY <1>2, <1>3 DEF ServerInv, CountInv
  <2> QED
    BY <1>2, <2>2, <2>3 DEF ServerInv, CountInv
<1>6. CloseInv'
  BY <1>2, <1>3 DEF ServerInv, CloseInv, Passing
<1>7. AuthInv'
  BY <1>3 DEF ServerInv, AuthInv, Busy
<1>8. ScriptInv'
  BY <1>1, <1>2, <1>3 DEF ServerInv, ScriptInv, OneScript
<1> QED
  BY <1>4, <1>5, <1>6, <1>7, <1>8 DEF ServerInv

\* The deferred end of run takes the connection from the count.
LEMMA RunEndKeeps ==
    ASSUME NEW c \in Clients, ServerInv, runEnd(c)
    PROVE  ServerInv'
<1>1. cs \in [Clients -> Conn] /\ cs[c].st = "end"
  BY DEF ServerInv, ConnType, runEnd
<1>2. /\ cs' = [cs EXCEPT ![c] = Gone] /\ wait' = wait - 1 /\ rcs' = rcs \ {c}
      /\ UNCHANGED <<web, quit, closing, script, lua>>
  BY DEF runEnd
<1>3. Gone \in Conn /\ Gone.st = "gone" /\ Gone.authed = FALSE
  BY ServerAssumption DEF Gone, Conn, States
<1>4. cs' \in [Clients -> Conn] /\ cs'[c] = Gone /\ \A d \in Clients : d # c => cs'[d] = cs[d]
  BY <1>1, <1>2, <1>3
<1>5. ConnType'
  BY <1>2, <1>4 DEF ServerInv, ConnType
<1>6. CountInv'
  <2>1. c \in rcs
    BY <1>1 DEF ServerInv, CountInv
  <2>2. Cardinality(rcs \ {c}) = Cardinality(rcs) - 1
    BY <2>1, RegisteredFinite, FS_RemoveElement
  <2>3. rcs' = {d \in Clients : cs'[d].st \notin {"gone", "new"}}
    BY <1>2, <1>3, <1>4 DEF ServerInv, CountInv
  <2> QED
    BY <1>2, <2>2, <2>3 DEF ServerInv, CountInv
<1>7. CloseInv'
  BY <1>2, <1>3, <1>4 DEF ServerInv, CloseInv, Passing
<1>8. AuthInv'
  BY <1>3, <1>4 DEF ServerInv, AuthInv, Busy
<1>9. ScriptInv'
  BY <1>1, <1>2, <1>3, <1>4 DEF ServerInv, ScriptInv, OneScript
<1> QED
  BY <1>5, <1>6, <1>7, <1>8, <1>9 DEF ServerInv

----------------------------------------------------------------------------
(* Scripts *)

\* A script begins, calls, is stuck or ends: it has the lock all the while.
LEMMA ScriptKeeps ==
    ASSUME NEW c \in Clients, ServerInv,
           \/ evalGenericCommand(c)
           \/ \E cmd \in Commands : luaCallGenericCommand(c, cmd)
           \/ evalEnd(c)
    PROVE  ServerInv'
<1>1. cs \in [Clients -> Conn] /\ cs[c] \in Conn
  BY DEF ServerInv, ConnType
<1>2. UNCHANGED <<web, rcs, wait, quit, closing>>
  BY DEF evalGenericCommand, luaCallGenericCommand, evalEnd
<1>3. \E st \in {"script", "stuck", "idle"} :
         /\ cs' = cs \/ cs' = [cs EXCEPT ![c].st = st]
         /\ cs[c].st \in {"lock", "script"}
  BY DEF evalGenericCommand, luaCallGenericCommand, evalEnd
<1>4. /\ cs' \in [Clients -> Conn]
      /\ cs'[c].st \in {"lock", "script", "stuck", "idle"}
      /\ cs'[c].authed = cs[c].authed /\ cs'[c].right = cs[c].right
      /\ \A d \in Clients : d # c => cs'[d] = cs[d]
  BY <1>1, <1>3 DEF Conn, States
<1>5. lua' \in LuaClient
  BY <1>1 DEF ServerInv, ConnType, LuaClient, evalGenericCommand, luaCallGenericCommand, evalEnd,
              Conn
<1>6. ConnType'
  BY <1>4, <1>5 DEF ConnType
<1>7. CountInv'
  BY <1>2, <1>3, <1>4 DEF ServerInv, CountInv
<1>8. CloseInv'
  BY <1>2, <1>3, <1>4 DEF ServerInv, CloseInv, Passing
<1>9. AuthInv'
  BY <1>3, <1>4 DEF ServerInv, AuthInv, Busy
<1>10. ScriptInv'
  <2>1. CASE evalGenericCommand(c)
    BY <1>1, <2>1, ServerAssumption
    DEF evalGenericCommand, ServerInv, ScriptInv, OneScript, Conn, States, ConnType, LuaClient
  <2>2. CASE \E cmd \in Commands : luaCallGenericCommand(c, cmd)
    <3>1. script' = script /\ cs[c].st = "script" /\ cs'[c].st \in {"script", "stuck"}
      BY <1>1, <2>2 DEF luaCallGenericCommand, Conn, States
    <3>2. lua'.db = NoDb <=> lua.db = NoDb
      <4>1. lua.db # NoDb
        BY <3>1, ServerAssumption DEF ServerInv, ScriptInv, OneScript
      <4>2. lua'.db = lua.db \/ lua'.db \in Dbs
        BY <2>2 DEF luaCallGenericCommand, ServerInv, ConnType, LuaClient
      <4> QED
        BY <4>1, <4>2, ServerAssumption
    <3> QED
      BY <1>4, <3>1, <3>2 DEF ServerInv, ScriptInv, OneScript
  <2>3. CASE evalEnd(c)
    BY <1>1, <2>3, ServerAssumption
    DEF evalEnd, ServerInv, ScriptInv, OneScript, Conn, States, ConnType, LuaClient
  <2> QED
    BY <2>1, <2>2, <2>3
<1> QED
  BY <1>6, <1>7, <1>8, <1>9, <1>10 DEF ServerInv

----------------------------------------------------------------------------
(* App.Close *)

\* The steps of App.Close: when connWait is zero no connection is registered,
\* so none is served.
LEMMA CloseKeeps ==
    ASSUME ServerInv,
           CloseQuit \/ CloseListener \/ closeAllRespClients \/ CloseWait \/ CloseStore
    PROVE  ServerInv'
<1>1. cs \in [Clients -> Conn]
  BY DEF ServerInv, ConnType
<1>2. /\ cs' \in [Clients -> Conn]
      /\ \A c \in Clients : /\ cs'[c].st = cs[c].st /\ cs'[c].db = cs[c].db
                            /\ cs'[c].authed = cs[c].authed /\ cs'[c].right = cs[c].right
      /\ UNCHANGED <<rcs, wait, script, lua>>
  <2>1. CASE cs' = cs
    BY <1>1, <2>1
    DEF CloseQuit, CloseListener, closeAllRespClients, CloseWait, CloseStore
  <2>2. CASE closeAllRespClients
    BY <1>1, <2>2 DEF closeAllRespClients, Conn
  <2> QED
    BY <2>1, <2>2 DEF CloseQuit, CloseListener, CloseWait, CloseStore
<1>3. ConnType' /\ CountInv' /\ ScriptInv'
  BY <1>2 DEF ServerInv, ConnType, CountInv, ScriptInv, OneScript
<1>4. AuthInv'
  BY <1>2 DEF ServerInv, AuthInv, Busy
<1>5. CloseInv'
  <2>1. CASE CloseQuit \/ CloseListener \/ closeAllRespClients
    BY <2>1 DEF CloseQuit, CloseListener, closeAllRespClients, ServerInv, CloseInv
  <2>2. CASE CloseWait
    <3>1. rcs = {}
      <4>1. Cardinality(rcs) = 0
        BY <2>2 DEF CloseWait, ServerInv, CountInv
      <4> QED
        BY <4>1, RegisteredFinite, FS_EmptySet
    <3>2. \A c \in Clients : cs[c].st \in {"gone", "new"}
      BY <3>1 DEF ServerInv, CountInv
    <3> QED
      BY <1>2, <2>2, <3>2 DEF CloseWait, ServerInv, CloseInv, Passing
  <2>3. CASE CloseStore
    BY <1>2, <2>3 DEF CloseStore, ServerInv, CloseInv
  <2> QED
    BY <2>1, <2>2, <2>3
<1> QED
  BY <1>3, <1>4, <1>5 DEF ServerInv

----------------------------------------------------------------------------
(* The theorems *)

\* The invariant holds of every state of a server without HTTP.
LEMMA ServerInvariance ==
    ASSUME Web = {}
    PROVE  Spec => []ServerInv
<1>1. ServerInv /\ [Next]_vars => ServerInv'
  <2> SUFFICES ASSUME ServerInv, [Next]_vars PROVE ServerInv'
    OBVIOUS
  <2>1. ASSUME NEW c \in Clients,
               \/ Accept(c) \/ run(c) \/ PeerCloses(c) \/ ReadFails(c) \/ Done(c)
        PROVE  ServerInv'
    BY <2>1, AcceptIsLocal, LifeIsLocal, LocalKeeps
  <2>2. ASSUME NEW c \in Clients, NEW cmd \in Commands, handleRequest(c, cmd)
        PROVE  ServerInv'
    BY <2>2, RequestIsLocal, LocalKeeps
  <2>3. ASSUME NEW c \in Clients, newClientRESP(c) \/ runEnd(c)
        PROVE  ServerInv'
    BY <2>3, NewClientKeeps, RunEndKeeps
  <2>4. ASSUME NEW c \in Clients,
               \/ evalGenericCommand(c)
               \/ \E cmd \in Commands : luaCallGenericCommand(c, cmd)
               \/ evalEnd(c)
        PROVE  ServerInv'
    BY <2>4, ScriptKeeps
  <2>5. CASE CloseQuit \/ CloseListener \/ closeAllRespClients \/ CloseWait \/ CloseStore
    BY <2>5, CloseKeeps
  <2>6. CASE UNCHANGED vars
    BY <2>6 DEF vars, ServerInv, ConnType, CountInv, CloseInv, AuthInv, ScriptInv, OneScript, Busy
  <2> QED
    BY <2>1, <2>2, <2>3, <2>4, <2>5, <2>6 DEF Next
<1> QED
  BY <1>1, ServerInit, PTL DEF Spec

\* App.Close closes the store only when no command runs, and no connection
\* that is accepted meanwhile runs one afterwards.
THEOREM StoreUnusedHolds ==
    ASSUME Web = {}
    PROVE  Spec => []StoreUnused
<1>1. ServerInv => StoreUnused
  BY DEF ServerInv, CloseInv, StoreUnused, Busy, Passing
<1> QED
  BY <1>1, ServerInvariance, PTL

\* With a password, perform runs a command only for a client whose last AUTH
\* was right.
THEOREM AuthedOnlyHolds ==
    ASSUME Web = {}
    PROVE  Spec => []AuthedOnly
<1>1. ServerInv => AuthedOnly
  BY DEF ServerInv, AuthInv, AuthedOnly
<1> QED
  BY <1>1, ServerInvariance, PTL

\* The scripts of all clients share one Lua state and exclude each other.
THEOREM OneScriptHolds ==
    ASSUME Web = {}
    PROVE  Spec => []OneScript
<1>1. ServerInv => OneScript
  BY DEF ServerInv, ScriptInv
<1> QED
  BY <1>1, ServerInvariance, PTL
=============================================================================
