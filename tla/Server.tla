------------------------------- MODULE Server -------------------------------
(***************************************************************************)
(* The server around the commands (server/app.go, client.go,               *)
(* client_resp.go, client_http.go, cmd_script.go): connections that come   *)
(* and go, AUTH and SELECT, scripts that share one Lua state, and the      *)
(* shutdown that waits for all of them before it closes the store.         *)
(***************************************************************************)
EXTENDS Integers, FiniteSets

CONSTANTS
    Clients,    \* RESP connections
    Web,        \* HTTP connections that are kept alive
    Commands,   \* kinds: "plain", "block", "eval", "nested", "auth", "badauth", "select", "xselect", "quit"
    Dbs,        \* database indexes, 0 among them
    Password,   \* TRUE: auth_password is set
    Nobody,     \* no owner of the script lock
    NoDb        \* luaClient.db outside of a script

ASSUME ServerAssumption ==
    /\ IsFiniteSet(Clients)
    /\ Nobody \notin Clients
    /\ NoDb \notin Dbs
    /\ 0 \in Dbs

VARIABLES
    cs,        \* the connections: state, open or not, authenticated, whether the last
               \* password they sent was right, database, command
    web,       \* the HTTP connections: "idle", "run"
    rcs,       \* app.rcs
    wait,      \* app.connWait
    quit,      \* app.quit is closed
    closing,   \* how far App.Close has come
    script,    \* the owner of the script lock
    lua        \* luaClient: its database, whether it is authenticated, and whether
               \* the last call of the script was refused

vars == <<cs, web, rcs, wait, quit, closing, script, lua>>

Gone == [st |-> "gone", open |-> FALSE, authed |-> FALSE, right |-> FALSE, db |-> 0,
         cmd |-> "plain"]

Init ==
    /\ cs = [c \in Clients |-> Gone]
    /\ web = [h \in Web |-> "idle"]
    /\ rcs = {}
    /\ wait = 0
    /\ quit = FALSE
    /\ closing = "no"
    /\ script = Nobody
    /\ lua = [db |-> NoDb, authed |-> FALSE, refused |-> FALSE]

----------------------------------------------------------------------------
(* A connection begins and ends *)

\* App.Run accepts as long as the listener is open.
Accept(c) ==
    /\ closing \in {"no", "quit"}
    /\ cs[c].st = "gone"
    /\ \A d \in Clients : cs[d].st # "new"
    /\ cs' = [cs EXCEPT ![c] = [Gone EXCEPT !.st = "new", !.open = TRUE]]
    /\ UNCHANGED <<web, rcs, wait, quit, closing, script, lua>>

newClientRESP(c) ==
    /\ cs[c].st = "new"
    /\ wait' = wait + 1
    /\ rcs' = rcs \cup {c}
    /\ cs' = [cs EXCEPT ![c].st = "ready"]
    /\ UNCHANGED <<web, quit, closing, script, lua>>

\* Mutant: the goroutine does not look whether the server closes.
runUnchecked(c) ==
    /\ cs[c].st = "ready"
    /\ cs' = [cs EXCEPT ![c].st = "idle"]
    /\ UNCHANGED <<web, rcs, wait, quit, closing, script, lua>>

\* The goroutine of the connection starts.
run(c) ==
    /\ cs[c].st = "ready"
    /\ cs' = [cs EXCEPT ![c].st = IF quit THEN "end" ELSE "idle"]
    /\ UNCHANGED <<web, rcs, wait, quit, closing, script, lua>>

\* The peer goes, or has not said anything for the keepalive interval.
PeerCloses(c) ==
    /\ cs[c].open
    /\ cs' = [cs EXCEPT ![c].open = FALSE]
    /\ UNCHANGED <<web, rcs, wait, quit, closing, script, lua>>

ReadFails(c) ==
    /\ cs[c].st = "idle" /\ ~cs[c].open
    /\ cs' = [cs EXCEPT ![c].st = "end"]
    /\ UNCHANGED <<web, rcs, wait, quit, closing, script, lua>>

\* The deferred end of run
runEnd(c) ==
    /\ cs[c].st = "end"
    /\ rcs' = rcs \ {c}
    /\ wait' = wait - 1
    /\ cs' = [cs EXCEPT ![c] = Gone]
    /\ UNCHANGED <<web, quit, closing, script, lua>>

----------------------------------------------------------------------------
(* Commands *)

\* Mutant: an AUTH that fails leaves the client authenticated.
authCommandKeeps(c, good) == [cs EXCEPT ![c].authed = @ \/ good, ![c].right = good]

authCommand(c, good) == [cs EXCEPT ![c].authed = good, ![c].right = good]

\* perform: an unauthenticated client gets an error for all but AUTH.
perform(c, cmd) ==
    IF Password /\ ~cs[c].authed /\ cmd \notin {"auth", "badauth"} THEN cs
    ELSE CASE cmd = "auth"    -> authCommand(c, TRUE)
           [] cmd = "badauth" -> authCommand(c, FALSE)
           [] cmd \in {"plain", "block"} -> [cs EXCEPT ![c].st = cmd, ![c].cmd = cmd]
           [] cmd \in {"eval", "nested"} -> [cs EXCEPT ![c].st = "lock", ![c].cmd = cmd]
           [] OTHER -> cs

\* What the connection has read may be handled after the connection closed.
\* XSELECT takes its database before perform asks for the password.
handleRequest(c, cmd) ==
    /\ cs[c].st = "idle"
    /\ \/ /\ cmd = "quit"
          /\ cs' = [cs EXCEPT ![c].st = "end", ![c].open = FALSE]
       \/ /\ cmd = "select"
          /\ \E db \in Dbs :
                cs' = IF Password /\ ~cs[c].authed THEN cs ELSE [cs EXCEPT ![c].db = db]
       \/ /\ cmd = "xselect"
          /\ \E db \in Dbs : cs' = [perform(c, "plain") EXCEPT ![c].db = db]
       \/ /\ cmd \notin {"quit", "select", "xselect"}
          /\ cs' = perform(c, cmd)
    /\ UNCHANGED <<web, rcs, wait, quit, closing, script, lua>>

\* The end of a command, of a BLPOP without timeout when somebody pushes, or a
\* panic of it that ends the connection
Done(c) ==
    /\ cs[c].st \in {"plain", "block"}
    /\ \E st \in {"idle", "end"} : cs' = [cs EXCEPT ![c].st = st]
    /\ UNCHANGED <<web, rcs, wait, quit, closing, script, lua>>

\* A request over HTTP: neither counted before it comes nor refused when the
\* server closes.
newClientHTTP(h) ==
    /\ web[h] = "idle"
    /\ web' = [web EXCEPT ![h] = "run"]
    /\ wait' = wait + 1
    /\ UNCHANGED <<cs, rcs, quit, closing, script, lua>>

HTTPDone(h) ==
    /\ web[h] = "run"
    /\ web' = [web EXCEPT ![h] = "idle"]
    /\ wait' = wait - 1
    /\ UNCHANGED <<cs, rcs, quit, closing, script, lua>>

----------------------------------------------------------------------------
(* Scripts *)

\* Mutant: scripts run without the lock.
evalGenericCommandUnlocked(c) ==
    /\ cs[c].st = "lock"
    /\ script' = c
    /\ lua' = [lua EXCEPT !.db = cs[c].db]
    /\ cs' = [cs EXCEPT ![c].st = "script"]
    /\ UNCHANGED <<web, rcs, wait, quit, closing>>

evalGenericCommand(c) ==
    /\ cs[c].st = "lock" /\ script = Nobody
    /\ script' = c
    /\ lua' = [lua EXCEPT !.db = cs[c].db]
    /\ cs' = [cs EXCEPT ![c].st = "script"]
    /\ UNCHANGED <<web, rcs, wait, quit, closing>>

\* ledis.call runs perform for luaClient, whose password is its own: a SELECT
\* moves the script, not its client; an EVAL or a SCRIPT asks for the lock
\* its own script has.
luaCallGenericCommand(c, cmd) ==
    /\ cs[c].st = "script"
    /\ \/ /\ Password /\ ~lua.authed /\ cmd \notin {"auth", "badauth"}
          /\ lua' = [lua EXCEPT !.refused = TRUE]
          /\ UNCHANGED cs
       \/ /\ cmd \in {"auth", "badauth"}
          /\ lua' = [lua EXCEPT !.authed = cmd = "auth"]
          /\ UNCHANGED cs
       \/ /\ ~Password \/ lua.authed
          /\ \/ /\ cmd = "select"
                /\ \E db \in Dbs : lua' = [lua EXCEPT !.db = db]
                /\ UNCHANGED cs
             \/ /\ cmd = "eval" /\ cs[c].cmd = "nested"
                /\ cs' = [cs EXCEPT ![c].st = "stuck"]
                /\ UNCHANGED lua
    /\ UNCHANGED <<web, rcs, wait, quit, closing, script>>

\* The deferred end: errors and panics of the script included
evalEnd(c) ==
    /\ cs[c].st = "script"
    /\ lua' = [lua EXCEPT !.db = NoDb, !.refused = FALSE]
    /\ script' = Nobody
    /\ cs' = [cs EXCEPT ![c].st = "idle"]
    /\ UNCHANGED <<web, rcs, wait, quit, closing>>

----------------------------------------------------------------------------
(* App.Close *)

CloseQuit ==
    /\ closing = "no"
    /\ quit' = TRUE
    /\ closing' = "quit"
    /\ UNCHANGED <<cs, web, rcs, wait, script, lua>>

CloseListener ==
    /\ closing = "quit"
    /\ closing' = "clients"
    /\ UNCHANGED <<cs, web, rcs, wait, quit, script, lua>>

closeAllRespClients ==
    /\ closing = "clients"
    /\ cs' = [c \in Clients |-> IF c \in rcs THEN [cs[c] EXCEPT !.open = FALSE] ELSE cs[c]]
    /\ closing' = "wait"
    /\ UNCHANGED <<web, rcs, wait, quit, script, lua>>

CloseWait ==
    /\ closing = "wait" /\ wait = 0
    /\ closing' = "store"
    /\ UNCHANGED <<cs, web, rcs, wait, quit, script, lua>>

CloseStore ==
    /\ closing = "store"
    /\ closing' = "closed"
    /\ UNCHANGED <<cs, web, rcs, wait, quit, script, lua>>

Next ==
    \/ \E c \in Clients :
          \/ Accept(c) \/ newClientRESP(c) \/ run(c) \/ PeerCloses(c) \/ ReadFails(c) \/ runEnd(c)
          \/ \E cmd \in Commands : handleRequest(c, cmd) \/ luaCallGenericCommand(c, cmd)
          \/ Done(c)
          \/ evalGenericCommand(c) \/ evalEnd(c)
    \/ \E h \in Web : newClientHTTP(h) \/ HTTPDone(h)
    \/ CloseQuit \/ CloseListener \/ closeAllRespClients \/ CloseWait \/ CloseStore

Spec == Init /\ [][Next]_vars

\* The goroutines run on, a connection has read only so much when it is
\* closed, a script makes only so many calls, and connWait.Wait returns when
\* the counter is zero for a moment; nobody need push to a list.
FairSpec ==
    /\ Spec
    /\ \A c \in Clients :
          /\ WF_vars(newClientRESP(c)) /\ WF_vars(run(c)) /\ WF_vars(runEnd(c))
          /\ WF_vars(cs[c].st = "plain" /\ Done(c))
          /\ SF_vars(ReadFails(c)) /\ SF_vars(evalGenericCommand(c)) /\ SF_vars(evalEnd(c))
    /\ WF_vars(CloseListener) /\ WF_vars(closeAllRespClients) /\ SF_vars(CloseWait)
    /\ WF_vars(CloseStore) /\ \A h \in Web : WF_vars(HTTPDone(h))

----------------------------------------------------------------------------
(* Properties *)

Busy(c) == cs[c].st \in {"plain", "block", "lock", "script", "stuck"}

\* The count that Close waits for is of connections, and the registered ones are
\* those that are neither new nor gone (addRespClient, delRespClient).
TypeOK ==
    /\ wait \in 0..Cardinality(Clients \cup Web)
    /\ rcs = {c \in Clients : cs[c].st \notin {"gone", "new"}}
    /\ \A c \in Clients : cs[c].db \in Dbs

\* No command of any connection runs when the store is closed: those accepted
\* while the server closes, registered or not, end by themselves.
\* server/app.go, before the store is closed: "wait all connection closed".
StoreUnused ==
    closing = "closed" => /\ \A c \in Clients : ~Busy(c)
                          /\ \A h \in Web : web[h] # "run"

\* A command runs only for a client whose last AUTH was right.
AuthedOnly == Password => \A c \in Clients : Busy(c) => cs[c].right

\* One script at a time, and it starts in the database of its own client.
OneScript ==
    /\ \A c \in Clients : cs[c].st \in {"script", "stuck"} <=> script = c
    /\ script = Nobody <=> lua.db = NoDb

\* While a script runs no other client writes.
\* doc/commands.md on EVAL: "executing lua will block any other write operations."
ScriptBlocksWrites ==
    script # Nobody => \A c \in Clients : cs[c].st # "plain"

\* The calls of a script are not refused: its client gave the password.
\* doc/commands.md: "Both "ledis" and "redis" can be used call commands in the Lua
\* script".
ScriptCallsRun == ~lua.refused

\* A shutdown comes to its end.
\* server/app.go: "wait all connection closed".
CloseEnds == quit ~> (closing = "closed")

\* A script that has begun ends, or its command gets an error.
\* server/cmd_script.go catches "any uncaught panic" of a script.
ScriptEnds == \A c \in Clients : (cs[c].st = "script") ~> (cs[c].st = "idle" \/ cs[c].st = "gone")
=============================================================================
