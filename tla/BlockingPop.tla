---------------------------- MODULE BlockingPop -----------------------------
(***************************************************************************)
(* The commands that wait for an element or move one between lists: BLPOP, *)
(* BRPOP, RPOPLPUSH and BRPOPLPUSH (lblockPop and lBlockKeys in            *)
(* ledis/t_list.go, rpoplpushCommand and brpoplpushCommand in              *)
(* server/cmd_list.go), beside clients that push and pop.                  *)
(*                                                                         *)
(* The lists are those of module Deque, which module List implements: one  *)
(* push or pop, with the signal that a push ends with, is one step.  The   *)
(* commands are made of several such steps, and of the registration with   *)
(* the blocked keys, which has a lock of its own.                          *)
(***************************************************************************)
EXTENDS Integers, Sequences, FiniteSets

CONSTANTS
    Keys, Elems,
    Clients,
    Cmd,         \* what each client calls, again and again:
                 \* [op, keys, side, dest, timed], op "bpop" on several keys,
                 \* "rpoplpush" or "brpoplpush" on one, from its tail
    LongKeys,    \* the keys that checkKeySize refuses: destinations only
    MaxSwitches  \* bound: changes between read-only and writable

VARIABLES
    list, ttl,   \* the lists, and the keys with a time to live
    readonly, switches,
    pool,        \* the elements that the clients hold outside the server
    waiting,     \* lBlockKeys.keys: the clients to cancel when a key is pushed
    pc, idx,     \* each command's place, and the key it is at
    ctx,         \* its context: "live", "cancelled" or past its deadline
    held,        \* the element it has popped
    keep         \* source = destination: whether the list had a time to live

listVars == <<list, ttl, pool>>
roleVars == <<readonly, switches>>
cmdVars == <<pc, idx, ctx, held, keep>>
vars == <<listVars, roleVars, waiting, cmdVars>>

None == "none"

Init ==
    /\ list = [k \in Keys |-> <<>>] /\ ttl = {}
    /\ readonly = FALSE /\ switches = 0
    /\ pool = Elems
    /\ waiting = [k \in Keys |-> {}]
    /\ pc = [c \in Clients |-> "idle"]
    /\ idx = [c \in Clients |-> 1]
    /\ ctx = [c \in Clients |-> "live"]
    /\ held = [c \in Clients |-> None]
    /\ keep = [c \in Clients |-> FALSE]

Goto(c, l) == pc' = [pc EXCEPT ![c] = l]
-----------------------------------------------------------------------------
(* The lists.                                                               *)

Ends(s, side) == IF side = "head" THEN s[1] ELSE s[Len(s)]

\* Mutant: one of the waiting clients is woken, and the key is forgotten.
signalOne(k) ==
    /\ ctx' = [c \in Clients |->
                 IF c \in waiting[k] /\ c = (CHOOSE d \in waiting[k] : TRUE) /\ ctx[c] = "live"
                 THEN "cancelled" ELSE ctx[c]]
    /\ waiting' = [waiting EXCEPT ![k] = {}]

\* Everybody who waits for the key is woken, and has to register again.
signal(k) ==
    /\ ctx' = [c \in Clients |->
                 IF c \in waiting[k] /\ ctx[c] = "live" THEN "cancelled" ELSE ctx[c]]
    /\ waiting' = [waiting EXCEPT ![k] = {}]

push(k, side, e) ==
    /\ ~readonly /\ k \notin LongKeys
    /\ list' = [list EXCEPT ![k] = IF side = "head" THEN <<e>> \o @ ELSE Append(@, e)]
    /\ signal(k)

pop(k, side) ==
    /\ ~readonly
    /\ list' = [list EXCEPT ![k] = IF side = "head" THEN Tail(@) ELSE SubSeq(@, 1, Len(@) - 1)]
    /\ ttl' = IF Len(list[k]) = 1 THEN ttl \ {k} ELSE ttl

\* Clients that push, pop and set a time to live.
ClientPush(k, e, side) ==
    /\ e \in pool
    /\ push(k, side, e)
    /\ pool' = pool \ {e}
    /\ UNCHANGED <<ttl, roleVars, pc, idx, held, keep>>

ClientPop(k) ==
    /\ list[k] # <<>>
    /\ pop(k, "head")
    /\ pool' = pool \cup {Ends(list[k], "head")}
    /\ UNCHANGED <<roleVars, waiting, cmdVars>>

ClientExpire(k) ==
    /\ ~readonly /\ list[k] # <<>>
    /\ ttl' = ttl \cup {k}
    /\ UNCHANGED <<list, pool, roleVars, waiting, cmdVars>>

\* SLAVEOF and SLAVEOF NO ONE.
SwitchRole ==
    /\ switches < MaxSwitches
    /\ readonly' = ~readonly /\ switches' = switches + 1
    /\ UNCHANGED <<listVars, waiting, cmdVars>>
-----------------------------------------------------------------------------
(* The commands.                                                            *)

Key(c) == Cmd[c].keys[idx[c]]
Blocks(c) == Cmd[c].op # "rpoplpush"

\* A new context; the cancel functions of the old one that are still registered
\* have no effect any more.
NewContext(c) ==
    /\ ctx' = [ctx EXCEPT ![c] = "live"]
    /\ idx' = [idx EXCEPT ![c] = 1]
    /\ waiting' = [k \in Keys |-> waiting[k] \ {c}]

Begin(c) ==
    /\ pc[c] = "idle"
    /\ keep' = [keep EXCEPT ![c] =
                  Cmd[c].op # "bpop" /\ Cmd[c].keys[1] = Cmd[c].dest /\ Cmd[c].dest \in ttl]
    /\ NewContext(c)
    /\ Goto(c, "try")
    /\ UNCHANGED <<listVars, roleVars, held>>

\* popOrWait, its first half.  On a read-only node the pop of an element fails.
Try(c) ==
    /\ pc[c] = "try"
    /\ \/ /\ list[Key(c)] # <<>>
          /\ pop(Key(c), Cmd[c].side)
          /\ held' = [held EXCEPT ![c] = Ends(list[Key(c)], Cmd[c].side)]
          /\ Goto(c, "got")
       \/ /\ list[Key(c)] # <<>> /\ readonly
          /\ Goto(c, "idle")
          /\ UNCHANGED <<list, ttl, held>>
       \/ /\ list[Key(c)] = <<>>
          /\ Goto(c, IF Blocks(c) THEN "register" ELSE "idle")
          /\ UNCHANGED <<list, ttl, held>>
    /\ UNCHANGED <<pool, roleVars, waiting, idx, ctx, keep>>

\* Its second half, under the lock of the blocked keys.
Register(c) ==
    /\ pc[c] = "register"
    /\ waiting' = [waiting EXCEPT ![Key(c)] = @ \cup {c}]
    /\ IF idx[c] = Len(Cmd[c].keys)
       THEN Goto(c, "wait") /\ UNCHANGED idx
       ELSE Goto(c, "try") /\ idx' = [idx EXCEPT ![c] = @ + 1]
    /\ UNCHANGED <<listVars, roleVars, ctx, held, keep>>

\* The deadline of the context, wherever the command is.
Deadline(c) ==
    /\ Cmd[c].timed /\ ctx[c] = "live" /\ pc[c] \in {"try", "register", "wait"}
    /\ ctx' = [ctx EXCEPT ![c] = "deadline"]
    /\ UNCHANGED <<listVars, roleVars, waiting, pc, idx, held, keep>>

\* A signal: the next round has a context, and a deadline, of its own.
Again(c) ==
    /\ pc[c] = "wait" /\ ctx[c] = "cancelled"
    /\ NewContext(c)
    /\ Goto(c, "try")
    /\ UNCHANGED <<listVars, roleVars, held, keep>>

GiveUp(c) ==
    /\ pc[c] = "wait" /\ ctx[c] = "deadline"
    /\ Goto(c, "idle")
    /\ UNCHANGED <<listVars, roleVars, waiting, idx, ctx, held, keep>>

\* What BLPop returns: popOrWait has put the key beside the element already.
BPopReply(c) == <<Key(c), <<Key(c), held[c]>>>>

Reply(c) ==
    /\ pc[c] = "got" /\ Cmd[c].op = "bpop"
    /\ pool' = pool \cup {held[c]}
    /\ held' = [held EXCEPT ![c] = None]
    /\ Goto(c, "idle")
    /\ UNCHANGED <<list, ttl, roleVars, waiting, idx, ctx, keep>>

\* The element of a move: BRPOPLPUSH takes it from the reply of BRPOP.
Data(c) == IF Cmd[c].op = "brpoplpush" THEN BPopReply(c)[2] ELSE held[c]

\* "not sure if this even possible": the data is no byte string.
BadValue(c) ==
    /\ pc[c] = "got" /\ Cmd[c].op # "bpop" /\ Data(c) \notin Elems
    /\ held' = [held EXCEPT ![c] = None]
    /\ Goto(c, "idle")
    /\ UNCHANGED <<listVars, roleVars, waiting, idx, ctx, keep>>

MovePush(c) ==
    /\ pc[c] = "got" /\ Cmd[c].op # "bpop" /\ Data(c) \in Elems
    /\ push(Cmd[c].dest, "head", held[c])
    /\ held' = [held EXCEPT ![c] = None]
    /\ Goto(c, IF keep[c] THEN "expire" ELSE "idle")
    /\ UNCHANGED <<ttl, pool, roleVars, idx, keep>>

MoveRefused(c) ==
    /\ pc[c] = "got" /\ Cmd[c].op # "bpop" /\ Data(c) \in Elems
    /\ readonly \/ Cmd[c].dest \in LongKeys
    /\ Goto(c, "revert")
    /\ UNCHANGED <<listVars, roleVars, waiting, idx, ctx, held, keep>>

\* Mutant: the element goes back to the destination.
RevertDest(c) ==
    /\ pc[c] = "revert"
    /\ IF readonly \/ Cmd[c].dest \in LongKeys
       THEN UNCHANGED <<list, ctx, waiting>> ELSE push(Cmd[c].dest, "tail", held[c])
    /\ held' = [held EXCEPT ![c] = None]
    /\ Goto(c, "idle")
    /\ UNCHANGED <<ttl, pool, roleVars, idx, keep>>

\* "revert pop": nobody looks whether this push is refused as well.
Revert(c) ==
    /\ pc[c] = "revert"
    /\ IF readonly THEN UNCHANGED <<list, ctx, waiting>> ELSE push(Key(c), "tail", held[c])
    /\ held' = [held EXCEPT ![c] = None]
    /\ Goto(c, "idle")
    /\ UNCHANGED <<ttl, pool, roleVars, idx, keep>>

\* "reset ttl": LEXPIRE of the list that is there now, if there is one.
ResetTtl(c) ==
    /\ pc[c] = "expire"
    /\ ttl' = IF list[Key(c)] = <<>> \/ readonly THEN ttl ELSE ttl \cup {Key(c)}
    /\ Goto(c, "idle")
    /\ UNCHANGED <<list, pool, roleVars, waiting, idx, ctx, held, keep>>

Step(c) ==
    \/ Try(c) \/ Register(c) \/ Again(c) \/ GiveUp(c) \/ Reply(c)
    \/ BadValue(c) \/ MovePush(c) \/ MoveRefused(c) \/ Revert(c) \/ ResetTtl(c)

Next ==
    \/ \E c \in Clients : Begin(c) \/ Step(c) \/ Deadline(c)
    \/ \E k \in Keys :
          \/ ClientPop(k) \/ ClientExpire(k)
          \/ \E e \in Elems, side \in {"head", "tail"} : ClientPush(k, e, side)
    \/ SwitchRole

Spec == Init /\ [][Next]_vars

\* The goroutine of a command is scheduled, and the timer of a context fires.
FairSpec == Spec /\ \A c \in Clients : WF_vars(Step(c)) /\ WF_vars(Deadline(c))
-----------------------------------------------------------------------------
(* Properties.                                                              *)

\* Lists, registrations and the steps of the commands are well formed; a command
\* is always at one of its own keys (popOrWait).
TypeOK ==
    /\ list \in [Keys -> UNION {[1..n -> Elems] : n \in 0..Cardinality(Elems)}]
    /\ ttl \subseteq Keys /\ pool \subseteq Elems
    /\ waiting \in [Keys -> SUBSET Clients]
    /\ pc \in [Clients -> {"idle", "try", "register", "wait", "got", "revert", "expire"}]
    /\ \A c \in Clients : idx[c] \in DOMAIN Cmd[c].keys
    /\ ctx \in [Clients -> {"live", "cancelled", "deadline"}]
    /\ held \in [Clients -> Elems \cup {None}]

\* In how many places an element is: outside, in a list, in the hands of a command.
Places(e) ==
    Cardinality({c \in Clients : held[c] = e})
        + Cardinality(UNION {{<<k, i>> : i \in {j \in DOMAIN list[k] : list[k][j] = e}} : k \in Keys})
        + (IF e \in pool THEN 1 ELSE 0)

\* However the commands interleave, an element is popped by one of them only, and
\* a move neither loses nor doubles it.  doc/commands.md on RPOPLPUSH: "Atomically
\* returns and removes the last element (tail) of the list stored at source, and
\* pushes the element at the first element (head)"; on BRPOPLPUSH: "When source
\* contains elements, this command behaves exactly like RPOPLPUSH."
Conserved == \A e \in Elems : Places(e) = 1

\* With BRPOPLPUSH and changes of the role, an element may get lost, but never
\* be in two places: no two commands pop the same one (lpop under the lock).
NotDoubled == \A e \in Elems : Places(e) <= 1

\* A rotation puts the time to live back only on a list that exists: no key has
\* a time to live that a later list would inherit (rpoplpushCommand, LExpire).
TtlOnLists == \A k \in ttl : list[k] # <<>>

\* A client that sleeps can be woken by a push on any of its keys: it is among
\* those that the key's signal cancels (lblockPop, popOrWait, signal).
SleepersRegistered ==
    \A c \in Clients :
        pc[c] = "wait" /\ ctx[c] = "live" =>
            \A i \in DOMAIN Cmd[c].keys : c \in waiting[Cmd[c].keys[i]]

\* A client does not sleep through pushes: as long as one of its keys is pushed
\* again and again, it wakes again and again.
PushesWake ==
    \A c \in Clients, k \in Keys :
        (\E i \in DOMAIN Cmd[c].keys : Cmd[c].keys[i] = k) =>
            (([]<><<\E e \in Elems, s \in {"head", "tail"} : ClientPush(k, e, s)>>_vars)
                => []<>(pc[c] # "wait"))

\* doc/commands.md on BLPOP: "it blocks the connection when there are no elements
\* to pop from any of the given lists": nobody sleeps for ever beside an element.
BlocksOnlyOnEmpty ==
    \A c \in Clients :
        pc[c] = "wait" /\ (\E i \in DOMAIN Cmd[c].keys : list[Cmd[c].keys[i]] # <<>>)
            ~> pc[c] # "wait" \/ \A i \in DOMAIN Cmd[c].keys : list[Cmd[c].keys[i]] = <<>>

\* doc/commands.md on BLPOP: the timeout is "the maximum number of seconds to
\* block": a client with a timeout gets an answer.
TimeoutAnswers ==
    \A c \in Clients : Cmd[c].timed => (pc[c] = "wait" ~> pc[c] \in {"got", "idle"})
=============================================================================
