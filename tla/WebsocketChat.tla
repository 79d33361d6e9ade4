---------------------------- MODULE WebsocketChat ----------------------------
(***************************************************************************)
(* One channel of WebsocketChat (mvc/controller/websocket.go): its clients *)
(* under a RWMutex, calls that add, remove, message and broadcast, and the *)
(* goroutines a broadcast starts: one writer per connection and, for a     *)
(* connection that failed, one that removes it.                            *)
(*                                                                         *)
(* The WaitGroup of a broadcast is given the number of users; every        *)
(* connection counts it down.  A user with two connections takes it below  *)
(* zero, which ends the process.                                           *)
(***************************************************************************)
EXTENDS Integers, FiniteSets

CONSTANTS
    Callers,    \* goroutines of the program that call the chat
    Contexts,   \* requests, each with its connection
    Owners,     \* who the contexts' users may be: functions of Contexts
    MaxQueue,   \* writers of one broadcast at a time (500 in the code)
    MaxCalls    \* bound: calls of the program

VARIABLES
    channel,    \* the channel was added
    user,       \* the user of each context
    clients,    \* the contexts in the channel
    dead,       \* connections that fail when written to
    stalled,    \* connections whose writes do not return: no deadline is set
    pc,         \* of each caller
    arg,        \* its call
    copy,       \* connections a message or a broadcast has not come to yet
    writing,    \* of each broadcast: connections its writers are at
    wg,         \* of each broadcast: its WaitGroup
    removals,   \* removals that goroutines are about to make; two of one context are one
    asking,     \* those that wait for the lock
    crashed,    \* the process ended with a negative WaitGroup
    doubled,    \* some broadcast met a user with two connections
    left        \* calls left

vars == <<channel, user, clients, dead, stalled, pc, arg, copy, writing, wg, removals, asking, crashed, doubled, left>>

Connections(u) == {c \in Contexts : user[c] = u}
UsersOf(cs) == {user[c] : c \in cs}
NoCall == [op |-> "none", clients |-> {}]

Calls ==
    [op : {"AddChannel", "Broadcast"}, clients : {{}}]
      \cup [op : {"AddClient", "RemoveClient"}, clients : {{c} : c \in Contexts}]
      \cup [op : {"RemoveClient", "MessageClient"}, clients : {Connections(u) : u \in UsersOf(Contexts)}]

\* A new chat, or one that earlier calls have filled.
Init ==
    /\ channel \in BOOLEAN /\ clients \in SUBSET Contexts /\ (~channel => clients = {})
    /\ user \in Owners /\ dead = {} /\ stalled = {}
    /\ pc = [g \in Callers |-> "idle"] /\ arg = [g \in Callers |-> NoCall]
    /\ copy = [g \in Callers |-> {}] /\ writing = [g \in Callers |-> {}]
    /\ wg = [g \in Callers |-> 0]
    /\ removals = {} /\ asking = {} /\ crashed = FALSE /\ doubled = FALSE /\ left = MaxCalls

-----------------------------------------------------------------------------
(* The RWMutex.  A writer that waits keeps new readers out; what is done   *)
(* under the lock without waiting is one step.                             *)

MayRead  == asking = {} /\ \A g \in Callers : pc[g] \notin {"lock", "drop"}
MayWrite == \A g \in Callers : pc[g] # "broadcast"

(* Connections and calls                                                   *)

Fail(c) ==
    /\ c \notin dead
    /\ dead' = dead \cup {c} /\ stalled' = stalled \ {c}
    /\ UNCHANGED <<user, channel, clients, pc, arg, copy, writing, wg, removals, asking, crashed, doubled, left>>

Stall(c) ==
    /\ c \notin dead \cup stalled
    /\ stalled' = stalled \cup {c}
    /\ UNCHANGED <<user, channel, clients, dead, pc, arg, copy, writing, wg, removals, asking, crashed, doubled, left>>

\* Bound: not while writers of the caller's last broadcast are left.
Start(g, call) ==
    /\ pc[g] = "idle" /\ left > 0 /\ writing[g] = {}
    /\ left' = left - 1
    /\ arg' = [arg EXCEPT ![g] = call]
    /\ pc' = [pc EXCEPT ![g] = IF call.op \in {"MessageClient", "Broadcast"} THEN "rlock" ELSE "lock"]
    /\ UNCHANGED <<user, channel, clients, dead, stalled, copy, writing, wg, removals, asking, crashed, doubled>>

Return(g) ==
    /\ pc' = [pc EXCEPT ![g] = "idle"]
    /\ arg' = [arg EXCEPT ![g] = NoCall]

Update(g) ==
    /\ pc[g] = "lock" /\ MayWrite
    /\ channel' = (channel \/ arg[g].op = "AddChannel")
    /\ clients' = CASE arg[g].op = "AddClient" /\ channel -> clients \cup arg[g].clients
                    [] arg[g].op = "RemoveClient" -> clients \ arg[g].clients
                    [] OTHER -> clients
    /\ Return(g)
    /\ UNCHANGED <<user, dead, stalled, copy, writing, wg, removals, asking, crashed, doubled, left>>

-----------------------------------------------------------------------------
(* message_: a copy of the user's connections, written to one by one; one  *)
(* that fails is removed before the next.                                  *)

Client(g) ==
    /\ pc[g] = "rlock" /\ arg[g].op = "MessageClient" /\ MayRead
    /\ copy' = [copy EXCEPT ![g] = clients \cap arg[g].clients]
    /\ pc' = [pc EXCEPT ![g] = "message"]
    /\ UNCHANGED <<user, channel, clients, dead, stalled, arg, writing, wg, removals, asking, crashed, doubled, left>>

Message(g) ==
    /\ pc[g] = "message"
    /\ \/ copy[g] = {} /\ Return(g) /\ UNCHANGED copy
       \/ \E c \in copy[g] :
            /\ c \notin stalled
            /\ copy' = [copy EXCEPT ![g] = @ \ {c}]
            /\ IF c \notin dead THEN UNCHANGED <<pc, arg>>
               ELSE pc' = [pc EXCEPT ![g] = "drop"] /\ arg' = [arg EXCEPT ![g].clients = {c}]
    /\ UNCHANGED <<user, channel, clients, dead, stalled, writing, wg, removals, asking, crashed, doubled, left>>

Drop(g) ==
    /\ pc[g] = "drop" /\ MayWrite
    /\ clients' = clients \ arg[g].clients
    /\ pc' = [pc EXCEPT ![g] = "message"]
    /\ UNCHANGED <<user, channel, dead, stalled, arg, copy, writing, wg, removals, asking, crashed, doubled, left>>

-----------------------------------------------------------------------------
(* broadcast_: the read lock is held until Wait returns.                   *)

Broadcast(g) ==
    /\ pc[g] = "rlock" /\ arg[g].op = "Broadcast" /\ MayRead
    /\ IF channel
       THEN /\ copy' = [copy EXCEPT ![g] = clients]
            /\ wg' = [wg EXCEPT ![g] = Cardinality(UsersOf(clients))]
            /\ doubled' = (doubled \/ Cardinality(clients) > Cardinality(UsersOf(clients)))
            /\ pc' = [pc EXCEPT ![g] = "broadcast"] /\ UNCHANGED arg
       ELSE Return(g) /\ UNCHANGED <<copy, wg, doubled>>
    /\ UNCHANGED <<user, channel, clients, dead, stalled, writing, removals, asking, crashed, left>>

Spawn(g) ==
    /\ pc[g] = "broadcast" /\ Cardinality(writing[g]) < MaxQueue
    /\ \E c \in copy[g] :
          /\ copy' = [copy EXCEPT ![g] = @ \ {c}]
          /\ writing' = [writing EXCEPT ![g] = @ \cup {c}]
    /\ UNCHANGED <<user, channel, clients, dead, stalled, pc, arg, wg, removals, asking, crashed, doubled, left>>

\* The deferred calls of a writer: its place in the queue and the WaitGroup.
Done(g, c) ==
    /\ writing' = [writing EXCEPT ![g] = @ \ {c}]
    /\ wg' = [wg EXCEPT ![g] = @ - 1]
    /\ crashed' = (wg[g] = 0)

\* A mutant: the writer makes the removal itself.
WriterRemoves(g, c) ==
    /\ c \in writing[g] /\ c \notin stalled
    /\ c \in dead => MayWrite
    /\ clients' = IF c \in dead THEN clients \ {c} ELSE clients
    /\ Done(g, c)
    /\ UNCHANGED <<user, channel, dead, stalled, pc, arg, copy, removals, asking, doubled, left>>

Writer(g, c) ==
    /\ c \in writing[g] /\ c \notin stalled
    /\ removals' = IF c \in dead THEN removals \cup {c} ELSE removals
    /\ Done(g, c)
    /\ UNCHANGED <<user, channel, clients, dead, stalled, pc, arg, copy, asking, doubled, left>>

Wait(g) ==
    /\ pc[g] = "broadcast" /\ copy[g] = {} /\ wg[g] = 0
    /\ Return(g)
    /\ UNCHANGED <<user, channel, clients, dead, stalled, copy, writing, wg, removals, asking, crashed, doubled, left>>

Ask(c) ==
    /\ c \in removals \ asking
    /\ asking' = asking \cup {c}
    /\ UNCHANGED <<user, channel, clients, dead, stalled, pc, arg, copy, writing, wg, removals, crashed, doubled, left>>

Removal(c) ==
    /\ c \in asking /\ MayWrite
    /\ removals' = removals \ {c}
    /\ asking' = asking \ {c}
    /\ clients' = clients \ {c}
    /\ UNCHANGED <<user, channel, dead, stalled, pc, arg, copy, writing, wg, crashed, doubled, left>>

-----------------------------------------------------------------------------
Step(g) ==
    \/ Update(g) \/ Client(g) \/ Message(g) \/ Drop(g)
    \/ Broadcast(g) \/ Spawn(g) \/ Wait(g)

Next ==
    ~crashed /\ ( \/ \E c \in Contexts : Fail(c) \/ Stall(c)
                  \/ \E g \in Callers, call \in Calls : Start(g, call)
                  \/ \E g \in Callers : Step(g)
                  \/ \E g \in Callers, c \in Contexts : Writer(g, c)
                  \/ \E c \in Contexts : Ask(c) \/ Removal(c) )

\* Goroutines run, and a lock that is free is given to who waits for it.
Fairness ==
    /\ \A g \in Callers : WF_vars(~crashed /\ Step(g))
    /\ \A g \in Callers, c \in Contexts : WF_vars(~crashed /\ Writer(g, c))
    /\ \A c \in Contexts : WF_vars(~crashed /\ (Ask(c) \/ Removal(c)))

Spec == Init /\ [][Next]_vars /\ Fairness

-----------------------------------------------------------------------------
(* A broadcast returns only when every connection it met was written to,   *)
(* and its WaitGroup never goes below zero, as long as no user has two     *)
(* connections (websocket.go:124-163).                                     *)
BroadcastWaits ==
    ~doubled => ~crashed /\ \A g \in Callers : pc[g] # "broadcast" => writing[g] = {}

(* Every call returns, and a connection a broadcast could not write to is  *)
(* removed, unless a write never returns or a broadcast met a user with    *)
(* two connections: no call, writer or removal waits for another in a      *)
(* circle ("async this so we do not have a deadlock", websocket.go:153).   *)
ChatNeverSticks ==
    /\ []BroadcastWaits
    /\ \A g \in Callers : pc[g] # "idle" ~> (pc[g] = "idle" \/ stalled # {} \/ doubled)
    /\ \A c \in Contexts : c \in removals ~> (c \notin clients \/ stalled # {} \/ doubled)
=============================================================================
