------------------------------- MODULE Chains -------------------------------
(***************************************************************************)
(* The linked collections of util/collection: Queue, with its iterator,    *)
(* and Stack.  Memory is a sequence of nodes, in the order in which they   *)
(* were allocated: data[n] and link[n] are the fields of node n, and 0 is  *)
(* nil.  A node is never reused, so what an iterator points at survives    *)
(* the removal of the node, as it does under Go's garbage collector.       *)
(*                                                                         *)
(* Every method holds the mutex from beginning to end, so a call is one    *)
(* action, and the callers of one collection may be any goroutines.        *)
(***************************************************************************)
EXTENDS Integers, Sequences, SequencesExt

CONSTANTS
    Values,      \* what the program stores
    None,        \* no value: Go's nil
    MaxNodes     \* bound: how many nodes are ever allocated

VARIABLES
    part,        \* which collection exists in this behaviour
    chain,       \* its nodes and its head, tail and len fields
    iter,        \* the queue's iterator
    answer       \* what the last call returned

vars == <<part, chain, iter, answer>>

NewChain == [data |-> <<>>, link |-> <<>>, head |-> 0, tail |-> 0, len |-> 0]

\* The nodes from n on, along link.
Walk(c, n) ==
    LET walk[m \in 0..Len(c.link)] == IF m = 0 THEN <<>> ELSE <<m>> \o walk[c.link[m]]
    IN  walk[n]

Data(c, nodes) == [i \in DOMAIN nodes |-> c.data[nodes[i]]]

-----------------------------------------------------------------------------
(* Queue *)

PushOne(c, v) ==
    LET n == Len(c.data) + 1
    IN  [data |-> Append(c.data, v),
         link |-> Append(IF c.head = 0 THEN c.link ELSE [c.link EXCEPT ![c.tail] = n], 0),
         head |-> IF c.head = 0 THEN n ELSE c.head,
         tail |-> n,
         len  |-> c.len + 1]

\* Push takes any number of values, one after the other.
Pushed(c, vs) ==
    LET after[k \in 0..Len(vs)] == IF k = 0 THEN c ELSE PushOne(after[k - 1], vs[k])
    IN  after[Len(vs)]

Pulled(c) ==
    IF c.head = 0 THEN c
    ELSE [c EXCEPT !.head = c.link[c.head],
                   !.tail = IF c.link[c.head] = 0 THEN 0 ELSE @,
                   !.len  = @ - 1]

\* A mutant: the tail is left when the last item goes, and the next Push
\* writes behind it.
PulledKeepsTail(c) ==
    IF c.head = 0 THEN c
    ELSE [c EXCEPT !.head = c.link[c.head], !.len = @ - 1]

\* A mutant: the removed node is unlinked, as one would to help the collector.
PulledUnlinks(c) ==
    IF c.head = 0 THEN c
    ELSE [c EXCEPT !.head = c.link[c.head],
                   !.tail = IF c.link[c.head] = 0 THEN 0 ELSE @,
                   !.len  = @ - 1,
                   !.link = [@ EXCEPT ![c.head] = 0]]

PullOk(c) == Pulled(c)

DataAt(c, n) == IF n = 0 THEN None ELSE c.data[n]

FirstOf(c) == DataAt(c, c.head)

LastOf(c) == IF c.tail # 0 THEN c.data[c.tail] ELSE DataAt(c, c.head)

\* ToSlice and ToList: len steps along the chain.
ToSlice(c) == SubSeq(Data(c, Walk(c, c.head)), 1, c.len)

\* Clone never moves along the chain it copies.
CloneQueue(c) == [i \in 1..c.len |-> c.data[c.head]]

-----------------------------------------------------------------------------
(* Stack: the chain hangs on tail, and link is the field prev.             *)

StackPush(c, v) ==
    [c EXCEPT !.data = Append(@, v), !.link = Append(@, c.tail),
              !.tail = Len(c.data) + 1, !.len = @ + 1]

StackPop(c) ==
    IF c.tail = 0 THEN c ELSE [c EXCEPT !.tail = c.link[c.tail], !.len = @ - 1]

\* Filled from the back, bottom of the stack first.
StackToSlice(c) == Reverse(SubSeq(Data(c, Walk(c, c.tail)), 1, c.len))

-----------------------------------------------------------------------------
Live == ToSet(Walk(chain, chain.head))

NoPass == [seek |-> 0, seen |-> <<>>, pass |-> {}]

\* A new pass of the iterator, from head.
Restart(c) == [seek |-> c.head, seen |-> <<>>, pass |-> ToSet(Walk(c, c.head))]

Init ==
    /\ chain = NewChain
    /\ iter = NoPass
    /\ answer = None

Push(vs) ==
    /\ part = "queue"
    /\ Len(chain.data) + Len(vs) <= MaxNodes
    /\ chain' = Pushed(chain, vs)
    /\ UNCHANGED <<part, iter, answer>>

Pull ==
    /\ part = "queue"
    /\ answer' = FirstOf(chain)
    /\ chain' = PullOk(chain)
    /\ UNCHANGED <<part, iter>>

Look ==
    /\ part = "queue"
    /\ answer' = [first |-> FirstOf(chain), last |-> LastOf(chain), len |-> chain.len,
                  all |-> ToSlice(chain)]
    /\ UNCHANGED <<part, chain, iter>>

Clear ==
    /\ part \in {"queue", "stack"}
    /\ chain' = [chain EXCEPT !.head = 0, !.tail = 0, !.len = 0]
    /\ UNCHANGED <<part, iter, answer>>

Clone ==
    /\ part = "queue"
    /\ answer' = [clone |-> CloneQueue(chain)]
    /\ UNCHANGED <<part, chain, iter>>

\* Queue.Iterator.  The index an iterator counts beside the value is left out.
NewIterator ==
    /\ part = "queue"
    /\ iter' = Restart(chain)
    /\ UNCHANGED <<part, chain, answer>>

\* QueueIterator.Next: at the end it rewinds and returns false.
IterNext ==
    /\ part = "queue"
    /\ iter' = IF iter.seek # 0
               THEN [iter EXCEPT !.seek = chain.link[iter.seek],
                                 !.seen = Append(@, iter.seek)]
               ELSE Restart(chain)
    /\ UNCHANGED <<part, chain, answer>>

\* QueueIterator.PopNext: takes from the queue and leaves seek where it is.
IterPopNext ==
    /\ part = "queue"
    /\ answer' = FirstOf(chain)
    /\ chain' = PullOk(chain)
    /\ iter' = IF chain.head # 0 THEN iter ELSE NoPass
    /\ UNCHANGED <<part>>

\* QueueIterator.Reset.
IterReset ==
    /\ part = "queue"
    /\ iter' = Restart(chain)
    /\ UNCHANGED <<part, chain, answer>>

PushStack(v) ==
    /\ part = "stack"
    /\ Len(chain.data) < MaxNodes
    /\ chain' = StackPush(chain, v)
    /\ UNCHANGED <<part, iter, answer>>

PopStack ==
    /\ part = "stack"
    /\ answer' = DataAt(chain, chain.tail)
    /\ chain' = StackPop(chain)
    /\ UNCHANGED <<part, iter>>

\* A stack has no First; a reader takes it from ToSlice.
LookStack ==
    /\ part = "stack"
    /\ LET all == StackToSlice(chain)
       IN  answer' = [first |-> IF all = <<>> THEN None ELSE all[1],
                      last |-> DataAt(chain, chain.tail), len |-> chain.len, all |-> all]
    /\ UNCHANGED <<part, chain, iter>>

\* Stack.Clone goes one node too far and dereferences nil, on every stack: the
\* caller gets a panic and no clone.
CloneStackPanics ==
    /\ part = "stack"
    /\ answer' = None
    /\ UNCHANGED <<part, chain, iter>>

Inputs == {<<v>> : v \in Values} \cup (Values \X Values)

Next ==
    \/ \E vs \in Inputs : Push(vs)
    \/ Pull \/ Look \/ Clear \/ Clone
    \/ NewIterator \/ IterNext \/ IterPopNext \/ IterReset
    \/ \E v \in Values : PushStack(v)
    \/ PopStack \/ LookStack \/ CloneStackPanics

Spec == Init /\ part \in {"queue", "stack"} /\ [][Next]_vars

-----------------------------------------------------------------------------
If(b, x, y) == IF b THEN x ELSE y

QueueAsDeque == INSTANCE Deque WITH
    items  <- If(part = "queue", ToSlice(chain), <<>>),
    answer <- If(part = "queue", answer, None)

StackAsDeque == INSTANCE Deque WITH
    items  <- If(part = "stack", StackToSlice(chain), <<>>),
    answer <- If(part = "stack", answer, None)

\* Queue is a first-in first-out sequence and Stack a last-in first-out one,
\* whatever calls are made in whatever order: emptied and refilled, cleared with
\* an iterator half way, popped through the iterator (queue.go:46-97, 99-131,
\* stack.go:35-87).
ChainsAreDeques == QueueAsDeque!Fifo /\ StackAsDeque!Lifo

\* When an iterator's pass ends, it has shown every item that was in the queue
\* from the beginning of the pass to its end, each one once, although items were
\* pulled and pushed meanwhile (queue.go:172-193).
PassIsComplete ==
    [][IterNext /\ iter.seek = 0 =>
        /\ iter.pass \cap Live \subseteq ToSet(iter.seen)
        /\ IsInjective(iter.seen)]_vars
=============================================================================
