--------------------------- MODULE CollectionLocks ---------------------------
(***************************************************************************)
(* What the methods of util/collection lock, in which order, and for how   *)
(* long.  Each collection has one sync.RWMutex.  A method is the script of *)
(* its lock operations: "R" and "r" are RLock and RUnlock, "W" and "w" are *)
(* Lock and Unlock, on a named collection.  Methods that name two          *)
(* collections, that call another method of their own, or that call a      *)
(* function of the program, hold a lock while they take the next.          *)
(*                                                                         *)
(* A goroutine that waits in Lock keeps new readers out, as sync.RWMutex   *)
(* does: a second RLock by a goroutine that holds the first then waits too.*)
(***************************************************************************)
EXTENDS Integers, Sequences, FiniteSets

CONSTANTS
    Goroutines, Collections

VARIABLES
    method,   \* the method each goroutine is in
    at,       \* how many of its lock operations are done
    waiting,  \* the goroutines that wait in Lock, of each collection
    readers,  \* how often each goroutine holds the read lock, of each collection
    writer,   \* who holds the write lock of each collection: a set
    fatal     \* whether sync found an unlock of an unlocked mutex

vars == <<method, at, waiting, readers, writer, fatal>>

Do(op, c) == [op |-> op, on |-> c]

\* The method's own lock is read-locked around everything: Index, Keys, Foreach...
Reader(c) == <<Do("R", c), Do("r", c)>>

\* Append, Set, Pop, Sort, Clear...
Writer(c) == <<Do("W", c), Do("w", c)>>

\* Dict.Len takes the one lock and gives back the other.
DictLen(c) == <<Do("W", c), Do("r", c)>>

\* OrderedDict.String calls Len while it reads.
OrderedString(c) == <<Do("R", c), Do("R", c), Do("r", c), Do("r", c)>>

\* Foreach, Match, Map...: the program's function reads d.
ReadBelowRead(c, d) == <<Do("R", c), Do("R", d), Do("r", d), Do("r", c)>>

\* Transaction: the program's function reads d.  Also UpdateDict and
\* UpdateOrderedDict: c's lock, then d's.
ReadBelowWrite(c, d) == <<Do("W", c), Do("R", d), Do("r", d), Do("w", c)>>

\* A mutant: an early return between the locks and their deferred unlocks.
ExtendListForgets(c, d) == <<Do("R", d), Do("W", c), Do("w", c)>>

\* List.ExtendList and ExtendSet: d's lock, then c's.
ExtendList(c, d) == <<Do("R", d), Do("W", c), Do("w", c), Do("r", d)>>

\* UpdateDictionary and ExtendArray: under c's lock, d's iterator locks d for
\* each element.
ReadEachBelowWrite(c, d) ==
    <<Do("W", c), Do("R", d), Do("r", d), Do("R", d), Do("r", d), Do("w", c)>>

Methods ==
    (UNION {{Reader(c), Writer(c), DictLen(c), OrderedString(c)} : c \in Collections})
    \cup (UNION {{ReadBelowRead(c, d), ReadBelowWrite(c, d), ExtendList(c, d),
                  ReadEachBelowWrite(c, d)} : c \in Collections, d \in Collections})

-----------------------------------------------------------------------------
Init ==
    /\ method \in [Goroutines -> Methods]
    /\ at = [g \in Goroutines |-> 0]
    /\ waiting = [c \in Collections |-> {}]
    /\ readers = [c \in Collections |-> [g \in Goroutines |-> 0]]
    /\ writer = [c \in Collections |-> {}]
    /\ fatal = FALSE

Finished(g) == at[g] = Len(method[g])

\* The lock operation g is about to make.
Coming(g, op, c) == ~fatal /\ ~Finished(g) /\ method[g][at[g] + 1] = Do(op, c)

Done(g) == at' = [at EXCEPT ![g] = @ + 1]

\* Nobody writes, or waits to.
Free(c) == writer[c] = {} /\ waiting[c] = {}

NoReaders(c) == \A h \in Goroutines : readers[c][h] = 0

RLock(g, c) ==
    /\ Coming(g, "R", c) /\ Free(c)
    /\ readers' = [readers EXCEPT ![c][g] = @ + 1]
    /\ Done(g)
    /\ UNCHANGED <<method, waiting, writer, fatal>>

\* Lock first announces itself, and then waits for the readers to leave.
Announce(g, c) ==
    /\ Coming(g, "W", c) /\ Free(c)
    /\ waiting' = [waiting EXCEPT ![c] = {g}]
    /\ UNCHANGED <<method, at, readers, writer, fatal>>

Lock(g, c) ==
    /\ Coming(g, "W", c)
    /\ waiting[c] = {g} /\ NoReaders(c)
    /\ waiting' = [waiting EXCEPT ![c] = {}]
    /\ writer' = [writer EXCEPT ![c] = {g}]
    /\ Done(g)
    /\ UNCHANGED <<method, readers, fatal>>

RUnlock(g, c) ==
    /\ Coming(g, "r", c)
    /\ IF NoReaders(c)
       THEN fatal' = TRUE /\ UNCHANGED readers
       ELSE readers' = [readers EXCEPT ![c][g] = @ - 1] /\ UNCHANGED fatal
    /\ Done(g)
    /\ UNCHANGED <<method, waiting, writer>>

Unlock(g, c) ==
    /\ Coming(g, "w", c)
    /\ writer' = [writer EXCEPT ![c] = {}]
    /\ Done(g)
    /\ UNCHANGED <<method, waiting, readers, fatal>>

Next ==
    \E g \in Goroutines, c \in Collections :
        RLock(g, c) \/ Announce(g, c) \/ Lock(g, c) \/ RUnlock(g, c) \/ Unlock(g, c)

Spec == Init /\ [][Next]_vars

-----------------------------------------------------------------------------
\* The collections a method has locked when it makes its i-th operation.
HeldAt(m, i) ==
    {c \in Collections : \E j \in 1..i - 1 :
        /\ m[j].on = c /\ m[j].op \in {"R", "W"}
        /\ ~\E k \in j + 1..i - 1 : m[k].on = c /\ m[k].op \in {"r", "w"}}

\* The pairs <<outer, inner>> of collections a method locks inside each other.
Nests(m) ==
    {n \in Collections \X Collections : \E i \in DOMAIN m :
        m[i].op \in {"R", "W"} /\ m[i].on = n[2] /\ n[1] \in HeldAt(m, i)}

\* The program nests the collections in one order, and none in itself.
Orderly ==
    \E rank \in [Collections -> 1..Cardinality(Collections)] :
        \A g \in Goroutines : \A n \in Nests(method[g]) : rank[n[1]] < rank[n[2]]

\* g's next operation is one that sync.RWMutex makes it wait for.
Waits(g) ==
    \E c \in Collections :
        \/ Coming(g, "R", c) /\ ~Free(c)
        \/ Coming(g, "W", c) /\ ~Free(c) /\ ~(waiting[c] = {g} /\ NoReaders(c))

\* Some have not returned, and all of those wait.
Stuck ==
    /\ \E g \in Goroutines : ~Finished(g)
    /\ \A g \in Goroutines : Finished(g) \/ Waits(g)

(* Goroutines that use collections in one order, and none inside itself,   *)
(* return from their methods or the program has died in Dict.Len: no call  *)
(* waits for ever.  Used in both orders (two lists that extend each        *)
(* other), or one inside itself (OrderedDict.String against a writer, a    *)
(* Transaction that reads the dictionary it is about) calls do wait for    *)
(* ever (list.go:137-147, dictionary.go:32-36, 241-261,                    *)
(* ordereddictionary.go:326-346, 395-418, 436-447).                        *)
OrderedUseNeverSticks == Orderly /\ ~fatal => ~Stuck
=============================================================================
