---------------------------- MODULE MCCollections ----------------------------
(***************************************************************************)
(* The collections of util/collection share no state, so one behaviour has *)
(* one of them: "part" says which, and the others stay as they began.      *)
(***************************************************************************)
EXTENDS Chains, FiniteSets

CONSTANTS
    Keys, Numbers,   \* what lists, sets and dictionaries store
    Chunk, ComfortLen, MaxCap,
    Goroutines, Collections

ASSUME CollectionsAssumption ==
    /\ IsFiniteSet(Collections)
    /\ None \notin Keys \cup Numbers
    /\ ComfortLen \in Nat

VARIABLES
    list, uniq, getter, used,
    od, pairs, trouble, odGetter,
    dict, mine, shared, chan, initd, reset, left, sending, call, seen, cut,
    method, at, waiting, readers, writer, fatal

Array == INSTANCE ArrayList WITH Values <- Numbers, Nil <- None

Ordered == INSTANCE Dictionaries WITH Values <- Numbers, Nil <- None, getter <- odGetter

Plain == INSTANCE PlainDict WITH Values <- {1}, Nil <- None

Locks == INSTANCE CollectionLocks

arrays == <<list, uniq, getter, used>>
ordered == <<od, pairs, trouble, odGetter>>
plain == <<dict, mine, shared, chan, initd, reset, left, sending, call, seen, cut>>
locks == <<method, at, waiting, readers, writer, fatal>>

allVars == <<vars, arrays, ordered, plain, locks>>

CollectionsInit ==
    /\ part \in {"queue", "stack", "list", "set", "ordered", "dict", "locks"}
    /\ Init /\ Array!Init /\ Ordered!Init /\ Plain!Init /\ Locks!Init
    /\ part # "locks" =>
          \A g \in Goroutines : method[g] = Locks!Reader(CHOOSE c \in Collections : TRUE)

CollectionsNext ==
    \/ Next /\ UNCHANGED <<arrays, ordered, plain, locks>>
    \/ Array!Next /\ UNCHANGED <<chain, iter, answer, ordered, plain, locks>>
    \/ part = "ordered" /\ Ordered!Next /\ UNCHANGED <<vars, arrays, plain, locks>>
    \/ part = "dict" /\ Plain!Next /\ UNCHANGED <<vars, arrays, ordered, locks>>
    \/ part = "locks" /\ Locks!Next /\ UNCHANGED <<vars, arrays, ordered, plain>>

CollectionsSpec == CollectionsInit /\ [][CollectionsNext]_allVars /\ Plain!Fairness

\* The methods of List that search agree with its contents; a Set holds a value
\* once and its map knows it (list.go:141-205, set.go:38-160).
ElementsAreFound == Array!ElementsAreFound

\* OrderedDict reads as the pairs that were set, in order
\* (ordereddictionary.go:46-268).
OrderedDictReads == Ordered!OrderedDictReads

\* A pass of a Dict's iterator shows every key once, and Reset returns
\* (dictionary.go:373-436).
IteratorInStep == Plain!IteratorInStep

\* Collections used in one order never make their users wait for ever
\* (list.go:137-147, dictionary.go:241-261, ordereddictionary.go:326-346).
OrderedUseNeverSticks == Locks!OrderedUseNeverSticks
=============================================================================
