---------------------------- MODULE Dictionaries ----------------------------
(***************************************************************************)
(* OrderedDict of util/collection: a chain of nodes behind a sentinel, and *)
(* prevchain, a map from a key to the node BEFORE the key's node.  Node 1  *)
(* of a fresh dictionary is its sentinel; 0 is nil.                        *)
(*                                                                         *)
(* The readers come in two kinds, those that take len(prevchain) steps     *)
(* along the chain and those that go on until nil.  RemoveAt of the last   *)
(* key leaves the link to the removed node in place ("dangling"), Reverse  *)
(* leaves the first node's old link, which closes a ring ("looped"); the   *)
(* first kind of reader does not notice.  "lost" is what an append makes   *)
(* of either.  The variable trouble tells which of these happened.         *)
(***************************************************************************)
EXTENDS Integers, Sequences, FiniteSets

CONSTANTS
    Keys, Values,  \* what the program stores: integers, so that both can be sorted
    Nil,           \* Go's nil
    MaxNodes       \* bound: nodes allocated since the dictionary was last rebuilt

VARIABLES
    od,          \* the dictionary: key, value and next of each node, prevchain,
                 \* headchain and tailchain
    pairs,       \* the reference: the pairs it should hold, in order
    trouble,     \* "none", "dangling", "looped" or "lost"
    getter       \* whether the dictionary has a ValueGetter, which Get calls

vars == <<od, pairs, trouble, getter>>

\* The numbers of a finite set, in ascending order, and what s has at these places.
InOrder(places) ==
    CHOOSE f \in [1 .. Cardinality(places) -> places] :
        /\ \A i, j \in 1 .. Cardinality(places) : i < j => f[i] < f[j]
        /\ \A a \in places : \E i \in 1 .. Cardinality(places) : f[i] = a

Selected(s, places) == [i \in 1 .. Cardinality(places) |-> s[InOrder(places)[i]]]

First(places) == CHOOSE i \in places : \A j \in places : i <= j

Longer(s, x) == [i \in 1 .. Len(s) + 1 |-> IF i <= Len(s) THEN s[i] ELSE x]

\* A dictionary rebuilt from a sequence of pairs: what clone, Sort and SortByKey
\* construct.  An empty one has its sentinel for a tail.
Rebuilt(ps) ==
    [key   |-> [i \in 1 .. Len(ps) + 1 |-> IF i = 1 THEN Nil ELSE ps[i - 1][1]],
     value |-> [i \in 1 .. Len(ps) + 1 |-> IF i = 1 THEN Nil ELSE ps[i - 1][2]],
     next  |-> [i \in 1 .. Len(ps) + 1 |-> IF i <= Len(ps) THEN i + 1 ELSE 0],
     prevchain |-> [k \in Keys |-> LET places == {i \in DOMAIN ps : ps[i][1] = k}
                                   IN  IF places = {} THEN 0 ELSE CHOOSE i \in places : TRUE],
     headchain |-> 1,
     tailchain |-> Len(ps) + 1]

NewOrderedDict == [Rebuilt(<<>>) EXCEPT !.tailchain = 0]

HasKey(d, k) == d.prevchain[k] # 0

LenOf(d) == Cardinality({k \in Keys : HasKey(d, k)})

\* Get and MapValue call ValueGetter, nil or not.
GetPanics == ~getter

GetValue(d, k) == IF HasKey(d, k) THEN d.value[d.next[d.prevchain[k]]] ELSE Nil

-----------------------------------------------------------------------------
(* The calls that change a dictionary: before, after                       *)

AppendItem(d, k, v) ==
    LET n == Len(d.next) + 1
        p == IF d.tailchain = 0 THEN d.headchain ELSE d.tailchain
    IN  [d EXCEPT !.key = Longer(@, k), !.value = Longer(@, v),
                  !.next = [Longer(@, 0) EXCEPT ![p] = n],
                  !.prevchain[k] = p, !.tailchain = n]

SetKey(d, k, v) ==
    IF HasKey(d, k) THEN [d EXCEPT !.value[d.next[d.prevchain[k]]] = v]
    ELSE AppendItem(d, k, v)

\* A mutant: the key behind the removed one keeps its old entry in prevchain.
RemoveKeyKeepsBack(d, k) ==
    IF ~HasKey(d, k) THEN d
    ELSE LET p == d.prevchain[k]
             after == d.next[d.next[p]]
         IN  IF after = 0 THEN [d EXCEPT !.prevchain[k] = 0, !.tailchain = 0]
             ELSE [d EXCEPT !.prevchain[k] = 0, !.next[p] = after]

RemoveKey(d, k) ==
    IF ~HasKey(d, k) THEN d
    ELSE LET p == d.prevchain[k]
             after == d.next[d.next[p]]
         IN  IF after = 0 THEN [d EXCEPT !.prevchain[k] = 0, !.tailchain = 0]
             ELSE [d EXCEPT !.prevchain = [@ EXCEPT ![k] = 0, ![d.key[after]] = p],
                            !.next[p] = after]

\* Remove takes the keys of a value first, and then removes one after the other.
RemoveKeys(d, ks) ==
    LET after[i \in 0 .. Len(ks)] == IF i = 0 THEN d ELSE RemoveKey(after[i - 1], ks[i])
    IN  after[Len(ks)]

\* On the sentinel that Clone, Sort or Transaction of an empty dictionary leave
\* for a tail, Pop dereferences nil.
PopPanics(d) == d.tailchain = d.headchain

PopLast(d) ==
    IF d.tailchain = 0 THEN d
    ELSE LET k == d.key[d.tailchain]
             p == d.prevchain[k]
         IN  [d EXCEPT !.next[p] = 0, !.prevchain[k] = 0,
                       !.tailchain = IF p # d.headchain THEN p ELSE 0]

\* From the tail backwards, relinking; the tail stays where it was, and the node
\* that is now the last keeps its link.
Relink(d, s) ==
    [next |-> [s.next EXCEPT ![s.prev] = s.cur],
     back |-> [s.back EXCEPT ![d.key[s.cur]] = s.prev],
     cur  |-> s.back[d.key[s.cur]],
     prev |-> s.cur]

ReverseChain(d) ==
    LET n == LenOf(d)
        after[i \in 0 .. n] ==
            IF i = 0 THEN [next |-> d.next, back |-> d.prevchain, cur |-> d.tailchain, prev |-> d.headchain]
            ELSE Relink(d, after[i - 1])
    IN  IF n <= 1 THEN d ELSE [d EXCEPT !.next = after[n].next, !.prevchain = after[n].back]

-----------------------------------------------------------------------------
(* The calls that read it                                                  *)

\* The nodes along the chain from the sentinel on, 0 behind the last.
Nodes(d) ==
    LET node[i \in 0 .. Len(d.next)] ==
            IF i = 0 THEN d.headchain ELSE IF node[i - 1] = 0 THEN 0 ELSE d.next[node[i - 1]]
    IN  node

Walk(d, n) == [i \in 1 .. n |-> <<d.key[Nodes(d)[i]], d.value[Nodes(d)[i]]>>]

\* Keys, Values, KeysValues and Pairs: len(prevchain) steps along the chain.
ByCount(d) == Walk(d, LenOf(d))

\* Foreach, ToMap, Clone, String and the iterator: until nil, which never comes
\* on a ring.
ByLink(d) == Walk(d, Cardinality({i \in 1 .. Len(d.next) : Nodes(d)[i] # 0}))

WithValue(ps, good) == {i \in DOMAIN ps : ps[i][2] \in good}

KeysOf(d, v) == LET found == Selected(ByLink(d), WithValue(ByLink(d), {v}))
                IN  [i \in DOMAIN found |-> found[i][1]]

\* Match and IsMatch, with the values the function accepts.
Match(d, good) == LET places == WithValue(ByLink(d), good)
                  IN  IF places = {} THEN <<Nil, Nil>> ELSE ByLink(d)[First(places)]

KeyOf(d, v) == Match(d, {v})[1]

HasValue(d, v) == KeyOf(d, v) # Nil

-----------------------------------------------------------------------------
(* The reference: a sequence of pairs with distinct keys                   *)

PlaceOf(ps, k) == {i \in DOMAIN ps : ps[i][1] = k}

RefSet(ps, k, v) ==
    IF PlaceOf(ps, k) = {} THEN Longer(ps, <<k, v>>)
    ELSE [i \in DOMAIN ps |-> IF ps[i][1] = k THEN <<k, v>> ELSE ps[i]]

RefRemove(ps, k) == Selected(ps, DOMAIN ps \ PlaceOf(ps, k))

RefRemoveAll(ps, v) == Selected(ps, DOMAIN ps \ WithValue(ps, {v}))

Init ==
    /\ od = NewOrderedDict
    /\ pairs = <<>>
    /\ trouble = "none"
    /\ getter = TRUE

DictIs(d, ps) ==
    /\ trouble = "none"
    /\ Len(d.next) <= MaxNodes
    /\ od' = d
    /\ pairs' = ps

\* A call on a dictionary nothing has damaged.
Call(d, ps) == DictIs(d, ps) /\ UNCHANGED getter

\* Set and SetDefault.  Appending behind a lost tail cuts off the rest, if there
\* is any.
Set(k, v) ==
    /\ Len(od.next) < MaxNodes \/ HasKey(od, k)
    /\ od' = SetKey(od, k, v)
    /\ pairs' = RefSet(pairs, k, v)
    /\ trouble' = IF HasKey(od, k) \/ trouble = "none" THEN trouble
                  ELSE IF pairs = <<>> THEN "none" ELSE "lost"
    /\ UNCHANGED getter

SetDefault(k, v) == ~HasKey(od, k) /\ Set(k, v)

\* Update, UpdateDictionary, UpdateDict and UpdateOrderedDict, of two pairs in the
\* order in which the source gives them, which a map chooses freely.
Update(p, q) ==
    /\ Call(SetKey(SetKey(od, p[1], p[2]), q[1], q[2]), RefSet(RefSet(pairs, p[1], p[2]), q[1], q[2]))
    /\ UNCHANGED trouble

\* Removing the last key leaves the link to its node.
Dangles(gone) == pairs # <<>> /\ pairs[Len(pairs)][1] \in gone

RemoveAtKey(k) ==
    /\ Call(RemoveKey(od, k), RefRemove(pairs, k))
    /\ trouble' = IF Dangles({k}) THEN "dangling" ELSE trouble

RemoveValue(v) ==
    /\ Call(RemoveKeys(od, KeysOf(od, v)), RefRemoveAll(pairs, v))
    /\ trouble' = IF Dangles({KeysOf(od, v)[i] : i \in DOMAIN KeysOf(od, v)}) THEN "dangling" ELSE trouble

Pop ==
    /\ ~PopPanics(od)
    /\ Call(PopLast(od), [i \in 1 .. Len(pairs) - 1 |-> pairs[i]])
    /\ UNCHANGED trouble

ReverseDict ==
    /\ Call(ReverseChain(od), [i \in DOMAIN pairs |-> pairs[Len(pairs) + 1 - i]])
    /\ trouble' = IF Len(pairs) > 1 THEN "looped" ELSE trouble

\* The program goes on with the clone, which is built without a ValueGetter.
Clone == DictIs(Rebuilt(ByLink(od)), pairs) /\ getter' = FALSE /\ UNCHANGED trouble

\* The function passed to Transaction works on a clone, whose chain is adopted.
Transaction ==
    LET c == Rebuilt(ByLink(od))
    IN  \/ /\ \E k \in Keys, v \in Values : Call(SetKey(c, k, v), RefSet(pairs, k, v))
           /\ UNCHANGED trouble
        \/ \E k \in Keys : /\ Call(RemoveKey(c, k), RefRemove(pairs, k))
                           /\ trouble' = IF Dangles({k}) THEN "dangling" ELSE trouble

Clear ==
    /\ od' = NewOrderedDict
    /\ pairs' = <<>>
    /\ trouble' = "none"
    /\ UNCHANGED getter

\* Sort and SortByKey read by count and rebuild the chain, which mends it.  Pairs
\* that compare equal may come out in any order.
Rearranged(ps, by) ==
    {[i \in DOMAIN ps |-> ps[f[i]]] : f \in {g \in [DOMAIN ps -> DOMAIN ps] :
        /\ \A i, j \in DOMAIN ps : g[i] = g[j] => i = j
        /\ \A i, j \in DOMAIN ps : i < j => ps[g[i]][by] <= ps[g[j]][by]}}

Sort(by) ==
    \E ps \in Rearranged(ByCount(od), by) :
        /\ od' = Rebuilt(ps)
        /\ LET right == Rearranged(pairs, by)
           IN  pairs' = IF ps \in right THEN ps ELSE CHOOSE qs \in right : TRUE
        /\ trouble' = "none"
        /\ UNCHANGED getter

Calls ==
    \/ \E k \in Keys, v \in Values : Set(k, v) \/ SetDefault(k, v)
    \/ \E p, q \in Keys \X Values : p[1] # q[1] /\ Update(p, q)
    \/ \E k \in Keys : RemoveAtKey(k)
    \/ \E v \in Values : RemoveValue(v)
    \/ Pop \/ ReverseDict \/ Clone \/ Transaction \/ Clear
    \/ \E by \in {1, 2} : Sort(by)

Next == trouble # "lost" /\ Calls

Spec == Init /\ [][Next]_vars

-----------------------------------------------------------------------------
(* An ordered dictionary holds the pairs that were set, in the order in    *)
(* which their keys came: Keys, Values, KeysValues, Pairs and HasKey say   *)
(* so after any calls, until something is appended behind a dangling or    *)
(* looped chain, and Sort mends such a chain.  Get does too on a           *)
(* dictionary that has its ValueGetter; a clone has none, and there Get    *)
(* panics (ordereddictionary.go:386-392).  On a sound chain the methods    *)
(* that go on until nil (Foreach, Contains, KeysOf, Match) agree as well   *)
(* (ordereddictionary.go:46-160, 175-250, 253-268, 450-520).               *)
OrderedDictReads ==
    /\ trouble # "lost" =>
        /\ ByCount(od) = pairs
        /\ \A k \in Keys :
              /\ HasKey(od, k) <=> PlaceOf(pairs, k) # {}
              /\ HasKey(od, k) /\ ~GetPanics => <<k, GetValue(od, k)>> \in {pairs[i] : i \in DOMAIN pairs}
    /\ trouble = "none" =>
        /\ ByLink(od) = pairs
        /\ \A v \in Values :
            LET places == WithValue(pairs, {v})
            IN  /\ HasValue(od, v) <=> places # {}
                /\ Match(od, {v}) = IF places = {} THEN <<Nil, Nil>> ELSE pairs[First(places)]
=============================================================================
