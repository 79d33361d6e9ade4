----------------------------- MODULE ArrayList -----------------------------
(***************************************************************************)
(* List and Set of util/collection.  A list is a slice that is longer than *)
(* its contents: arr is the backing array, size is len(l.list), and only   *)
(* the first len elements are contents; the rest is slack, which the       *)
(* methods are expected to keep nil.  Indexes count from 0, as in Go.      *)
(*                                                                         *)
(* A set is a list with a map of the values it has been given.             *)
(*                                                                         *)
(* Every method holds the list's mutex from beginning to end, so a call is *)
(* one action.  Some methods leave the structure in a condition that the   *)
(* others do not expect; "used" remembers which of those were called.      *)
(***************************************************************************)
EXTENDS Integers, Sequences, SequencesExt

CONSTANTS
    Values,        \* what the program stores: integers, so that they can be sorted
    Nil,           \* Go's nil
    Chunk,         \* a slice that was stored as if it were an element
    ComfortLen,    \* the slack a new list starts with
    MaxCap         \* bound on the capacity: a call that would pass it is not made

VARIABLES
    part,     \* "list" or "set": which of the two exists
    list,     \* the list, or the list inside the set
    uniq,     \* the set's map
    getter,   \* whether the list has a ValueGetter, which Get and First call
    used      \* methods called so far, of those that break the structure

vars == <<part, list, uniq, getter, used>>

Nils(n) == [i \in 1..n |-> Nil]

Most(a, b) == IF a > b THEN a ELSE b

\* copy and append: s written over an array from index i on.
Overlay(arr, i, s) == [j \in DOMAIN arr |-> IF j - i \in DOMAIN s THEN s[j - i] ELSE arr[j]]

Contents(l) == [i \in 1..l.len |-> l.arr[i]]

\* A list of capacity c with these contents and clean slack.
Fresh(s, c, ex) ==
    [arr |-> Overlay(Nils(c), 0, s), size |-> c, len |-> Len(s), cap |-> c, ex |-> ex]

NewList == Fresh(<<>>, ComfortLen, ComfortLen)

-----------------------------------------------------------------------------
(* Methods of List that change it: the list before, the list after         *)

Expand(l, n) ==
    IF l.len >= n THEN l
    ELSE LET c == n + l.ex IN Fresh(Contents(l), c, Most(l.ex, c \div 10))

AppendTo(l, v) ==
    LET big == IF l.cap = l.len THEN Expand(l, l.len + 1) ELSE l
    IN  [big EXCEPT !.arr[l.len + 1] = v, !.len = @ + 1]

\* prepareSize finds the room to be negative, so extend always reallocates.
PrepareSize(l, n) == IF l.len - l.cap < n THEN Expand(l, l.len + n) ELSE l

ExtendBy(l, vs) ==
    IF vs = <<>> THEN l
    ELSE LET big == PrepareSize(l, Len(vs))
         IN  [big EXCEPT !.arr = Overlay(@, l.len, vs), !.len = @ + Len(vs)]

SetAt(l, i, v) ==
    LET big == IF i >= l.cap THEN Expand(l, i + 1) ELSE l
    IN  [big EXCEPT !.arr[i + 1] = v, !.len = Most(@, i + 1)]

\* append(l.list[0:i], v, l.list[i:lenlist]) stores the rest of the list as one
\* element, and leaves a slice that ends behind it.
InsertInto(l, i, v) ==
    IF i >= l.len THEN SetAt(l, i, v)
    ELSE [l EXCEPT !.arr = SubSeq(@, 1, i) \o <<v, Chunk>>, !.size = i + 2, !.len = @ + 1]

\* The element behind the last one is returned and cleared; the last one stays
\* in the slack.  Not possible on a full list, where it panics.
PopPanics(l) == l.len > 0 /\ l.len >= l.size

PopFrom(l) == IF l.len = 0 THEN l ELSE [l EXCEPT !.arr[l.len + 1] = Nil, !.len = @ - 1]

Popped(l) == IF l.len = 0 THEN Nil ELSE l.arr[l.len + 1]

\* A mutant: the elements behind move up in place and the last one stays.
RemoveInPlace(l, i) ==
    IF i \notin 0..(l.len - 1) THEN l
    ELSE [l EXCEPT !.arr = Overlay(@, i, SubSeq(@, i + 2, l.len)), !.len = @ - 1]

RemoveFrom(l, i) ==
    IF i \notin 0..(l.len - 1) THEN l
    ELSE Fresh([j \in 1..(l.len - 1) |-> l.arr[IF j <= i THEN j ELSE j + 1]], l.cap, l.ex)

RemovedFrom(l, i) == IF i \in 0..(l.len - 1) THEN l.arr[i + 1] ELSE Nil

WithContents(l, s) == [l EXCEPT !.arr = Overlay(@, 0, s)]

\* The contents in another order: the i-th is the one that was at place p[i].
Arranged(l, p) == WithContents(l, [i \in 1..l.len |-> l.arr[p[i]]])

SwapAt(l, i, j) ==
    Arranged(l, [k \in 1..l.len |-> IF k = i + 1 THEN j + 1 ELSE IF k = j + 1 THEN i + 1 ELSE k])

\* Pairwise swaps from both ends.
Reversed(l) == Arranged(l, [i \in 1..l.len |-> l.len + 1 - i])

\* sort.Sort over the contents.  The default order panics on a hole; a program
\* whose list has some passes an order of its own, here one with nil first.
Before(x, y) == IF x = Nil \/ y = Nil THEN x = Nil /\ y # Nil ELSE x < y

\* The orders in which sort.Sort may leave the places of the contents.
Orders(l) ==
    {p \in Bijection(1..l.len, 1..l.len) :
        \A i, j \in 1..l.len : i < j => ~Before(l.arr[p[j]], l.arr[p[i]])}

\* The lists that Clone, Filter and Map build: see ListReturned for their Get.
CloneOf(l) == Fresh(Contents(l), l.size, l.ex)

\* The elements of s that are to be kept, one after the other.
Filtered(s, keep) ==
    LET upto[k \in 0..Len(s)] ==
            IF k = 0 THEN <<>>
            ELSE IF s[k] \in keep THEN Append(upto[k - 1], s[k]) ELSE upto[k - 1]
    IN  upto[Len(s)]

FilterBy(l, keep) == Fresh(Filtered(Contents(l), keep), l.cap, l.ex)

MapBy(l, f) == Fresh([i \in 1..l.len |-> f[l.arr[i]]], l.cap, l.ex)

\* The end of Transaction: the clone's contents are copied over the list, and
\* what lay behind them stays unless the capacity differs.
Commit(l, clone) ==
    LET base == IF clone.cap # l.cap THEN Nils(clone.cap) ELSE l.arr
    IN  [clone EXCEPT !.arr = Overlay(base, 0, Contents(clone))]

-----------------------------------------------------------------------------
(* Methods of List that read it                                            *)

\* Get, First, Last and MapValue call ValueGetter, nil or not.
GetPanics == ~getter

Get(l, i) == IF l.len > i THEN l.arr[i + 1] ELSE Nil

First(l) == Get(l, 0)

\* index and Indexes search the whole slice, LastIndex the contents.
Indexes(l, v) == {i \in 0..(l.size - 1) : l.arr[i + 1] = v}

Least(S) == CHOOSE i \in S : \A j \in S : i <= j

Index(l, v) == IF Indexes(l, v) = {} THEN -1 ELSE Least(Indexes(l, v))

LastIndex(l, v) ==
    LET at == {i \in 0..(l.len - 1) : l.arr[i + 1] = v}
    IN  IF at = {} THEN -1 ELSE CHOOSE i \in at : \A j \in at : j <= i

HasAll(l, vs) == \A v \in vs : Index(l, v) # -1

\* IsMatch searches the whole slice, Match and Foreach the contents.
IsMatch(l, good) == \E i \in 1..l.size : l.arr[i] \in good

Match(l, good) ==
    LET at == {i \in 0..(l.len - 1) : l.arr[i + 1] \in good}
    IN  IF at = {} THEN <<-1, Nil>> ELSE <<Least(at), l.arr[Least(at) + 1]>>

-----------------------------------------------------------------------------
Inputs == {<<>>} \cup {<<v>> : v \in Values} \cup (Values \X Values)

\* The places of the contents.  They bound Swap: Go lets a program swap with the
\* slack behind the contents as well, which is not modelled.
Places(l) == 0..(l.len - 1)

Init ==
    /\ list = NewList
    /\ uniq = {}
    /\ getter = TRUE
    /\ used = {}

ListIs(l) ==
    /\ part = "list"
    /\ l.cap <= MaxCap
    /\ list' = l
    /\ UNCHANGED <<part, uniq>>

\* A call of a List that leaves it as l.
ListCall(l) == ListIs(l) /\ UNCHANGED getter

\* The program goes on with the list l that a call returned.  Only NewList gives
\* a list a ValueGetter; clone, MapList and FilterList build one without.
ListReturned(l) == ListIs(l) /\ getter' = FALSE

AppendList(v) == ListCall(AppendTo(list, v)) /\ UNCHANGED used

\* Extend, ExtendArray, ExtendList and ExtendSet.
ExtendList(vs) == ListCall(ExtendBy(list, vs)) /\ UNCHANGED used

SetList(i, v) == ListCall(SetAt(list, i, v)) /\ UNCHANGED used

InsertList(i, v) ==
    /\ ListCall(InsertInto(list, i, v))
    /\ used' = IF i < list.len THEN used \cup {"insert"} ELSE used

PopList ==
    /\ ~PopPanics(list)
    /\ ListCall(PopFrom(list))
    /\ used' = used \cup {"pop"}

RemoveAtList(i) == ListCall(RemoveFrom(list, i)) /\ UNCHANGED used

RemoveList(v) == ListCall(RemoveFrom(list, Index(list, v))) /\ UNCHANGED used

ClearList == ListCall(NewList) /\ UNCHANGED used

SwapList(i, j) == ListCall(SwapAt(list, i, j)) /\ UNCHANGED used

ReverseList == ListCall(Reversed(list)) /\ UNCHANGED used

SortList == (\E p \in Orders(list) : ListCall(Arranged(list, p))) /\ UNCHANGED used

\* The program goes on with the list that Clone, Filter or Map returned.
CloneList == ListReturned(CloneOf(list)) /\ UNCHANGED used

FilterList(keep) == ListReturned(FilterBy(list, keep)) /\ UNCHANGED used

MapList(f) == ListReturned(MapBy(list, f)) /\ UNCHANGED used

\* What the function passed to Transaction may do with the clone.
Worked(l) ==
    {AppendTo(l, v) : v \in Values} \cup {ExtendBy(l, vs) : vs \in Inputs}
    \cup {RemoveFrom(l, i) : i \in Places(l)} \cup {NewList, Reversed(l)}

TransactionList ==
    \E clone \in Worked(CloneOf(list)) :
        /\ ListCall(Commit(list, clone))
        /\ used' = IF clone.len < list.len THEN used \cup {"transaction"} ELSE used

-----------------------------------------------------------------------------
(* Set                                                                     *)

SetIs(l, u) ==
    /\ part = "set"
    /\ l.cap <= MaxCap
    /\ list' = l
    /\ uniq' = u
    /\ UNCHANGED part

SetCall(l, u) == SetIs(l, u) /\ UNCHANGED getter

AddToSet(l, v) ==
    /\ SetCall(IF v \in uniq THEN list ELSE l, uniq \cup {v})
    /\ UNCHANGED used

\* A mutant: Append asks the list instead of the map, after it has appended.
AppendSetTwice(v) == SetCall(AppendTo(list, v), uniq \cup {v}) /\ UNCHANGED used

AppendSet(v) == AddToSet(AppendTo(list, v), v)

\* Set replaces an element, and keeps the replaced one in the map.
SetSet(i, v) == AddToSet(SetAt(list, i, v), v)

InsertSet(i, v) ==
    /\ SetCall(IF v \in uniq THEN list ELSE InsertInto(list, i, v), uniq \cup {v})
    /\ used' = IF i < list.len /\ v \notin uniq THEN used \cup {"insert"} ELSE used

\* Extend, ExtendArray, ExtendList and ExtendSet leave out what the map has, and
\* do not put into the map what they add.
ExtendSet(vs) ==
    LET new == Filtered(vs, Values \ uniq)
    IN  /\ SetCall(ExtendBy(list, new), uniq)
        /\ used' = IF new = <<>> THEN used ELSE used \cup {"extend"}

PopSet ==
    /\ ~PopPanics(list)
    /\ SetCall(PopFrom(list), uniq \ {Popped(list)})
    /\ used' = used \cup {"pop"}

RemoveAtSet(i) == SetCall(RemoveFrom(list, i), uniq \ {RemovedFrom(list, i)}) /\ UNCHANGED used

RemoveSet(v) == SetCall(RemoveFrom(list, Index(list, v)), uniq \ {v}) /\ UNCHANGED used

ClearSet == SetCall(NewList, {}) /\ UNCHANGED used

\* Swap, Reverse and Sort are the list's.
ArrangeSet ==
    /\ \/ SetCall(Reversed(list), uniq)
       \/ \E p \in Orders(list) : SetCall(Arranged(list, p), uniq)
       \/ \E i, j \in Places(list) : SetCall(SwapAt(list, i, j), uniq)
    /\ UNCHANGED used

\* The set returned has a list of clone's or FilterList's inside, without a getter.
CloneSet == SetIs(CloneOf(list), uniq) /\ getter' = FALSE /\ UNCHANGED used

FilterSet(keep) ==
    /\ SetIs(FilterBy(list, keep), keep \cap ToSet(Contents(list)))
    /\ getter' = FALSE
    /\ UNCHANGED used

\* MapSet inserts f's i-th result at place i: a result that is there already
\* leaves a hole.
MappedSet(l, f) ==
    LET upto[i \in 0..l.len] ==
            IF i = 0 THEN [l |-> NewList, uniq |-> {}]
            ELSE IF f[l.arr[i]] \in upto[i - 1].uniq THEN upto[i - 1]
            ELSE [l |-> InsertInto(upto[i - 1].l, i - 1, f[l.arr[i]]),
                  uniq |-> upto[i - 1].uniq \cup {f[l.arr[i]]}]
    IN  upto[l.len]

\* Its list is NewList's, and has a getter again.
MapSet(f) ==
    /\ SetIs(MappedSet(list, f).l, MappedSet(list, f).uniq)
    /\ getter' = TRUE
    /\ UNCHANGED used

\* The function passed to Transaction appends to the clone, removes from it or
\* clears it; list and map are copied back.
TransactionSet ==
    LET c == CloneOf(list)
    IN  /\ \/ \E v \in Values \ uniq : SetCall(Commit(list, AppendTo(c, v)), uniq \cup {v})
           \/ \E i \in Places(c) :
                SetCall(Commit(list, RemoveFrom(c, i)), uniq \ {RemovedFrom(c, i)})
           \/ SetCall(Commit(list, NewList), {})
        /\ used' = IF list'.len < list.len THEN used \cup {"transaction"} ELSE used

-----------------------------------------------------------------------------
Kept == SUBSET Values

Maps == {f \in [Values \cup {Nil} -> Values \cup {Nil}] : f[Nil] = Nil}

Calls ==
    \/ \E v \in Values : AppendList(v) \/ RemoveList(v) \/ AppendSet(v) \/ RemoveSet(v)
    \/ \E vs \in Inputs : ExtendList(vs) \/ ExtendSet(vs)
    \/ \E i \in 0..(list.len + 1), v \in Values :
         SetList(i, v) \/ InsertList(i, v) \/ SetSet(i, v) \/ InsertSet(i, v)
    \/ \E i \in -1..list.len : RemoveAtList(i) \/ RemoveAtSet(i)
    \/ \E i, j \in Places(list) : SwapList(i, j)
    \/ \E keep \in Kept : FilterList(keep) \/ FilterSet(keep)
    \/ \E f \in Maps : MapList(f) \/ MapSet(f)
    \/ PopList \/ ClearList \/ ReverseList \/ SortList \/ CloneList \/ TransactionList
    \/ PopSet \/ ClearSet \/ ArrangeSet \/ CloneSet \/ TransactionSet

\* After an Insert in the middle most calls panic, and no more are modelled.
Next == "insert" \notin used /\ Calls

Spec == Init /\ part \in {"list", "set"} /\ [][Next]_vars

-----------------------------------------------------------------------------
(* Some values are in the list and the others are not, and every method    *)
(* that searches tells the same: Contains, Index, Indexes, LastIndex,      *)
(* IsMatch and Match agree with ToSlice, for as long as nobody has called  *)
(* Pop, Insert in the middle, or a Transaction that shortened the list,    *)
(* all of which leave something in the slack (list.go:141-205, 380-406).   *)
(* First and Get agree as well, while the list has its ValueGetter: the    *)
(* list that Clone, Map or Filter returned has none, and they panic on it  *)
(* (list.go:364-370, 445-451, 505-511), the other methods do not.          *)
SearchesAgree ==
    used \cap {"pop", "insert", "transaction"} = {} =>
        \A v \in Values :
            LET at == {i \in 0..(list.len - 1) : Contents(list)[i + 1] = v}
            IN  /\ Indexes(list, v) = at
                /\ HasAll(list, {v}) <=> at # {}
                /\ IsMatch(list, {v}) <=> at # {}
                /\ Match(list, {v}) = IF at = {} THEN <<-1, Nil>> ELSE <<Index(list, v), v>>
                /\ ~GetPanics =>
                      /\ First(list) = v <=> 0 \in at
                      /\ at # {} => Get(list, LastIndex(list, v)) = v

(* A set holds a value at most once, and its map knows every value it      *)
(* holds, whatever is appended, replaced, removed, mapped or sorted: until *)
(* Extend adds values behind the map's back, or one of Pop, Insert in the  *)
(* middle and Transaction damages the list (set.go:38-101, 120-270).       *)
NoDuplicates ==
    part = "set" /\ used \cap {"pop", "insert", "extend", "transaction"} = {} =>
        \A i \in 1..list.len :
            list.arr[i] # Nil =>
                /\ list.arr[i] \in uniq
                /\ \A j \in 1..list.len : list.arr[i] = list.arr[j] => i = j

(* Lists and sets answer for what they hold.                               *)
ElementsAreFound == SearchesAgree /\ NoDuplicates
=============================================================================
