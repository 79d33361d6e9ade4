------------------------------ MODULE PlainDict ------------------------------
(***************************************************************************)
(* Dict of util/collection, a locked map, and its iterator.  The iterator  *)
(* runs a goroutine that ranges over the map and hands each pair over an   *)
(* unbuffered channel: it waits in its send until Next or Reset receives.  *)
(* Its fields are not locked ("this is not thread/concurrent safe"), so    *)
(* one goroutine uses an iterator, and the map is not written in place     *)
(* while the other goroutine ranges over it; Clear and Transaction put a   *)
(* new map in its place and may be called at any time.                     *)
(***************************************************************************)
EXTENDS Integers, FiniteSets

CONSTANTS
    Keys, Values,  \* what the program stores
    Nil            \* Go's nil

VARIABLES
    dict,    \* the map: a function on the keys that are present
    mine,    \* the map the iterator was given
    shared,  \* whether that is still the dictionary's own map
    chan,    \* kvchan: "nil", "open" or "closed"
    initd, reset,  \* the iterator's flags
    left,    \* the keys the goroutine has not reached
    sending, \* the key it is about to hand over, or Nil
    call,    \* what the iterator's user waits for: "none", "next", "first", "drain"
    seen,    \* the keys Next has returned in this pass
    cut      \* whether a Reset ended this pass

iterator == <<mine, shared, chan, initd, reset, left, sending, call, seen, cut>>

vars == <<dict, iterator>>

Init ==
    /\ dict = <<>>
    /\ mine = <<>> /\ shared = FALSE
    /\ chan = "nil" /\ initd = FALSE /\ reset = FALSE
    /\ left = {} /\ sending = Nil /\ call = "none"
    /\ seen = {} /\ cut = FALSE

Without(f, K) == [k \in DOMAIN f \ K |-> f[k]]

With(f, g) == [k \in DOMAIN f \cup DOMAIN g |-> IF k \in DOMAIN g THEN g[k] ELSE f[k]]

Pair(k, v) == [j \in {k} |-> v]

KeysOf(v) == {k \in DOMAIN dict : dict[k] = v}

\* A call that writes the map in place, which is not made during a pass.
InPlace(d) ==
    /\ cut \/ ~initd
    /\ dict' = d
    /\ mine' = IF shared THEN d ELSE mine
    /\ UNCHANGED <<shared, chan, initd, reset, left, sending, call, seen, cut>>

Set(k, v) == InPlace(With(dict, Pair(k, v)))

SetDefault(k, v) == InPlace(With(Pair(k, v), dict))

RemoveAt(k) == InPlace(Without(dict, {k}))

RemoveValue(v) == InPlace(Without(dict, KeysOf(v)))

Pop == InPlace(IF DOMAIN dict = {} THEN dict
               ELSE Without(dict, {CHOOSE k \in DOMAIN dict : TRUE}))

\* Update, UpdateDictionary, UpdateDict and UpdateOrderedDict.
Update(g) == InPlace(With(dict, g))

\* A call that puts a new map in its place: Clear, and a Transaction whose
\* function set, removed or cleared something and returned true.
Replace ==
    /\ \/ dict' = <<>>
       \/ \E k \in Keys, v \in Values : dict' = With(dict, Pair(k, v))
       \/ \E k \in Keys : dict' = Without(dict, {k})
    /\ shared' = FALSE
    /\ UNCHANGED <<mine, chan, initd, reset, left, sending, call, seen, cut>>

-----------------------------------------------------------------------------
\* Iterator: the new iterator replaces one that no goroutine serves.
NewIterator ==
    /\ call = "none" /\ chan # "open"
    /\ mine' = dict /\ shared' = TRUE
    /\ chan' = "nil" /\ initd' = FALSE /\ reset' = FALSE
    /\ left' = {} /\ sending' = Nil
    /\ seen' = {} /\ cut' = FALSE
    /\ UNCHANGED <<dict, call>>

\* Next, up to its receive; the first one of a pass starts the goroutine.
NextCall ==
    /\ call = "none"
    /\ call' = "next"
    /\ initd' = TRUE
    /\ IF initd THEN UNCHANGED <<chan, left, seen, cut>>
       ELSE chan' = "open" /\ left' = DOMAIN mine /\ seen' = {} /\ cut' = FALSE
    /\ UNCHANGED <<dict, mine, shared, reset, sending>>

NextReceive ==
    /\ call = "next" /\ sending # Nil
    /\ seen' = seen \cup {sending}
    /\ sending' = Nil
    /\ call' = "none"
    /\ UNCHANGED <<dict, mine, shared, chan, initd, reset, left, cut>>

NextEnds ==
    /\ call = "next" /\ chan = "closed"
    /\ initd' = FALSE
    /\ call' = "none"
    /\ UNCHANGED <<dict, mine, shared, chan, reset, left, sending, seen, cut>>

\* Reset waits for one pair or the end, and then for the end.  Before the first
\* Next there is no channel, and the wait never ends.
ResetCall ==
    /\ call = "none"
    /\ call' = "first"
    /\ reset' = TRUE
    /\ UNCHANGED <<dict, mine, shared, chan, initd, left, sending, seen, cut>>

ResetReceive ==
    /\ call \in {"first", "drain"} /\ sending # Nil
    /\ sending' = Nil
    /\ call' = "drain"
    /\ UNCHANGED <<dict, mine, shared, chan, initd, reset, left, seen, cut>>

\* A mutant: the flag is left set for the next pass.
ResetForgetsFlag ==
    /\ call \in {"first", "drain"} /\ chan = "closed"
    /\ call' = "none"
    /\ cut' = TRUE
    /\ UNCHANGED <<dict, mine, shared, chan, initd, reset, left, sending, seen>>

\* The second of two receives from a closed channel ends Reset.  initd stays
\* as it was.
ResetEnds ==
    /\ call \in {"first", "drain"} /\ chan = "closed"
    /\ call' = "none"
    /\ reset' = FALSE
    /\ cut' = TRUE
    /\ UNCHANGED <<dict, mine, shared, chan, initd, left, sending, seen>>

\* The goroutine reads reset without a lock: until it has been received from, it
\* may still see the old value.
SeesReset == {reset} \cup IF call = "first" THEN {FALSE} ELSE {}

Produce(k) ==
    /\ chan = "open" /\ sending = Nil
    /\ FALSE \in SeesReset
    /\ sending' = k
    /\ left' = left \ {k}
    /\ UNCHANGED <<dict, mine, shared, chan, initd, reset, call, seen, cut>>

\* The loop is over, or left because of reset; the channel is closed either way.
Close ==
    /\ chan = "open" /\ sending = Nil
    /\ left = {} \/ TRUE \in SeesReset
    /\ chan' = "closed"
    /\ UNCHANGED <<dict, mine, shared, initd, reset, left, sending, call, seen, cut>>

Writes ==
    \/ \E k \in Keys, v \in Values : Set(k, v) \/ SetDefault(k, v)
    \/ \E k \in Keys : RemoveAt(k)
    \/ \E v \in Values : RemoveValue(v)
    \/ \E g \in [Keys -> Values] : Update(g)
    \/ Pop \/ Replace

Iterates ==
    \/ NextReceive \/ NextEnds \/ ResetReceive \/ ResetEnds
    \/ \E k \in left : Produce(k)
    \/ Close

Next == Writes \/ NewIterator \/ NextCall \/ ResetCall \/ Iterates

\* Go runs a goroutine that can run; the program's own calls are not promised.
Fairness == WF_vars(Iterates)

Spec == Init /\ [][Next]_vars /\ Fairness

-----------------------------------------------------------------------------
(* A pass over a dictionary shows each of its keys once and then ends,     *)
(* unless a Reset cut it short; a pass never ends early because of other   *)
(* calls, and one begun after a Reset is complete again.  The Next after a *)
(* Reset that came in the middle says "the end" before the new pass        *)
(* (dictionary.go:373-418).                                                *)
PassShowsAll ==
    [][/\ NextEnds => cut \/ seen = DOMAIN mine
       /\ NextReceive => sending \notin seen]_vars

(* Reset, called once there was a Next, returns: the goroutine does not    *)
(* stay in its send with nobody to receive (dictionary.go:424-436).        *)
ResetReturns == (call = "first" /\ chan # "nil") ~> (call = "none")

(* The iterator and the goroutine behind it stay in step.                  *)
IteratorInStep == PassShowsAll /\ ResetReturns
=============================================================================
